--------------------------- MODULE MqttJsonProofs ---------------------------
(***************************************************************************)
(* For payloads of any length and any number of tokens: the parser stays   *)
(* within its tokens, every key a callback finds has a value, and no zero  *)
(* a callback writes falls into a value it still reads.                    *)
(***************************************************************************)
EXTENDS MqttJson, SequenceTheorems, TLAPS

Payload == Scalars \cup {Lex(c) : c \in Opening \cup Closing \cup
                                        {":", ",", " ", "badstr", "badprim"}}
Types == {JSMN_OBJECT, JSMN_ARRAY, JSMN_STRING, JSMN_PRIMITIVE}
Tok == [type : Types, start : Nat, end : Nat, size : Nat]

(* What ends a primitive, and what jsmn_parse() passes without a trace.    *)
Delimiters == Closing \cup {":", ",", " "}
Silent == {",", " "}

(* The members of the event refer to the first n lexemes.                  *)
MembersWithin(n) ==
    /\ fields \in [Numbers -> 0 .. n]
    /\ names \in [Copied -> [1 .. NameSize -> 0 .. n]]

Shape ==
    /\ js \in Seq(Payload) /\ tokens \in Seq(Tok) /\ Len(tokens) <= num_tokens
    /\ toksuper \in 0 .. Len(tokens)
    /\ pc \in {"parse", "keys", "done", "overrun"} /\ i \in 1 .. Len(tokens) + 1
    /\ pc = "parse" => i = 1
    /\ MembersWithin(Len(js))

(***************************************************************************)
(* What a step of the parser does, token by token.                         *)
(***************************************************************************)

(* It reads one lexeme more.                                               *)
Moves(l) ==
    /\ l \in Payload /\ js' \in Seq(Payload) /\ Len(js') = Len(js) + 1
    /\ \A n \in 1 .. Len(js) : js'[n] = js[n]
    /\ js'[Len(js) + 1] = l
    /\ pc = "parse" /\ i = 1
    /\ Len(js) > 0 /\ js[Len(js)].c = "prim" => l.c \in Delimiters
    /\ UNCHANGED <<i, nulled, fields, names>>

(* It stops with an error.                                                 *)
Rejects(l) ==
    /\ Moves(l)
    /\ pc' = "done" /\ UNCHANGED <<tokens, toksuper>>
    /\ \/ r' = "JSMN_ERROR_NOMEM" /\ Len(tokens) >= num_tokens
          /\ l.c \in Opening \cup {"str", "prim"}
       \/ r' \in {"JSMN_ERROR_INVAL", "JSMN_ERROR_PART"} /\ l.c \in {"badstr", "badprim"}
       \/ r' = "JSMN_ERROR_INVAL" /\ l.c \in Closing /\ ~Opened(LastOf(OpenTokens), l.c)

(* It passes a colon, a comma or a blank.                                  *)
Passes(l) ==
    /\ Moves(l)
    /\ UNCHANGED <<pc, r, tokens>>
    /\ \/ l.c = ":" /\ toksuper' = Len(tokens)
       \/ l.c \in Silent /\ toksuper' \in {toksuper, NONE} \cup OpenTokens

(* It adds a token, which the super token counts.                          *)
Adds(l, tok) ==
    /\ Moves(l)
    /\ UNCHANGED <<pc, r>>
    /\ Len(tokens) < num_tokens
    /\ tokens' \in Seq(Tok) /\ Len(tokens') = Len(tokens) + 1
    /\ \A m \in 1 .. Len(tokens) :
         /\ tokens'[m].type = tokens[m].type /\ tokens'[m].start = tokens[m].start
         /\ tokens'[m].end = tokens[m].end
         /\ tokens'[m].size = IF m = toksuper THEN tokens[m].size + 1 ELSE tokens[m].size
    /\ tokens'[Len(tokens) + 1] = tok
    /\ tok \in Tok /\ tok.start = Len(js) + 1 /\ tok.size = 0
    /\ \/ /\ l.c \in Opening /\ tok.type = Type(l.c) /\ tok.end = OPEN
          /\ toksuper' = Len(tokens) + 1
       \/ /\ l.c \in {"str", "prim"} /\ tok.end = Len(js) + 1 /\ toksuper' = toksuper
          /\ tok.type = IF l.c = "str" THEN JSMN_STRING ELSE JSMN_PRIMITIVE

(* It closes the last open token.                                          *)
Shuts(l, k) ==
    /\ Moves(l)
    /\ UNCHANGED <<pc, r>>
    /\ l.c \in Closing
    /\ k \in OpenTokens /\ k \in 1 .. Len(tokens) /\ \A m \in OpenTokens : m <= k
    /\ tokens[k].type = Type(l.c)
    /\ tokens' \in Seq(Tok) /\ Len(tokens') = Len(tokens)
    /\ \A m \in 1 .. Len(tokens) :
         /\ tokens'[m].type = tokens[m].type /\ tokens'[m].start = tokens[m].start
         /\ tokens'[m].size = tokens[m].size
         /\ tokens'[m].end = IF m = k THEN Len(js) + 1 ELSE tokens[m].end
    /\ toksuper' \in {NONE} \cup (OpenTokens \ {k})

ParserStep ==
    \/ \E l : Rejects(l) \/ Passes(l)
    \/ \E l, tok : Adds(l, tok)
    \/ \E l, k : Shuts(l, k)

LEMMA TokenFacts ==
  ASSUME Shape, NEW k \in 1 .. Len(tokens)
  PROVE  /\ tokens[k] \in Tok /\ tokens[k].end \in Nat /\ tokens[k].start \in Nat
         /\ tokens[k].size \in Nat /\ tokens[k].type \in Types
<1>1. tokens[k] \in Tok
  BY DEF Shape
<1> QED BY <1>1 DEF Tok

LEMMA Lengths ==
  ASSUME Shape
  PROVE  /\ Len(js) \in Nat /\ Len(tokens) \in Nat /\ DOMAIN tokens = 1 .. Len(tokens)
         /\ DOMAIN js = 1 .. Len(js) /\ toksuper \in 0 .. Len(tokens) /\ num_tokens \in Nat
  BY LenProperties, JsonAssumption DEF Shape

(* Which lexemes are told apart.                                           *)
LEMMA Distinct ==
  /\ Silent \cap (Opening \cup Closing \cup {"str", "prim", ":", "badstr", "badprim"}) = {}
  /\ Delimiters \cap (Opening \cup {"str", "prim"}) = {}
  /\ Opening \cap (Closing \cup {"str", "prim", ":", "badstr", "badprim"}) = {}
  /\ Closing \cap {"str", "prim", ":", "badstr", "badprim"} = {}
  BY Zenon DEF Silent, Delimiters, Opening, Closing

LEMMA ReadMoves ==
  ASSUME Shape, NEW l, Reads(l), l \in Payload, UNCHANGED <<i, nulled, fields, names>>
  PROVE  Moves(l)
<1>1. js \in Seq(Payload) /\ Len(js) \in Nat
  BY LenProperties DEF Shape
<1>2. Len(js) > 0 /\ js[Len(js)].c = "prim" => l.c \in Delimiters
  <2>1. Len(js) > 0 => js # <<>> /\ Last(js) = js[Len(js)]
    BY <1>1 DEF Last
  <2> QED BY <2>1, Zenon DEF Reads, Separate, Delimiters
<1> QED BY <1>1, <1>2, AppendProperties DEF Shape, Reads, Moves

(* The last element of a set of numbers, if it has one.                    *)
LEMMA LastOfFacts ==
  ASSUME NEW S
  PROVE  /\ LastOf(S) \in S \/ LastOf(S) = NONE
         /\ NONE \notin S /\ LastOf(S) # NONE => \A l \in S : l <= LastOf(S)
  BY DEF LastOf

LEMMA AllocAdds ==
  ASSUME Shape, NEW l, Reads(l), l \in Payload, NEW tok \in Tok, Alloc(tok)
  PROVE  /\ tokens' \in Seq(Tok) /\ Len(tokens') = Len(tokens) + 1
         /\ \A m \in 1 .. Len(tokens) :
              /\ tokens'[m].type = tokens[m].type /\ tokens'[m].start = tokens[m].start
              /\ tokens'[m].end = tokens[m].end
              /\ tokens'[m].size = IF m = toksuper THEN tokens[m].size + 1
                                                   ELSE tokens[m].size
         /\ tokens'[Len(tokens) + 1] = tok
<1> DEFINE bump == [k \in DOMAIN tokens |->
                      IF k = toksuper THEN [tokens[k] EXCEPT !.size = @ + 1] ELSE tokens[k]]
<1>1. Len(tokens) \in Nat /\ DOMAIN tokens = 1 .. Len(tokens)
  BY Lengths
<1>2. \A k \in 1 .. Len(tokens) :
        /\ bump[k] \in Tok /\ bump[k].type = tokens[k].type
        /\ bump[k].start = tokens[k].start /\ bump[k].end = tokens[k].end
        /\ bump[k].size = IF k = toksuper THEN tokens[k].size + 1 ELSE tokens[k].size
  <2> SUFFICES ASSUME NEW k \in 1 .. Len(tokens)
               PROVE  /\ bump[k] \in Tok /\ bump[k].type = tokens[k].type
                      /\ bump[k].start = tokens[k].start /\ bump[k].end = tokens[k].end
                      /\ bump[k].size = IF k = toksuper THEN tokens[k].size + 1 ELSE tokens[k].size
    OBVIOUS
  <2>1. tokens[k] \in Tok /\ tokens[k].size \in Nat
    BY TokenFacts
  <2>2. bump[k] = IF k = toksuper THEN [tokens[k] EXCEPT !.size = @ + 1] ELSE tokens[k]
    BY <1>1
  <2> QED BY <2>1, <2>2 DEF Tok
<1>3. bump \in Seq(Tok) /\ Len(bump) = Len(tokens)
  BY <1>1, <1>2
<1>4. tokens' = Append(bump, tok)
  BY DEF Alloc
<1> HIDE DEF bump
<1>5. /\ tokens' \in Seq(Tok) /\ Len(tokens') = Len(tokens) + 1
      /\ \A k \in 1 .. Len(tokens) : tokens'[k] = bump[k]
      /\ tokens'[Len(tokens) + 1] = tok
  BY <1>3, <1>4, AppendProperties
<1> QED BY <1>2, <1>5

LEMMA PayloadLexemes ==
  /\ \A c \in Opening \cup Closing \cup {":", ",", " ", "badstr", "badprim"} :
       Lex(c) \in Payload /\ Lex(c).c = c
  /\ \A l \in Scalars : l \in Payload /\ l.c \in {"str", "prim"}
<1>1. \A c : Lex(c).c = c
  BY DEF Lex
<1>2. \A c \in Opening \cup Closing \cup {":", ",", " ", "badstr", "badprim"} :
        Lex(c) \in Payload
  BY DEF Payload
<1>3. \A t : Str(t).c = "str" /\ Prim(t).c = "prim"
  BY DEF Str, Prim
<1>4. \A l \in Scalars : l \in Payload /\ l.c \in {"str", "prim"}
  BY <1>3 DEF Payload, Scalars
<1> QED BY <1>1, <1>2, <1>4

(* Every action of the parser that reads a lexeme is such a step.          *)
LEMMA ParserSteps ==
  ASSUME Shape, Parse, ~ParseEnd
  PROVE  ParserStep
<1>1. /\ Len(js) \in Nat /\ Len(tokens) \in Nat /\ DOMAIN tokens = 1 .. Len(tokens)
  BY Lengths
<1>2. CASE ParseOpen
  <2>1. PICK c \in Opening : Reads(Lex(c)) /\
          \/ Len(tokens) >= num_tokens /\ Error("JSMN_ERROR_NOMEM")
          \/ /\ Len(tokens) < num_tokens /\ Alloc(Token(Type(c), Len(js'), OPEN))
             /\ toksuper' = Len(tokens') /\ Goes
    BY <1>2 DEF ParseOpen
  <2>2. Lex(c) \in Payload /\ Lex(c).c = c
    BY PayloadLexemes
  <2>3. Moves(Lex(c))
    BY <2>1, <2>2, ReadMoves DEF Error, Goes
  <2>4. CASE Len(tokens) >= num_tokens /\ Error("JSMN_ERROR_NOMEM")
    <3>1. Rejects(Lex(c))
      BY <2>2, <2>3, <2>4 DEF Rejects, Error
    <3> QED BY <3>1 DEF ParserStep
  <2>5. CASE /\ Len(tokens) < num_tokens /\ Alloc(Token(Type(c), Len(js'), OPEN))
             /\ toksuper' = Len(tokens') /\ Goes
    <3> DEFINE tok == Token(Type(c), Len(js'), OPEN)
    <3>1. Len(js') = Len(js) + 1
      BY <2>3 DEF Moves
    <3>2. /\ tok \in Tok /\ tok.start = Len(js) + 1 /\ tok.end = OPEN /\ tok.size = 0
          /\ tok.type = Type(c)
      BY <1>1, <3>1 DEF Token, Type, Tok, Types, OPEN
    <3>3. Alloc(tok)
      BY <2>5
    <3> HIDE DEF tok
    <3>4. Adds(Lex(c), tok)
      BY <2>1, <2>2, <2>3, <2>5, <3>2, <3>3, AllocAdds DEF Adds, Goes
    <3> QED BY <3>4 DEF ParserStep
  <2> QED BY <2>1, <2>4, <2>5
<1>3. CASE ParseClose
  <2> DEFINE k == LastOf(OpenTokens)
  <2>1. PICK c \in Closing : Reads(Lex(c)) /\
          \/ ~Opened(k, c) /\ Error("JSMN_ERROR_INVAL")
          \/ /\ Opened(k, c) /\ tokens' = [tokens EXCEPT ![k].end = Len(js')]
             /\ toksuper' = LastOf(OpenTokens \ {k}) /\ Goes
    BY <1>3 DEF ParseClose
  <2>2. Lex(c) \in Payload /\ Lex(c).c = c
    BY PayloadLexemes
  <2>3. Moves(Lex(c))
    BY <2>1, <2>2, ReadMoves DEF Error, Goes
  <2>4. CASE ~Opened(k, c) /\ Error("JSMN_ERROR_INVAL")
    <3>1. Rejects(Lex(c))
      BY <2>2, <2>3, <2>4 DEF Rejects, Error
    <3> QED BY <3>1 DEF ParserStep
  <2>5. CASE /\ Opened(k, c) /\ tokens' = [tokens EXCEPT ![k].end = Len(js')]
             /\ toksuper' = LastOf(OpenTokens \ {k}) /\ Goes
    <3>1. OpenTokens \subseteq 1 .. Len(tokens) /\ NONE \notin OpenTokens
      BY <1>1 DEF OpenTokens, NONE
    <3>2. k # NONE /\ tokens[k].type = Type(c)
      BY <2>5 DEF Opened
    <3>3. k \in OpenTokens /\ \A m \in OpenTokens : m <= k
      BY <3>1, <3>2, LastOfFacts
    <3>4. toksuper' \in {NONE} \cup (OpenTokens \ {k})
      BY <2>5, LastOfFacts
    <3> HIDE DEF k
    <3>5. k \in 1 .. Len(tokens) /\ Len(js') = Len(js) + 1 /\ tokens \in Seq(Tok)
      BY <2>3, <3>1, <3>3 DEF Moves, Shape
    <3>6. tokens[k] \in Tok /\ tokens' = [tokens EXCEPT ![k] = [tokens[k] EXCEPT !.end = Len(js')]]
      <4>1. tokens' = [tokens EXCEPT ![k].end = Len(js')]
        BY <2>5 DEF k
      <4> QED BY <3>5, <4>1, TokenFacts
    <3>7. [tokens[k] EXCEPT !.end = Len(js')] \in Tok
      <4>1. tokens[k] \in Tok /\ Len(js') \in Nat
        BY <1>1, <3>5, TokenFacts
      <4> QED BY <4>1 DEF Tok
    <3>8. /\ tokens' \in Seq(Tok) /\ Len(tokens') = Len(tokens)
          /\ \A m \in 1 .. Len(tokens) :
               tokens'[m] = IF m = k THEN [tokens[k] EXCEPT !.end = Len(js')] ELSE tokens[m]
      BY <1>1, <3>5, <3>6, <3>7, ExceptSeq
    <3>9. ASSUME NEW m \in 1 .. Len(tokens)
          PROVE  /\ tokens'[m].type = tokens[m].type /\ tokens'[m].start = tokens[m].start
                 /\ tokens'[m].size = tokens[m].size
                 /\ tokens'[m].end = IF m = k THEN Len(js) + 1 ELSE tokens[m].end
      <4>1. tokens[m] \in Tok
        BY TokenFacts
      <4> QED BY <3>5, <3>8, <4>1 DEF Tok
    <3>10. Shuts(Lex(c), k)
      BY <2>2, <2>3, <2>5, <3>2, <3>3, <3>4, <3>5, <3>8, <3>9 DEF Shuts, Goes
    <3> QED BY <3>10 DEF ParserStep
  <2> QED BY <2>1, <2>4, <2>5
<1>4. CASE ParseValue
  <2>1. CASE \E c \in {"badstr", "badprim"}, e \in {"JSMN_ERROR_INVAL", "JSMN_ERROR_PART"} :
               Reads(Lex(c)) /\ Error(e)
    <3>1. PICK c \in {"badstr", "badprim"}, e \in {"JSMN_ERROR_INVAL", "JSMN_ERROR_PART"} :
            Reads(Lex(c)) /\ Error(e)
      BY <2>1
    <3>2. Lex(c) \in Payload /\ Lex(c).c = c
      BY PayloadLexemes
    <3>3. Moves(Lex(c))
      BY <3>1, <3>2, ReadMoves DEF Error
    <3>4. Rejects(Lex(c))
      BY <3>1, <3>2, <3>3 DEF Rejects, Error
    <3> QED BY <3>4 DEF ParserStep
  <2>2. ASSUME NEW l \in Scalars, Reads(l),
               \/ Len(tokens) >= num_tokens /\ Error("JSMN_ERROR_NOMEM")
               \/ /\ Len(tokens) < num_tokens /\ UNCHANGED toksuper /\ Goes
                  /\ Alloc(Token(IF l.c = "str" THEN JSMN_STRING ELSE JSMN_PRIMITIVE,
                                 Len(js'), Len(js')))
        PROVE  ParserStep
    <3>1. l \in Payload /\ l.c \in {"str", "prim"}
      BY PayloadLexemes
    <3>2. Moves(l)
      BY <2>2, <3>1, ReadMoves DEF Error, Goes
    <3>3. CASE Len(tokens) >= num_tokens /\ Error("JSMN_ERROR_NOMEM")
      <4>1. Rejects(l)
        BY <3>1, <3>2, <3>3 DEF Rejects, Error
      <4> QED BY <4>1 DEF ParserStep
    <3>4. CASE ~(Len(tokens) >= num_tokens /\ Error("JSMN_ERROR_NOMEM"))
      <4> DEFINE tok == Token(IF l.c = "str" THEN JSMN_STRING ELSE JSMN_PRIMITIVE,
                              Len(js'), Len(js'))
      <4>1. Len(js') = Len(js) + 1
        BY <3>2 DEF Moves
      <4>2. /\ tok \in Tok /\ tok.start = Len(js) + 1 /\ tok.end = Len(js) + 1 /\ tok.size = 0
            /\ tok.type = IF l.c = "str" THEN JSMN_STRING ELSE JSMN_PRIMITIVE
        BY <1>1, <4>1 DEF Token, Tok, Types
      <4>3. Alloc(tok) /\ Len(tokens) < num_tokens /\ UNCHANGED toksuper /\ Goes
        BY <2>2, <3>4
      <4> HIDE DEF tok
      <4>4. Adds(l, tok)
        BY <2>2, <3>1, <3>2, <4>2, <4>3, AllocAdds DEF Adds, Goes
      <4> QED BY <4>4 DEF ParserStep
    <3> QED BY <3>3, <3>4
  <2> QED BY <1>4, <2>1, <2>2 DEF ParseValue
<1>5. CASE ParseColon \/ ParseComma \/ ParseBlank
  <2>1. PICK c \in {":", ",", " "} : Reads(Lex(c)) /\ Goes /\ UNCHANGED tokens /\
          \/ c = ":" /\ toksuper' = Len(tokens)
          \/ c \in {",", " "} /\ toksuper' \in {toksuper, LastOf(OpenTokens)}
    BY <1>5 DEF ParseColon, ParseComma, ParseBlank
  <2>2. Lex(c) \in Payload /\ Lex(c).c = c
    BY PayloadLexemes
  <2>3. Moves(Lex(c))
    BY <2>1, <2>2, ReadMoves DEF Goes
  <2>4. Passes(Lex(c))
    BY <2>1, <2>2, <2>3, LastOfFacts DEF Passes, Silent, Goes
  <2> QED BY <2>4 DEF ParserStep
<1> QED BY <1>2, <1>3, <1>4, <1>5 DEF Parse

(***************************************************************************)
(* The inductive invariant.                                                *)
(***************************************************************************)

(* The positions and sizes of tokens are within what has been read.        *)
Ranges ==
    \A k \in 1 .. Len(tokens) :
        /\ tokens[k].start \in 1 .. Len(js) /\ tokens[k].end <= Len(js)
        /\ tokens[k].size < Len(tokens)
        /\ tokens[k].type \in {JSMN_STRING, JSMN_PRIMITIVE} => tokens[k].end = tokens[k].start

(* A token's type is that of the lexemes at its ends.                      *)
Brackets == {JSMN_OBJECT, JSMN_ARRAY}
Kinds ==
    \A k \in 1 .. Len(tokens) :
        LET t == tokens[k]
        IN  /\ t.type = JSMN_STRING => js[t.start].c = "str"
            /\ t.type = JSMN_PRIMITIVE => js[t.start].c = "prim"
            /\ t.type \in Brackets => js[t.start].c \in Opening /\ t.type = Type(js[t.start].c)
            /\ t.type \in Brackets /\ t.end # OPEN =>
                 t.start < t.end /\ js[t.end].c \in Closing /\ t.type = Type(js[t.end].c)

Ordered == \A k, l \in 1 .. Len(tokens) : k < l => tokens[k].start < tokens[l].start

(* What begins inside a closed token has been closed inside it.            *)
Nested ==
    \A k, l \in 1 .. Len(tokens) :
        k < l /\ tokens[k].end # OPEN /\ tokens[l].start < tokens[k].end =>
            tokens[l].end # OPEN /\ tokens[l].end < tokens[k].end

(* A colon, and no bracket is closed from there on.                        *)
ColonBefore(s, a, b) ==
    \E n \in a .. b : s[n].c = ":" /\ \A m \in n .. b : s[m].c \notin Closing

KeyFollowed ==
    \A k \in 1 .. Len(tokens) : IsKey(k) =>
        k < Len(tokens) /\ ColonBefore(js, tokens[k].end, tokens[k + 1].start)

(* A string is the super token only behind a colon, and from the next      *)
(* token on it has a value.                                                *)
SuperFollowed ==
    pc = "parse" /\ toksuper # NONE /\ tokens[toksuper].type = JSMN_STRING =>
        \/ IsKey(toksuper)
        \/ toksuper = Len(tokens) /\ ColonBefore(js, tokens[toksuper].end, Len(js))

(* A primitive extends to a delimiter.                                     *)
Separated ==
    \A n \in 1 .. Len(js) : n < Len(js) /\ js[n].c = "prim" =>
        js[n + 1].c \in Delimiters

(* The loop has put zeros only behind the values it has passed.            *)
Loop ==
    /\ pc = "parse" => nulled = {}
    /\ pc = "keys" =>
         /\ OpenTokens = {}
         /\ \A x \in nulled : \E j \in 1 .. i - 1 :
              j \in 1 .. Len(tokens) /\ IsKey(j) /\ x = Terminator(tokens[j + 1])

IInv ==
    /\ Shape /\ Ranges /\ Kinds /\ Ordered /\ Nested
    /\ KeyFollowed /\ SuperFollowed /\ Separated /\ Loop

LEMMA InitIInv == Init => IInv
<1> SUFFICES ASSUME Init PROVE IInv
  OBVIOUS
<1>1. Len(js) = 0 /\ Len(tokens) = 0 /\ js \in Seq(Payload) /\ tokens \in Seq(Tok)
  BY DEF Init
<1>2. Shape
  <2>1. fields = [f \in Numbers |-> 0] /\ names = [f \in Copied |-> [c \in 1 .. NameSize |-> 0]]
    BY DEF Init, NONE
  <2>2. MembersWithin(Len(js))
    BY <1>1, <2>1 DEF MembersWithin
  <2> QED BY <1>1, <2>2, JsonAssumption DEF Init, Shape, NONE
<1>3. Ranges /\ Kinds /\ Ordered /\ Nested /\ KeyFollowed /\ SuperFollowed /\ Separated
  BY <1>1 DEF Init, Ranges, Kinds, Ordered, Nested, KeyFollowed, SuperFollowed, Separated
<1>4. Loop
  BY DEF Init, Loop
<1> QED BY <1>2, <1>3, <1>4 DEF IInv

LEMMA ShapeStep ==
  ASSUME Shape, ParserStep
  PROVE  Shape'
<1>1. /\ Len(js) \in Nat /\ Len(tokens) \in Nat /\ toksuper \in 0 .. Len(tokens)
      /\ num_tokens \in Nat /\ OpenTokens \subseteq 1 .. Len(tokens)
  BY Lengths DEF OpenTokens
<1>2. MembersWithin(Len(js) + 1)
  <2>1. fields \in [Numbers -> 0 .. Len(js)] /\ names \in [Copied -> [1 .. NameSize -> 0 .. Len(js)]]
    BY DEF Shape, MembersWithin
  <2>2. 0 .. Len(js) \subseteq 0 .. Len(js) + 1
    BY <1>1
  <2> QED BY <2>1, <2>2, Zenon DEF MembersWithin
<1>3. ASSUME NEW l, Rejects(l) \/ Passes(l)
      PROVE  Shape'
  <2>1. \A o \in OpenTokens \cup {toksuper, 0, Len(tokens)} : o \in 0 .. Len(tokens)
    BY <1>1
  <2>2. toksuper' = toksuper \/ toksuper' = Len(tokens) \/ toksuper' = 0 \/ toksuper' \in OpenTokens
    BY <1>3 DEF Rejects, Passes, NONE
  <2>3. toksuper' \in 0 .. Len(tokens)
    BY <2>1, <2>2, Zenon
  <2> QED BY <1>1, <1>2, <1>3, <2>3 DEF Rejects, Passes, Moves, Shape, MembersWithin
<1>4. ASSUME NEW l, NEW tok, Adds(l, tok)
      PROVE  Shape'
  BY <1>1, <1>2, <1>4 DEF Adds, Moves, Shape, MembersWithin
<1>5. ASSUME NEW l, NEW k, Shuts(l, k)
      PROVE  Shape'
  <2>1. toksuper' \in 0 .. Len(tokens)
    BY <1>1, <1>5 DEF Shuts, NONE
  <2> QED BY <1>1, <1>2, <1>5, <2>1 DEF Shuts, Moves, Shape, MembersWithin
<1> QED BY <1>3, <1>4, <1>5 DEF ParserStep

LEMMA RangesStep ==
  ASSUME Shape, Ranges, ParserStep
  PROVE  Ranges'
<1>1. /\ Len(js) \in Nat /\ Len(tokens) \in Nat
  BY Lengths
<1>2. ASSUME NEW l, Rejects(l) \/ Passes(l)
      PROVE  Ranges'
  BY <1>1, <1>2, TokenFacts DEF Rejects, Passes, Moves, Ranges
<1>3. ASSUME NEW l, NEW tok, Adds(l, tok)
      PROVE  Ranges'
  <2> SUFFICES ASSUME NEW m \in 1 .. Len(tokens) + 1
               PROVE  /\ tokens'[m].start \in 1 .. Len(js) + 1 /\ tokens'[m].end <= Len(js) + 1
                      /\ tokens'[m].size < Len(tokens) + 1
                      /\ tokens'[m].type \in {JSMN_STRING, JSMN_PRIMITIVE} =>
                           tokens'[m].end = tokens'[m].start
    BY <1>3 DEF Adds, Moves, Ranges
  <2>1. CASE m = Len(tokens) + 1
    <3>1. tokens'[m] = tok /\ tok.start = Len(js) + 1 /\ tok.size = 0
      BY <1>3, <2>1 DEF Adds
    <3>2. tok.end <= Len(js) + 1
      BY <1>1, <1>3 DEF Adds, OPEN
    <3>3. tok.type \in {JSMN_STRING, JSMN_PRIMITIVE} => tok.end = tok.start
      BY <1>3 DEF Adds, Type, JSMN_STRING, JSMN_PRIMITIVE, JSMN_OBJECT, JSMN_ARRAY
    <3> QED BY <1>1, <3>1, <3>2, <3>3
  <2>2. CASE m # Len(tokens) + 1
    <3>1. m \in 1 .. Len(tokens)
      BY <1>1, <2>2
    <3>2. /\ tokens'[m].type = tokens[m].type /\ tokens'[m].start = tokens[m].start
          /\ tokens'[m].end = tokens[m].end
          /\ tokens'[m].size \in {tokens[m].size, tokens[m].size + 1}
      BY <1>3, <3>1 DEF Adds
    <3> QED BY <1>1, <3>1, <3>2, TokenFacts DEF Ranges
  <2> QED BY <2>1, <2>2
<1>4. ASSUME NEW l, NEW k, Shuts(l, k)
      PROVE  Ranges'
  <2> SUFFICES ASSUME NEW m \in 1 .. Len(tokens)
               PROVE  /\ tokens'[m].start \in 1 .. Len(js) + 1 /\ tokens'[m].end <= Len(js) + 1
                      /\ tokens'[m].size < Len(tokens)
                      /\ tokens'[m].type \in {JSMN_STRING, JSMN_PRIMITIVE} =>
                           tokens'[m].end = tokens'[m].start
    BY <1>4 DEF Shuts, Moves, Ranges
  <2>1. /\ tokens'[m].type = tokens[m].type /\ tokens'[m].start = tokens[m].start
        /\ tokens'[m].size = tokens[m].size
        /\ tokens'[m].end = IF m = k THEN Len(js) + 1 ELSE tokens[m].end
    BY <1>4 DEF Shuts
  <2>2. m = k => tokens[m].type \notin {JSMN_STRING, JSMN_PRIMITIVE}
    BY <1>4 DEF Shuts, Type, JSMN_STRING, JSMN_PRIMITIVE, JSMN_OBJECT, JSMN_ARRAY
  <2> QED BY <1>1, <2>1, <2>2, TokenFacts DEF Ranges
<1> QED BY <1>2, <1>3, <1>4 DEF ParserStep

(* The tokens there were keep their place, and a new one comes last.       *)
LEMMA KeptTokens ==
  ASSUME Shape, Ranges, ParserStep
  PROVE  /\ Len(js') = Len(js) + 1 /\ \A n \in 1 .. Len(js) : js'[n] = js[n]
         /\ Len(tokens') \in {Len(tokens), Len(tokens) + 1}
         /\ \A m \in 1 .. Len(tokens) :
              tokens'[m].type = tokens[m].type /\ tokens'[m].start = tokens[m].start
         /\ Len(tokens') = Len(tokens) + 1 => tokens'[Len(tokens) + 1].start = Len(js) + 1
         /\ \/ \A m \in 1 .. Len(tokens) : tokens'[m].end = tokens[m].end
            \/ /\ Len(tokens') = Len(tokens)
               /\ \E k \in 1 .. Len(tokens) :
                    /\ tokens[k].end = OPEN /\ \A m \in OpenTokens : m <= k
                    /\ js'[Len(js) + 1].c \in Closing
                    /\ tokens[k].type = Type(js'[Len(js) + 1].c)
                    /\ \A m \in 1 .. Len(tokens) :
                         tokens'[m].end = IF m = k THEN Len(js) + 1 ELSE tokens[m].end
<1>1. Len(js) \in Nat /\ Len(tokens) \in Nat
  BY Lengths
<1>2. ASSUME NEW l, Rejects(l) \/ Passes(l)
      PROVE  /\ Len(js') = Len(js) + 1 /\ \A n \in 1 .. Len(js) : js'[n] = js[n]
             /\ tokens' = tokens
  BY <1>2 DEF Rejects, Passes, Moves
<1>3. CASE \E l : Rejects(l) \/ Passes(l)
  BY <1>1, <1>2, <1>3
<1>4. CASE \E l, tok : Adds(l, tok)
  BY <1>1, <1>4 DEF Adds, Moves
<1>5. CASE \E l, k : Shuts(l, k)
  BY <1>1, <1>5 DEF Shuts, Moves, OpenTokens
<1> QED BY <1>3, <1>4, <1>5 DEF ParserStep

LEMMA OrderedStep ==
  ASSUME Shape, Ranges, Ordered, ParserStep
  PROVE  Ordered'
<1>1. /\ Len(js) \in Nat /\ Len(tokens) \in Nat
      /\ Len(tokens') \in {Len(tokens), Len(tokens) + 1}
      /\ \A m \in 1 .. Len(tokens) : tokens'[m].start = tokens[m].start
      /\ Len(tokens') = Len(tokens) + 1 => tokens'[Len(tokens) + 1].start = Len(js) + 1
  BY Lengths, KeptTokens
<1>2. ASSUME NEW k \in 1 .. Len(tokens'), NEW l \in 1 .. Len(tokens'), k < l
      PROVE  tokens'[k].start < tokens'[l].start
  <2>1. k \in 1 .. Len(tokens) /\ tokens'[k].start = tokens[k].start
        /\ tokens[k].start \in 1 .. Len(js)
    BY <1>1, <1>2 DEF Ranges
  <2>2. CASE l \in 1 .. Len(tokens)
    BY <1>1, <1>2, <2>1, <2>2 DEF Ordered
  <2>3. CASE l \notin 1 .. Len(tokens)
    BY <1>1, <1>2, <2>1, <2>3
  <2> QED BY <2>2, <2>3
<1> QED BY <1>2 DEF Ordered

LEMMA NestedStep ==
  ASSUME Shape, Ranges, Nested, ParserStep
  PROVE  Nested'
<1>1. /\ Len(js) \in Nat /\ Len(tokens) \in Nat
      /\ Len(tokens') \in {Len(tokens), Len(tokens) + 1}
      /\ \A m \in 1 .. Len(tokens) :
           /\ tokens'[m].start = tokens[m].start /\ tokens[m].start \in 1 .. Len(js)
           /\ tokens[m].end \in 0 .. Len(js)
  BY Lengths, KeptTokens, TokenFacts DEF Ranges
<1>2. ASSUME NEW k \in 1 .. Len(tokens'), NEW l \in 1 .. Len(tokens'), k < l,
             tokens'[k].end # OPEN, tokens'[l].start < tokens'[k].end
      PROVE  tokens'[l].end # OPEN /\ tokens'[l].end < tokens'[k].end
  <2>1. k \in 1 .. Len(tokens)
    BY <1>1, <1>2
  <2>2. CASE \A m \in 1 .. Len(tokens) : tokens'[m].end = tokens[m].end
    <3>1. l \in 1 .. Len(tokens)
      BY <1>1, <1>2, <2>1, <2>2, KeptTokens
    <3> QED BY <1>1, <1>2, <2>1, <2>2, <3>1 DEF Nested
  <2>3. CASE ~ \A m \in 1 .. Len(tokens) : tokens'[m].end = tokens[m].end
    <3>1. Len(tokens') = Len(tokens)
      BY <2>3, KeptTokens
    <3>2. PICK c \in 1 .. Len(tokens) :
            /\ tokens[c].end = OPEN /\ \A m \in OpenTokens : m <= c
            /\ \A m \in 1 .. Len(tokens) :
                 tokens'[m].end = IF m = c THEN Len(js) + 1 ELSE tokens[m].end
      BY <2>3, KeptTokens
    <3>3. l \in 1 .. Len(tokens)
      BY <3>1
    <3>4. \A m \in 1 .. Len(tokens) : m > c => tokens[m].end # OPEN
      BY <3>2, <1>1, Lengths DEF OpenTokens
    <3>5. CASE k = c
      BY <1>1, <1>2, <2>1, <3>2, <3>3, <3>4, <3>5 DEF OPEN
    <3>6. CASE k # c
      BY <1>1, <1>2, <2>1, <3>2, <3>3, <3>6 DEF Nested, OPEN
    <3> QED BY <3>5, <3>6
  <2> QED BY <2>2, <2>3
<1> QED BY <1>2 DEF Nested

LEMMA KindsStep ==
  ASSUME Shape, Ranges, Kinds, ParserStep
  PROVE  Kinds'
<1> DEFINE Kind(s, t) ==
      /\ t.type = JSMN_STRING => s[t.start].c = "str"
      /\ t.type = JSMN_PRIMITIVE => s[t.start].c = "prim"
      /\ t.type \in Brackets => s[t.start].c \in Opening /\ t.type = Type(s[t.start].c)
      /\ t.type \in Brackets /\ t.end # OPEN =>
           t.start < t.end /\ s[t.end].c \in Closing /\ t.type = Type(s[t.end].c)
<1>1. /\ Len(js) \in Nat /\ Len(tokens) \in Nat /\ Len(js') = Len(js) + 1
      /\ Len(tokens') \in {Len(tokens), Len(tokens) + 1}
      /\ \A n \in 1 .. Len(js) : js'[n] = js[n]
  BY Lengths, KeptTokens
<1>2. ASSUME NEW m \in 1 .. Len(tokens)
      PROVE  Kind(js', tokens'[m])
  <2>1. /\ tokens'[m].type = tokens[m].type /\ tokens'[m].start = tokens[m].start
        /\ tokens[m].start \in 1 .. Len(js) /\ tokens[m].end \in 0 .. Len(js)
        /\ tokens[m].type \in Types
    BY KeptTokens, TokenFacts DEF Ranges
  <2>2. Kind(js, tokens[m])
    BY DEF Kinds
  <2>3. js'[tokens[m].start] = js[tokens[m].start]
    BY <1>1, <2>1
  <2>4. CASE tokens'[m].end = tokens[m].end
    <3>1. tokens[m].end # OPEN => js'[tokens[m].end] = js[tokens[m].end]
      BY <1>1, <2>1 DEF OPEN
    <3> QED BY <2>1, <2>2, <2>3, <2>4, <3>1
  <2>5. CASE tokens'[m].end # tokens[m].end
    <3>1. /\ js'[Len(js) + 1].c \in Closing /\ tokens[m].type = Type(js'[Len(js) + 1].c)
          /\ tokens'[m].end = Len(js) + 1
      BY <2>5, KeptTokens
    <3> QED BY <1>1, <2>1, <2>2, <2>3, <3>1
  <2> QED BY <2>4, <2>5
<1>3. ASSUME Len(tokens') = Len(tokens) + 1
      PROVE  Kind(js', tokens'[Len(tokens) + 1])
  <2>1. ~ \E l : Rejects(l) \/ Passes(l)
    BY <1>1, <1>3 DEF Rejects, Passes
  <2>2. ~ \E l, k : Shuts(l, k)
    BY <1>1, <1>3 DEF Shuts
  <2>3. PICK l, tok : Adds(l, tok)
    BY <2>1, <2>2 DEF ParserStep
  <2>4. tokens'[Len(tokens) + 1] = tok /\ tok.start = Len(js) + 1 /\ js'[Len(js) + 1] = l
    BY <2>3 DEF Adds, Moves
  <2>5. CASE l.c \in Opening
    <3>1. tok.type = Type(l.c) /\ tok.end = OPEN
      BY <2>3, <2>5, Distinct DEF Adds
    <3>2. tok.type \notin {JSMN_STRING, JSMN_PRIMITIVE}
      BY <3>1 DEF Type, JSMN_STRING, JSMN_PRIMITIVE, JSMN_OBJECT, JSMN_ARRAY
    <3> QED BY <2>4, <2>5, <3>1, <3>2
  <2>6. CASE l.c \notin Opening
    <3>1. l.c \in {"str", "prim"} /\ tok.type = IF l.c = "str" THEN JSMN_STRING ELSE JSMN_PRIMITIVE
      BY <2>3, <2>6 DEF Adds
    <3> QED BY <2>4, <3>1 DEF Brackets, JSMN_STRING, JSMN_PRIMITIVE, JSMN_OBJECT, JSMN_ARRAY
  <2> QED BY <2>5, <2>6
<1>4. ASSUME NEW m \in 1 .. Len(tokens')
      PROVE  Kind(js', tokens'[m])
  <2>1. m \in 1 .. Len(tokens) \/ (m = Len(tokens) + 1 /\ Len(tokens') = Len(tokens) + 1)
    BY <1>1
  <2> HIDE DEF Kind
  <2> QED BY <2>1, <1>2, <1>3
<1> QED BY <1>4 DEF Kinds

LEMMA SeparatedStep ==
  ASSUME Shape, Separated, ParserStep
  PROVE  Separated'
<1>1. PICK l : Moves(l)
  BY DEF ParserStep, Rejects, Passes, Adds, Shuts
<1>2. Len(js) \in Nat
  BY Lengths
<1>3. ASSUME NEW n \in 1 .. Len(js'), n < Len(js'), js'[n].c = "prim"
      PROVE  js'[n + 1].c \in Delimiters
  <2>1. n \in 1 .. Len(js) /\ js'[n] = js[n]
    BY <1>1, <1>2, <1>3 DEF Moves
  <2>2. CASE n = Len(js)
    BY <1>1, <1>2, <1>3, <2>1, <2>2 DEF Moves
  <2>3. CASE n < Len(js)
    <3>1. js'[n + 1] = js[n + 1]
      BY <1>1, <1>2, <2>1, <2>3 DEF Moves
    <3> QED BY <1>3, <2>1, <2>3, <3>1 DEF Separated
  <2> QED BY <1>2, <2>1, <2>2, <2>3
<1> QED BY <1>3 DEF Separated

(* A colon stays where it was read, and the next lexeme, if it closes no   *)
(* bracket, is behind it too.                                              *)
LEMMA ColonKept ==
  ASSUME NEW s, NEW t, NEW a \in Nat, NEW b \in Nat, a >= 1, ColonBefore(s, a, b),
         \A n \in 1 .. b : t[n] = s[n]
  PROVE  /\ ColonBefore(t, a, b)
         /\ t[b + 1].c \notin Closing => ColonBefore(t, a, b + 1)
<1>1. PICK n \in a .. b : s[n].c = ":" /\ \A m \in n .. b : s[m].c \notin Closing
  BY DEF ColonBefore
<1>2. n \in 1 .. b /\ t[n].c = ":" /\ \A m \in n .. b : t[m].c \notin Closing
  BY <1>1
<1>3. t[b + 1].c \notin Closing => \A m \in n .. b + 1 : t[m].c \notin Closing
  BY <1>2
<1>4. n \in a .. b + 1
  BY <1>1
<1> QED BY <1>1, <1>2, <1>3, <1>4 DEF ColonBefore

(* The end of a string is where it begins.                                 *)
LEMMA StringFacts ==
  ASSUME Shape, Ranges, NEW k \in 1 .. Len(tokens), tokens[k].type = JSMN_STRING
  PROVE  tokens[k].end = tokens[k].start /\ tokens[k].start \in 1 .. Len(js)
         /\ k \notin OpenTokens
  BY Lengths DEF Ranges, OpenTokens, OPEN

LEMMA KeyFollowedStep ==
  ASSUME Shape, Ranges, KeyFollowed, SuperFollowed, ParserStep
  PROVE  KeyFollowed'
<1>1. /\ Len(js) \in Nat /\ Len(tokens) \in Nat /\ Len(js') = Len(js) + 1
      /\ Len(tokens') \in {Len(tokens), Len(tokens) + 1}
      /\ \A n \in 1 .. Len(js) : js'[n] = js[n]
  BY Lengths, KeptTokens
<1>2. ASSUME NEW k \in 1 .. Len(tokens'), IsKey(k)'
      PROVE  k < Len(tokens') /\ ColonBefore(js', tokens'[k].end, tokens'[k + 1].start)
  <2>1. tokens'[k].type = JSMN_STRING /\ tokens'[k].size > 0
    BY <1>2 DEF IsKey
  <2>2. CASE k \in 1 .. Len(tokens) /\ IsKey(k)
    <3>1. /\ k < Len(tokens) /\ ColonBefore(js, tokens[k].end, tokens[k + 1].start)
          /\ tokens[k].type = JSMN_STRING
      BY <2>2 DEF KeyFollowed, IsKey
    <3>2. /\ tokens'[k + 1].start = tokens[k + 1].start /\ tokens[k + 1].start \in 1 .. Len(js)
          /\ tokens[k].end = tokens[k].start /\ tokens[k].start \in 1 .. Len(js)
      BY <1>1, <2>2, <3>1, KeptTokens, StringFacts DEF Ranges
    <3>3. tokens'[k].end = tokens[k].end
      <4>1. tokens[k].end # OPEN
        BY <1>1, <3>2 DEF OPEN
      <4>2. tokens'[k].end = tokens[k].end \/ tokens[k].end = OPEN
        BY <2>2, KeptTokens
      <4> QED BY <4>1, <4>2
    <3>4. ColonBefore(js', tokens[k].end, tokens[k + 1].start)
      <4>1. /\ tokens[k].end \in Nat /\ tokens[k + 1].start \in Nat /\ tokens[k].end >= 1
            /\ \A n \in 1 .. tokens[k + 1].start : js'[n] = js[n]
        BY <1>1, <3>2
      <4> QED BY <3>1, <4>1, ColonKept, Zenon
    <3> QED BY <1>1, <3>1, <3>2, <3>3, <3>4
  <2>3. CASE ~(k \in 1 .. Len(tokens) /\ IsKey(k))
    <3>1. ~ \E l : Rejects(l) \/ Passes(l)
      BY <1>2, <2>3 DEF Rejects, Passes, IsKey
    <3>2. ~ \E l, c : Shuts(l, c)
      BY <1>2, <2>3 DEF Shuts, IsKey
    <3>3. PICK l, tok : Adds(l, tok)
      BY <3>1, <3>2 DEF ParserStep
    <3>4. k # Len(tokens) + 1
      BY <2>1, <3>3 DEF Adds
    <3>5. k \in 1 .. Len(tokens)
      BY <1>1, <3>4
    <3>6. /\ k = toksuper /\ tokens[k].type = JSMN_STRING /\ tokens'[k].end = tokens[k].end
          /\ Len(tokens') = Len(tokens) + 1 /\ tokens'[Len(tokens) + 1].start = Len(js) + 1
          /\ pc = "parse" /\ js'[Len(js) + 1].c \notin Closing
      <4>1. /\ tokens[k].type = JSMN_STRING /\ tokens'[k].end = tokens[k].end
            /\ k # toksuper => tokens'[k].size = tokens[k].size
            /\ Len(tokens') = Len(tokens) + 1 /\ tokens'[Len(tokens) + 1].start = Len(js) + 1
        BY <2>1, <3>3, <3>5 DEF Adds
      <4>2. k = toksuper
        BY <2>1, <2>3, <3>5, <4>1 DEF IsKey
      <4>3. pc = "parse" /\ js'[Len(js) + 1] = l /\ l.c \in Opening \cup {"str", "prim"}
        BY <3>3 DEF Adds, Moves
      <4> QED BY <4>1, <4>2, <4>3, Distinct
    <3>7. k = Len(tokens) /\ ColonBefore(js, tokens[k].end, Len(js))
      BY <2>3, <3>5, <3>6, <1>1 DEF SuperFollowed, NONE
    <3>8. ColonBefore(js', tokens[k].end, Len(js) + 1)
      <4>1. tokens[k].end \in Nat /\ tokens[k].end >= 1
        BY <1>1, <3>5, <3>6, StringFacts
      <4> QED BY <1>1, <3>6, <3>7, <4>1, ColonKept, Zenon
    <3> QED BY <1>1, <3>6, <3>7, <3>8
  <2> QED BY <2>2, <2>3
<1> QED BY <1>2 DEF KeyFollowed

LEMMA SuperFollowedStep ==
  ASSUME Shape, Ranges, SuperFollowed, ParserStep
  PROVE  SuperFollowed'
<1> SUFFICES ASSUME pc' = "parse", toksuper' # NONE, tokens'[toksuper'].type = JSMN_STRING
             PROVE  \/ IsKey(toksuper)'
                    \/ toksuper' = Len(tokens') /\ ColonBefore(js', tokens'[toksuper'].end, Len(js'))
  BY DEF SuperFollowed
<1>1. /\ Len(js) \in Nat /\ Len(tokens) \in Nat /\ Len(js') = Len(js) + 1
      /\ \A n \in 1 .. Len(js) : js'[n] = js[n]
      /\ toksuper \in 0 .. Len(tokens) /\ OpenTokens \subseteq 1 .. Len(tokens)
  BY Lengths, KeptTokens DEF OpenTokens
<1>2. ASSUME NEW l, Rejects(l)
      PROVE  FALSE
  BY <1>2 DEF Rejects
<1>3. ASSUME NEW l, Passes(l)
      PROVE  \/ IsKey(toksuper)'
             \/ toksuper' = Len(tokens') /\ ColonBefore(js', tokens'[toksuper'].end, Len(js'))
  <2>1. /\ pc = "parse" /\ tokens' = tokens /\ js'[Len(js) + 1] = l
    BY <1>3 DEF Passes, Moves
  <2>2. CASE l.c = ":"
    <3>1. toksuper' = Len(tokens)
      BY <1>3, <2>2, Distinct DEF Passes
    <3>2. toksuper' \in 1 .. Len(tokens) /\ tokens[toksuper'].end \in 1 .. Len(js)
      BY <1>1, <2>1, <3>1, StringFacts DEF NONE
    <3>3. /\ Len(js) + 1 \in tokens[toksuper'].end .. Len(js) + 1
          /\ \A m \in Len(js) + 1 .. Len(js) + 1 : js'[m].c \notin Closing
      BY <1>1, <2>1, <2>2, <3>2, Distinct
    <3>4. ColonBefore(js', tokens[toksuper'].end, Len(js) + 1)
      BY <2>1, <2>2, <3>3 DEF ColonBefore
    <3> QED BY <1>1, <2>1, <3>1, <3>4
  <2>3. CASE l.c # ":"
    <3>1. l.c \in Silent /\ toksuper' \in {toksuper, NONE} \cup OpenTokens
      BY <1>3, <2>3 DEF Passes
    <3>2. toksuper' \notin OpenTokens
      BY <1>1, <2>1, StringFacts
    <3>3. toksuper' = toksuper /\ toksuper # NONE /\ tokens[toksuper].type = JSMN_STRING
      BY <2>1, <3>1, <3>2
    <3>4. toksuper \in 1 .. Len(tokens)
      BY <1>1, <3>3 DEF NONE
    <3>5. CASE IsKey(toksuper)
      BY <2>1, <3>3, <3>5 DEF IsKey
    <3>6. CASE ~IsKey(toksuper)
      <4>1. toksuper = Len(tokens) /\ ColonBefore(js, tokens[toksuper].end, Len(js))
        BY <2>1, <3>3, <3>6 DEF SuperFollowed
      <4>2. tokens[toksuper].end \in 1 .. Len(js)
        BY <3>3, <3>4, StringFacts
      <4>3. js'[Len(js) + 1].c \notin Closing
        BY <2>1, <3>1, Distinct
      <4>4. ColonBefore(js', tokens[toksuper].end, Len(js) + 1)
        <5>1. tokens[toksuper].end \in Nat /\ tokens[toksuper].end >= 1
          BY <4>2
        <5> QED BY <1>1, <4>1, <4>3, <5>1, ColonKept, Zenon
      <4> QED BY <1>1, <2>1, <3>3, <4>1, <4>4
    <3> QED BY <3>5, <3>6
  <2> QED BY <2>2, <2>3
<1>4. ASSUME NEW l, NEW tok, Adds(l, tok)
      PROVE  IsKey(toksuper)'
  <2>1. CASE l.c \in Opening
    <3>1. toksuper' = Len(tokens) + 1 /\ tokens'[Len(tokens) + 1] = tok /\ tok.type = Type(l.c)
      BY <1>4, <2>1, Distinct DEF Adds
    <3> QED BY <3>1 DEF Type, JSMN_STRING, JSMN_OBJECT, JSMN_ARRAY
  <2>2. CASE l.c \notin Opening
    <3>1. toksuper' = toksuper /\ toksuper \in 1 .. Len(tokens)
      BY <1>1, <1>4, <2>2 DEF Adds, NONE
    <3>2. tokens'[toksuper].size = tokens[toksuper].size + 1 /\ tokens[toksuper].size \in Nat
      BY <1>4, <3>1, TokenFacts DEF Adds
    <3> QED BY <3>1, <3>2 DEF IsKey
  <2> QED BY <2>1, <2>2
<1>5. ASSUME NEW l, NEW k, Shuts(l, k)
      PROVE  FALSE
  <2>1. /\ toksuper' \in OpenTokens /\ toksuper' \in 1 .. Len(tokens)
        /\ tokens[toksuper'].type = JSMN_STRING
    BY <1>1, <1>5 DEF Shuts
  <2> QED BY <2>1, StringFacts
<1> QED BY <1>2, <1>3, <1>4, <1>5 DEF ParserStep

LEMMA LoopStep ==
  ASSUME Loop, ParserStep
  PROVE  Loop'
<1>1. pc = "parse" /\ nulled' = nulled /\ pc' \in {"parse", "done"}
  BY DEF ParserStep, Rejects, Passes, Adds, Shuts, Moves
<1> QED BY <1>1 DEF Loop

(* The end of the payload and the loop of a callback leave the tokens.     *)
LEMMA TokensKeep ==
  ASSUME IInv, UNCHANGED <<js, tokens, toksuper>>, pc' \in {"keys", "done", "overrun"} \/ pc' = pc
  PROVE  /\ Ranges' /\ Kinds' /\ Ordered' /\ Nested' /\ KeyFollowed' /\ SuperFollowed'
         /\ Separated'
<1>1. SuperFollowed'
  BY DEF IInv, SuperFollowed, IsKey
<1>2. Ranges' /\ Kinds' /\ Ordered' /\ Nested'
  BY DEF IInv, Ranges, Kinds, Ordered, Nested
<1>3. KeyFollowed' /\ Separated'
  BY DEF IInv, KeyFollowed, Separated, IsKey
<1> QED BY <1>1, <1>2, <1>3

LEMMA NextIInv == IInv /\ [Next]_vars => IInv'
<1> SUFFICES ASSUME IInv, [Next]_vars PROVE IInv'
  OBVIOUS
<1>1. /\ Shape /\ Ranges /\ Kinds /\ Ordered /\ Nested
      /\ KeyFollowed /\ SuperFollowed /\ Separated /\ Loop
  BY DEF IInv
<1>2. Len(js) \in Nat /\ Len(tokens) \in Nat
  BY <1>1, Lengths
<1>3. CASE Parse /\ ~ParseEnd
  <2>1. ParserStep
    BY <1>1, <1>3, ParserSteps
  <2> QED BY <1>1, <2>1, ShapeStep, RangesStep, KindsStep, OrderedStep, NestedStep,
             KeyFollowedStep, SuperFollowedStep, SeparatedStep, LoopStep DEF IInv
<1>4. CASE ParseEnd
  <2>1. /\ UNCHANGED <<js, tokens, toksuper, i, nulled, fields, names>> /\ pc = "parse"
        /\ pc' = "done" \/ (pc' = "keys" /\ OpenTokens = {})
    BY <1>4 DEF ParseEnd, Error
  <2>2. Shape'
    BY <1>1, <2>1 DEF Shape, MembersWithin
  <2>3. Loop'
    <3>1. nulled' = {} /\ OpenTokens' = OpenTokens
      BY <1>1, <2>1 DEF Loop, OpenTokens
    <3> QED BY <2>1, <3>1 DEF Loop
  <2> QED BY <2>1, <2>2, <2>3, TokensKeep DEF IInv
<1>5. CASE KeySkip
  <2>1. /\ UNCHANGED <<js, tokens, toksuper, pc, nulled, fields, names>> /\ pc = "keys"
        /\ i <= Len(tokens) /\ i' = i + 1
    BY <1>5 DEF KeySkip
  <2>2. Shape'
    BY <1>1, <1>2, <2>1 DEF Shape, MembersWithin
  <2>3. Loop'
    <3>1. OpenTokens' = OpenTokens /\ \A j : IsKey(j)' <=> IsKey(j)
      BY <2>1 DEF OpenTokens, IsKey
    <3>2. i \in Nat /\ \A j \in 1 .. i - 1 : j \in 1 .. i' - 1
      BY <1>1, <1>2, <2>1 DEF Shape
    <3>3. /\ OpenTokens = {}
          /\ \A x \in nulled : \E j \in 1 .. i' - 1 :
               j \in 1 .. Len(tokens) /\ IsKey(j) /\ x = Terminator(tokens[j + 1])
      BY <1>1, <2>1, <3>2 DEF Loop
    <3> QED BY <2>1, <3>1, <3>3 DEF Loop, Terminator
  <2> QED BY <2>1, <2>2, <2>3, TokensKeep DEF IInv
<1>6. CASE KeyTake
  <2>1. /\ UNCHANGED <<js, tokens, toksuper, pc>> /\ pc = "keys"
        /\ i < Len(tokens) /\ IsKey(i) /\ i' = i + 1
        /\ nulled' = nulled \cup {Terminator(tokens[i + 1])}
    BY <1>6 DEF KeyTake
  <2>2. Shape'
    <3> DEFINE value == tokens[i + 1]
               asked == Asked(js[tokens[i].start].text)
               N == 0 .. Len(js)
    <3>1. value.start \in N
      BY <1>1, <1>2, <2>1 DEF Shape, Ranges
    <3>2. fields \in [Numbers -> N] /\ names \in [Copied -> [1 .. NameSize -> N]]
      BY <1>1 DEF Shape, MembersWithin
    <3>3. fields' \in [Numbers -> N]
      <4>1. PICK spilt : fields' = [f \in Numbers |->
                                      IF f \in asked \cup spilt THEN value.start ELSE fields[f]]
        BY <1>6 DEF KeyTake
      <4> HIDE DEF value, asked, N
      <4> QED BY <3>1, <3>2, <4>1
    <3>4. names' \in [Copied -> [1 .. NameSize -> N]]
      <4> DEFINE new(f, c) == IF f \in asked /\ c <= Length(value) THEN value.start ELSE names[f][c]
      <4>1. names' = [f \in Copied |-> [c \in 1 .. NameSize |-> new(f, c)]]
        BY <1>6 DEF KeyTake
      <4>2. \A f \in Copied, c \in 1 .. NameSize : new(f, c) \in N
        <5> HIDE DEF value, asked, N
        <5> QED BY <3>1, <3>2
      <4> HIDE DEF new, N
      <4> QED BY <4>1, <4>2
    <3>5. MembersWithin(Len(js))'
      BY <2>1, <3>3, <3>4 DEF MembersWithin
    <3> QED BY <1>1, <1>2, <2>1, <3>5 DEF Shape
  <2>3. Loop'
    <3>1. OpenTokens' = OpenTokens /\ \A j : IsKey(j)' <=> IsKey(j)
      BY <2>1 DEF OpenTokens, IsKey
    <3>2. OpenTokens = {} /\ pc' = "keys" /\ i \in 1 .. Len(tokens)
      BY <1>1, <1>2, <2>1 DEF Loop, Shape
    <3>3. ASSUME NEW x \in nulled'
          PROVE  \E j \in 1 .. i' - 1 :
                   j \in 1 .. Len(tokens) /\ IsKey(j) /\ x = Terminator(tokens[j + 1])
      <4>1. CASE x = Terminator(tokens[i + 1])
        <5>1. i \in 1 .. i' - 1
          BY <1>2, <2>1, <3>2
        <5> QED BY <2>1, <3>2, <4>1, <5>1
      <4>2. CASE x \in nulled
        <5>1. PICK j \in 1 .. i - 1 :
                j \in 1 .. Len(tokens) /\ IsKey(j) /\ x = Terminator(tokens[j + 1])
          BY <1>1, <2>1, <4>2 DEF Loop
        <5>2. j \in 1 .. i' - 1
          BY <1>2, <2>1, <3>2, <5>1
        <5> QED BY <5>1, <5>2
      <4> QED BY <2>1, <3>3, <4>1, <4>2
    <3>4. ASSUME NEW x \in nulled'
          PROVE  \E j \in 1 .. i' - 1 :
                   j \in 1 .. Len(tokens') /\ IsKey(j)' /\ x = Terminator(tokens'[j + 1])
      BY <2>1, <3>1, <3>3
    <3> QED BY <3>1, <3>2, <3>4 DEF Loop, Terminator
  <2> QED BY <2>1, <2>2, <2>3, TokensKeep DEF IInv
<1>7. CASE KeysEnd \/ KeyOverrun
  <2>1. /\ UNCHANGED <<js, tokens, toksuper, i, nulled, fields, names>>
        /\ pc' \in {"done", "overrun"}
    BY <1>7 DEF KeysEnd, KeyOverrun
  <2>2. Shape' /\ Loop'
    BY <1>1, <2>1 DEF Shape, MembersWithin, Loop
  <2> QED BY <2>1, <2>2, TokensKeep DEF IInv
<1>8. CASE UNCHANGED vars
  <2>1. UNCHANGED <<js, tokens, toksuper, pc, i, nulled, fields, names>>
    BY <1>8 DEF vars
  <2>2. Shape' /\ Loop'
    BY <1>1, <2>1 DEF Shape, MembersWithin, Loop, OpenTokens, IsKey, Terminator
  <2> QED BY <2>1, <2>2, TokensKeep DEF IInv
<1> QED BY <1>3, <1>4, <1>5, <1>6, <1>7, <1>8 DEF Next, Done

THEOREM ParserInductive == Spec => []IInv
<1> QED BY InitIInv, NextIInv, PTL DEF Spec

(* jsmn_parse() never leaves the array of tokens it was given, and the     *)
(* callbacks refer to what has been parsed, for payloads of any length.    *)
THEOREM ParserTypeOK == Spec => []TypeOK
<1>1. IInv => TypeOK
  <2> SUFFICES ASSUME IInv PROVE TypeOK
    OBVIOUS
  <2>1. DOMAIN tokens = 1 .. Len(tokens) /\ DOMAIN js = 1 .. Len(js) /\ Len(js) \in Nat
        /\ Len(tokens) \in Nat
    BY Lengths DEF IInv
  <2>2. \A k \in 1 .. Len(tokens) :
          /\ tokens[k].start \in 1 .. Len(js) /\ tokens[k].end \in {OPEN} \cup 1 .. Len(js)
          /\ tokens[k].size \in 0 .. Len(tokens)
    BY <2>1, TokenFacts DEF IInv, Ranges, OPEN
  <2>3. {NONE} \cup 1 .. Len(tokens) = 0 .. Len(tokens) /\ {NONE} \cup 1 .. Len(js) = 0 .. Len(js)
    BY <2>1 DEF NONE
  <2> QED BY <2>1, <2>2, <2>3 DEF TypeOK, IInv, Shape, MembersWithin
<1> QED BY <1>1, ParserInductive, PTL

(* In a payload of any length, JSON or not, tokens[i + 1] exists for every *)
(* string the callbacks of mqtt_link.c take for a key.                     *)
THEOREM KeysHaveValues == Spec => []KeyHasValue
<1>1. IInv => KeyHasValue
  BY Lengths DEF IInv, KeyFollowed, KeyHasValue, ColonBefore
<1> QED BY <1>1, ParserInductive, PTL

(***************************************************************************)
(* The zeros of the callbacks                                              *)
(***************************************************************************)

(* A zero is written behind a value of an earlier key, u, and a later      *)
(* value, v, begins behind u: behind the character that follows u, or      *)
(* inside u.                                                               *)
LEMMA BeyondZero ==
  ASSUME IInv, OpenTokens = {}, NEW m \in 1 .. Len(tokens), NEW k \in 1 .. Len(tokens),
         m <= k, k < Len(tokens), IsKey(k)
  PROVE  Terminator(tokens[m]) \notin TextOf(tokens[k + 1])
<1> DEFINE u == tokens[m]
           v == tokens[k + 1]
<1>1. /\ Shape /\ Ranges /\ Kinds /\ Ordered /\ Nested /\ KeyFollowed /\ Separated
      /\ Len(js) \in Nat /\ Len(tokens) \in Nat /\ k + 1 \in 1 .. Len(tokens)
  BY Lengths DEF IInv
<1>2. /\ u.type \in Types /\ u.start \in 1 .. Len(js) /\ u.end \in 1 .. Len(js)
      /\ v.type \in Types /\ v.start \in 1 .. Len(js) /\ v.end \in 1 .. Len(js)
  <2>1. \A n \in 1 .. Len(tokens) : tokens[n].end # OPEN
    BY <1>1, Lengths DEF OpenTokens
  <2>2. \A n \in 1 .. Len(tokens) :
          /\ tokens[n].type \in Types /\ tokens[n].start \in 1 .. Len(js)
          /\ tokens[n].end \in 1 .. Len(js)
    BY <1>1, <2>1, TokenFacts DEF Ranges, OPEN
  <2> QED BY <1>1, <2>2
<1>3. u.start < v.start
  BY <1>1 DEF Ordered
<1>4. /\ v.type = JSMN_PRIMITIVE => js[v.start].c = "prim"
      /\ v.type \in Brackets => js[v.start].c \in Opening
  BY <1>1 DEF Kinds
<1>5. ASSUME NEW p \in Nat, NEW side, <<p, side>> \in TextOf(v)
      PROVE  /\ v.start <= p /\ v.type # JSMN_STRING
             /\ v.type \in Brackets => p <= v.end
             /\ v.type = JSMN_PRIMITIVE => p = v.start /\ side = "first"
  <2>1. v.type = JSMN_STRING => TextOf(v) = {}
    BY DEF TextOf, JSMN_STRING, JSMN_PRIMITIVE
  <2>2. v.type = JSMN_PRIMITIVE => TextOf(v) = {<<v.start, "first">>} /\ v.type \notin Brackets
    BY DEF TextOf, Brackets, JSMN_STRING, JSMN_PRIMITIVE, JSMN_OBJECT, JSMN_ARRAY
  <2>3. v.type \in Brackets => TextOf(v) = (v.start .. v.end) \X {"first", "last"}
                                /\ v.type # JSMN_PRIMITIVE
    BY DEF TextOf, Brackets, JSMN_STRING, JSMN_PRIMITIVE, JSMN_OBJECT, JSMN_ARRAY
  <2> HIDE DEF v
  <2>4. CASE v.type = JSMN_PRIMITIVE
    BY <1>2, <1>5, <2>1, <2>2, <2>4 DEF JSMN_STRING, JSMN_PRIMITIVE
  <2>5. CASE v.type \in Brackets
    BY <1>2, <1>5, <2>1, <2>3, <2>5
  <2> QED BY <1>2, <1>5, <2>1, <2>4, <2>5 DEF Types, Brackets
<1>6. CASE u.type = JSMN_STRING
  <2>1. Terminator(u) = <<u.start, "last">>
    BY <1>1, <1>6 DEF Terminator, Ranges
  <2> HIDE DEF u, v
  <2> QED BY <1>2, <1>3, <1>5, <2>1 DEF u, v
<1>7. ASSUME u.type # JSMN_STRING, Terminator(u) \in TextOf(v)
      PROVE  v.start <= u.end + 1 /\ v.type # JSMN_STRING
             /\ (v.type \in Brackets => u.end + 1 <= v.end)
  <2>1. Terminator(u) = <<u.end + 1, "first">> /\ u.end + 1 \in Nat
    BY <1>2, <1>7 DEF Terminator
  <2> HIDE DEF u, v
  <2> QED BY <1>5, <1>7, <2>1
<1>8. CASE u.type = JSMN_PRIMITIVE
  <2>1. u.end = u.start /\ js[u.start].c = "prim"
    BY <1>1, <1>8 DEF Ranges, Kinds, JSMN_STRING, JSMN_PRIMITIVE
  <2>2. v.start = u.start + 1 => js[v.start].c \in Delimiters
    BY <1>1, <1>2, <2>1 DEF Separated
  <2> HIDE DEF u, v
  <2>3. v.type \in {JSMN_PRIMITIVE, JSMN_STRING} \cup Brackets
    BY <1>2 DEF Types, Brackets
  <2>4. v.start = u.start + 1 => v.type = JSMN_STRING
    BY <1>4, <2>2, <2>3, Distinct
  <2>5. u.type # JSMN_STRING
    BY <1>8 DEF JSMN_STRING, JSMN_PRIMITIVE
  <2>6. ASSUME Terminator(u) \in TextOf(v)
        PROVE  FALSE
    <3>1. v.start <= u.end + 1 /\ v.type # JSMN_STRING
      BY <1>7, <2>5, <2>6
    <3> QED BY <1>2, <1>3, <2>1, <2>4, <3>1
  <2> QED BY <2>6 DEF u, v
<1>9. CASE u.type \in Brackets
  <2>1. js[u.end].c \in Closing /\ u.end # OPEN
    BY <1>1, <1>2, <1>9 DEF Kinds, OPEN
  <2>2. v.start < u.end => v.end < u.end
    BY <1>1, <2>1 DEF Nested
  <2>3. PICK n \in tokens[k].end .. v.start :
          js[n].c = ":" /\ \A o \in n .. v.start : js[o].c \notin Closing
    BY <1>1 DEF KeyFollowed, ColonBefore
  <2>4. u.type # JSMN_STRING
    BY <1>9 DEF Brackets, JSMN_STRING, JSMN_OBJECT, JSMN_ARRAY
  <2>5. tokens[k].end \in Nat
    BY <1>1, TokenFacts
  <2> HIDE DEF u, v
  <2>6. ASSUME Terminator(u) \in TextOf(v)
        PROVE  FALSE
    <3>1. v.start <= u.end + 1 /\ v.type # JSMN_STRING /\ (v.type \in Brackets => u.end + 1 <= v.end)
      BY <1>7, <2>4, <2>6
    <3>2. js[v.start].c \in Opening \cup {"prim"}
      BY <1>2, <1>4, <3>1 DEF Types, Brackets
    <3>3. js[v.start].c \notin Closing \cup {":"}
      BY <3>2, Distinct
    <3>4. v.start # u.end /\ n # v.start
      BY <2>1, <2>3, <3>3
    <3>5. CASE v.start < u.end
      <4>1. v.type = JSMN_PRIMITIVE
        BY <1>2, <2>2, <3>1, <3>5 DEF Types, Brackets
      <4>2. u.end + 1 = v.start
        BY <1>2, <1>5, <2>4, <2>6, <4>1 DEF Terminator
      <4> QED BY <1>2, <3>5, <4>2
    <3>6. CASE v.start = u.end + 1
      <4>1. u.end \in n .. v.start
        BY <1>2, <2>3, <2>5, <3>4, <3>6
      <4> QED BY <2>1, <2>3, <4>1
    <3> QED BY <1>2, <3>1, <3>4, <3>5, <3>6
  <2> QED BY <2>6 DEF u, v
<1> QED BY <1>2, <1>6, <1>8, <1>9 DEF Types, Brackets

(* When a callback comes to a value no zero has been written into it,      *)
(* whatever the payload and however deep its objects are nested.           *)
THEOREM ValuesReadAsSent == Spec => []ValuesAsSent
<1>1. IInv => ValuesAsSent
  <2> SUFFICES ASSUME IInv, pc = "keys", i < Len(tokens), IsKey(i),
                      NEW x \in nulled
               PROVE  x \notin TextOf(tokens[i + 1])
    BY DEF ValuesAsSent
  <2>1. /\ OpenTokens = {} /\ Len(tokens) \in Nat /\ i \in 1 .. Len(tokens) + 1
    BY Lengths DEF IInv, Loop, Shape
  <2>2. PICK j \in 1 .. i - 1 :
          j \in 1 .. Len(tokens) /\ IsKey(j) /\ x = Terminator(tokens[j + 1])
    BY DEF IInv, Loop
  <2>3. j + 1 \in 1 .. Len(tokens) /\ i \in 1 .. Len(tokens) /\ j + 1 <= i
    BY <2>1, <2>2
  <2> QED BY <2>1, <2>2, <2>3, BeyondZero
<1> QED BY <1>1, ParserInductive, PTL
=============================================================================
