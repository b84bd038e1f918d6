------------------------- MODULE MqttDocumentProofs -------------------------
(***************************************************************************)
(* For documented messages of any number of members: jsmn_parse() accepts  *)
(* them and the loop of a callback gives every number of the event the     *)
(* last value that was sent for it, and every character of a text the last *)
(* value that was long enough to have one there.                           *)
(***************************************************************************)
EXTENDS MqttBracketProofs

(* The lexemes of a documented message and its tokens: the object, then    *)
(* one for each key at the positions 2, 6, 10 ... and one for each value   *)
(* at 4, 8, 12 ...                                                         *)
At(k) == IF k = 1 THEN 1 ELSE 2 * k - 2

Placed ==
    /\ \A k \in 1 .. Len(tokens) :
         /\ tokens[k].start = At(k)
         /\ k % 2 = 0 => tokens[k].type = JSMN_STRING
         /\ tokens[k].type = JSMN_OBJECT <=> k = 1
    /\ Len(js) = 0 => Len(tokens) = 0
    /\ Len(js) > 0 =>
         \/ 2 * Len(tokens) - 2 = Len(js) /\ Len(tokens) > 1
         \/ 2 * Len(tokens) - 1 = Len(js)
         \/ Len(js) = 2 /\ js[2] = EndObject /\ Len(tokens) = 1

(* A key has counted its value, and a value counts nothing.                *)
Sized ==
    /\ \A k \in 2 .. Len(tokens) :
         /\ k % 2 = 0 /\ k < Len(tokens) => tokens[k].size > 0
         /\ k % 2 = 1 => tokens[k].size = 0
    /\ toksuper > 1 => toksuper % 2 = 0
    /\ Len(js) % 4 = 3 => toksuper = Len(tokens)

(* The object is open up to the bracket that ends the message.             *)
OpenObject ==
    OpenTokens = IF Len(js) = 0 \/ js[Len(js)] = EndObject THEN {} ELSE {1}

Returned ==
    /\ r \in {"none", "count", "JSMN_ERROR_PART"}
    /\ pc # "overrun" /\ (pc = "parse" <=> r = "none")
    /\ pc = "keys" => r = "count"
    /\ r = "count" => OpenTokens = {}
    /\ r = "JSMN_ERROR_PART" => OpenTokens # {}
    /\ pc = "done" /\ r = "count" => i = Len(tokens) + 1

(* Where a name was sent, among the tokens the loop has passed.            *)
Sent(s, f, m) == {n \in 1 .. Len(s) : n % 4 = 2 /\ s[n] = Str(f) /\ n + 2 < 2 * m}
Reaching(s, f, m, c) == {n \in Sent(s, f, m) : c <= Len(s[n + 2].text)}

Filled ==
    /\ r = "none" =>
         /\ \A f \in Numbers : fields[f] = NONE
         /\ \A f \in Copied, c \in 1 .. NameSize : names[f][c] = NONE
    /\ r = "count" =>
         /\ \A f \in Numbers : fields[f] = LastValue(Sent(js, f, i))
         /\ \A f \in Copied, c \in 1 .. NameSize :
              names[f][c] = LastValue(Reaching(js, f, i, c))

DocInv == BeginsDocumented(js) => Placed /\ Sized /\ OpenObject /\ Returned /\ Filled

(***************************************************************************)
(* The lexemes of documented messages                                      *)
(***************************************************************************)
LEMMA DocCharacters ==
  /\ BeginObject.c \in Opening /\ Type(BeginObject.c) = JSMN_OBJECT
  /\ EndObject.c \in Closing /\ Type(EndObject.c) = JSMN_OBJECT
  /\ Comma.c \in Silent /\ Lex(":").c = ":"
  /\ \A t : Str(t).c = "str" /\ Prim(t).c = "prim" /\ Str(t).text = t /\ Prim(t).text = t
<1>1. BeginObject.c = "{" /\ EndObject.c = "}" /\ Comma.c = "," /\ Lex(":").c = ":"
  BY Zenon DEF BeginObject, EndObject, Comma, Lex
<1>2. \A t : Str(t).c = "str" /\ Prim(t).c = "prim" /\ Str(t).text = t /\ Prim(t).text = t
  BY DEF Str, Prim
<1> QED BY <1>1, <1>2, Zenon DEF Opening, Closing, Silent, Type

LEMMA DocLexeme ==
  ASSUME NEW n \in Nat \ {0}, NEW l \in DocLexemes(n)
  PROVE  /\ n = 1 => l = BeginObject
         /\ n % 4 = 2 => (\E t \in DocKeys : l = Str(t)) \/ (n = 2 /\ l = EndObject)
         /\ n % 4 = 3 => l.c = ":"
         /\ n % 4 = 0 => l.c \in {"str", "prim"} /\ l.text \in DocValues
         /\ n > 1 /\ n % 4 = 1 => l \in {Comma, EndObject}
<1>1. CASE n = 1
  <2>1. DocLexemes(n) = {BeginObject}
    BY <1>1 DEF DocLexemes
  <2> QED BY <1>1, <2>1
<1>2. CASE n = 2
  <2>1. DocLexemes(n) = {Str(t) : t \in DocKeys} \cup {EndObject}
    BY <1>2 DEF DocLexemes
  <2> QED BY <1>2, <2>1
<1>3. CASE n > 2 /\ n % 4 = 2
  <2>1. DocLexemes(n) = {Str(t) : t \in DocKeys}
    BY <1>3 DEF DocLexemes
  <2> QED BY <1>3, <2>1
<1>4. CASE n % 4 = 3
  <2>1. DocLexemes(n) = {Lex(":")}
    BY <1>4 DEF DocLexemes
  <2> QED BY <1>4, <2>1, DocCharacters
<1>5. CASE n % 4 = 0
  <2>1. DocLexemes(n) = {Str(t) : t \in DocValues} \cup {Prim(t) : t \in DocValues}
    BY <1>5 DEF DocLexemes
  <2> QED BY <1>5, <2>1, DocCharacters
<1>6. CASE n > 1 /\ n % 4 = 1
  <2>1. DocLexemes(n) = {Comma, EndObject}
    BY <1>6 DEF DocLexemes
  <2> QED BY <1>6, <2>1
<1>7. n = 1 \/ n = 2 \/ (n > 2 /\ n % 4 = 2) \/ n % 4 = 3 \/ n % 4 = 0 \/ (n > 1 /\ n % 4 = 1)
  OBVIOUS
<1> QED BY <1>1, <1>2, <1>3, <1>4, <1>5, <1>6, <1>7

(* What begins a documented message also did so one lexeme before.         *)
LEMMA DocBefore ==
  ASSUME Shape, NEW l, Moves(l), BeginsDocumented(js')
  PROVE  /\ BeginsDocumented(js) /\ l \in DocLexemes(Len(js) + 1)
         /\ Len(js) + 1 <= 4 * MaxMembers + 1
         /\ Len(js) > 0 => js[Len(js)] # EndObject
         /\ l = EndObject <=> js'[Len(js')] = EndObject
<1>1. /\ Len(js) \in Nat /\ Len(js') = Len(js) + 1 /\ js'[Len(js) + 1] = l
      /\ \A n \in 1 .. Len(js) : js'[n] = js[n]
      /\ DOMAIN js = 1 .. Len(js) /\ MaxMembers \in Nat
  BY Lengths, JsonAssumption DEF Moves
<1>2. DOMAIN js' = 1 .. Len(js) + 1
  <2>1. js' \in Seq(Payload)
    BY DEF Moves
  <2> QED BY <1>1, <2>1
<1>3. /\ Len(js') <= 4 * MaxMembers + 1
      /\ \A n \in 1 .. Len(js) + 1 : js'[n] \in DocLexemes(n) /\ (js'[n] = EndObject => n = Len(js'))
  BY <1>2 DEF BeginsDocumented
<1>4. \A n \in 1 .. Len(js) : js[n] \in DocLexemes(n) /\ js[n] # EndObject
  BY <1>1, <1>3
<1>5. ASSUME NEW n \in 1 .. Len(js) PROVE NameFits(js, n)
  <2>1. NameFits(js', n)
    BY <1>1, <1>2 DEF BeginsDocumented
  <2>2. js'[n] = js[n] /\ (n + 2 <= Len(js) => n + 2 <= Len(js') /\ js'[n + 2] = js[n + 2])
    BY <1>1
  <2> QED BY <2>1, <2>2 DEF NameFits
<1>6. BeginsDocumented(js)
  <2>1. Len(js) <= 4 * MaxMembers + 1
    BY <1>1, <1>3
  <2> QED BY <1>1, <1>4, <1>5, <2>1 DEF BeginsDocumented
<1> QED BY <1>1, <1>3, <1>4, <1>6

(* What the length of the payload says of the number of its tokens.        *)
LEMMA Halves ==
  ASSUME NEW L \in Nat, NEW T \in Nat,
         L = 0 \/ (2 * T - 2 = L /\ T > 1) \/ 2 * T - 1 = L
  PROVE  /\ (L + 1) % 4 = 2 => L = 2 * T - 1 /\ T % 2 = 1 /\ L > 0
         /\ (L + 1) % 4 = 3 => L = 2 * T - 2 /\ T > 1 /\ T % 2 = 0
         /\ (L + 1) % 4 = 0 => L = 2 * T - 1 /\ T > 0 /\ T % 2 = 0
         /\ L > 0 /\ (L + 1) % 4 = 1 => L = 2 * T - 2 /\ T > 1 /\ T % 2 = 1
         /\ L + 1 = 2 => L = 1 /\ T = 1
  OBVIOUS

(* The next lexeme follows from the number of tokens.                      *)
LEMMA DocPhase ==
  ASSUME Shape, Placed, Sized, NEW l, Moves(l), BeginsDocumented(js')
  PROVE  /\ Len(tokens) < num_tokens \/ l.c \notin Opening \cup {"str", "prim"}
         /\ \/ Len(js) = 0 /\ Len(tokens) = 0 /\ l = BeginObject
            \/ /\ Len(js) = 2 * Len(tokens) - 1 /\ Len(tokens) % 2 = 1
               /\ \E t \in DocKeys : l = Str(t)
            \/ Len(js) = 2 * Len(tokens) - 2 /\ Len(tokens) > 1 /\ Len(tokens) % 2 = 0 /\ l.c = ":"
            \/ /\ Len(js) = 2 * Len(tokens) - 1 /\ Len(tokens) % 2 = 0 /\ Len(tokens) > 0
               /\ toksuper = Len(tokens) /\ l.c \in {"str", "prim"}
            \/ Len(js) = 2 * Len(tokens) - 2 /\ Len(tokens) > 1 /\ Len(tokens) % 2 = 1 /\ l = Comma
            \/ /\ l = EndObject /\ Len(tokens) % 2 = 1
               /\ \/ Len(js) = 1 /\ Len(tokens) = 1
                  \/ Len(js) = 2 * Len(tokens) - 2 /\ Len(tokens) > 1
<1> DEFINE p == Len(js) + 1
           T == Len(tokens)
<1>1. /\ Len(js) \in Nat /\ T \in Nat /\ p \in Nat \ {0} /\ num_tokens \in Nat /\ MaxMembers \in Nat
  BY Lengths, JsonAssumption
<1>2. /\ l \in DocLexemes(p) /\ p <= 4 * MaxMembers + 1
      /\ Len(js) > 0 => js[Len(js)] # EndObject
  BY DocBefore
<1>3. /\ Len(js) = 0 => T = 0
      /\ Len(js) > 0 => (2 * T - 2 = Len(js) /\ T > 1) \/ 2 * T - 1 = Len(js)
  BY <1>2 DEF Placed
<1>4. /\ p = 1 => l = BeginObject
      /\ p % 4 = 2 => (\E t \in DocKeys : l = Str(t)) \/ (p = 2 /\ l = EndObject)
      /\ p % 4 = 3 => l.c = ":"
      /\ p % 4 = 0 => l.c \in {"str", "prim"}
      /\ p > 1 /\ p % 4 = 1 => l \in {Comma, EndObject}
  BY <1>1, <1>2, DocLexeme
<1>5. p % 4 = 0 => toksuper = T
  <2>1. p % 4 = 0 => Len(js) % 4 = 3
    BY <1>1
  <2> QED BY <2>1 DEF Sized
<1>6. T < num_tokens \/ l.c \notin Opening \cup {"str", "prim"}
  <2>1. 2 * MaxMembers + 1 <= num_tokens
    BY DocAssumption
  <2>2. CASE p % 4 = 3
    BY <1>4, <2>2, Distinct
  <2>3. CASE p > 1 /\ p % 4 = 1
    <3>1. l.c \in Silent \cup Closing
      BY <1>4, <2>3, DocCharacters
    <3> QED BY <3>1, Distinct
  <2>4. CASE p = 1 \/ p % 4 = 2 \/ p % 4 = 0
    <3> HIDE DEF p, T
    <3>1. T < num_tokens
      BY <1>1, <1>2, <1>3, <2>1, <2>4 DEF p
    <3> QED BY <3>1
  <2>5. p = 1 \/ (p > 1 /\ p % 4 = 1) \/ p % 4 = 2 \/ p % 4 = 3 \/ p % 4 = 0
    BY <1>1
  <2> QED BY <2>2, <2>3, <2>4, <2>5
<1>7. CASE p = 1
  <2>1. Len(js) = 0 /\ T = 0 /\ l = BeginObject
    BY <1>1, <1>3, <1>4, <1>7
  <2> QED BY <1>6, <2>1
<1>8. CASE p % 4 = 2
  <2>1. Len(js) = 2 * T - 1 /\ T % 2 = 1 /\ (p = 2 => Len(js) = 1 /\ T = 1)
    <3>1. Len(js) \in Nat /\ T \in Nat /\ (Len(js) = 0 \/ (2 * T - 2 = Len(js) /\ T > 1) \/ 2 * T - 1 = Len(js))
      BY <1>1, <1>3
    <3>2. (Len(js) + 1) % 4 = 2 => Len(js) = 2 * T - 1 /\ T % 2 = 1 /\ Len(js) > 0
      BY <3>1, Halves
    <3>3. Len(js) + 1 = 2 => Len(js) = 1 /\ T = 1
      BY <3>1, Halves
    <3> QED BY <1>8, <3>2, <3>3
  <2> QED BY <1>4, <1>6, <1>8, <2>1
<1>9. CASE p % 4 = 3
  <2>1. Len(js) = 2 * T - 2 /\ T > 1 /\ T % 2 = 0
    BY <1>1, <1>3, <1>9
  <2> QED BY <1>4, <1>6, <1>9, <2>1
<1>10. CASE p % 4 = 0
  <2>1. Len(js) = 2 * T - 1 /\ T % 2 = 0 /\ T > 0
    BY <1>1, <1>3, <1>10
  <2> QED BY <1>4, <1>5, <1>6, <1>10, <2>1
<1>11. CASE p > 1 /\ p % 4 = 1
  <2>1. Len(js) = 2 * T - 2 /\ T > 1 /\ T % 2 = 1
    BY <1>1, <1>3, <1>11
  <2> QED BY <1>4, <1>6, <1>11, <2>1
<1>12. p = 1 \/ (p > 1 /\ p % 4 = 1) \/ p % 4 = 2 \/ p % 4 = 3 \/ p % 4 = 0
  BY <1>1
<1> QED BY <1>7, <1>8, <1>9, <1>10, <1>11, <1>12

(***************************************************************************)
(* The parser on documented messages                                       *)
(***************************************************************************)

(* None of their lexemes is rejected.                                      *)
LEMMA DocAccepts ==
  ASSUME Shape, Placed, Sized, OpenObject, NEW l, Moves(l), BeginsDocumented(js')
  PROVE  ~Rejects(l)
<1>1. /\ Len(tokens) < num_tokens \/ l.c \notin Opening \cup {"str", "prim"}
      /\ Len(js) \in Nat /\ Len(tokens) \in Nat /\ num_tokens \in Nat
  BY DocPhase, Lengths
<1>2. \/ l = BeginObject \/ l = Comma \/ l = EndObject \/ l.c \in {"str", "prim", ":"}
  <2>1. \A t : Str(t).c = "str"
    BY DocCharacters
  <2> QED BY <2>1, DocPhase
<1>3. l.c \in Opening \cup Silent \cup {"str", "prim", ":"} \/ l = EndObject
  BY <1>2, DocCharacters
<1>4. l.c \notin {"badstr", "badprim"}
  BY <1>3, DocCharacters, Distinct
<1>5. ASSUME l.c \in Closing
      PROVE  Opened(LastOf(OpenTokens), l.c)
  <2>1. l = EndObject
    BY <1>3, <1>5, Distinct
  <2>2. l.c \in Closing /\ Type(l.c) = JSMN_OBJECT /\ l # BeginObject /\ l # Comma
        /\ l.c \notin {"str", "prim", ":"} /\ \A t : l # Str(t)
    BY <2>1, DocCharacters, Distinct
  <2>3. Len(js) > 0 /\ Len(tokens) > 0
    BY <1>1, <2>2, DocPhase
  <2>4. OpenTokens = {1}
    BY <2>3, DocBefore DEF OpenObject
  <2>5. LastOf(OpenTokens) = 1
    BY <2>4, LastOpen
  <2>6. tokens[1].type = JSMN_OBJECT
    BY <1>1, <2>3 DEF Placed
  <2> QED BY <2>2, <2>5, <2>6 DEF Opened, NONE
<1> QED BY <1>1, <1>4, <1>5, Distinct DEF Rejects

(* Colons and commas.                                                      *)
LEMMA DocPasses ==
  ASSUME Shape, Placed, Sized, OpenObject, NEW l, Passes(l), BeginsDocumented(js')
  PROVE  Placed' /\ Sized' /\ OpenObject'
<1> DEFINE L == Len(js)
           T == Len(tokens)
<1>1. /\ L \in Nat /\ T \in Nat /\ Moves(l) /\ Len(js') = L + 1 /\ js'[L + 1] = l
      /\ tokens' = tokens
      /\ l.c \in {":"} \cup Silent
  BY Lengths DEF Passes, Moves
<1>2. l.c \notin Opening \cup Closing \cup {"str", "prim"} /\ l # BeginObject /\ l # EndObject
      /\ \A t : l # Str(t)
  BY <1>1, DocCharacters, Distinct
<1>3. /\ L = 2 * T - 2 /\ T > 1
      /\ (T % 2 = 0 /\ l.c = ":") \/ (T % 2 = 1 /\ l = Comma)
  BY <1>1, <1>2, DocPhase
<1>4. L + 1 = 2 * T - 1 /\ L + 1 > 0 /\ (T % 2 = 1 => (L + 1) % 4 # 3)
  BY <1>1, <1>3
<1>5. Placed'
  BY <1>1, <1>4 DEF Placed
<1>6. OpenTokens = {1}
  BY <1>1, <1>3, DocBefore DEF OpenObject
<1>7. toksuper' \in {toksuper, 0, 1} \/ (l.c = ":" /\ toksuper' = T)
  BY <1>6 DEF Passes, NONE
<1>8. l = Comma => l.c # ":"
  BY DocCharacters, Distinct
<1>9. toksuper' > 1 => toksuper' % 2 = 0
  <2>1. CASE toksuper' = toksuper
    BY <2>1 DEF Sized
  <2>2. CASE toksuper' \in {0, 1}
    BY <2>2
  <2>3. CASE l.c = ":" /\ toksuper' = T
    BY <1>3, <1>8, <2>3
  <2> QED BY <1>7, <2>1, <2>2, <2>3
<1>10. (L + 1) % 4 = 3 => toksuper' = T
  <2>1. CASE T % 2 = 1
    BY <1>4, <2>1
  <2>2. CASE T % 2 = 0
    <3>1. l.c = ":"
      BY <1>3, <2>2
    <3> QED BY <3>1, Distinct DEF Passes
  <2> QED BY <1>3, <2>1, <2>2
<1>11. Sized'
  BY <1>1, <1>9, <1>10 DEF Sized
<1>12. OpenObject'
  <2>1. OpenTokens' = {1}
    BY <1>1, <1>6, OpenKept
  <2> QED BY <1>1, <1>2, <2>1 DEF OpenObject
<1> QED BY <1>5, <1>11, <1>12

(* The bracket that ends the message.                                      *)
LEMMA DocShuts ==
  ASSUME Shape, Placed, Sized, OpenObject, NEW l, NEW k, Shuts(l, k), BeginsDocumented(js')
  PROVE  Placed' /\ Sized' /\ OpenObject'
<1> DEFINE L == Len(js)
           T == Len(tokens)
<1>1. /\ L \in Nat /\ T \in Nat /\ Moves(l) /\ Len(js') = L + 1 /\ js'[L + 1] = l
      /\ Len(tokens') = T /\ l.c \in Closing
      /\ \A m \in 1 .. T : /\ tokens'[m].type = tokens[m].type /\ tokens'[m].start = tokens[m].start
                           /\ tokens'[m].size = tokens[m].size
  BY Lengths DEF Shuts, Moves
<1>2. l.c \notin Opening \cup Silent \cup {"str", "prim", ":"} /\ l # BeginObject /\ l # Comma
      /\ \A t : l # Str(t)
  BY <1>1, DocCharacters, Distinct
<1>3. l = EndObject /\ T % 2 = 1 /\ ((L = 1 /\ T = 1) \/ (L = 2 * T - 2 /\ T > 1))
  BY <1>1, <1>2, DocPhase
<1>4. (L + 1) % 4 # 3 /\ L > 0
  <2>1. CASE L = 1 /\ T = 1
    BY <2>1
  <2>2. CASE L = 2 * T - 2 /\ T > 1
    <3>1. L = 0 \/ (2 * T - 2 = L /\ T > 1) \/ 2 * T - 1 = L
      BY <2>2
    <3>2. (L + 1) % 4 = 3 => T % 2 = 0
      BY <1>1, <3>1, Halves
    <3>3. L > 0
      <4> HIDE DEF L, T
      <4> QED BY <1>1, <2>2
    <3> QED BY <1>3, <3>2, <3>3
  <2> QED BY <1>3, <2>1, <2>2
<1>5. OpenTokens = {1} /\ k = 1
  <2>1. OpenTokens = {1}
    BY <1>1, <1>4, DocBefore DEF OpenObject
  <2> QED BY <2>1 DEF Shuts
<1>6. toksuper' = 0
  BY <1>5 DEF Shuts, NONE
<1>7. Placed'
  <2>1. \/ 2 * T - 1 = L + 1
        \/ L + 1 = 2 /\ js'[2] = EndObject /\ T = 1
    <3>1. CASE L = 1 /\ T = 1
      <4>1. L + 1 = 2
        BY <3>1
      <4>2. js'[2] = l
        BY <1>1, <4>1
      <4> QED BY <1>3, <3>1, <4>1, <4>2
    <3>2. CASE L = 2 * T - 2 /\ T > 1
      BY <1>1, <3>2
    <3> QED BY <1>3, <3>1, <3>2
  <2> QED BY <1>1, <2>1 DEF Placed
<1>8. Sized'
  BY <1>1, <1>4, <1>6 DEF Sized
<1>9. OpenObject'
  <2>1. OpenTokens' = {}
    BY <1>5, OpenShuts
  <2> QED BY <1>1, <1>3, <2>1 DEF OpenObject
<1> QED BY <1>7, <1>8, <1>9

(* The bracket that begins the message, keys and values.                   *)
LEMMA DocAdds ==
  ASSUME Shape, Placed, Sized, OpenObject, NEW l, NEW tok, Adds(l, tok), BeginsDocumented(js')
  PROVE  Placed' /\ Sized' /\ OpenObject'
<1> DEFINE L == Len(js)
           T == Len(tokens)
<1>1. /\ L \in Nat /\ T \in Nat /\ toksuper \in 0 .. T
      /\ Moves(l) /\ Len(js') = L + 1 /\ js'[L + 1] = l
      /\ Len(tokens') = T + 1 /\ tokens'[T + 1] = tok
      /\ tok.start = L + 1 /\ tok.size = 0
      /\ \A m \in 1 .. T : /\ tokens'[m].type = tokens[m].type /\ tokens'[m].start = tokens[m].start
                           /\ tokens'[m].size = IF m = toksuper THEN tokens[m].size + 1
                                                ELSE tokens[m].size
  BY Lengths DEF Adds, Moves
<1>2. l.c \in Opening \cup {"str", "prim"}
  BY DEF Adds
<1>3. l.c # ":" /\ l # Comma /\ l # EndObject
  BY <1>2, DocCharacters, Distinct
<1>4. \/ L = 0 /\ T = 0 /\ l = BeginObject
      \/ L = 2 * T - 1 /\ T % 2 = 1 /\ l.c = "str"
      \/ L = 2 * T - 1 /\ T % 2 = 0 /\ T > 0 /\ toksuper = T /\ l.c \in {"str", "prim"}
  <2>1. \A t : Str(t).c = "str"
    BY DocCharacters
  <2> QED BY <1>1, <1>3, <2>1, DocPhase
<1>5. /\ T + 1 # 1 => L + 1 = 2 * (T + 1) - 2 /\ T + 1 > 1 /\ l.c \in {"str", "prim"}
      /\ T + 1 = 1 => L + 1 = 1 /\ l = BeginObject
      /\ (L + 1) % 4 # 3
  <2>1. CASE L = 0 /\ T = 0 /\ l = BeginObject
    BY <2>1
  <2>2. CASE L = 2 * T - 1 /\ T > 0 /\ l.c \in {"str", "prim"}
    <3>1. L + 1 = 2 * T /\ T + 1 > 1 /\ 2 * (T + 1) - 2 = 2 * T /\ (2 * T) % 4 # 3
      <4> HIDE DEF L, T
      <4> QED BY <1>1, <2>2
    <3> QED BY <2>2, <3>1
  <2>3. T % 2 = 1 => T > 0
    BY <1>1
  <2> QED BY <1>4, <2>1, <2>2, <2>3
<1>6. /\ tok.start = At(T + 1)
      /\ (T + 1) % 2 = 0 => tok.type = JSMN_STRING
      /\ tok.type = JSMN_OBJECT <=> T + 1 = 1
  <2>1. tok.start = At(T + 1)
    BY <1>1, <1>5 DEF At
  <2>2. CASE T + 1 = 1
    <3>1. l.c \in Opening /\ Type(l.c) = JSMN_OBJECT /\ (T + 1) % 2 # 0
      BY <1>5, <2>2, DocCharacters
    <3>2. tok.type = JSMN_OBJECT
      BY <3>1, Distinct DEF Adds
    <3> QED BY <2>1, <2>2, <3>1, <3>2
  <2>3. CASE T + 1 # 1
    <3>1. l.c \in {"str", "prim"}
      BY <1>5, <2>3
    <3>2. tok.type = IF l.c = "str" THEN JSMN_STRING ELSE JSMN_PRIMITIVE
      BY <3>1, Distinct DEF Adds
    <3>3. tok.type # JSMN_OBJECT
      BY <3>2 DEF JSMN_OBJECT, JSMN_STRING, JSMN_PRIMITIVE
    <3>4. ASSUME (T + 1) % 2 = 0
          PROVE  l.c = "str"
      <4>1. T % 2 = 1
        BY <1>1, <3>4
      <4> QED BY <1>4, <2>3, <4>1
    <3> QED BY <2>1, <2>3, <3>2, <3>3, <3>4
  <2> QED BY <2>2, <2>3
<1>7. Placed'
  <2>1. ASSUME NEW k \in 1 .. T + 1
        PROVE  /\ tokens'[k].start = At(k)
               /\ k % 2 = 0 => tokens'[k].type = JSMN_STRING
               /\ tokens'[k].type = JSMN_OBJECT <=> k = 1
    <3>1. CASE k \in 1 .. T
      BY <1>1, <3>1 DEF Placed
    <3>2. CASE k = T + 1
      BY <1>1, <1>6, <3>2
    <3> QED BY <1>1, <3>1, <3>2
  <2>2. /\ L + 1 # 0
        /\ (2 * (T + 1) - 2 = L + 1 /\ T + 1 > 1) \/ 2 * (T + 1) - 1 = L + 1
    BY <1>1, <1>5
  <2> QED BY <1>1, <2>1, <2>2 DEF Placed
<1>8. toksuper' = toksuper \/ (T + 1 = 1 /\ toksuper' = 1)
  <2>1. CASE T + 1 = 1
    BY <1>1, <2>1 DEF Adds
  <2>2. CASE T + 1 # 1
    <3>1. l.c \in {"str", "prim"}
      BY <1>5, <2>2
    <3> QED BY <3>1, Distinct DEF Adds
  <2> QED BY <2>1, <2>2
<1>9. Sized'
  <2>1. ASSUME NEW k \in 2 .. T + 1
        PROVE  /\ k % 2 = 0 /\ k < T + 1 => tokens'[k].size > 0
               /\ k % 2 = 1 => tokens'[k].size = 0
    <3>1. CASE k = T + 1
      BY <1>1, <3>1
    <3>2. CASE k = T
      <4>1. tokens[k].size \in Nat /\ k \in 1 .. T /\ T > 1
        BY <1>1, <3>2, TokenFacts
      <4>2. k % 2 = 0 => k = toksuper
        BY <1>1, <1>4, <3>2, <4>1
      <4>3. k % 2 = 1 => k # toksuper
        BY <3>2, <4>1 DEF Sized
      <4> QED BY <1>1, <3>2, <4>1, <4>2, <4>3 DEF Sized
    <3>3. CASE k < T
      <4>1. tokens[k].size \in Nat /\ k \in 1 .. T /\ k \in 2 .. T
        BY <1>1, <3>3, TokenFacts
      <4>2. k % 2 = 1 => k # toksuper
        BY <4>1 DEF Sized
      <4> QED BY <1>1, <3>3, <4>1, <4>2 DEF Sized
    <3> QED BY <1>1, <3>1, <3>2, <3>3
  <2>2. toksuper' > 1 => toksuper' % 2 = 0
    BY <1>8 DEF Sized
  <2> QED BY <1>1, <1>5, <2>1, <2>2 DEF Sized
<1>10. OpenObject'
  <2>1. CASE T + 1 = 1
    <3>1. l.c \in Opening /\ OpenTokens = {}
      BY <1>1, <1>5, <2>1, DocCharacters DEF OpenObject
    <3> QED BY <1>1, <1>3, <2>1, <3>1, OpenAdds DEF OpenObject
  <2>2. CASE T + 1 # 1
    <3>1. l.c \notin Opening /\ L > 0
      BY <1>1, <1>4, <1>5, <2>2, Distinct
    <3>2. OpenTokens = {1}
      BY <1>1, <3>1, DocBefore DEF OpenObject
    <3> QED BY <1>1, <1>3, <3>1, <3>2, OpenAdds DEF OpenObject
  <2> QED BY <2>1, <2>2
<1> QED BY <1>7, <1>9, <1>10

(* A step of the parser that leaves the payload documented.                *)
LEMMA DocStep ==
  ASSUME Shape, DocInv, ParserStep
  PROVE  DocInv'
<1> SUFFICES ASSUME BeginsDocumented(js')
             PROVE  Placed' /\ Sized' /\ OpenObject' /\ Returned' /\ Filled'
  BY DEF DocInv
<1>1. PICK l : Moves(l)
  BY DEF ParserStep, Rejects, Passes, Adds, Shuts
<1>2. Placed /\ Sized /\ OpenObject /\ Returned /\ Filled
  BY <1>1, DocBefore DEF DocInv
<1>3. \A m : ~Rejects(m)
  BY <1>2, DocAccepts DEF Rejects
<1>4. Placed' /\ Sized' /\ OpenObject' /\ UNCHANGED <<pc, r, fields, names>> /\ pc = "parse"
  <2>1. ASSUME NEW m, Passes(m) PROVE Placed' /\ Sized' /\ OpenObject'
    BY <1>2, <2>1, DocPasses
  <2>2. ASSUME NEW m, NEW tok, Adds(m, tok) PROVE Placed' /\ Sized' /\ OpenObject'
    BY <1>2, <2>2, DocAdds
  <2>3. ASSUME NEW m, NEW k, Shuts(m, k) PROVE Placed' /\ Sized' /\ OpenObject'
    BY <1>2, <2>3, DocShuts
  <2>4. (\E m : Passes(m)) \/ (\E m, tok : Adds(m, tok)) \/ (\E m, k : Shuts(m, k))
    BY <1>3 DEF ParserStep
  <2>5. UNCHANGED <<pc, r, fields, names>> /\ pc = "parse"
    BY <2>4 DEF Passes, Adds, Shuts, Moves
  <2> QED BY <2>1, <2>2, <2>3, <2>4, <2>5
<1>5. r = "none"
  BY <1>2, <1>4 DEF Returned
<1> QED BY <1>2, <1>4, <1>5 DEF Returned, Filled

(***************************************************************************)
(* The loop of a callback on documented messages                           *)
(***************************************************************************)

(* When the object has been closed, every key has its value.               *)
LEMMA DocClosed ==
  ASSUME Shape, Kinds, Placed, OpenObject, BeginsDocumented(js), OpenTokens = {}
  PROVE  \/ Len(js) = 0 /\ Len(tokens) = 0
         \/ Len(js) = 2 /\ Len(tokens) = 1 /\ js[2] = EndObject
         \/ Len(tokens) % 2 = 1 /\ Len(js) = 2 * Len(tokens) - 1
<1> DEFINE L == Len(js)
           T == Len(tokens)
<1>1. L \in Nat /\ T \in Nat /\ DOMAIN js = 1 .. L
  BY Lengths
<1>2. CASE L = 0
  BY <1>2 DEF Placed
<1>3. CASE L > 0
  <2>1. js[L] = EndObject
    <3>1. {1} # {}
      OBVIOUS
    <3> QED BY <1>1, <1>3, <3>1 DEF OpenObject
  <2>2. L \in Nat \ {0} /\ js[L] \in DocLexemes(L)
    BY <1>1, <1>3 DEF BeginsDocumented
  <2>3. /\ EndObject # BeginObject /\ EndObject.c \notin {"str", "prim", ":"}
        /\ \A t : EndObject # Str(t)
    BY DocCharacters, Distinct
  <2>4. L = 2 \/ (L > 1 /\ L % 4 = 1)
    <3>1. /\ L # 1 /\ L % 4 # 3 /\ L % 4 # 0 /\ (L % 4 = 2 => L = 2)
      BY <2>1, <2>2, <2>3, DocLexeme
    <3> HIDE DEF L
    <3> QED BY <1>1, <1>3, <3>1
  <2>5. (2 * T - 2 = L /\ T > 1) \/ 2 * T - 1 = L \/ (L = 2 /\ js[2] = EndObject /\ T = 1)
    BY <1>1, <1>3 DEF Placed
  <2>6. CASE L = 2
    <3>1. ASSUME T = 2
          PROVE  FALSE
      <4>1. tokens[2].start = 2 /\ tokens[2].type = JSMN_STRING
        BY <3>1 DEF Placed, At
      <4>2. js[2].c = "str"
        BY <3>1, <4>1 DEF Kinds
      <4>3. js[2] = EndObject
        BY <2>1, <2>6
      <4> QED BY <2>3, <4>2, <4>3
    <3>2. T = 1
      <4> HIDE DEF L, T
      <4> QED BY <1>1, <2>5, <2>6, <3>1
    <3>3. js[2] = EndObject
      BY <2>1, <2>6
    <3> QED BY <2>6, <3>2, <3>3
  <2>7. CASE L > 1 /\ L % 4 = 1
    <3>1. T % 2 = 1 /\ L = 2 * T - 1
      <4> HIDE DEF L, T
      <4> QED BY <1>1, <2>5, <2>7
    <3> QED BY <3>1
  <2> QED BY <2>4, <2>6, <2>7
<1> QED BY <1>1, <1>2, <1>3

(* A documented key selects the field of its own name and no other.        *)
LEMMA AskedFacts ==
  ASSUME NEW t \in DocKeys, NEW f \in ToSet(Fields)
  PROVE  f \in Asked(t) <=> f = t
<1> DEFINE hits == {n \in DOMAIN Fields : IsPrefix(t, Fields[n])}
<1>1. /\ \A n \in DOMAIN Fields : Fields[n] \in Seq(STRING)
      /\ \A m, n \in DOMAIN Fields : Fields[m] = Fields[n] => m = n
      /\ DOMAIN Fields \subseteq Nat
  BY JsonAssumption DEF IsInjective
<1>2. \A n \in hits : Fields[n] = t
  BY DocAssumption
<1>3. ASSUME f \in Asked(t)
      PROVE  f = t
  <2>1. hits # {} /\ f \in {Fields[CHOOSE n \in hits : \A o \in hits : n <= o]}
    BY <1>3 DEF Asked
  <2>2. PICK h : h \in hits
    BY <2>1
  <2>3. \A n \in hits : n = h
    BY <1>1, <1>2, <2>2
  <2>4. h <= h
    BY <1>1, <2>2
  <2>5. \E n \in hits : \A o \in hits : n <= o
    BY <2>2, <2>3, <2>4
  <2>6. (CHOOSE n \in hits : \A o \in hits : n <= o) \in hits
    BY <2>5
  <2> HIDE DEF hits
  <2> QED BY <1>2, <2>1, <2>6
<1>4. ASSUME f = t
      PROVE  f \in Asked(t)
  <2>1. PICK h \in DOMAIN Fields : Fields[h] = f
    BY DEF ToSet
  <2>2. IsPrefix(f, f)
    <3>1. Len(f) \in Nat
      BY <1>1, <2>1, LenProperties
    <3> QED BY <3>1 DEF IsPrefix
  <2>3. h \in hits
    BY <1>4, <2>1, <2>2
  <2>4. \A n \in hits : n = h
    BY <1>1, <1>2, <2>3
  <2>5. h <= h
    BY <1>1, <2>1
  <2>6. \E n \in hits : \A o \in hits : n <= o
    BY <2>3, <2>4, <2>5
  <2>7. (CHOOSE n \in hits : \A o \in hits : n <= o) \in hits
    BY <2>6
  <2>8. Fields[CHOOSE n \in hits : \A o \in hits : n <= o] = f
    <3> HIDE DEF hits
    <3> QED BY <1>2, <1>4, <2>7
  <2>9. hits # {}
    BY <2>3
  <2> QED BY <2>8, <2>9 DEF Asked
<1> QED BY <1>3, <1>4

(* What LastOf returns.                                                    *)
LEMMA LastIs ==
  ASSUME NEW S, S \subseteq Nat, NEW k \in S, \A l \in S : l <= k
  PROVE  LastOf(S) = k
<1>1. ASSUME NEW n \in S, \A l \in S : l <= n
      PROVE  n = k
  <2>1. n \in Nat /\ k \in Nat /\ k <= n /\ n <= k
    BY <1>1
  <2> QED BY <2>1
<1>2. {n \in S : \A l \in S : l <= n} = {k}
  BY <1>1
<1> QED BY <1>2 DEF LastOf

(* One step of the loop passes the key at the position 2 * m - 2, if m is  *)
(* the token of a key.                                                     *)
LEMMA SentNext ==
  ASSUME NEW s, Len(s) \in Nat, NEW f, NEW m \in Nat \ {0}
  PROVE  /\ \A n : n \in Sent(s, f, m + 1) <=> n \in Sent(s, f, m) \/
              (n \in 1 .. Len(s) /\ m % 2 = 0 /\ n = 2 * m - 2 /\ s[n] = Str(f))
         /\ m % 2 # 0 => Sent(s, f, m + 1) = Sent(s, f, m)
         /\ \A n \in Sent(s, f, m + 1) : n \in Nat /\ n <= 2 * m - 2
<1>1. ASSUME NEW n \in 1 .. Len(s), n % 4 = 2
      PROVE  /\ n + 2 < 2 * (m + 1) <=> n + 2 < 2 * m \/ n = 2 * m - 2
             /\ n + 2 < 2 * (m + 1) => n <= 2 * m - 2
             /\ n = 2 * m - 2 => m % 2 = 0
  BY <1>1
<1>2. ASSUME NEW n \in 1 .. Len(s), m % 2 = 0, n = 2 * m - 2
      PROVE  n % 4 = 2 /\ n + 2 < 2 * (m + 1)
  BY <1>2
<1>3. \A n : n \in Sent(s, f, m + 1) <=> n \in 1 .. Len(s) /\ n % 4 = 2 /\ s[n] = Str(f) /\ n + 2 < 2 * (m + 1)
  BY DEF Sent
<1>4. \A n : n \in Sent(s, f, m) <=> n \in 1 .. Len(s) /\ n % 4 = 2 /\ s[n] = Str(f) /\ n + 2 < 2 * m
  BY DEF Sent
<1>5. ASSUME NEW n
      PROVE  n \in Sent(s, f, m + 1) <=> n \in Sent(s, f, m) \/
               (n \in 1 .. Len(s) /\ m % 2 = 0 /\ n = 2 * m - 2 /\ s[n] = Str(f))
  BY <1>1, <1>2, <1>3, <1>4, Zenon
<1>6. \A n \in Sent(s, f, m + 1) : n \in Nat /\ n <= 2 * m - 2
  <2> SUFFICES ASSUME NEW n \in Sent(s, f, m + 1) PROVE n \in Nat /\ n <= 2 * m - 2
    OBVIOUS
  <2>1. n \in 1 .. Len(s) /\ n % 4 = 2 /\ n + 2 < 2 * (m + 1)
    BY <1>3
  <2> QED BY <1>1, <2>1
<1>7. m % 2 # 0 => Sent(s, f, m + 1) = Sent(s, f, m)
  BY <1>5
<1> QED BY <1>5, <1>6, <1>7

(* A token that is no key adds nothing to what was sent.                   *)
LEMMA DocSkip ==
  ASSUME Shape, Kinds, Placed, Sized, OpenObject, BeginsDocumented(js), OpenTokens = {},
         i \in 1 .. Len(tokens), ~IsKey(i), NEW f
  PROVE  Sent(js, f, i + 1) = Sent(js, f, i)
<1>1. /\ Len(js) \in Nat /\ Len(tokens) \in Nat /\ i \in Nat \ {0} /\ i <= Len(tokens)
  BY Lengths
<1>2. Len(tokens) % 2 = 1
  <2>1. Len(tokens) = 0 \/ Len(tokens) = 1 \/ Len(tokens) % 2 = 1
    BY DocClosed
  <2>2. Len(tokens) # 0
    BY <1>1
  <2>3. 1 % 2 = 1
    OBVIOUS
  <2> QED BY <2>1, <2>2, <2>3
<1>3. i % 2 # 0
  <2> SUFFICES ASSUME i % 2 = 0 PROVE FALSE
    OBVIOUS
  <2>1. i # Len(tokens) /\ i # 1
    BY <1>2
  <2>2. i \in 2 .. Len(tokens) /\ i < Len(tokens)
    BY <1>1, <2>1
  <2>3. tokens[i].size > 0 /\ tokens[i].type = JSMN_STRING
    BY <2>2 DEF Sized, Placed
  <2> QED BY <2>3 DEF IsKey
<1> QED BY <1>1, <1>3, SentNext

(* The position of a key that has a token behind it is in the payload.     *)
LEMMA KeyInside ==
  ASSUME NEW L \in Nat, NEW T \in Nat, NEW m \in Nat, NEW n \in Nat \ {0},
         m < T, n + 2 = 2 * m,
         (L = 0 /\ T = 0) \/ 2 * T - 2 = L \/ 2 * T - 1 = L \/ T = 1
  PROVE  L > 0 /\ n \in 1 .. L
  OBVIOUS

(* A key adds itself, and the value that is taken is the one behind it.    *)
LEMMA DocKey ==
  ASSUME Shape, Ranges, Kinds, Placed, Sized, BeginsDocumented(js),
         i \in 1 .. Len(tokens), i < Len(tokens), IsKey(i)
  PROVE  \E n \in 1 .. Len(js), t \in DocKeys :
           /\ tokens[i].start = n /\ tokens[i + 1].start = n + 2 /\ n % 4 = 2
           /\ n + 2 <= Len(js) /\ js[n] = Str(t) /\ js[tokens[i].start].text = t
           /\ js[n + 2].text \in DocValues /\ Length(tokens[i + 1]) = Len(js[n + 2].text)
           /\ \A f : /\ Sent(js, f, i + 1) = Sent(js, f, i) \cup (IF f = t THEN {n} ELSE {})
                    /\ \A m \in Sent(js, f, i + 1) : m \in Nat /\ m <= n
<1> DEFINE n == 2 * i - 2
<1>1. /\ Len(js) \in Nat /\ Len(tokens) \in Nat /\ i \in Nat \ {0} /\ i <= Len(tokens)
      /\ DOMAIN js = 1 .. Len(js)
  BY Lengths
<1>2. tokens[i].type = JSMN_STRING /\ tokens[i].size > 0
  BY DEF IsKey
<1>3. i # 1
  <2>1. JSMN_STRING # JSMN_OBJECT
    BY DEF JSMN_STRING, JSMN_OBJECT
  <2> QED BY <1>1, <1>2, <2>1 DEF Placed
<1>4. i \in 2 .. Len(tokens) /\ i + 1 \in 1 .. Len(tokens) /\ i + 1 # 1
  BY <1>1, <1>3
<1>5. i % 2 = 0
  <2>1. i % 2 # 1
    BY <1>2, <1>4 DEF Sized
  <2> QED BY <1>1, <2>1
<1>6. tokens[i].start = n /\ tokens[i + 1].start = n + 2
  <2>1. tokens[i].start = n /\ tokens[i + 1].start = 2 * i
    BY <1>1, <1>3, <1>4 DEF Placed, At
  <2> QED BY <1>1, <2>1
<1>7. n \in Nat \ {0} /\ n % 4 = 2 /\ n + 2 = 2 * i /\ (n + 2) % 4 = 0
  BY <1>1, <1>4, <1>5
<1>8. Len(js) > 0 /\ n \in 1 .. Len(js)
  <2>1. \/ Len(js) = 0 /\ Len(tokens) = 0
        \/ 2 * Len(tokens) - 2 = Len(js)
        \/ 2 * Len(tokens) - 1 = Len(js)
        \/ Len(tokens) = 1
    BY <1>1 DEF Placed
  <2> QED BY <1>1, <1>7, <2>1, KeyInside
<1> HIDE DEF n
<1>9. PICK t \in DocKeys : js[n] = Str(t)
  <2>1. js[n] \in DocLexemes(n)
    BY <1>1, <1>8 DEF BeginsDocumented
  <2>2. (\E t \in DocKeys : js[n] = Str(t)) \/ js[n] = EndObject
    BY <1>7, <2>1, DocLexeme
  <2>3. js[n].c = "str"
    BY <1>1, <1>2, <1>6 DEF Kinds
  <2>4. EndObject.c # "str"
    BY DocCharacters, Distinct
  <2> QED BY <2>2, <2>3, <2>4
<1>10. js[tokens[i].start].text = t
  BY <1>6, <1>9, DocCharacters
<1>11. n + 2 \in 1 .. Len(js) /\ js[n + 2].text \in DocValues /\ js[n + 2].c \in {"str", "prim"}
  <2>1. n + 2 \in 1 .. Len(js)
    BY <1>1, <1>4, <1>6 DEF Ranges
  <2>2. js[n + 2] \in DocLexemes(n + 2) /\ n + 2 \in Nat \ {0}
    BY <1>1, <2>1 DEF BeginsDocumented
  <2> QED BY <1>7, <2>1, <2>2, DocLexeme
<1>12. Length(tokens[i + 1]) = Len(js[n + 2].text)
  BY <1>6, <1>11, Distinct DEF Length
<1>13. ASSUME NEW f
       PROVE  /\ Sent(js, f, i + 1) = Sent(js, f, i) \cup (IF f = t THEN {n} ELSE {})
              /\ \A m \in Sent(js, f, i + 1) : m \in Nat /\ m <= n
  <2>1. /\ \A m : m \in Sent(js, f, i + 1) <=> m \in Sent(js, f, i) \/
                (m \in 1 .. Len(js) /\ i % 2 = 0 /\ m = n /\ js[m] = Str(f))
        /\ \A m \in Sent(js, f, i + 1) : m \in Nat /\ m <= n
    BY <1>1, SentNext DEF n
  <2>2. js[n] = Str(f) <=> f = t
    BY <1>9, DocCharacters
  <2>3. \A m : m \in Sent(js, f, i + 1) <=> m \in Sent(js, f, i) \/ (m = n /\ f = t)
    BY <1>5, <1>8, <2>1, <2>2
  <2> QED BY <2>1, <2>3
<1>14. n + 2 <= Len(js)
  BY <1>1, <1>11
<1> QED BY <1>6, <1>7, <1>8, <1>9, <1>10, <1>11, <1>12, <1>13, <1>14

(* The last value, when one more has been sent.                            *)
LEMMA LastValueTakes ==
  ASSUME NEW S, NEW T, NEW n \in Nat, NEW new \in BOOLEAN,
         T = S \cup (IF new THEN {n} ELSE {}), \A m \in T : m \in Nat /\ m <= n
  PROVE  LastValue(T) = IF new THEN n + 2 ELSE LastValue(S)
<1>1. CASE new
  <2>1. n \in T /\ T \subseteq Nat /\ T # {}
    BY <1>1
  <2>2. LastOf(T) = n
    BY <2>1, LastIs
  <2> QED BY <1>1, <2>1, <2>2 DEF LastValue
<1>2. CASE ~new
  <2>1. T = S
    BY <1>2
  <2> QED BY <1>2, <2>1
<1> QED BY <1>1, <1>2

LEMMA DocTake ==
  ASSUME Shape, Ranges, Kinds, Placed, Sized, BeginsDocumented(js),
         i \in 1 .. Len(tokens), i < Len(tokens), IsKey(i), NEW f \in ToSet(Fields)
  PROVE  LET asked == Asked(js[tokens[i].start].text)
             value == tokens[i + 1]
         IN  /\ LastValue(Sent(js, f, i + 1)) =
                  IF f \in asked THEN value.start ELSE LastValue(Sent(js, f, i))
             /\ \A c \in 1 .. NameSize : LastValue(Reaching(js, f, i + 1, c)) =
                  IF f \in asked /\ c <= Length(value) THEN value.start
                  ELSE LastValue(Reaching(js, f, i, c))
             /\ f \in asked /\ f \in Copied => Length(value) \in Nat /\ Length(value) <= NameSize
<1>1. PICK n \in 1 .. Len(js), t \in DocKeys :
        /\ tokens[i].start = n /\ tokens[i + 1].start = n + 2 /\ n % 4 = 2
        /\ n + 2 <= Len(js) /\ js[n] = Str(t) /\ js[tokens[i].start].text = t
        /\ js[n + 2].text \in DocValues /\ Length(tokens[i + 1]) = Len(js[n + 2].text)
        /\ \A g : /\ Sent(js, g, i + 1) = Sent(js, g, i) \cup (IF g = t THEN {n} ELSE {})
                 /\ \A m \in Sent(js, g, i + 1) : m \in Nat /\ m <= n
  BY DocKey
<1>2. n \in Nat /\ Len(js) \in Nat /\ DOMAIN js = 1 .. Len(js)
  BY Lengths
<1>3. f \in Asked(t) <=> f = t
  BY AskedFacts
<1>4. LastValue(Sent(js, f, i + 1)) = IF f = t THEN n + 2 ELSE LastValue(Sent(js, f, i))
  <2> DEFINE new == f = t
             S == Sent(js, f, i)
             T == Sent(js, f, i + 1)
  <2>1. /\ new \in BOOLEAN /\ T = S \cup (IF new THEN {n} ELSE {})
        /\ \A m \in T : m \in Nat /\ m <= n
    BY <1>1
  <2> HIDE DEF new, S, T
  <2>2. LastValue(T) = IF new THEN n + 2 ELSE LastValue(S)
    BY <1>2, <2>1, LastValueTakes
  <2> QED BY <2>2 DEF new, S, T
<1>5. ASSUME NEW c \in 1 .. NameSize
      PROVE  LastValue(Reaching(js, f, i + 1, c)) =
               IF f = t /\ c <= Len(js[n + 2].text) THEN n + 2 ELSE LastValue(Reaching(js, f, i, c))
  <2> DEFINE new == f = t /\ c <= Len(js[n + 2].text)
             S == Reaching(js, f, i, c)
             T == Reaching(js, f, i + 1, c)
  <2>1. T = S \cup (IF new THEN {n} ELSE {})
    <3>1. \A m : m \in Sent(js, f, i + 1) <=> m \in Sent(js, f, i) \/ (f = t /\ m = n)
      BY <1>1
    <3>2. /\ \A m : m \in T <=> m \in Sent(js, f, i + 1) /\ c <= Len(js[m + 2].text)
          /\ \A m : m \in S <=> m \in Sent(js, f, i) /\ c <= Len(js[m + 2].text)
      BY DEF Reaching
    <3>3. \A m : m \in T <=> m \in S \/ (new /\ m = n)
      <4> HIDE DEF S, T
      <4> QED BY <3>1, <3>2, Zenon
    <3> HIDE DEF new, S, T
    <3> QED BY <3>3
  <2>2. \A m \in T : m \in Nat /\ m <= n
    BY <1>1 DEF Reaching
  <2>3. new \in BOOLEAN
    OBVIOUS
  <2> HIDE DEF new, S, T
  <2>4. LastValue(T) = IF new THEN n + 2 ELSE LastValue(S)
    BY <1>2, <2>1, <2>2, <2>3, LastValueTakes
  <2> QED BY <2>4 DEF new, S, T
<1>6. ASSUME f = t, f \in Copied
      PROVE  Len(js[n + 2].text) \in Nat /\ Len(js[n + 2].text) <= NameSize
  <2>1. NameFits(js, n)
    BY <1>2 DEF BeginsDocumented
  <2>2. js[n] \in {Str(g) : g \in Copied}
    BY <1>1, <1>6
  <2>3. js[n + 2].text \in Seq(STRING)
    BY <1>1, DocAssumption
  <2> QED BY <1>1, <2>1, <2>2, <2>3 DEF NameFits
<1> QED BY <1>1, <1>3, <1>4, <1>5, <1>6

(* A documented name stays within its member.                              *)
LEMMA DocOverruns ==
  ASSUME Shape, Ranges, Kinds, Placed, Sized, BeginsDocumented(js),
         i \in 1 .. Len(tokens), i < Len(tokens), IsKey(i)
  PROVE  ~Overruns(Asked(js[tokens[i].start].text), tokens[i + 1])
<1> DEFINE asked == Asked(js[tokens[i].start].text)
           value == tokens[i + 1]
<1>1. ASSUME NEW f \in Copied, f \in asked
      PROVE  Length(value) \in Nat /\ Length(value) <= NameSize
  <2>1. f \in ToSet(Fields)
    BY JsonAssumption
  <2> QED BY <1>1, <2>1, DocTake
<1> HIDE DEF asked, value
<1>2. ~Overruns(asked, value)
  BY <1>1, JsonAssumption DEF Overruns
<1> QED BY <1>2 DEF asked, value

(***************************************************************************)
(* DocInv is inductive                                                     *)
(***************************************************************************)
LEMMA InitDocInv == Init => DocInv
<1> SUFFICES ASSUME Init PROVE DocInv
  OBVIOUS
<1>1. /\ Len(js) = 0 /\ Len(tokens) = 0 /\ toksuper = 0 /\ pc = "parse" /\ r = "none"
      /\ tokens = <<>> /\ fields = [f \in Numbers |-> NONE]
      /\ names = [f \in Copied |-> [c \in 1 .. NameSize |-> NONE]]
  BY DEF Init, NONE
<1>2. OpenTokens = {}
  BY <1>1 DEF OpenTokens
<1>3. Placed /\ Sized
  BY <1>1 DEF Placed, Sized
<1>4. OpenObject /\ Returned /\ Filled
  BY <1>1, <1>2 DEF OpenObject, Returned, Filled
<1> QED BY <1>3, <1>4 DEF DocInv

LEMMA NextDocInv == IInv /\ DocInv /\ [Next]_vars => DocInv'
<1> SUFFICES ASSUME IInv, DocInv, [Next]_vars PROVE DocInv'
  OBVIOUS
<1>1. Shape /\ Ranges /\ Kinds /\ Len(js) \in Nat /\ Len(tokens) \in Nat
  BY Lengths DEF IInv
<1>2. CASE Parse /\ ~ParseEnd
  BY <1>1, <1>2, ParserSteps, DocStep
<1>3. ASSUME UNCHANGED <<js, tokens, toksuper>>, BeginsDocumented(js')
      PROVE  /\ Placed /\ Sized /\ OpenObject /\ Returned /\ Filled /\ BeginsDocumented(js)
             /\ Placed' /\ Sized' /\ OpenObject' /\ OpenTokens' = OpenTokens
  <2>1. BeginsDocumented(js) /\ OpenTokens' = OpenTokens
    BY <1>3 DEF OpenTokens
  <2>2. Placed /\ Sized /\ OpenObject /\ Returned /\ Filled
    BY <2>1 DEF DocInv
  <2> QED BY <1>3, <2>1, <2>2 DEF Placed, Sized, OpenObject
<1>4. CASE ParseEnd
  <2> SUFFICES ASSUME BeginsDocumented(js')
               PROVE  Placed' /\ Sized' /\ OpenObject' /\ Returned' /\ Filled'
    BY DEF DocInv
  <2>1. UNCHANGED <<js, tokens, toksuper, i, fields, names>> /\ pc = "parse" /\ i = 1
    BY <1>1, <1>4 DEF ParseEnd, Error, Shape
  <2>2. /\ Placed' /\ Sized' /\ OpenObject' /\ OpenTokens' = OpenTokens /\ Returned /\ Filled
    BY <1>3, <2>1
  <2>3. \/ OpenTokens # {} /\ r' = "JSMN_ERROR_PART" /\ pc' = "done"
        \/ OpenTokens = {} /\ r' = "count" /\ pc' = "keys"
    BY <1>4 DEF ParseEnd, Error
  <2>4. Returned'
    BY <2>2, <2>3 DEF Returned
  <2>5. /\ \A f \in Numbers : fields[f] = LastValue(Sent(js, f, 1))
        /\ \A f \in Copied, c \in 1 .. NameSize : names[f][c] = LastValue(Reaching(js, f, 1, c))
    <3>1. ASSUME NEW f PROVE Sent(js, f, 1) = {}
      BY <1>1 DEF Sent
    <3>2. ASSUME NEW f, NEW c PROVE Reaching(js, f, 1, c) = {}
      BY <3>1 DEF Reaching
    <3> QED BY <2>1, <2>2, <3>1, <3>2 DEF LastValue, Filled, Returned
  <2>6. Filled'
    BY <2>1, <2>3, <2>5 DEF Filled
  <2> QED BY <2>2, <2>4, <2>6
<1>5. CASE KeySkip \/ KeyTake
  <2> SUFFICES ASSUME BeginsDocumented(js')
               PROVE  Placed' /\ Sized' /\ OpenObject' /\ Returned' /\ Filled'
    BY DEF DocInv
  <2>1. UNCHANGED <<js, tokens, toksuper, pc, r>> /\ pc = "keys" /\ i' = i + 1 /\ i <= Len(tokens)
    BY <1>1, <1>5 DEF KeySkip, KeyTake, Shape
  <2>2. /\ Placed /\ Sized /\ OpenObject /\ Returned /\ Filled /\ BeginsDocumented(js)
        /\ Placed' /\ Sized' /\ OpenObject' /\ OpenTokens' = OpenTokens
    BY <1>3, <2>1
  <2>3. r = "count" /\ OpenTokens = {}
    BY <2>1, <2>2 DEF Returned
  <2>4. Returned'
    BY <2>1, <2>2, <2>3 DEF Returned
  <2>5. i \in 1 .. Len(tokens)
    BY <1>1, <2>1 DEF Shape
  <2>6. /\ \A f \in Numbers : fields'[f] = LastValue(Sent(js, f, i + 1))
        /\ \A f \in Copied, c \in 1 .. NameSize :
             names'[f][c] = LastValue(Reaching(js, f, i + 1, c))
    <3>1. /\ \A f \in Numbers : fields[f] = LastValue(Sent(js, f, i))
          /\ \A f \in Copied, c \in 1 .. NameSize : names[f][c] = LastValue(Reaching(js, f, i, c))
      BY <2>2, <2>3 DEF Filled
    <3>2. CASE KeySkip
      <4>1. ~IsKey(i) /\ fields' = fields /\ names' = names
        BY <3>2 DEF KeySkip
      <4>2. \A f : Sent(js, f, i + 1) = Sent(js, f, i)
        BY <1>1, <2>2, <2>3, <2>5, <4>1, DocSkip
      <4>3. \A f, c : Reaching(js, f, i + 1, c) = Reaching(js, f, i, c)
        BY <4>2 DEF Reaching
      <4> QED BY <3>1, <4>1, <4>2, <4>3
    <3>3. CASE KeyTake
      <4> DEFINE asked == Asked(js[tokens[i].start].text)
                 value == tokens[i + 1]
      <4>1. i < Len(tokens) /\ IsKey(i)
        BY <3>3 DEF KeyTake
      <4>2. ASSUME NEW f \in ToSet(Fields)
            PROVE  /\ LastValue(Sent(js, f, i + 1)) =
                        IF f \in asked THEN value.start ELSE LastValue(Sent(js, f, i))
                   /\ \A c \in 1 .. NameSize : LastValue(Reaching(js, f, i + 1, c)) =
                        IF f \in asked /\ c <= Length(value) THEN value.start
                        ELSE LastValue(Reaching(js, f, i, c))
        BY <1>1, <2>2, <2>5, <4>1, DocTake
      <4>3. fields' = [f \in Numbers |-> IF f \in asked THEN value.start ELSE fields[f]]
        <5>1. ~Overruns(asked, value)
          BY <1>1, <2>2, <2>5, <4>1, DocOverruns
        <5>2. PICK spilt \in Spills(asked, value) :
                fields' = [f \in Numbers |->
                             IF f \in asked \cup spilt THEN value.start ELSE fields[f]]
          BY <3>3 DEF KeyTake
        <5>3. spilt = {}
          BY <5>1, <5>2 DEF Spills
        <5> QED BY <5>2, <5>3
      <4>4. names' = [f \in Copied |-> [c \in 1 .. NameSize |->
                        IF f \in asked /\ c <= Length(value) THEN value.start ELSE names[f][c]]]
        BY <3>3 DEF KeyTake
      <4> HIDE DEF asked, value
      <4>5. ASSUME NEW f \in Numbers
            PROVE  fields'[f] = LastValue(Sent(js, f, i + 1))
        BY <3>1, <4>2, <4>3 DEF Numbers
      <4>6. ASSUME NEW f \in Copied, NEW c \in 1 .. NameSize
            PROVE  names'[f][c] = LastValue(Reaching(js, f, i + 1, c))
        BY <3>1, <4>2, <4>4, JsonAssumption
      <4> QED BY <4>5, <4>6
    <3> QED BY <1>5, <3>2, <3>3
  <2>7. Filled'
    BY <2>1, <2>3, <2>6 DEF Filled
  <2> QED BY <2>2, <2>4, <2>7
<1>6. CASE KeyOverrun
  <2> SUFFICES ASSUME BeginsDocumented(js') PROVE FALSE
    BY DEF DocInv
  <2>1. /\ UNCHANGED <<js, tokens, toksuper>> /\ pc = "keys" /\ i < Len(tokens) /\ IsKey(i)
        /\ Overruns(Asked(js[tokens[i].start].text), tokens[i + 1])
    BY <1>6 DEF KeyOverrun
  <2>2. Placed /\ Sized /\ BeginsDocumented(js)
    BY <1>3, <2>1
  <2>3. i \in 1 .. Len(tokens)
    BY <1>1, <2>1 DEF Shape
  <2> QED BY <1>1, <2>1, <2>2, <2>3, DocOverruns
<1>7. CASE KeysEnd \/ Done \/ UNCHANGED vars
  <2> SUFFICES ASSUME BeginsDocumented(js')
               PROVE  Placed' /\ Sized' /\ OpenObject' /\ Returned' /\ Filled'
    BY DEF DocInv
  <2>1. /\ UNCHANGED <<js, tokens, toksuper, r, i, fields, names>>
        /\ pc' = pc \/ (pc = "keys" /\ pc' = "done" /\ i = Len(tokens) + 1)
    BY <1>1, <1>7 DEF KeysEnd, Done, vars, Shape
  <2>2. /\ Placed' /\ Sized' /\ OpenObject' /\ OpenTokens' = OpenTokens /\ Returned /\ Filled
    BY <1>3, <2>1
  <2>3. Returned'
    BY <2>1, <2>2 DEF Returned
  <2>4. Filled'
    BY <2>1, <2>2 DEF Filled
  <2> QED BY <2>2, <2>3, <2>4
<1> QED BY <1>2, <1>4, <1>5, <1>6, <1>7 DEF Next, Parse

(* FieldsAsDocumented for any number of names, documented keys and members *)
(* that fit the tokens: jsmn_parse() accepts a documented message, the     *)
(* loop over its keys gives each number the last value sent under its name *)
(* and strncpy() leaves of a text, character by character, the last value  *)
(* that reached so far, without leaving the member.                        *)
THEOREM DocumentedFields == Spec => []FieldsAsDocumented
<1>1. IInv /\ DocInv => FieldsAsDocumented
  <2> SUFFICES ASSUME IInv, DocInv, pc \in {"done", "overrun"}, Documented(js)
               PROVE  /\ pc = "done" /\ r = "count"
                      /\ \A f \in Numbers : fields[f] = LastValue(SentFor(f))
                      /\ \A f \in Copied, c \in 1 .. NameSize :
                           names[f][c] = LastValue({n \in SentFor(f) : c <= Len(js[n + 2].text)})
    BY DEF FieldsAsDocumented
  <2>1. /\ Shape /\ Kinds /\ Len(js) \in Nat /\ Len(tokens) \in Nat
        /\ DOMAIN js = 1 .. Len(js) /\ js \in Seq(Payload)
    BY Lengths DEF IInv, Shape
  <2>2. BeginsDocumented(js) /\ Len(js) > 0 /\ js[Len(js)] = EndObject
    <3>1. BeginsDocumented(js) /\ js # <<>> /\ Last(js) = EndObject
      BY DEF Documented
    <3> QED BY <2>1, <3>1 DEF Last
  <2>3. Placed /\ Sized /\ OpenObject /\ Returned /\ Filled
    BY <2>2 DEF DocInv
  <2>4. OpenTokens = {}
    BY <2>2, <2>3 DEF OpenObject
  <2>5. pc = "done" /\ r = "count" /\ i = Len(tokens) + 1
    BY <2>3, <2>4 DEF Returned
  <2>6. ASSUME NEW f
        PROVE  SentFor(f) = Sent(js, f, i)
    <3>1. \/ Len(js) = 2 /\ Len(tokens) = 1 /\ js[2] = EndObject
          \/ Len(js) = 2 * Len(tokens) - 1
      BY <2>1, <2>2, <2>3, <2>4, DocClosed
    <3>2. EndObject # Str(f)
      BY DocCharacters, Distinct
    <3>3. ASSUME NEW n \in 1 .. Len(js), n % 4 = 2, js[n] = Str(f)
          PROVE  n + 2 < 2 * i
      <4>1. n # 2 \/ js[2] # EndObject
        BY <3>2, <3>3
      <4>2. CASE Len(js) = 2 /\ Len(tokens) = 1 /\ js[2] = EndObject
        <5>1. n = 2
          BY <3>3, <4>2
        <5> QED BY <4>1, <4>2, <5>1
      <4>3. CASE Len(js) = 2 * Len(tokens) - 1
        BY <2>1, <2>5, <3>3, <4>3
      <4> QED BY <3>1, <4>2, <4>3
    <3> QED BY <2>1, <3>3 DEF Sent, SentFor
  <2>7. ASSUME NEW f \in Copied, NEW c \in 1 .. NameSize
        PROVE  names[f][c] = LastValue({n \in SentFor(f) : c <= Len(js[n + 2].text)})
    BY <2>3, <2>5, <2>6 DEF Filled, Reaching
  <2>8. \A f \in Numbers : fields[f] = LastValue(SentFor(f))
    BY <2>3, <2>5, <2>6 DEF Filled
  <2> QED BY <2>5, <2>7, <2>8
<1>2. Spec => []IInv
  BY ParserInductive
<1> QED BY <1>1, <1>2, InitDocInv, NextDocInv, PTL DEF Spec
=============================================================================
