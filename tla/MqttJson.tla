------------------------------ MODULE MqttJson ------------------------------
(***************************************************************************)
(* How a payload becomes an event: jsmn_parse() of applications/jsmn.c, as *)
(* it is compiled here (neither JSMN_STRICT nor JSMN_PARENT_LINKS), and    *)
(* the loop over the keys that the three callbacks of                      *)
(* applications/mqtt_link.c share.                                         *)
(*                                                                         *)
(* A payload is a sequence of lexemes: brackets, colons, commas, blanks,   *)
(* strings and primitives with their text, and strings and primitives the  *)
(* parser rejects.  It is chosen while it is read, so js is the part read  *)
(* so far, and positions count lexemes.  Indices into tokens begin at 1.   *)
(***************************************************************************)
EXTENDS Naturals, Sequences, FiniteSets, SequencesExt, Functions

CONSTANTS
    num_tokens,        \* MQTT_MAX_JSON_TOKENS
    Fields,            \* the names a callback asks for, in that order
    Copied, NameSize,  \* those whose text is copied, MAX_DEVICE_NAME_LEN
    Keys, Values,      \* the texts of strings and of primitives
    MaxLexemes,        \* bound on payloads that are not Documented ...
    MaxMembers,        \* ... and on those that are
    DocKeys, DocValues \* keys and values of the documented messages

ASSUME JsonAssumption ==
    /\ num_tokens \in Nat \ {0} /\ MaxLexemes \in Nat /\ MaxMembers \in Nat
    /\ Fields \in Seq(Seq(STRING)) /\ IsInjective(Fields)
    /\ Copied \subseteq ToSet(Fields) /\ NameSize \in Nat

(* The tokens suffice for the documented messages, and no documented key   *)
(* begins a longer name.                                                   *)
ASSUME DocAssumption ==
    /\ 2 * MaxMembers + 1 <= num_tokens
    /\ DocValues \subseteq Seq(STRING)
    /\ \A key \in DocKeys, n \in DOMAIN Fields : IsPrefix(key, Fields[n]) => key = Fields[n]

VARIABLES
    js,
    tokens, toksuper,
    pc,                \* "parse", "keys" the loop of the callback, "done",
                       \* "overrun" its stack has been written over
    r,                 \* what jsmn_parse() returned
    i,                 \* the index of that loop
    nulled,            \* the characters the callback has overwritten
    fields,            \* for each number of the event, where its value begins
    names              \* for each character of a text, where its value begins

vars == <<js, tokens, toksuper, pc, r, i, nulled, fields, names>>

(* The members that atoi() fills.                                          *)
Numbers == ToSet(Fields) \ Copied

Lex(c) == [c |-> c, text |-> <<>>]
Str(t) == [c |-> "str", text |-> t]
Prim(t) == [c |-> "prim", text |-> t]

Opening == {"{", "["}
Closing == {"}", "]"}
Lexemes ==
    {Lex(c) : c \in Opening \cup Closing \cup {":", ",", " ", "badstr", "badprim"}}
        \cup {Str(t) : t \in Keys} \cup {Prim(t) : t \in Values}

(* The messages the README documents, { key : value , key : value ... },   *)
(* with a string or a primitive for each value and NameSize characters in  *)
(* a name.                                                                 *)
BeginObject == Lex("{")
EndObject == Lex("}")
Comma == Lex(",")
DocLexemes(n) ==
    CASE n = 1 -> {BeginObject}
      [] n = 2 -> {Str(t) : t \in DocKeys} \cup {EndObject}
      [] n > 2 /\ n % 4 = 2 -> {Str(t) : t \in DocKeys}
      [] n % 4 = 3 -> {Lex(":")}
      [] n % 4 = 0 -> {Str(t) : t \in DocValues} \cup {Prim(t) : t \in DocValues}
      [] n > 1 /\ n % 4 = 1 -> {Comma, EndObject}

NameFits(s, n) ==
    n % 4 = 2 /\ n + 2 <= Len(s) /\ s[n] \in {Str(f) : f \in Copied} =>
        Len(s[n + 2].text) <= NameSize

BeginsDocumented(s) ==
    /\ Len(s) <= 4 * MaxMembers + 1
    /\ \A n \in DOMAIN s : s[n] \in DocLexemes(n) /\ (s[n] = EndObject => n = Len(s))
    /\ \A n \in DOMAIN s : NameFits(s, n)

Documented(s) == s # <<>> /\ Last(s) = EndObject /\ BeginsDocumented(s)

Scalars ==
    {Str(t) : t \in Keys \cup DocKeys \cup DocValues} \cup {Prim(t) : t \in Values \cup DocValues}

(* A primitive extends to the next delimiter.                              *)
Separate(l) ==
    js # <<>> /\ Last(js).c = "prim" => l.c \in Closing \cup {":", ",", " "}

(* The next lexeme of the payload.                                         *)
Reads(l) ==
    /\ pc = "parse"
    /\ Separate(l)
    /\ \/ Len(js) < MaxLexemes /\ l \in Lexemes
       \/ BeginsDocumented(Append(js, l))
    /\ js' = Append(js, l)

NONE == 0
OPEN == 0
JSMN_OBJECT == "object"
JSMN_ARRAY == "array"
JSMN_STRING == "string"
JSMN_PRIMITIVE == "primitive"
Type(c) == IF c \in {"{", "}"} THEN JSMN_OBJECT ELSE JSMN_ARRAY

Init ==
    /\ js = <<>>
    /\ tokens = <<>> /\ toksuper = NONE
    /\ pc = "parse" /\ r = "none"
    /\ i = 1 /\ nulled = {}
    /\ fields = [f \in Numbers |-> NONE]
    /\ names = [f \in Copied |-> [c \in 1 .. NameSize |-> NONE]]

(* A callback returns at an error.                                         *)
Error(e) ==
    /\ r' = e /\ pc' = "done"
    /\ UNCHANGED <<tokens, toksuper, i, nulled, fields, names>>

Goes == UNCHANGED <<pc, r, i, nulled, fields, names>>

(* jsmn_alloc_token(), jsmn_fill_token() and the count of the super token. *)
Alloc(tok) ==
    tokens' = Append([k \in DOMAIN tokens |->
                        IF k = toksuper THEN [tokens[k] EXCEPT !.size = @ + 1]
                        ELSE tokens[k]], tok)

Token(type, start, end) == [type |-> type, start |-> start, end |-> end, size |-> 0]

OpenTokens == {k \in DOMAIN tokens : tokens[k].end = OPEN}
LastOf(S) ==
    LET last == {k \in S : \A l \in S : l <= k}
    IN  IF last = {} THEN NONE ELSE CHOOSE k \in last : TRUE

\* Mutant: one token more than the array has.
ParseOpenMutant ==
    \E c \in Opening :
        /\ Reads(Lex(c))
        /\ \/ Len(tokens) > num_tokens /\ Error("JSMN_ERROR_NOMEM")
           \/ /\ Len(tokens) <= num_tokens
              /\ Alloc(Token(Type(c), Len(js'), OPEN))
              /\ toksuper' = Len(tokens')
              /\ Goes

ParseOpen ==
    \E c \in Opening :
        /\ Reads(Lex(c))
        /\ \/ Len(tokens) >= num_tokens /\ Error("JSMN_ERROR_NOMEM")
           \/ /\ Len(tokens) < num_tokens
              /\ Alloc(Token(Type(c), Len(js'), OPEN))
              /\ toksuper' = Len(tokens')
              /\ Goes

Opened(k, c) == k # NONE /\ tokens[k].type = Type(c)

\* Mutant: a closing bracket leaves the super token alone.
ParseCloseMutant ==
    \E c \in Closing :
        /\ Reads(Lex(c))
        /\ LET k == LastOf(OpenTokens)
           IN  \/ ~Opened(k, c) /\ Error("JSMN_ERROR_INVAL")
               \/ /\ Opened(k, c)
                  /\ tokens' = [tokens EXCEPT ![k].end = Len(js')]
                  /\ UNCHANGED toksuper
                  /\ Goes

\* Mutant: the first open token is closed.
ParseCloseFirstMutant ==
    \E c \in Closing :
        /\ Reads(Lex(c))
        /\ LET k == IF OpenTokens = {} THEN NONE
                    ELSE CHOOSE n \in OpenTokens : \A l \in OpenTokens : n <= l
           IN  \/ ~Opened(k, c) /\ Error("JSMN_ERROR_INVAL")
               \/ /\ Opened(k, c)
                  /\ tokens' = [tokens EXCEPT ![k].end = Len(js')]
                  /\ toksuper' = LastOf(OpenTokens \ {k})
                  /\ Goes

(* The last open token is closed and the one before it continues.          *)
ParseClose ==
    \E c \in Closing :
        /\ Reads(Lex(c))
        /\ LET k == LastOf(OpenTokens)
           IN  \/ ~Opened(k, c) /\ Error("JSMN_ERROR_INVAL")
               \/ /\ Opened(k, c)
                  /\ tokens' = [tokens EXCEPT ![k].end = Len(js')]
                  /\ toksuper' = LastOf(OpenTokens \ {k})
                  /\ Goes

(* jsmn_parse_string(), jsmn_parse_primitive()                             *)
ParseValue ==
    \/ \E l \in Scalars :
         /\ Reads(l)
         /\ \/ Len(tokens) >= num_tokens /\ Error("JSMN_ERROR_NOMEM")
            \/ /\ Len(tokens) < num_tokens
               /\ Alloc(Token(IF l.c = "str" THEN JSMN_STRING ELSE JSMN_PRIMITIVE,
                              Len(js'), Len(js')))
               /\ UNCHANGED toksuper
               /\ Goes
    \/ Reads(Lex("badstr")) /\ \E e \in {"JSMN_ERROR_INVAL", "JSMN_ERROR_PART"} : Error(e)
    \/ Reads(Lex("badprim")) /\ Error("JSMN_ERROR_INVAL")

(* What follows belongs to the last token.                                 *)
ParseColon ==
    /\ Reads(Lex(":"))
    /\ toksuper' = Len(tokens)
    /\ UNCHANGED tokens /\ Goes

\* Mutant: a comma does what a colon does.
ParseCommaMutant ==
    /\ Reads(Lex(","))
    /\ toksuper' = Len(tokens)
    /\ UNCHANGED tokens /\ Goes

(* After the value of a member the object continues.                       *)
ParseComma ==
    /\ Reads(Lex(","))
    /\ toksuper' = IF toksuper # NONE /\ tokens[toksuper].type \in {JSMN_STRING, JSMN_PRIMITIVE}
                      /\ OpenTokens # {}
                   THEN LastOf(OpenTokens) ELSE toksuper
    /\ UNCHANGED tokens /\ Goes

ParseBlank == Reads(Lex(" ")) /\ UNCHANGED <<tokens, toksuper>> /\ Goes

(* The payload ends.                                                       *)
ParseEnd ==
    /\ pc = "parse"
    /\ \/ OpenTokens # {} /\ Error("JSMN_ERROR_PART")
       \/ /\ OpenTokens = {}
          /\ pc' = "keys" /\ r' = "count"
          /\ UNCHANGED <<tokens, toksuper, i, nulled, fields, names>>
    /\ UNCHANGED js

Parse ==
    ParseOpen \/ ParseClose \/ ParseValue \/ ParseColon \/ ParseComma \/ ParseBlank \/ ParseEnd

(***************************************************************************)
(* The loop of the callbacks                                               *)
(***************************************************************************)
IsKey(k) == tokens[k].type = JSMN_STRING /\ tokens[k].size > 0

KeySkip ==
    /\ pc = "keys" /\ i <= Len(tokens) /\ ~IsKey(i)
    /\ i' = i + 1
    /\ UNCHANGED <<js, tokens, toksuper, pc, r, nulled, fields, names>>

(* strncmp() over the length of the key: the first name it begins.         *)
Asked(key) ==
    LET hits == {n \in DOMAIN Fields : IsPrefix(key, Fields[n])}
    IN  IF hits = {} THEN {} ELSE {Fields[CHOOSE n \in hits : \A o \in hits : n <= o]}

(* value[value_len]: the closing quote, or what follows the value.         *)
Terminator(tok) ==
    IF tok.type = JSMN_STRING THEN <<tok.end, "last">> ELSE <<tok.end + 1, "first">>

(* Characters of a token's text that belong to no string's quotes alone.   *)
TextOf(tok) ==
    CASE tok.type = JSMN_STRING -> {}
      [] tok.type = JSMN_PRIMITIVE -> {<<tok.start, "first">>}
      [] OTHER -> (tok.start .. tok.end) \X {"first", "last"}

(* value_len: a string without its quotes, and a whole object or array.    *)
Width(l) ==
    CASE l.c = "str" -> Len(l.text) + 2
      [] l.c = "prim" -> Len(l.text)
      [] OTHER -> 1
Characters(a, b) == UNION {{n} \X (1 .. Width(js[n])) : n \in a .. b}
\* Mutant: the zero behind a string is copied as well.
LengthMutant(tok) ==
    IF js[tok.start].c \in Opening THEN Cardinality(Characters(tok.start, tok.end))
    ELSE Len(js[tok.start].text) + 1

Length(tok) ==
    IF js[tok.start].c \in Opening THEN Cardinality(Characters(tok.start, tok.end))
    ELSE Len(js[tok.start].text)

(* strncpy(config.name, value, value_len) bounds nothing and ends nothing: *)
(* a shorter text leaves the tail of an earlier one, and a longer one goes *)
(* into the members that follow, some or all, ...                          *)
Overruns(asked, value) == asked \cap Copied # {} /\ Length(value) > NameSize
Spills(asked, value) == IF Overruns(asked, value) THEN SUBSET Numbers ELSE {{}}

KeyTake ==
    /\ pc = "keys" /\ i < Len(tokens) /\ IsKey(i)
    /\ LET value == tokens[i + 1]
           asked == Asked(js[tokens[i].start].text)
       IN  /\ nulled' = nulled \cup {Terminator(value)}
           /\ names' = [f \in Copied |-> [c \in 1 .. NameSize |->
                          IF f \in asked /\ c <= Length(value) THEN value.start
                          ELSE names[f][c]]]
           /\ \E spilt \in Spills(asked, value) :
                fields' = [f \in Numbers |->
                             IF f \in asked \cup spilt THEN value.start ELSE fields[f]]
    /\ i' = i + 1
    /\ UNCHANGED <<js, tokens, toksuper, pc, r>>

(* ... and past the event into the stack of the thread.                    *)
KeyOverrun ==
    /\ pc = "keys" /\ i < Len(tokens) /\ IsKey(i)
    /\ Overruns(Asked(js[tokens[i].start].text), tokens[i + 1])
    /\ pc' = "overrun"
    /\ UNCHANGED <<js, tokens, toksuper, r, i, nulled, fields, names>>

KeysEnd ==
    /\ pc = "keys" /\ i > Len(tokens)
    /\ pc' = "done"
    /\ UNCHANGED <<js, tokens, toksuper, r, i, nulled, fields, names>>

Done == pc \in {"done", "overrun"} /\ UNCHANGED vars

Next == Parse \/ KeySkip \/ KeyTake \/ KeyOverrun \/ KeysEnd \/ Done

Spec == Init /\ [][Next]_vars

(***************************************************************************)
(* Properties                                                              *)
(***************************************************************************)

(* The tokens stay within the array of the callback, and the super token   *)
(* and the members of the event refer to what has been parsed.             *)
TypeOK ==
    /\ Len(tokens) <= num_tokens
    /\ toksuper \in {NONE} \cup DOMAIN tokens
    /\ pc \in {"parse", "keys", "done", "overrun"}
    /\ i \in 1 .. Len(tokens) + 1
    /\ fields \in [Numbers -> {NONE} \cup DOMAIN js]
    /\ names \in [Copied -> [1 .. NameSize -> {NONE} \cup DOMAIN js]]
    /\ \A k \in DOMAIN tokens :
         /\ tokens[k].start \in DOMAIN js /\ tokens[k].end \in {OPEN} \cup DOMAIN js
         /\ tokens[k].size \in 0 .. Len(tokens)

(* The loop of a callback takes tokens[i + 1] for the value of every       *)
(* string it takes for a key: there is such a token, and a colon between   *)
(* the two, however far the payload is from JSON.                          *)
KeyHasValue ==
    pc = "keys" => \A k \in DOMAIN tokens : IsKey(k) =>
        /\ k < Len(tokens)
        /\ \E n \in tokens[k].end .. tokens[k + 1].start : js[n].c = ":"

(* A callback overwrites characters of the payload that it still reads     *)
(* from: when it comes to a value, no zero has been written into it.       *)
ValuesAsSent ==
    pc = "keys" /\ i < Len(tokens) /\ IsKey(i) => TextOf(tokens[i + 1]) \cap nulled = {}

(* Where the bracket at n is closed, if it is.                             *)
Opens(a, b) == Cardinality({n \in a .. b : js[n].c \in Opening})
Closes(a, b) == Cardinality({n \in a .. b : js[n].c \in Closing})
ClosedAt(n) ==
    {m \in n .. Len(js) : Opens(n, m) = Closes(n, m)
                         /\ \A l \in n .. m - 1 : Opens(n, l) > Closes(n, l)}
Balanced ==
    /\ \A n \in DOMAIN js : js[n].c \in Opening =>
         \E m \in ClosedAt(n) : Type(js[m].c) = Type(js[n].c)
    /\ Opens(1, Len(js)) = Closes(1, Len(js))

(* jsmn_parse() succeeds exactly on payloads whose brackets match, if the  *)
(* tokens suffice and no string or primitive is malformed, and each token  *)
(* of an object or array ends at the bracket that closes it.               *)
BracketsMatch == pc = "done" =>
    /\ r = "count" => \A k \in DOMAIN tokens :
         js[tokens[k].start].c \in Opening => tokens[k].end \in ClosedAt(tokens[k].start)
    /\ r \in {"JSMN_ERROR_INVAL", "JSMN_ERROR_PART", "count"}
         /\ (\A n \in DOMAIN js : js[n].c \notin {"badstr", "badprim"})
         => (r = "count" <=> Balanced)

(* A message the README documents is accepted, and an unsent member of the *)
(* event stays zero.  A number gets the last value sent for it, a text the *)
(* characters of the last, and behind its end, as nothing terminates the   *)
(* copy, those of the last one that was longer.                            *)
SentFor(f) == {n \in DOMAIN js : n % 4 = 2 /\ js[n] = Str(f)}
LastValue(sent) == IF sent = {} THEN NONE ELSE LastOf(sent) + 2

FieldsAsDocumented ==
    pc \in {"done", "overrun"} /\ Documented(js) =>
        /\ pc = "done" /\ r = "count"
        /\ \A f \in Numbers : fields[f] = LastValue(SentFor(f))
        /\ \A f \in Copied, c \in 1 .. NameSize :
             names[f][c] = LastValue({n \in SentFor(f) : c <= Len(js[n + 2].text)})
=============================================================================
