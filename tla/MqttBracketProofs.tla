------------------------- MODULE MqttBracketProofs --------------------------
(***************************************************************************)
(* For payloads of any length: jsmn_parse() pairs every bracket with the   *)
(* one that closes it, and succeeds exactly when they all are paired.      *)
(***************************************************************************)
EXTENDS MqttJsonProofs, FiniteSetTheorems, WellFoundedInduction

(* The lexemes of a kind in a part of a payload.                           *)
Count(s, C, a, b) == Cardinality({n \in a .. b : s[n].c \in C})

Pair(s, a, b) ==
    /\ Count(s, Opening, a, b) = Count(s, Closing, a, b)
    /\ \A l \in a .. b - 1 : Count(s, Opening, a, l) > Count(s, Closing, a, l)

(* The tokens of a set from k on.                                          *)
Above(S, k) == {l \in S : l >= k}

Results ==
    /\ pc = "parse" => r = "none"
    /\ pc = "keys" => r = "count"
    /\ r = "count" => OpenTokens = {}

(* Every bracket that opens something has a token.                         *)
Tokenised ==
    r # "JSMN_ERROR_NOMEM" => \A n \in 1 .. Len(js) : js[n].c \in Opening =>
        \E k \in 1 .. Len(tokens) : tokens[k].start = n

Paired ==
    \A k \in 1 .. Len(tokens) :
        tokens[k].type \in Brackets /\ tokens[k].end # OPEN => Pair(js, tokens[k].start, tokens[k].end)

(* The brackets not closed yet are those of the open tokens, from the      *)
(* beginning and from each open token on.                                  *)
Deep ==
    r \in {"none", "count"} =>
        /\ Count(js, Opening, 1, Len(js)) = Count(js, Closing, 1, Len(js)) + Cardinality(OpenTokens)
        /\ \A k \in OpenTokens :
             /\ Count(js, Opening, tokens[k].start, Len(js))
                  = Count(js, Closing, tokens[k].start, Len(js)) + Cardinality(Above(OpenTokens, k))
             /\ \A l \in tokens[k].start .. Len(js) :
                  Count(js, Opening, tokens[k].start, l) > Count(js, Closing, tokens[k].start, l)

(* Balanced, of any payload.                                               *)
Matching(s) ==
    /\ \A n \in 1 .. Len(s) : s[n].c \in Opening =>
         \E m \in n .. Len(s) : Pair(s, n, m) /\ Type(s[m].c) = Type(s[n].c)
    /\ Count(s, Opening, 1, Len(s)) = Count(s, Closing, 1, Len(s))

WellFormed == \A n \in 1 .. Len(js) : js[n].c \notin {"badstr", "badprim"}

(* A payload is rejected for its brackets only if they do not match.       *)
Rejected == r \in {"JSMN_ERROR_INVAL", "JSMN_ERROR_PART"} /\ WellFormed => ~Matching(js)

BInv == Results /\ Tokenised /\ Paired /\ Deep /\ Rejected

(***************************************************************************)
(* Counting                                                                *)
(***************************************************************************)
LEMMA CountNat ==
  ASSUME NEW s, NEW C, NEW a \in Nat, NEW b \in Nat
  PROVE  /\ Count(s, C, a, b) \in Nat /\ IsFiniteSet({n \in a .. b : s[n].c \in C})
         /\ a > b => Count(s, C, a, b) = 0
<1> DEFINE S == {n \in a .. b : s[n].c \in C}
<1>1. IsFiniteSet(a .. b)
  BY FS_Interval
<1>2. S \in SUBSET (a .. b)
  OBVIOUS
<1>3. IsFiniteSet(S)
  BY <1>1, <1>2, FS_Subset
<1>4. a > b => S = {}
  OBVIOUS
<1> QED BY <1>3, <1>4, FS_CardinalityType, FS_EmptySet DEF Count

(* A payload and the same with one more lexeme.                            *)
LEMMA CountKept ==
  ASSUME NEW s, NEW t, NEW C, NEW a \in Nat \ {0}, NEW b \in Nat,
         \A n \in 1 .. b : t[n] = s[n]
  PROVE  Count(t, C, a, b) = Count(s, C, a, b)
<1>1. {n \in a .. b : t[n].c \in C} = {n \in a .. b : s[n].c \in C}
  OBVIOUS
<1> QED BY <1>1 DEF Count

LEMMA CountNext ==
  ASSUME NEW s, NEW t, NEW C, NEW a \in Nat \ {0}, NEW b \in Nat, a <= b + 1,
         \A n \in 1 .. b : t[n] = s[n]
  PROVE  Count(t, C, a, b + 1) = IF t[b + 1].c \in C THEN Count(s, C, a, b) + 1
                                                     ELSE Count(s, C, a, b)
<1> DEFINE S == {n \in a .. b : s[n].c \in C}
           T == {n \in a .. b + 1 : t[n].c \in C}
<1>1. IsFiniteSet(S)
  BY CountNat
<1>2. CASE t[b + 1].c \in C
  <2>1. T = S \cup {b + 1} /\ b + 1 \notin S
    BY <1>2
  <2> QED BY <1>1, <1>2, <2>1, FS_AddElement DEF Count
<1>3. CASE t[b + 1].c \notin C
  <2>1. T = S
    BY <1>3
  <2> QED BY <1>3, <2>1 DEF Count
<1> QED BY <1>2, <1>3

LEMMA PairKept ==
  ASSUME NEW s, NEW t, NEW a \in Nat \ {0}, NEW b \in Nat, Pair(s, a, b),
         \A n \in 1 .. b : t[n] = s[n]
  PROVE  Pair(t, a, b)
<1>1. ASSUME NEW l \in a .. b, NEW C
      PROVE  Count(t, C, a, l) = Count(s, C, a, l)
  <2>1. l \in Nat /\ \A n \in 1 .. l : t[n] = s[n]
    OBVIOUS
  <2> QED BY <2>1, CountKept
<1>2. CASE a <= b
  <2>1. b \in a .. b /\ \A l \in a .. b - 1 : l \in a .. b
    BY <1>2
  <2> QED BY <1>1, <2>1 DEF Pair
<1>3. CASE a > b
  <2>1. a .. b - 1 = {}
    BY <1>3
  <2> QED BY <1>3, <2>1, CountNat DEF Pair
<1> QED BY <1>2, <1>3

(***************************************************************************)
(* The open tokens                                                         *)
(***************************************************************************)
LEMMA OpenFacts ==
  ASSUME Shape
  PROVE  /\ OpenTokens \subseteq 1 .. Len(tokens) /\ IsFiniteSet(OpenTokens)
         /\ \A k : IsFiniteSet(Above(OpenTokens, k)) /\ Cardinality(Above(OpenTokens, k)) \in Nat
         /\ Cardinality(OpenTokens) \in Nat
<1>1. OpenTokens \subseteq 1 .. Len(tokens) /\ Len(tokens) \in Nat
  BY Lengths DEF OpenTokens
<1>2. IsFiniteSet(OpenTokens)
  <2>1. IsFiniteSet(1 .. Len(tokens)) /\ OpenTokens \in SUBSET (1 .. Len(tokens))
    BY <1>1, FS_Interval
  <2> QED BY <2>1, FS_Subset
<1>3. ASSUME NEW k
      PROVE  IsFiniteSet(Above(OpenTokens, k)) /\ Cardinality(Above(OpenTokens, k)) \in Nat
  <2>1. Above(OpenTokens, k) \in SUBSET OpenTokens
    BY DEF Above
  <2> QED BY <1>2, <2>1, FS_Subset, FS_CardinalityType
<1> QED BY <1>1, <1>2, <1>3, FS_CardinalityType

LEMMA OpenKept ==
  ASSUME Shape, UNCHANGED tokens
  PROVE  OpenTokens' = OpenTokens
  BY DEF OpenTokens

LEMMA OpenAdds ==
  ASSUME Shape, NEW l, NEW tok, Adds(l, tok)
  PROVE  OpenTokens' = IF l.c \in Opening THEN OpenTokens \cup {Len(tokens) + 1} ELSE OpenTokens
<1>1. Len(tokens) \in Nat /\ DOMAIN tokens = 1 .. Len(tokens) /\ Len(js) \in Nat
  BY Lengths
<1>2. DOMAIN tokens' = 1 .. Len(tokens) + 1
  <2>1. tokens' \in Seq(Tok) /\ Len(tokens') = Len(tokens) + 1
    BY DEF Adds
  <2> QED BY <2>1
<1>3. \A m \in 1 .. Len(tokens) : tokens'[m].end = tokens[m].end
  BY DEF Adds
<1>4. (tokens'[Len(tokens) + 1].end = OPEN) <=> l.c \in Opening
  <2>1. tokens'[Len(tokens) + 1] = tok
    BY DEF Adds
  <2>2. \/ l.c \in Opening /\ tok.end = OPEN
        \/ l.c \in {"str", "prim"} /\ tok.end = Len(js) + 1
    BY DEF Adds
  <2>3. Len(js) + 1 # OPEN
    BY <1>1 DEF OPEN
  <2> QED BY <2>1, <2>2, <2>3, Distinct
<1> QED BY <1>1, <1>2, <1>3, <1>4 DEF OpenTokens

LEMMA OpenShuts ==
  ASSUME Shape, NEW l, NEW k, Shuts(l, k)
  PROVE  OpenTokens' = OpenTokens \ {k}
<1>1. Len(tokens) \in Nat /\ DOMAIN tokens = 1 .. Len(tokens) /\ Len(js) \in Nat
  BY Lengths
<1>2. DOMAIN tokens' = 1 .. Len(tokens)
  <2>1. tokens' \in Seq(Tok) /\ Len(tokens') = Len(tokens)
    BY DEF Shuts
  <2> QED BY <2>1
<1>3. \A m \in 1 .. Len(tokens) : tokens'[m].end = IF m = k THEN Len(js) + 1 ELSE tokens[m].end
  BY DEF Shuts
<1>4. Len(js) + 1 # OPEN
  BY <1>1 DEF OPEN
<1> QED BY <1>1, <1>2, <1>3, <1>4 DEF OpenTokens

(* What a lexeme adds to the counts.                                       *)
LEMMA CountsAfter ==
  ASSUME Shape, NEW l, Moves(l), NEW a \in 1 .. Len(js) + 1, NEW C
  PROVE  /\ Count(js', C, a, Len(js) + 1) = IF l.c \in C THEN Count(js, C, a, Len(js)) + 1
                                                         ELSE Count(js, C, a, Len(js))
         /\ Count(js, C, a, Len(js)) \in Nat
         /\ \A b \in a .. Len(js) : Count(js', C, a, b) = Count(js, C, a, b)
<1>1. /\ Len(js) \in Nat /\ js'[Len(js) + 1] = l
      /\ \A n \in 1 .. Len(js) : js'[n] = js[n]
  BY Lengths DEF Moves
<1>2. a \in Nat \ {0} /\ a \in Nat /\ a <= Len(js) + 1
  BY <1>1
<1>3. ASSUME NEW b \in a .. Len(js)
      PROVE  Count(js', C, a, b) = Count(js, C, a, b)
  <2>1. b \in Nat /\ \A n \in 1 .. b : js'[n] = js[n]
    BY <1>1, <1>2
  <2> QED BY <1>2, <2>1, CountKept
<1>4. Count(js, C, a, Len(js)) \in Nat
  BY <1>1, <1>2, CountNat
<1>5. Count(js', C, a, Len(js) + 1) = IF js'[Len(js) + 1].c \in C THEN Count(js, C, a, Len(js)) + 1
                                                                ELSE Count(js, C, a, Len(js))
  BY <1>1, <1>2, CountNext
<1> QED BY <1>1, <1>3, <1>4, <1>5

(* Lexemes that are no brackets leave the depth.                           *)
LEMMA DeepKept ==
  ASSUME Shape, Ranges, Deep, r = "none", NEW l, Moves(l), l.c \notin Opening \cup Closing,
         OpenTokens' = OpenTokens, \A k \in OpenTokens : tokens'[k].start = tokens[k].start
  PROVE  Deep'
<1>1. /\ Len(js) \in Nat /\ Len(js') = Len(js) + 1 /\ OpenTokens \subseteq 1 .. Len(tokens)
  BY Lengths, OpenFacts DEF Moves
<1>2. Count(js', Opening, 1, Len(js) + 1) = Count(js', Closing, 1, Len(js) + 1) + Cardinality(OpenTokens)
  <2>1. 1 \in 1 .. Len(js) + 1
    BY <1>1
  <2> QED BY <2>1, CountsAfter DEF Deep
<1>3. ASSUME NEW k \in OpenTokens
      PROVE  /\ Count(js', Opening, tokens[k].start, Len(js) + 1)
                  = Count(js', Closing, tokens[k].start, Len(js) + 1) + Cardinality(Above(OpenTokens, k))
             /\ \A n \in tokens[k].start .. Len(js) + 1 :
                  Count(js', Opening, tokens[k].start, n) > Count(js', Closing, tokens[k].start, n)
  <2> DEFINE a == tokens[k].start
  <2>1. a \in 1 .. Len(js) /\ a \in 1 .. Len(js) + 1
    BY <1>1 DEF Ranges
  <2>2. /\ Count(js, Opening, a, Len(js)) = Count(js, Closing, a, Len(js)) + Cardinality(Above(OpenTokens, k))
        /\ \A n \in a .. Len(js) : Count(js, Opening, a, n) > Count(js, Closing, a, n)
    BY DEF Deep
  <2> HIDE DEF a
  <2>3. /\ Count(js', Opening, a, Len(js) + 1) = Count(js, Opening, a, Len(js))
        /\ Count(js', Closing, a, Len(js) + 1) = Count(js, Closing, a, Len(js))
        /\ \A n \in a .. Len(js) : /\ Count(js', Opening, a, n) = Count(js, Opening, a, n)
                                   /\ Count(js', Closing, a, n) = Count(js, Closing, a, n)
    BY <2>1, CountsAfter
  <2>4. \A n \in a .. Len(js) + 1 : n \in a .. Len(js) \/ n = Len(js) + 1
    BY <1>1, <2>1
  <2>5. Len(js) \in a .. Len(js)
    BY <1>1, <2>1
  <2> QED BY <2>2, <2>3, <2>4, <2>5 DEF a
<1> QED BY <1>1, <1>2, <1>3 DEF Deep

(* A bracket that opens is one more for the beginning and for every open   *)
(* token, and the first of its own.                                        *)
LEMMA DeepOpens ==
  ASSUME Shape, Ranges, Deep, r = "none", NEW l, NEW tok, Adds(l, tok), l.c \in Opening
  PROVE  Deep'
<1> DEFINE new == Len(tokens) + 1
<1>1. /\ Len(js) \in Nat /\ Len(tokens) \in Nat /\ Len(js') = Len(js) + 1 /\ Moves(l)
      /\ OpenTokens \subseteq 1 .. Len(tokens) /\ l.c \notin Closing
  BY Lengths, OpenFacts, Distinct DEF Adds, Moves
<1>2. OpenTokens' = OpenTokens \cup {new}
  BY OpenAdds
<1>3. new \notin OpenTokens /\ \A k \in OpenTokens : k <= new /\ k \in Nat
  BY <1>1
<1>4. \A k \in OpenTokens : tokens'[k].start = tokens[k].start
  BY <1>1 DEF Adds
<1>5. tokens'[new].start = Len(js) + 1
  BY DEF Adds
<1>6. Cardinality(OpenTokens') = Cardinality(OpenTokens) + 1
  BY <1>2, <1>3, OpenFacts, FS_AddElement
<1>7. Count(js', Opening, 1, Len(js) + 1) = Count(js', Closing, 1, Len(js) + 1) + Cardinality(OpenTokens')
  <2>1. 1 \in 1 .. Len(js) + 1
    BY <1>1
  <2>2. /\ Count(js', Opening, 1, Len(js) + 1) = Count(js, Opening, 1, Len(js)) + 1
        /\ Count(js', Closing, 1, Len(js) + 1) = Count(js, Closing, 1, Len(js))
        /\ Count(js, Closing, 1, Len(js)) \in Nat
    BY <1>1, <2>1, CountsAfter
  <2>3. Count(js, Opening, 1, Len(js)) = Count(js, Closing, 1, Len(js)) + Cardinality(OpenTokens)
    BY DEF Deep
  <2> QED BY <1>6, <2>2, <2>3, OpenFacts
<1>8. ASSUME NEW k \in OpenTokens
      PROVE  /\ Count(js', Opening, tokens[k].start, Len(js) + 1)
                  = Count(js', Closing, tokens[k].start, Len(js) + 1) + Cardinality(Above(OpenTokens', k))
             /\ \A n \in tokens[k].start .. Len(js) + 1 :
                  Count(js', Opening, tokens[k].start, n) > Count(js', Closing, tokens[k].start, n)
  <2> DEFINE a == tokens[k].start
  <2>1. a \in 1 .. Len(js) /\ a \in 1 .. Len(js) + 1
    BY <1>1 DEF Ranges
  <2>2. /\ Count(js, Opening, a, Len(js)) = Count(js, Closing, a, Len(js)) + Cardinality(Above(OpenTokens, k))
        /\ \A n \in a .. Len(js) : Count(js, Opening, a, n) > Count(js, Closing, a, n)
    BY DEF Deep
  <2> HIDE DEF a
  <2>3. /\ Count(js', Opening, a, Len(js) + 1) = Count(js, Opening, a, Len(js)) + 1
        /\ Count(js', Closing, a, Len(js) + 1) = Count(js, Closing, a, Len(js))
        /\ Count(js, Opening, a, Len(js)) \in Nat /\ Count(js, Closing, a, Len(js)) \in Nat
        /\ \A n \in a .. Len(js) : /\ Count(js', Opening, a, n) = Count(js, Opening, a, n)
                                   /\ Count(js', Closing, a, n) = Count(js, Closing, a, n)
    BY <1>1, <2>1, CountsAfter
  <2>4. Above(OpenTokens', k) = Above(OpenTokens, k) \cup {new} /\ new \notin Above(OpenTokens, k)
    BY <1>2, <1>3 DEF Above
  <2>5. Cardinality(Above(OpenTokens', k)) = Cardinality(Above(OpenTokens, k)) + 1 /\ Cardinality(Above(OpenTokens, k)) \in Nat
    BY <2>4, OpenFacts, FS_AddElement
  <2>6. \A n \in a .. Len(js) + 1 : n \in a .. Len(js) \/ n = Len(js) + 1
    BY <1>1, <2>1
  <2>7. Count(js, Opening, a, Len(js)) > Count(js, Closing, a, Len(js))
    BY <1>1, <2>1, <2>2
  <2>8. Count(js', Opening, a, Len(js) + 1) > Count(js', Closing, a, Len(js) + 1)
    BY <2>3, <2>7
  <2>9. Count(js', Opening, a, Len(js) + 1) = Count(js', Closing, a, Len(js) + 1) + Cardinality(Above(OpenTokens', k))
    BY <2>2, <2>3, <2>5
  <2> QED BY <2>2, <2>3, <2>6, <2>8, <2>9 DEF a
<1>9. /\ Count(js', Opening, Len(js) + 1, Len(js) + 1)
             = Count(js', Closing, Len(js) + 1, Len(js) + 1) + Cardinality(Above(OpenTokens', new))
      /\ Count(js', Opening, Len(js) + 1, Len(js) + 1) > Count(js', Closing, Len(js) + 1, Len(js) + 1)
  <2>1. Len(js) + 1 \in 1 .. Len(js) + 1 /\ Len(js) + 1 \in Nat /\ Len(js) + 1 > Len(js)
    BY <1>1
  <2>2. /\ Count(js, Opening, Len(js) + 1, Len(js)) = 0
        /\ Count(js, Closing, Len(js) + 1, Len(js)) = 0
    BY <1>1, <2>1, CountNat
  <2>3. /\ Count(js', Opening, Len(js) + 1, Len(js) + 1) = 1
        /\ Count(js', Closing, Len(js) + 1, Len(js) + 1) = 0
    BY <1>1, <2>1, <2>2, CountsAfter
  <2>4. Above(OpenTokens', new) = {new}
    <3>1. new >= new /\ \A n \in OpenTokens : ~(n >= new)
      BY <1>1
    <3> HIDE DEF new
    <3> QED BY <1>2, <3>1 DEF Above
  <2> QED BY <2>3, <2>4, FS_Singleton
<1>10. \A n \in Len(js) + 1 .. Len(js) + 1 : n = Len(js) + 1
  BY <1>1
<1> HIDE DEF new
<1>11. ASSUME NEW k \in OpenTokens'
       PROVE  /\ Count(js', Opening, tokens'[k].start, Len(js'))
                   = Count(js', Closing, tokens'[k].start, Len(js')) + Cardinality(Above(OpenTokens', k))
              /\ \A n \in tokens'[k].start .. Len(js') :
                   Count(js', Opening, tokens'[k].start, n) > Count(js', Closing, tokens'[k].start, n)
  <2>1. CASE k = new
    BY <1>1, <1>5, <1>9, <1>10, <2>1
  <2>2. CASE k \in OpenTokens
    BY <1>1, <1>4, <1>8, <2>2
  <2> QED BY <1>2, <2>1, <2>2
<1> QED BY <1>1, <1>7, <1>11 DEF Deep

(* A bracket that closes pairs with the last open token, and the others    *)
(* stay open.                                                              *)
LEMMA DeepShuts ==
  ASSUME Shape, Ranges, Deep, r = "none", NEW l, NEW k, Shuts(l, k)
  PROVE  Deep' /\ Pair(js', tokens[k].start, Len(js) + 1)
<1>1. /\ Len(js) \in Nat /\ Len(tokens) \in Nat /\ Len(js') = Len(js) + 1 /\ Moves(l)
      /\ OpenTokens \subseteq 1 .. Len(tokens) /\ l.c \notin Opening /\ l.c \in Closing
      /\ k \in OpenTokens /\ \A m \in OpenTokens : m <= k
  BY Lengths, OpenFacts, Distinct DEF Shuts, Moves
<1>2. OpenTokens' = OpenTokens \ {k}
  BY OpenShuts
<1>3. \A m \in OpenTokens : tokens'[m].start = tokens[m].start
  BY <1>1 DEF Shuts
<1>4. Cardinality(OpenTokens') = Cardinality(OpenTokens) - 1
  BY <1>1, <1>2, OpenFacts, FS_RemoveElement
<1>5. Count(js', Opening, 1, Len(js) + 1) = Count(js', Closing, 1, Len(js) + 1) + Cardinality(OpenTokens')
  <2>1. 1 \in 1 .. Len(js) + 1
    BY <1>1
  <2>2. /\ Count(js', Opening, 1, Len(js) + 1) = Count(js, Opening, 1, Len(js))
        /\ Count(js', Closing, 1, Len(js) + 1) = Count(js, Closing, 1, Len(js)) + 1
        /\ Count(js, Closing, 1, Len(js)) \in Nat
    BY <1>1, <2>1, CountsAfter
  <2>3. Count(js, Opening, 1, Len(js)) = Count(js, Closing, 1, Len(js)) + Cardinality(OpenTokens)
    BY DEF Deep
  <2> QED BY <1>4, <2>2, <2>3, OpenFacts
<1>6. ASSUME NEW m \in OpenTokens
      PROVE  /\ Count(js', Opening, tokens[m].start, Len(js) + 1) + 1
                  = Count(js', Closing, tokens[m].start, Len(js) + 1) + Cardinality(Above(OpenTokens, m))
             /\ Count(js', Opening, tokens[m].start, Len(js) + 1) \in Nat
             /\ Count(js', Closing, tokens[m].start, Len(js) + 1) \in Nat
             /\ \A n \in tokens[m].start .. Len(js) :
                  Count(js', Opening, tokens[m].start, n) > Count(js', Closing, tokens[m].start, n)
             /\ tokens[m].start \in 1 .. Len(js)
  <2> DEFINE a == tokens[m].start
  <2>1. a \in 1 .. Len(js) /\ a \in 1 .. Len(js) + 1
    BY <1>1 DEF Ranges
  <2>2. /\ Count(js, Opening, a, Len(js)) = Count(js, Closing, a, Len(js)) + Cardinality(Above(OpenTokens, m))
        /\ \A n \in a .. Len(js) : Count(js, Opening, a, n) > Count(js, Closing, a, n)
    BY DEF Deep
  <2> HIDE DEF a
  <2>3. /\ Count(js', Opening, a, Len(js) + 1) = Count(js, Opening, a, Len(js))
        /\ Count(js', Closing, a, Len(js) + 1) = Count(js, Closing, a, Len(js)) + 1
        /\ Count(js, Opening, a, Len(js)) \in Nat /\ Count(js, Closing, a, Len(js)) \in Nat
        /\ \A n \in a .. Len(js) : /\ Count(js', Opening, a, n) = Count(js, Opening, a, n)
                                   /\ Count(js', Closing, a, n) = Count(js, Closing, a, n)
    BY <1>1, <2>1, CountsAfter
  <2>4. Count(js', Opening, a, Len(js) + 1) + 1
          = Count(js', Closing, a, Len(js) + 1) + Cardinality(Above(OpenTokens, m))
    BY <2>2, <2>3, OpenFacts
  <2>5. \A n \in a .. Len(js) : Count(js', Opening, a, n) > Count(js', Closing, a, n)
    BY <2>2, <2>3
  <2>6. Count(js', Opening, a, Len(js) + 1) \in Nat /\ Count(js', Closing, a, Len(js) + 1) \in Nat
    BY <2>3
  <2> QED BY <2>1, <2>4, <2>5, <2>6 DEF a
<1>7. Pair(js', tokens[k].start, Len(js) + 1)
  <2>1. Above(OpenTokens, k) = {k}
    <3>1. k >= k /\ \A m \in OpenTokens : m >= k => m = k
      BY <1>1
    <3> QED BY <1>1, <3>1 DEF Above
  <2>2. Cardinality(Above(OpenTokens, k)) = 1
    BY <2>1, FS_Singleton
  <2>3. Len(js) + 1 - 1 = Len(js)
    BY <1>1
  <2>4. Count(js', Opening, tokens[k].start, Len(js) + 1) = Count(js', Closing, tokens[k].start, Len(js) + 1)
    BY <1>1, <1>6, <2>2
  <2> QED BY <1>1, <1>6, <2>3, <2>4 DEF Pair
<1>8. ASSUME NEW m \in OpenTokens \ {k}
      PROVE  /\ Count(js', Opening, tokens[m].start, Len(js) + 1)
                  = Count(js', Closing, tokens[m].start, Len(js) + 1) + Cardinality(Above(OpenTokens', m))
             /\ \A n \in tokens[m].start .. Len(js) + 1 :
                  Count(js', Opening, tokens[m].start, n) > Count(js', Closing, tokens[m].start, n)
  <2> DEFINE a == tokens[m].start
  <2>1. Above(OpenTokens', m) = Above(OpenTokens, m) \ {k} /\ k \in Above(OpenTokens, m)
        /\ m \in Above(OpenTokens', m)
    BY <1>1, <1>2 DEF Above
  <2>2. /\ Cardinality(Above(OpenTokens', m)) = Cardinality(Above(OpenTokens, m)) - 1
        /\ IsFiniteSet(Above(OpenTokens', m))
    BY <2>1, OpenFacts, FS_RemoveElement
  <2>3. Cardinality(Above(OpenTokens', m)) \in Nat /\ Cardinality(Above(OpenTokens', m)) # 0
    BY <2>1, <2>2, FS_CardinalityType, FS_EmptySet
  <2>4. Cardinality(Above(OpenTokens, m)) \in Nat
    BY OpenFacts
  <2>5. Count(js', Opening, a, Len(js) + 1)
          = Count(js', Closing, a, Len(js) + 1) + Cardinality(Above(OpenTokens', m))
    BY <1>6, <2>2, <2>3, <2>4
  <2>6. Count(js', Opening, a, Len(js) + 1) > Count(js', Closing, a, Len(js) + 1)
    BY <1>6, <2>3, <2>5
  <2>7. a \in 1 .. Len(js) /\ \A n \in a .. Len(js) : Count(js', Opening, a, n) > Count(js', Closing, a, n)
    BY <1>6
  <2> HIDE DEF a
  <2>8. \A n \in a .. Len(js) + 1 : n \in a .. Len(js) \/ n = Len(js) + 1
    BY <1>1, <2>7
  <2> QED BY <2>5, <2>6, <2>7, <2>8 DEF a
<1>9. Deep'
  BY <1>1, <1>2, <1>3, <1>5, <1>8 DEF Deep
<1> QED BY <1>7, <1>9

(* A set of numbers with a bound has a last one.                           *)
LEMMA HasLast ==
  ASSUME NEW n \in Nat, NEW S, S \subseteq 1 .. n, S # {}
  PROVE  \E k \in S : \A l \in S : l <= k
<1> DEFINE T == {n - k : k \in S}
           R == {p \in Nat \X Nat : p[1] < p[2]}
<1>1. T \subseteq Nat
  OBVIOUS
<1>2. T # {}
  <2>1. PICK k : k \in S
    OBVIOUS
  <2>2. n - k \in T
    BY <2>1
  <2> QED BY <2>2
<1>3. OpToRel(<, Nat) = R
  BY DEF OpToRel
<1>4. IsWellFoundedOn(R, Nat)
  BY <1>3, NatLessThanWellFounded
<1> HIDE DEF T, R
<1>5. PICK x \in T : \A y \in T : ~(<<y, x>> \in R)
  BY <1>1, <1>2, <1>4, WFMin
<1>6. \A y \in T : x <= y
  <2> SUFFICES ASSUME NEW y \in T PROVE x <= y
    OBVIOUS
  <2>1. x \in Nat /\ y \in Nat /\ <<y, x>> \notin R
    BY <1>1, <1>5
  <2>2. ~(y < x)
    BY <2>1 DEF R
  <2> QED BY <2>1, <2>2
<1>7. PICK k \in S : x = n - k
  BY <1>5 DEF T
<1>8. \A l \in S : x <= n - l
  BY <1>6 DEF T
<1> QED BY <1>7, <1>8

LEMMA LastOpen ==
  ASSUME Shape, OpenTokens # {}
  PROVE  /\ LastOf(OpenTokens) \in OpenTokens /\ LastOf(OpenTokens) # NONE
         /\ \A m \in OpenTokens : m <= LastOf(OpenTokens)
<1>1. OpenTokens \subseteq 1 .. Len(tokens) /\ Len(tokens) \in Nat
  BY Lengths, OpenFacts
<1>2. PICK k \in OpenTokens : \A m \in OpenTokens : m <= k
  BY <1>1, HasLast
<1>3. k \in {n \in OpenTokens : \A m \in OpenTokens : m <= n}
  BY <1>2
<1>4. LastOf(OpenTokens) \in OpenTokens
  BY <1>3 DEF LastOf
<1>5. NONE \notin OpenTokens
  BY <1>1 DEF NONE
<1> QED BY <1>4, <1>5, LastOfFacts

LEMMA BalancedIsMatching ==
  ASSUME Shape
  PROVE  Balanced <=> Matching(js)
<1>1. DOMAIN js = 1 .. Len(js)
  BY Lengths
<1>2. \A n, m : m \in ClosedAt(n) <=> m \in n .. Len(js) /\ Pair(js, n, m)
  BY DEF ClosedAt, Pair, Opens, Closes, Count
<1>3. \A n \in 1 .. Len(js) :
        (\E m \in ClosedAt(n) : Type(js[m].c) = Type(js[n].c))
          <=> \E m \in n .. Len(js) : Pair(js, n, m) /\ Type(js[m].c) = Type(js[n].c)
  BY <1>2
<1>4. Opens(1, Len(js)) = Count(js, Opening, 1, Len(js)) /\ Closes(1, Len(js)) = Count(js, Closing, 1, Len(js))
  BY DEF Opens, Closes, Count
<1> QED BY <1>1, <1>3, <1>4 DEF Balanced, Matching

(***************************************************************************)
(* The steps of the parser                                                 *)
(***************************************************************************)
LEMMA DeepStep ==
  ASSUME Shape, Ranges, Results, Deep, ParserStep
  PROVE  Deep'
<1>1. r = "none" /\ OpenTokens \subseteq 1 .. Len(tokens)
  BY OpenFacts DEF Results, ParserStep, Rejects, Passes, Adds, Shuts, Moves
<1>2. ASSUME NEW l, Rejects(l)
      PROVE  Deep'
  <2>1. r' \notin {"none", "count"}
    BY <1>2 DEF Rejects
  <2> QED BY <2>1 DEF Deep
<1>3. ASSUME NEW l, Passes(l)
      PROVE  Deep'
  <2>1. Moves(l) /\ UNCHANGED tokens /\ l.c \notin Opening \cup Closing
    BY <1>3, Distinct DEF Passes
  <2> QED BY <1>1, <2>1, OpenKept, DeepKept
<1>4. ASSUME NEW l, NEW tok, Adds(l, tok)
      PROVE  Deep'
  <2>1. CASE l.c \in Opening
    BY <1>1, <1>4, <2>1, DeepOpens
  <2>2. CASE l.c \notin Opening
    <3>1. l.c \in {"str", "prim"}
      BY <1>4, <2>2 DEF Adds
    <3>2. Moves(l) /\ l.c \notin Opening \cup Closing
      BY <1>4, <3>1, Distinct DEF Adds
    <3>3. \A k \in OpenTokens : tokens'[k].start = tokens[k].start
      BY <1>1, <1>4 DEF Adds
    <3>4. OpenTokens' = OpenTokens
      BY <1>4, <2>2, OpenAdds
    <3> QED BY <1>1, <3>2, <3>3, <3>4, DeepKept
  <2> QED BY <2>1, <2>2
<1>5. ASSUME NEW l, NEW k, Shuts(l, k)
      PROVE  Deep'
  BY <1>1, <1>5, DeepShuts
<1> QED BY <1>2, <1>3, <1>4, <1>5 DEF ParserStep

LEMMA PairedStep ==
  ASSUME Shape, Ranges, Results, Deep, Paired, ParserStep
  PROVE  Paired'
<1>1. r = "none"
  BY DEF Results, ParserStep, Rejects, Passes, Adds, Shuts, Moves
<1>2. /\ Len(js) \in Nat /\ Len(tokens) \in Nat
      /\ Len(tokens') \in {Len(tokens), Len(tokens) + 1}
      /\ \A n \in 1 .. Len(js) : js'[n] = js[n]
  BY Lengths, KeptTokens
<1>3. ASSUME NEW m \in 1 .. Len(tokens'), tokens'[m].type \in Brackets, tokens'[m].end # OPEN
      PROVE  Pair(js', tokens'[m].start, tokens'[m].end)
  <2>1. m \in 1 .. Len(tokens)
    <3>1. ASSUME m = Len(tokens) + 1
          PROVE  FALSE
      <4>1. ~ \E l : Rejects(l) \/ Passes(l)
        BY <1>2, <1>3, <3>1 DEF Rejects, Passes
      <4>2. ~ \E l, k : Shuts(l, k)
        BY <1>2, <1>3, <3>1 DEF Shuts
      <4>3. PICK l, tok : Adds(l, tok)
        BY <4>1, <4>2 DEF ParserStep
      <4>4. tokens'[m] = tok /\ tok.type \in Brackets /\ tok.end # OPEN
        BY <1>3, <3>1, <4>3 DEF Adds
      <4>5. tok.type = IF l.c = "str" THEN JSMN_STRING ELSE JSMN_PRIMITIVE
        BY <4>3, <4>4 DEF Adds
      <4> QED BY <4>4, <4>5 DEF Brackets, JSMN_STRING, JSMN_PRIMITIVE, JSMN_OBJECT, JSMN_ARRAY
    <3> QED BY <1>2, <3>1
  <2>2. /\ tokens'[m].type = tokens[m].type /\ tokens'[m].start = tokens[m].start
        /\ tokens[m].start \in 1 .. Len(js) /\ tokens[m].end \in 0 .. Len(js)
    BY <1>2, <2>1, KeptTokens, TokenFacts DEF Ranges
  <2>3. CASE tokens'[m].end = tokens[m].end
    <3>1. Pair(js, tokens[m].start, tokens[m].end)
      BY <1>3, <2>1, <2>2, <2>3 DEF Paired
    <3>2. /\ tokens[m].start \in Nat \ {0} /\ tokens[m].end \in Nat
          /\ \A n \in 1 .. tokens[m].end : js'[n] = js[n]
      BY <1>2, <2>2
    <3>3. Pair(js', tokens[m].start, tokens[m].end)
      BY <3>1, <3>2, PairKept, Zenon
    <3> QED BY <2>2, <2>3, <3>3
  <2>4. CASE tokens'[m].end # tokens[m].end
    <3>1. ~ \E l : Rejects(l) \/ Passes(l)
      BY <2>4 DEF Rejects, Passes
    <3>2. ~ \E l, tok : Adds(l, tok)
      BY <2>1, <2>4 DEF Adds
    <3>3. PICK l, k : Shuts(l, k)
      BY <3>1, <3>2 DEF ParserStep
    <3>4. m = k /\ tokens'[m].end = Len(js) + 1
      BY <2>1, <2>4, <3>3 DEF Shuts
    <3>5. Pair(js', tokens[k].start, Len(js) + 1)
      BY <1>1, <3>3, DeepShuts
    <3> QED BY <2>2, <3>4, <3>5
  <2> QED BY <2>3, <2>4
<1> QED BY <1>3 DEF Paired

LEMMA TokenisedStep ==
  ASSUME Shape, Ranges, Results, Tokenised, ParserStep
  PROVE  Tokenised'
<1>1. r = "none" /\ Len(js) \in Nat /\ Len(tokens) \in Nat
  BY Lengths DEF Results, ParserStep, Rejects, Passes, Adds, Shuts, Moves
<1>2. /\ Len(js') = Len(js) + 1 /\ \A n \in 1 .. Len(js) : js'[n] = js[n]
      /\ Len(tokens') \in {Len(tokens), Len(tokens) + 1}
      /\ \A m \in 1 .. Len(tokens) : tokens'[m].start = tokens[m].start
      /\ Len(tokens') = Len(tokens) + 1 => tokens'[Len(tokens) + 1].start = Len(js) + 1
  BY KeptTokens
<1>3. ASSUME r' # "JSMN_ERROR_NOMEM", js'[Len(js) + 1].c \in Opening
      PROVE  Len(tokens') = Len(tokens) + 1
  <2>1. ~ \E l : Rejects(l) \/ Passes(l)
    BY <1>3, Distinct DEF Rejects, Passes, Moves
  <2>2. ~ \E l, k : Shuts(l, k)
    BY <1>3, Distinct DEF Shuts, Moves
  <2> QED BY <2>1, <2>2 DEF ParserStep, Adds
<1>4. ASSUME r' # "JSMN_ERROR_NOMEM", NEW n \in 1 .. Len(js'), js'[n].c \in Opening
      PROVE  \E k \in 1 .. Len(tokens') : tokens'[k].start = n
  <2>1. CASE n = Len(js) + 1
    <3>1. Len(tokens) + 1 \in 1 .. Len(tokens')
      BY <1>1, <1>3, <1>4, <2>1
    <3> QED BY <1>1, <1>2, <1>3, <1>4, <2>1, <3>1
  <2>2. CASE n \in 1 .. Len(js)
    <3>1. PICK k \in 1 .. Len(tokens) : tokens[k].start = n
      BY <1>1, <1>2, <1>4, <2>2 DEF Tokenised
    <3>2. k \in 1 .. Len(tokens')
      BY <1>1, <1>2
    <3> QED BY <1>2, <3>1, <3>2
  <2> QED BY <1>1, <1>2, <2>1, <2>2
<1> QED BY <1>4 DEF Tokenised

(* A closing bracket is rejected when nothing is open, and then there is   *)
(* one too many, or when the last open bracket is of the other type, which *)
(* it is the only one to pair with.                                        *)
LEMMA RejectedClosing ==
  ASSUME Shape, Ranges, Kinds, Deep, r = "none", NEW l, Moves(l), l.c \in Closing,
         ~Opened(LastOf(OpenTokens), l.c)
  PROVE  ~Matching(js')
<1>1. /\ Len(js) \in Nat /\ Len(js') = Len(js) + 1 /\ js'[Len(js) + 1] = l
      /\ \A n \in 1 .. Len(js) : js'[n] = js[n]
      /\ l.c \notin Opening /\ OpenTokens \subseteq 1 .. Len(tokens)
  BY Lengths, OpenFacts, Distinct DEF Moves
<1>2. CASE OpenTokens = {}
  <2>1. 1 \in 1 .. Len(js) + 1
    BY <1>1
  <2>2. Count(js, Opening, 1, Len(js)) = Count(js, Closing, 1, Len(js)) + 0
    BY <1>2, FS_EmptySet DEF Deep
  <2>3. /\ Count(js', Opening, 1, Len(js) + 1) = Count(js, Opening, 1, Len(js))
        /\ Count(js', Closing, 1, Len(js) + 1) = Count(js, Closing, 1, Len(js)) + 1
        /\ Count(js, Closing, 1, Len(js)) \in Nat
    BY <1>1, <2>1, CountsAfter
  <2>4. Count(js', Opening, 1, Len(js')) # Count(js', Closing, 1, Len(js'))
    BY <1>1, <2>2, <2>3
  <2> QED BY <2>4 DEF Matching
<1>3. CASE OpenTokens # {}
  <2> DEFINE k == LastOf(OpenTokens)
             a == tokens[k].start
  <2>1. k \in OpenTokens /\ k # NONE /\ k \in 1 .. Len(tokens)
    BY <1>1, <1>3, LastOpen
  <2>2. tokens[k].type # Type(l.c)
    BY <2>1 DEF Opened
  <2>3. /\ a \in 1 .. Len(js) /\ a \in 1 .. Len(js) + 1 /\ tokens[k].type \in Types
        /\ tokens[k].end = OPEN
        /\ tokens[k].type \in {JSMN_STRING, JSMN_PRIMITIVE} => tokens[k].end = a
    BY <1>1, <2>1, TokenFacts DEF Ranges, OpenTokens
  <2>4. tokens[k].type \in Brackets
    BY <2>3 DEF Types, Brackets, OPEN
  <2>5. js[a].c \in Opening /\ tokens[k].type = Type(js[a].c)
    BY <2>1, <2>4 DEF Kinds
  <2>6. \A n \in a .. Len(js) : Count(js, Opening, a, n) > Count(js, Closing, a, n)
    BY <2>1 DEF Deep
  <2> HIDE DEF k, a
  <2>7. js'[a] = js[a] /\ a \in 1 .. Len(js')
    BY <1>1, <2>3
  <2>8. ASSUME NEW m \in a .. Len(js'), Pair(js', a, m)
        PROVE  Type(js'[m].c) # Type(js'[a].c)
    <3>1. m \notin a .. Len(js)
      <4>1. ASSUME m \in a .. Len(js)
            PROVE  FALSE
        <5>1. /\ Count(js', Opening, a, m) = Count(js, Opening, a, m)
              /\ Count(js', Closing, a, m) = Count(js, Closing, a, m)
          <6>1. a \in Nat \ {0} /\ m \in Nat /\ \A n \in 1 .. m : js'[n] = js[n]
            BY <1>1, <2>3, <4>1
          <6> QED BY <6>1, CountKept
        <5>2. Count(js, Opening, a, m) > Count(js, Closing, a, m)
          BY <2>6, <4>1
        <5>3. Count(js', Opening, a, m) = Count(js', Closing, a, m)
          BY <2>8 DEF Pair
        <5>4. a \in Nat /\ m \in Nat
          BY <1>1, <2>3, <4>1
        <5>5. Count(js, Closing, a, m) \in Nat
          BY <5>4, CountNat
        <5> QED BY <4>1, <5>1, <5>2, <5>3, <5>5
      <4> QED BY <4>1
    <3>2. m = Len(js) + 1
      BY <1>1, <2>3, <3>1
    <3> QED BY <1>1, <2>2, <2>5, <2>7, <3>2
  <2> QED BY <2>5, <2>7, <2>8 DEF Matching
<1> QED BY <1>2, <1>3

LEMMA RejectedStep ==
  ASSUME Shape, Ranges, Kinds, Results, Deep, ParserStep
  PROVE  Rejected' /\ Results'
<1>1. r = "none" /\ pc = "parse"
  BY DEF Results, ParserStep, Rejects, Passes, Adds, Shuts, Moves
<1>2. ASSUME NEW l, Rejects(l)
      PROVE  Rejected' /\ Results'
  <2>1. Moves(l) /\ pc' = "done" /\ r' # "count"
    BY <1>2 DEF Rejects
  <2>2. Len(js) \in Nat /\ Len(js') = Len(js) + 1 /\ js'[Len(js) + 1] = l
    BY <2>1, Lengths DEF Moves
  <2>3. ASSUME r' \in {"JSMN_ERROR_INVAL", "JSMN_ERROR_PART"}, WellFormed'
        PROVE  ~Matching(js')
    <3>1. l.c \notin {"badstr", "badprim"}
      BY <2>2, <2>3 DEF WellFormed
    <3>2. l.c \in Closing /\ ~Opened(LastOf(OpenTokens), l.c)
      BY <1>2, <2>3, <3>1 DEF Rejects
    <3> QED BY <1>1, <2>1, <3>2, RejectedClosing
  <2> QED BY <2>1, <2>3 DEF Rejected, Results
<1>3. CASE r' = r /\ pc' = pc
  BY <1>1, <1>3 DEF Rejected, Results
<1> QED BY <1>2, <1>3 DEF ParserStep, Passes, Adds, Shuts

(* A payload ends with its brackets paired or with an open one that pairs  *)
(* with none.                                                              *)
LEMMA EndMatches ==
  ASSUME Shape, Ranges, Kinds, BInv, r \in {"none", "count"}
  PROVE  OpenTokens = {} <=> Matching(js)
<1>1. Len(js) \in Nat /\ OpenTokens \subseteq 1 .. Len(tokens) /\ DOMAIN tokens = 1 .. Len(tokens)
  BY Lengths, OpenFacts
<1>2. ASSUME OpenTokens = {}
      PROVE  Matching(js)
  <2>1. ASSUME NEW n \in 1 .. Len(js), js[n].c \in Opening
        PROVE  \E m \in n .. Len(js) : Pair(js, n, m) /\ Type(js[m].c) = Type(js[n].c)
    <3>1. PICK k \in 1 .. Len(tokens) : tokens[k].start = n
      BY <2>1 DEF BInv, Tokenised
    <3>2. tokens[k].end # OPEN /\ tokens[k].type \in Types
          /\ tokens[k].end \in 0 .. Len(js)
      BY <1>1, <1>2, TokenFacts DEF OpenTokens, Ranges
    <3>3. tokens[k].type \in Brackets
      BY <2>1, <3>1, <3>2, Distinct DEF Kinds, Types, Brackets
    <3>4. /\ tokens[k].start < tokens[k].end /\ tokens[k].type = Type(js[tokens[k].end].c)
          /\ tokens[k].type = Type(js[n].c) /\ Pair(js, n, tokens[k].end)
      BY <3>1, <3>2, <3>3 DEF Kinds, BInv, Paired
    <3>5. tokens[k].end \in n .. Len(js)
      BY <1>1, <3>1, <3>2, <3>4
    <3> QED BY <3>4, <3>5
  <2>2. Count(js, Opening, 1, Len(js)) = Count(js, Closing, 1, Len(js)) + 0
    BY <1>2, FS_EmptySet DEF BInv, Deep
  <2>3. Count(js, Closing, 1, Len(js)) \in Nat
    BY <1>1, CountNat
  <2> QED BY <2>1, <2>2, <2>3 DEF Matching
<1>3. ASSUME NEW k \in OpenTokens
      PROVE  ~Matching(js)
  <2> DEFINE a == tokens[k].start
  <2>1. /\ a \in 1 .. Len(js) /\ tokens[k].end = OPEN /\ tokens[k].type \in Types
        /\ tokens[k].type \in {JSMN_STRING, JSMN_PRIMITIVE} => tokens[k].end = a
    BY <1>1, TokenFacts DEF Ranges, OpenTokens
  <2>2. tokens[k].type \in Brackets
    BY <2>1 DEF Types, Brackets, OPEN
  <2>3. js[a].c \in Opening
    BY <1>1, <2>2 DEF Kinds
  <2>4. \A n \in a .. Len(js) : Count(js, Opening, a, n) > Count(js, Closing, a, n)
    BY DEF BInv, Deep
  <2> HIDE DEF a
  <2>5. \A n \in a .. Len(js) : ~Pair(js, a, n)
    <3> SUFFICES ASSUME NEW n \in a .. Len(js), Pair(js, a, n) PROVE FALSE
      OBVIOUS
    <3>1. a \in Nat /\ n \in Nat
      BY <1>1, <2>1
    <3>2. Count(js, Closing, a, n) \in Nat /\ Count(js, Opening, a, n) = Count(js, Closing, a, n)
      BY <3>1, CountNat DEF Pair
    <3>3. Count(js, Opening, a, n) > Count(js, Closing, a, n)
      BY <2>4
    <3> QED BY <3>2, <3>3
  <2> QED BY <2>1, <2>3, <2>5 DEF Matching
<1> QED BY <1>2, <1>3

(***************************************************************************)
(* The invariant, and what it says of the results of jsmn_parse().         *)
(***************************************************************************)
LEMMA InitBInv == Init => BInv
<1> SUFFICES ASSUME Init PROVE BInv
  OBVIOUS
<1>1. js = <<>> /\ tokens = <<>> /\ Len(js) = 0 /\ Len(tokens) = 0 /\ r = "none" /\ pc = "parse"
  BY DEF Init
<1>2. OpenTokens = {}
  BY <1>1 DEF OpenTokens
<1>3. Results /\ Rejected
  BY <1>1 DEF Results, Rejected
<1>4. Tokenised /\ Paired
  <2>1. 1 .. Len(js) = {} /\ 1 .. Len(tokens) = {}
    BY <1>1
  <2> QED BY <2>1 DEF Tokenised, Paired
<1>5. Count(js, Opening, 1, Len(js)) = 0 /\ Count(js, Closing, 1, Len(js)) = 0
  <2>1. 1 \in Nat /\ 0 \in Nat /\ 1 > 0
    OBVIOUS
  <2>2. \A C : Count(js, C, 1, 0) = 0
    BY <2>1, CountNat, Zenon
  <2> QED BY <1>1, <2>2
<1>6. Deep
  BY <1>2, <1>5, FS_EmptySet DEF Deep
<1> QED BY <1>3, <1>4, <1>6 DEF BInv

LEMMA NextBInv == IInv /\ BInv /\ [Next]_vars => BInv'
<1> SUFFICES ASSUME IInv, BInv, [Next]_vars PROVE BInv'
  OBVIOUS
<1>1. Shape /\ Ranges /\ Kinds /\ Results /\ Tokenised /\ Paired /\ Deep /\ Rejected
  BY DEF IInv, BInv
<1>2. CASE Parse /\ ~ParseEnd
  <2>1. ParserStep
    BY <1>1, <1>2, ParserSteps
  <2> QED BY <1>1, <2>1, DeepStep, PairedStep, TokenisedStep, RejectedStep DEF BInv
<1>3. ASSUME UNCHANGED <<js, tokens>>
      PROVE  /\ Paired' /\ OpenTokens' = OpenTokens /\ Matching(js)' = Matching(js)
             /\ r # "JSMN_ERROR_NOMEM" => Tokenised'
             /\ r \in {"none", "count"} => Deep'
  <2>1. Paired' /\ OpenTokens' = OpenTokens /\ Matching(js)' = Matching(js)
    BY <1>1, <1>3 DEF Paired, OpenTokens
  <2>2. r # "JSMN_ERROR_NOMEM" => Tokenised'
    BY <1>1, <1>3 DEF Tokenised
  <2>3. r \in {"none", "count"} => Deep'
    BY <1>1, <1>3, <2>1 DEF Deep
  <2> QED BY <2>1, <2>2, <2>3
<1>4. CASE ParseEnd
  <2>1. /\ UNCHANGED <<js, tokens>> /\ r = "none"
        /\ \/ pc' = "done" /\ r' = "JSMN_ERROR_PART" /\ OpenTokens # {}
           \/ pc' = "keys" /\ r' = "count" /\ OpenTokens = {}
    BY <1>1, <1>4 DEF ParseEnd, Error, Results
  <2>2. Results'
    BY <1>3, <2>1 DEF Results
  <2>3. Rejected'
    BY <1>1, <1>3, <2>1, EndMatches DEF Rejected
  <2> QED BY <1>3, <2>1, <2>2, <2>3 DEF BInv
<1>5. CASE KeySkip \/ KeyTake \/ KeyOverrun \/ KeysEnd \/ UNCHANGED vars
  <2>1. /\ UNCHANGED <<js, tokens, r>>
        /\ pc' = pc \/ (pc = "keys" /\ pc' \in {"done", "overrun"})
    BY <1>5 DEF KeySkip, KeyTake, KeyOverrun, KeysEnd, vars
  <2>2. Results'
    BY <1>1, <1>3, <2>1 DEF Results
  <2>3. Rejected'
    BY <1>1, <1>3, <2>1 DEF Rejected, WellFormed
  <2>4. Tokenised' /\ Deep'
    BY <1>1, <1>3, <2>1 DEF Tokenised, Deep
  <2> QED BY <1>3, <2>1, <2>2, <2>3, <2>4 DEF BInv
<1> QED BY <1>2, <1>4, <1>5 DEF Next, Done

(* jsmn_parse(), on any payload and with any number of tokens: it succeeds *)
(* exactly when the brackets match, unless the tokens do not suffice or a  *)
(* string or primitive is malformed, and then every object and array ends  *)
(* at its own bracket.                                                     *)
THEOREM BracketsArePaired == Spec => []BracketsMatch
<1>1. IInv /\ BInv => BracketsMatch
  <2> SUFFICES ASSUME IInv, BInv PROVE BracketsMatch
    OBVIOUS
  <2>1. /\ Shape /\ Ranges /\ Kinds /\ Results /\ Paired /\ Rejected
        /\ DOMAIN js = 1 .. Len(js) /\ DOMAIN tokens = 1 .. Len(tokens) /\ Len(js) \in Nat
    BY Lengths DEF IInv, BInv
  <2>2. ASSUME r = "count", NEW k \in 1 .. Len(tokens), js[tokens[k].start].c \in Opening
        PROVE  tokens[k].end \in ClosedAt(tokens[k].start)
    <3>1. tokens[k].end # OPEN /\ tokens[k].type \in Types /\ tokens[k].end \in 0 .. Len(js)
          /\ tokens[k].start \in 1 .. Len(js)
      BY <2>1, <2>2, TokenFacts DEF OpenTokens, Ranges, Results
    <3>2. tokens[k].type \in Brackets
      BY <2>1, <2>2, <3>1, Distinct DEF Kinds, Types, Brackets
    <3>3. tokens[k].start < tokens[k].end /\ Pair(js, tokens[k].start, tokens[k].end)
      BY <2>1, <3>1, <3>2 DEF Kinds, Paired
    <3>4. tokens[k].end \in tokens[k].start .. Len(js)
      BY <2>1, <3>1, <3>3
    <3> QED BY <3>3, <3>4 DEF ClosedAt, Pair, Opens, Closes, Count
  <2>3. r = "count" => Balanced
    BY <2>1, EndMatches, BalancedIsMatching DEF Results
  <2>4. r \in {"JSMN_ERROR_INVAL", "JSMN_ERROR_PART"}
          /\ (\A n \in DOMAIN js : js[n].c \notin {"badstr", "badprim"}) => ~Balanced
    BY <2>1, BalancedIsMatching DEF Rejected, WellFormed
  <2> QED BY <2>1, <2>2, <2>3, <2>4 DEF BracketsMatch
<1> QED BY <1>1, ParserInductive, InitBInv, NextBInv, PTL DEF Spec
=============================================================================
