----------------------------- MODULE RtMqProofs -----------------------------
(***************************************************************************)
(* For any number of nodes, senders and receivers: the lists of RtMq stay  *)
(* intact, messages are copied intact, no wake-up is lost, and the queue   *)
(* implements EventHandler.                                                *)
(***************************************************************************)
EXTENDS RtMq, SequenceTheorems, FiniteSetTheorems, TLAPS

In(n, s) == \E k \in 1 .. Len(s) : s[k] = n
Injective(s) == \A k, l \in 1 .. Len(s) : s[k] = s[l] => k = l

(* Chain with the pointers as a parameter.                                 *)
ChainIn(nx, first, s) ==
    /\ first = IF s = <<>> THEN RT_NULL ELSE s[1]
    /\ \A k \in 1 .. Len(s) : nx[s[k]] = IF k = Len(s) THEN RT_NULL ELSE s[k + 1]

(***************************************************************************)
(* What the list operations do to a sequence without repetitions.          *)
(***************************************************************************)
LEMMA TailFacts ==
  ASSUME NEW S, NEW s \in Seq(S), s # <<>>, Injective(s)
  PROVE  /\ Tail(s) \in Seq(S) /\ Injective(Tail(s)) /\ Len(Tail(s)) = Len(s) - 1
         /\ \A n : In(n, Tail(s)) <=> In(n, s) /\ n # s[1]
         /\ Len(s) > 0 /\ s[1] \in S /\ In(s[1], s) /\ Head(s) = s[1]
<1>1. Len(s) \in Nat \ {0} /\ s[1] \in S /\ Head(s) = s[1]
  BY EmptySeq, LenProperties
<1>2. /\ Tail(s) \in Seq(S) /\ Len(Tail(s)) = Len(s) - 1
      /\ \A k \in 1 .. Len(Tail(s)) : Tail(s)[k] = s[k + 1]
  BY HeadTailProperties
<1>3. Injective(Tail(s))
  BY <1>1, <1>2 DEF Injective
<1>4. ASSUME NEW n, In(n, Tail(s)) PROVE In(n, s) /\ n # s[1]
  BY <1>1, <1>2, <1>4 DEF In, Injective
<1>5. ASSUME NEW n, In(n, s), n # s[1] PROVE In(n, Tail(s))
  <2>1. PICK k \in 1 .. Len(s) : s[k] = n
    BY <1>5 DEF In
  <2>2. k - 1 \in 1 .. Len(Tail(s)) /\ Tail(s)[k - 1] = n
    BY <1>1, <1>2, <1>5, <2>1
  <2> QED BY <2>2 DEF In
<1>6. In(s[1], s)
  BY <1>1 DEF In
<1> QED BY <1>1, <1>2, <1>3, <1>4, <1>5, <1>6

LEMMA AppendFacts ==
  ASSUME NEW S, NEW s \in Seq(S), NEW n \in S, Injective(s), ~In(n, s)
  PROVE  /\ Append(s, n) \in Seq(S) /\ Injective(Append(s, n))
         /\ Len(Append(s, n)) = Len(s) + 1
         /\ Append(s, n)[Len(s) + 1] = n
         /\ \A m : In(m, Append(s, n)) <=> In(m, s) \/ m = n
<1>1. /\ Len(s) \in Nat /\ Append(s, n) \in Seq(S) /\ Len(Append(s, n)) = Len(s) + 1
      /\ \A k \in 1 .. Len(s) : Append(s, n)[k] = s[k]
      /\ Append(s, n)[Len(s) + 1] = n
  BY AppendProperties, LenProperties
<1>2. Injective(Append(s, n))
  BY <1>1 DEF Injective, In
<1>3. \A m : In(m, Append(s, n)) <=> In(m, s) \/ m = n
  BY <1>1 DEF In
<1> QED BY <1>1, <1>2, <1>3

LEMMA PushFacts ==
  ASSUME NEW S, NEW s \in Seq(S), NEW n \in S, Injective(s), ~In(n, s)
  PROVE  /\ <<n>> \o s \in Seq(S) /\ Injective(<<n>> \o s)
         /\ Len(<<n>> \o s) = Len(s) + 1
         /\ (<<n>> \o s)[1] = n
         /\ \A k \in 1 .. Len(s) : (<<n>> \o s)[k + 1] = s[k]
         /\ \A m : In(m, <<n>> \o s) <=> In(m, s) \/ m = n
<1>1. /\ Len(s) \in Nat /\ <<n>> \in Seq(S) /\ Len(<<n>>) = 1 /\ <<n>>[1] = n
  BY LenProperties
<1>2. /\ <<n>> \o s \in Seq(S) /\ Len(<<n>> \o s) = Len(s) + 1
      /\ \A k \in 1 .. Len(s) + 1 :
           (<<n>> \o s)[k] = IF k = 1 THEN n ELSE s[k - 1]
  BY <1>1, ConcatProperties
<1>3. Injective(<<n>> \o s)
  BY <1>1, <1>2 DEF Injective, In
<1>4. ASSUME NEW m, In(m, s) PROVE In(m, <<n>> \o s)
  <2>1. PICK k \in 1 .. Len(s) : s[k] = m
    BY <1>4 DEF In
  <2>2. k + 1 \in 1 .. Len(<<n>> \o s) /\ (<<n>> \o s)[k + 1] = m
    BY <1>1, <1>2, <2>1
  <2> QED BY <2>2 DEF In
<1>5. In(n, <<n>> \o s)
  BY <1>1, <1>2 DEF In
<1>6. ASSUME NEW m, In(m, <<n>> \o s) PROVE In(m, s) \/ m = n
  BY <1>1, <1>2, <1>6 DEF In
<1> QED BY <1>1, <1>2, <1>3, <1>4, <1>5, <1>6

LEMMA WithoutFacts ==
  ASSUME NEW S, NEW s \in Seq(S), NEW k \in 1 .. Len(s), Injective(s)
  PROVE  /\ Without(s, k) \in Seq(S) /\ Injective(Without(s, k))
         /\ \A n : In(n, Without(s, k)) <=> In(n, s) /\ n # s[k]
<1> DEFINE a == SubSeq(s, 1, k - 1)
           b == SubSeq(s, k + 1, Len(s))
           w == Without(s, k)
<1>1. Len(s) \in Nat /\ \A i \in 1 .. Len(s) : s[i] \in S
  BY LenProperties
<1>2. /\ a \in Seq(S) /\ Len(a) = k - 1 /\ \A i \in 1 .. k - 1 : a[i] = s[i]
  <2>1. \A i \in 1 .. k - 1 : s[i] \in S
    BY <1>1
  <2>2. Len(a) = IF 1 <= k - 1 THEN (k - 1) - 1 + 1 ELSE 0
    BY <1>1, <2>1, SubSeqProperties
  <2>3. \A i \in 1 .. (k - 1) - 1 + 1 : a[i] = s[1 + i - 1]
    BY <1>1, <2>1, SubSeqProperties
  <2>4. a \in Seq(S)
    BY <1>1, <2>1, SubSeqProperties
  <2> QED BY <1>1, <2>2, <2>3, <2>4
<1>3. /\ b \in Seq(S) /\ Len(b) = Len(s) - k /\ \A i \in 1 .. Len(s) - k : b[i] = s[k + i]
  <2>1. \A i \in k + 1 .. Len(s) : s[i] \in S
    BY <1>1
  <2>2. Len(b) = IF k + 1 <= Len(s) THEN Len(s) - (k + 1) + 1 ELSE 0
    BY <1>1, <2>1, SubSeqProperties
  <2>3. \A i \in 1 .. Len(s) - (k + 1) + 1 : b[i] = s[k + 1 + i - 1]
    BY <1>1, <2>1, SubSeqProperties
  <2>4. b \in Seq(S)
    BY <1>1, <2>1, SubSeqProperties
  <2> QED BY <1>1, <2>2, <2>3, <2>4
<1> HIDE DEF a, b
<1>4. /\ w \in Seq(S) /\ Len(w) = Len(s) - 1
      /\ \A i \in 1 .. Len(s) - 1 : w[i] = IF i < k THEN s[i] ELSE s[i + 1]
  <2>1. /\ a \o b \in Seq(S) /\ Len(a \o b) = Len(a) + Len(b)
        /\ \A i \in 1 .. Len(a) + Len(b) : (a \o b)[i] = IF i <= Len(a) THEN a[i] ELSE b[i - Len(a)]
    BY <1>2, <1>3, ConcatProperties
  <2>2. w = a \o b
    BY DEF Without, a, b
  <2>3. Len(a) + Len(b) = Len(s) - 1
    BY <1>1, <1>2, <1>3
  <2>4. ASSUME NEW i \in 1 .. Len(s) - 1 PROVE w[i] = IF i < k THEN s[i] ELSE s[i + 1]
    <3>1. CASE i < k
      <4>1. i \in 1 .. Len(a) + Len(b) /\ i <= Len(a) /\ i \in 1 .. k - 1
        BY <1>1, <1>2, <2>3, <3>1
      <4> QED BY <1>2, <2>1, <2>2, <3>1, <4>1
    <3>2. CASE ~(i < k)
      <4>1. i - Len(a) \in 1 .. Len(s) - k /\ k + (i - Len(a)) = i + 1 /\ ~(i <= Len(a))
        BY <1>1, <1>2, <3>2
      <4> QED BY <1>3, <2>1, <2>2, <2>3, <3>2, <4>1
    <3> QED BY <3>1, <3>2
  <2> QED BY <2>1, <2>2, <2>3, <2>4
<1> HIDE DEF w
<1>5. ASSUME NEW i \in 1 .. Len(w), NEW j \in 1 .. Len(w), w[i] = w[j] PROVE i = j
  <2> DEFINE at(x) == IF x < k THEN x ELSE x + 1
  <2>1. /\ at(i) \in 1 .. Len(s) /\ w[i] = s[at(i)]
        /\ at(j) \in 1 .. Len(s) /\ w[j] = s[at(j)]
    BY <1>1, <1>4
  <2>2. at(i) = at(j)
    BY <1>5, <2>1 DEF Injective
  <2> QED BY <1>1, <1>4, <2>2
<1>6. ASSUME NEW n, In(n, w) PROVE In(n, s) /\ n # s[k]
  <2>1. PICK i \in 1 .. Len(w) : w[i] = n
    BY <1>6 DEF In
  <2>2. PICK j \in 1 .. Len(s) : j # k /\ s[j] = n
    BY <1>1, <1>4, <2>1
  <2> QED BY <2>2 DEF In, Injective
<1>7. ASSUME NEW n, In(n, s), n # s[k] PROVE In(n, w)
  <2>1. PICK j \in 1 .. Len(s) : s[j] = n
    BY <1>7 DEF In
  <2>2. CASE j < k
    <3>1. j \in 1 .. Len(w) /\ w[j] = n
      BY <1>1, <1>4, <2>1, <2>2
    <3> QED BY <3>1 DEF In
  <2>3. CASE j > k
    <3>1. j - 1 \in 1 .. Len(w) /\ w[j - 1] = n
      BY <1>1, <1>4, <2>1, <2>3
    <3> QED BY <3>1 DEF In
  <2> QED BY <1>1, <1>7, <2>1, <2>2, <2>3
<1>8. Injective(w)
  BY <1>5 DEF Injective
<1> QED BY <1>4, <1>6, <1>7, <1>8 DEF w

(* A sequence of nodes without repetitions is no longer than the pool.     *)
LEMMA PoolBounds ==
  ASSUME NEW s \in Seq(Nodes), Injective(s)
  PROVE  Len(s) <= max_msgs
<1>1. Len(s) \in Nat /\ s \in [1 .. Len(s) -> Nodes]
  BY LenProperties
<1>2. s \in Injection(1 .. Len(s), Nodes)
  BY <1>1 DEF Injection, IsInjective, Injective
<1>3. IsFiniteSet(Nodes) /\ Cardinality(Nodes) = max_msgs
  BY FS_Interval, MqAssumption DEF Nodes
<1>4. Cardinality(1 .. Len(s)) <= max_msgs
  BY <1>2, <1>3, FS_Injection
<1>5. Cardinality(1 .. Len(s)) = Len(s)
  BY <1>1, FS_Interval
<1> QED BY <1>4, <1>5

(***************************************************************************)
(* What they do to the pointers.                                           *)
(***************************************************************************)
LEMMA ChainFrame ==
  ASSUME NEW nx \in [Nodes -> Nodes \cup {RT_NULL}], NEW first, NEW s \in Seq(Nodes),
         ChainIn(nx, first, s), NEW n, ~In(n, s), NEW x
  PROVE  ChainIn([nx EXCEPT ![n] = x], first, s)
<1>1. \A k \in 1 .. Len(s) : s[k] \in Nodes /\ s[k] # n
  BY LenProperties DEF In
<1> QED BY <1>1 DEF ChainIn

LEMMA ChainTail ==
  ASSUME NEW nx, NEW first, NEW s \in Seq(Nodes), s # <<>>,
         ChainIn(nx, first, s)
  PROVE  first = s[1] /\ ChainIn(nx, nx[first], Tail(s))
<1>1. /\ Len(s) \in Nat \ {0} /\ Tail(s) \in Seq(Nodes) /\ Len(Tail(s)) = Len(s) - 1
      /\ \A k \in 1 .. Len(Tail(s)) : Tail(s)[k] = s[k + 1]
  BY EmptySeq, LenProperties, HeadTailProperties
<1>2. first = s[1]
  BY DEF ChainIn
<1>3. Tail(s) = <<>> <=> Len(s) = 1
  <2>1. Len(Tail(s)) = 0 <=> Len(s) = 1
    BY <1>1
  <2>2. Len(Tail(s)) = 0 <=> Tail(s) = <<>>
    BY <1>1, EmptySeq
  <2> QED BY <2>1, <2>2
<1>4. ASSUME Len(s) # 1 PROVE Tail(s)[1] = s[2]
  <2>1. 1 \in 1 .. Len(Tail(s)) /\ 1 + 1 = 2
    BY <1>1, <1>4
  <2> QED BY <1>1, <2>1
<1>5. nx[first] = IF Tail(s) = <<>> THEN RT_NULL ELSE Tail(s)[1]
  <2>1. 1 \in 1 .. Len(s)
    BY <1>1
  <2>2. nx[s[1]] = IF 1 = Len(s) THEN RT_NULL ELSE s[1 + 1]
    BY <2>1 DEF ChainIn
  <2> QED BY <1>2, <1>3, <1>4, <2>2
<1>6. ASSUME NEW k \in 1 .. Len(Tail(s))
      PROVE  nx[Tail(s)[k]] = IF k = Len(Tail(s)) THEN RT_NULL ELSE Tail(s)[k + 1]
  <2>1. k + 1 \in 1 .. Len(s) /\ (k = Len(Tail(s)) <=> k + 1 = Len(s))
    BY <1>1
  <2>2. nx[s[k + 1]] = IF k + 1 = Len(s) THEN RT_NULL ELSE s[(k + 1) + 1]
    BY <2>1 DEF ChainIn
  <2>3. ASSUME k # Len(Tail(s)) PROVE Tail(s)[k + 1] = s[(k + 1) + 1]
    <3>0. Len(Tail(s)) \in Nat
      BY <1>1
    <3>1. k \in Nat /\ k < Len(Tail(s))
      BY <3>0, <2>3
    <3>2. k + 1 \in 1 .. Len(Tail(s))
      BY <3>0, <3>1
    <3> QED BY <1>1, <3>2
  <2> QED BY <1>1, <2>1, <2>2, <2>3
<1> QED BY <1>2, <1>5, <1>6 DEF ChainIn

LEMMA ChainAppend ==
  ASSUME NEW nx \in [Nodes -> Nodes \cup {RT_NULL}], NEW first, NEW s \in Seq(Nodes),
         Injective(s), ChainIn(nx, first, s), NEW n \in Nodes, ~In(n, s),
         nx[n] = RT_NULL
  PROVE  ChainIn(IF s = <<>> THEN nx ELSE [nx EXCEPT ![s[Len(s)]] = n],
                 IF first = RT_NULL THEN n ELSE first, Append(s, n))
<1>1. /\ Len(s) \in Nat /\ Len(Append(s, n)) = Len(s) + 1 /\ Append(s, n) # <<>>
      /\ \A k \in 1 .. Len(s) : Append(s, n)[k] = s[k] /\ s[k] \in Nodes
      /\ Append(s, n)[Len(s) + 1] = n
      /\ s # <<>> => Len(s) > 0
  BY AppendProperties, LenProperties, EmptySeq
<1>2. RT_NULL \notin Nodes
  BY MqAssumption DEF RT_NULL, Nodes
<1>3. CASE s = <<>>
  BY <1>1, <1>2, <1>3 DEF ChainIn
<1>4. CASE s # <<>>
  <2> DEFINE ny == [nx EXCEPT ![s[Len(s)]] = n]
  <2>1. first = s[1] /\ first # RT_NULL /\ Append(s, n)[1] = first
    BY <1>1, <1>2, <1>4 DEF ChainIn
  <2>2. ASSUME NEW k \in 1 .. Len(Append(s, n))
        PROVE  ny[Append(s, n)[k]] =
                 IF k = Len(Append(s, n)) THEN RT_NULL ELSE Append(s, n)[k + 1]
    <3>1. CASE k = Len(s) + 1
      <4>1. Append(s, n)[k] = n /\ n # s[Len(s)]
        BY <1>1, <1>4, <3>1 DEF In
      <4> QED BY <1>1, <3>1, <4>1
    <3>2. CASE k = Len(s)
      <4>1. Append(s, n)[k] = s[Len(s)] /\ s[Len(s)] \in Nodes /\ Append(s, n)[k + 1] = n
        BY <1>1, <1>4, <3>2
      <4> QED BY <1>1, <3>2, <4>1
    <3>3. CASE k < Len(s)
      <4>1. /\ Append(s, n)[k] = s[k] /\ s[k] \in Nodes /\ Append(s, n)[k + 1] = s[k + 1]
            /\ s[k] # s[Len(s)] /\ k \in 1 .. Len(s)
        BY <1>1, <3>3 DEF Injective
      <4>2. nx[s[k]] = s[k + 1]
        BY <3>3, <4>1 DEF ChainIn
      <4> QED BY <1>1, <3>3, <4>1, <4>2
    <3> QED BY <1>1, <3>1, <3>2, <3>3
  <2> QED BY <1>1, <1>4, <2>1, <2>2 DEF ChainIn
<1> QED BY <1>3, <1>4

LEMMA ChainPush ==
  ASSUME NEW nx \in [Nodes -> Nodes \cup {RT_NULL}], NEW first, NEW s \in Seq(Nodes),
         Injective(s), ChainIn(nx, first, s), NEW n \in Nodes, ~In(n, s)
  PROVE  ChainIn([nx EXCEPT ![n] = first], n, <<n>> \o s)
<1> DEFINE ny == [nx EXCEPT ![n] = first]
           r == <<n>> \o s
<1>1. /\ Len(s) \in Nat /\ Len(r) = Len(s) + 1 /\ r[1] = n
      /\ \A k \in 1 .. Len(s) : r[k + 1] = s[k] /\ s[k] \in Nodes /\ s[k] # n
      /\ s # <<>> => Len(s) > 0
  BY PushFacts, LenProperties, EmptySeq DEF In
<1>2. r # <<>>
  BY <1>1
<1>3. ASSUME NEW k \in 1 .. Len(r)
      PROVE  ny[r[k]] = IF k = Len(r) THEN RT_NULL ELSE r[k + 1]
  <2>1. CASE k = 1
    <3>1. ny[r[k]] = first
      BY <1>1, <2>1
    <3>2. CASE s = <<>>
      BY <1>1, <2>1, <3>1, <3>2 DEF ChainIn
    <3>3. CASE s # <<>>
      BY <1>1, <2>1, <3>1, <3>3 DEF ChainIn
    <3> QED BY <3>2, <3>3
  <2>2. CASE k # 1
    <3>1. PICK l \in 1 .. Len(s) : k = l + 1
      BY <1>1, <2>2
    <3>2. r[k] = s[l] /\ s[l] # n /\ s[l] \in Nodes
      BY <1>1, <3>1
    <3>3. ny[r[k]] = IF l = Len(s) THEN RT_NULL ELSE s[l + 1]
      BY <3>2 DEF ChainIn
    <3>4. l # Len(s) => r[k + 1] = s[l + 1]
      BY <1>1, <3>1
    <3> QED BY <1>1, <3>1, <3>3, <3>4
  <2> QED BY <2>1, <2>2
<1> QED BY <1>1, <1>2, <1>3 DEF ChainIn

(***************************************************************************)
(* The inductive invariant                                                 *)
(***************************************************************************)

(* Where senders and receivers can be.                                     *)
Positions ==
    /\ \A t \in Senders : pc[t] \in {"idle", "call", "fill", "link"}
    /\ \A t \in Receivers : pc[t] \in {"idle", "wait", "retry", "copy", "free"}

Holds(t) == pc[t] \in {"fill", "link", "copy", "free"}

(* Every node is in one place only: on one of the lists, once, or in the   *)
(* hands of one thread.                                                    *)
Apart ==
    /\ Injective(order) /\ Injective(spare)
    /\ \A n \in Nodes : ~(In(n, order) /\ In(n, spare))
    /\ \A t \in Threads : Holds(t) =>
         msg[t] \in Nodes /\ ~In(msg[t], order) /\ ~In(msg[t], spare)
    /\ \A t, u \in Threads : Holds(t) /\ Holds(u) /\ msg[t] = msg[u] => t = u

(* What is in a node between the two critical sections of its holder.      *)
Contents ==
    \A t \in Threads :
        /\ pc[t] \in {"call", "fill", "link"} => buf[t] \in Msgs
        /\ pc[t] = "link" => next[msg[t]] = RT_NULL /\ data[msg[t]] = buf[t]
        /\ pc[t] \in {"copy", "free"} => data[msg[t]] = due[t]
        /\ pc[t] = "free" => buf[t] = due[t]

Lists ==
    /\ ChainIn(next, msg_queue_head, order)
    /\ ChainIn(next, msg_queue_free, spare)
    /\ msg_queue_tail = IF order = <<>> THEN RT_NULL ELSE order[Len(order)]
    /\ entry = Len(order)

(* The threads on the list are those that wait, each once.                 *)
Waiters ==
    /\ Injective(suspend_thread)
    /\ \A t \in Receivers : In(t, suspend_thread) <=> pc[t] = "wait"

IInv == TypeOK /\ Positions /\ Lists /\ Apart /\ Contents /\ Waiters

LEMMA ListsAreIntact == Lists <=> ListsIntact
  BY DEF Lists, ListsIntact, ChainIn, Chain

LEMMA InitIInv == Init => IInv
<1> SUFFICES ASSUME Init PROVE IInv
  OBVIOUS
<1> USE MqAssumption
<1>1. spare \in Seq(Nodes) /\ Len(spare) = max_msgs
      /\ \A k \in 1 .. max_msgs : spare[k] = max_msgs + 1 - k
  BY DEF Init, Nodes
<1>2. order = <<>> /\ suspend_thread = <<>> /\ Len(order) = 0 /\ Len(suspend_thread) = 0
  BY DEF Init
<1>3. TypeOK
  <2>1. next \in [Nodes -> Nodes \cup {RT_NULL}]
    BY DEF Init, Nodes, RT_NULL
  <2>2. /\ data \in [Nodes -> Msgs \cup {NoMsg}]
        /\ buf \in [Threads -> Msgs \cup {NoMsg}] /\ due \in [Threads -> Msgs \cup {NoMsg}]
        /\ msg \in [Threads -> Nodes \cup {RT_NULL}] /\ pc \in [Threads -> Pc]
    BY DEF Init, Pc
  <2>3. /\ msg_queue_head \in Nodes \cup {RT_NULL} /\ msg_queue_tail \in Nodes \cup {RT_NULL}
        /\ msg_queue_free \in Nodes \cup {RT_NULL} /\ entry \in 0 .. max_msgs
    BY DEF Init, Nodes
  <2> QED BY <1>1, <1>2, <2>1, <2>2, <2>3 DEF TypeOK
<1>4. Positions
  BY DEF Init, Positions, Threads
<1>5. Lists
  <2>1. ChainIn(next, msg_queue_head, order)
    BY <1>2 DEF Init, ChainIn
  <2>2. ChainIn(next, msg_queue_free, spare)
    <3>1. spare # <<>> /\ spare[1] = max_msgs /\ msg_queue_free = max_msgs
      <4>1. 1 \in 1 .. max_msgs /\ max_msgs + 1 - 1 = max_msgs
        OBVIOUS
      <4>2. spare # <<>>
        BY <1>1, <4>1, EmptySeq
      <4> QED BY <1>1, <4>1, <4>2 DEF Init
    <3>2. ASSUME NEW k \in 1 .. Len(spare)
          PROVE  next[spare[k]] = IF k = Len(spare) THEN RT_NULL ELSE spare[k + 1]
      <4>1. spare[k] \in Nodes /\ next[spare[k]] = max_msgs - k
        BY <1>1 DEF Init, Nodes
      <4> QED BY <1>1, <4>1 DEF RT_NULL
    <3> QED BY <3>1, <3>2 DEF ChainIn
  <2> QED BY <1>2, <2>1, <2>2 DEF Init, Lists
<1>6. Apart
  BY <1>1, <1>2 DEF Init, Apart, Injective, In, Holds
<1>7. Contents
  BY DEF Init, Contents
<1>8. Waiters
  BY <1>2 DEF Init, Waiters, Injective, In, Threads
<1> QED BY <1>3, <1>4, <1>5, <1>6, <1>7, <1>8 DEF IInv

(***************************************************************************)
(* The steps                                                               *)
(***************************************************************************)

(* A node is in no hands but its holder's, so what others hold stays.      *)
LEMMA SendCallKeeps == ASSUME IInv, NEW t \in Senders, SendCall(t) PROVE IInv'
<1> USE DEF SendCall, Goes, listVars, history, IInv
<1>1. t \in Threads
  BY DEF Threads
<1>2. TypeOK'
  BY <1>1 DEF TypeOK, Pc
<1>3. Positions'
  BY MqAssumption DEF Positions, TypeOK, Threads
<1>4. Lists'
  BY DEF Lists
<1>5. Apart'
  BY <1>1 DEF Apart, Holds, TypeOK
<1>6. Contents'
  BY <1>1 DEF Contents, TypeOK
<1>7. Waiters'
  BY MqAssumption DEF Waiters, TypeOK, Threads
<1> QED BY <1>2, <1>3, <1>4, <1>5, <1>6, <1>7

LEMMA SendFullKeeps == ASSUME IInv, NEW t \in Senders, SendFull(t) PROVE IInv'
<1> USE DEF SendFull, Goes, Returns, listVars, IInv
<1>1. t \in Threads
  BY DEF Threads
<1>2. TypeOK'
  BY <1>1 DEF TypeOK, Pc
<1>3. Positions'
  BY MqAssumption DEF Positions, TypeOK, Threads
<1>4. Lists'
  BY DEF Lists
<1>5. Apart'
  BY <1>1 DEF Apart, Holds, TypeOK
<1>6. Contents'
  BY <1>1 DEF Contents, TypeOK
<1>7. Waiters'
  BY MqAssumption DEF Waiters, TypeOK, Threads
<1> QED BY <1>2, <1>3, <1>4, <1>5, <1>6, <1>7

LEMMA SendTakeKeeps == ASSUME IInv, NEW t \in Senders, SendTake(t) PROVE IInv'
<1>1. /\ t \in Threads /\ pc[t] = "call" /\ msg_queue_free # RT_NULL
      /\ msg' = [msg EXCEPT ![t] = msg_queue_free]
      /\ msg_queue_free' = next[msg_queue_free]
      /\ spare' = Tail(spare)
      /\ pc' = [pc EXCEPT ![t] = "fill"]
      /\ UNCHANGED <<next, msg_queue_head, msg_queue_tail, entry, data, suspend_thread,
                     buf, order, due>>
  BY DEF SendTake, Goes, Threads
<1>2. spare \in Seq(Nodes) /\ Injective(spare) /\ spare # <<>>
  BY <1>1 DEF IInv, TypeOK, Apart, Lists, ChainIn
<1>3. /\ msg_queue_free = spare[1] /\ spare[1] \in Nodes
      /\ ChainIn(next, msg_queue_free', spare')
      /\ spare' \in Seq(Nodes) /\ Injective(spare')
      /\ \A n : In(n, spare') <=> In(n, spare) /\ n # spare[1]
      /\ In(spare[1], spare)
  BY <1>1, <1>2, ChainTail, TailFacts DEF IInv, Lists
<1>4. TypeOK'
  <2>1. next[msg_queue_free] \in Nodes \cup {RT_NULL}
    BY <1>3 DEF IInv, TypeOK
  <2> QED BY <1>1, <1>3, <2>1 DEF IInv, TypeOK, Pc
<1>5. Positions'
  BY <1>1, MqAssumption DEF IInv, Positions, TypeOK, Threads
<1>6. Lists'
  BY <1>1, <1>3 DEF IInv, Lists
<1>7. Apart'
  <2>1. ~In(msg_queue_free, order) /\ ~In(msg_queue_free, spare')
    BY <1>3 DEF IInv, Apart
  <2>2. \A u \in Threads : Holds(u) => msg[u] # msg_queue_free
    BY <1>3 DEF IInv, Apart
  <2>3. \A u \in Threads : u # t => (Holds(u)' <=> Holds(u)) /\ msg'[u] = msg[u]
    BY <1>1 DEF IInv, TypeOK, Holds
  <2>4. msg'[t] = msg_queue_free /\ msg_queue_free \in Nodes
    BY <1>1, <1>3 DEF IInv, TypeOK
  <2>5. \A u \in Threads : Holds(u)' =>
          msg'[u] \in Nodes /\ ~In(msg'[u], order') /\ ~In(msg'[u], spare')
    BY <1>1, <1>3, <2>1, <2>3, <2>4 DEF IInv, Apart
  <2>6. \A u, v \in Threads : Holds(u)' /\ Holds(v)' /\ msg'[u] = msg'[v] => u = v
    BY <2>2, <2>3, <2>4 DEF IInv, Apart
  <2>7. \A n \in Nodes : ~(In(n, order') /\ In(n, spare'))
    BY <1>1, <1>3 DEF IInv, Apart
  <2>8. Injective(order')
    BY <1>1 DEF IInv, Apart
  <2> QED BY <1>3, <2>5, <2>6, <2>7, <2>8 DEF Apart
<1>8. Contents'
  BY <1>1 DEF IInv, Contents, TypeOK
<1>9. Waiters'
  BY <1>1, MqAssumption DEF IInv, Waiters, TypeOK, Threads
<1> QED BY <1>4, <1>5, <1>6, <1>7, <1>8, <1>9 DEF IInv

LEMMA SendFillKeeps == ASSUME IInv, NEW t \in Senders, SendFill(t) PROVE IInv'
<1>1. /\ t \in Threads /\ pc[t] = "fill"
      /\ next' = [next EXCEPT ![msg[t]] = RT_NULL]
      /\ data' = [data EXCEPT ![msg[t]] = buf[t]]
      /\ pc' = [pc EXCEPT ![t] = "link"]
      /\ UNCHANGED <<msg_queue_head, msg_queue_tail, msg_queue_free, entry,
                     suspend_thread, msg, buf, history>>
  BY DEF SendFill, Goes, Threads
<1>2. /\ msg[t] \in Nodes /\ ~In(msg[t], order) /\ ~In(msg[t], spare)
      /\ \A u \in Threads : u # t /\ Holds(u) => msg[u] # msg[t] /\ msg[u] \in Nodes
  BY <1>1 DEF IInv, Apart, Holds
<1>3. /\ next \in [Nodes -> Nodes \cup {RT_NULL}] /\ data \in [Nodes -> Msgs \cup {NoMsg}]
      /\ order \in Seq(Nodes) /\ spare \in Seq(Nodes) /\ pc \in [Threads -> Pc]
      /\ buf[t] \in Msgs \cup {NoMsg}
  BY <1>1 DEF IInv, TypeOK
<1>4. TypeOK'
  BY <1>1, <1>3 DEF IInv, TypeOK, Pc, history
<1>5. Positions'
  BY <1>1, <1>3, MqAssumption DEF IInv, Positions, Threads
<1>6. Lists'
  <2>1. ChainIn(next', msg_queue_head, order) /\ ChainIn(next', msg_queue_free, spare)
    BY <1>1, <1>2, <1>3, ChainFrame DEF IInv, Lists
  <2> QED BY <1>1, <2>1 DEF IInv, Lists, history
<1>7. Apart'
  <2>1. \A u \in Threads : Holds(u)' <=> Holds(u)
    BY <1>1, <1>3 DEF Holds
  <2> QED BY <1>1, <2>1 DEF IInv, Apart, history
<1>8. Contents'
  <2>1. ASSUME NEW u \in Threads, u # t
        PROVE  /\ pc'[u] = pc[u]
               /\ Holds(u) => next'[msg[u]] = next[msg[u]] /\ data'[msg[u]] = data[msg[u]]
    BY <1>1, <1>2, <1>3, <2>1
  <2>2. pc'[t] = "link" /\ next'[msg[t]] = RT_NULL /\ data'[msg[t]] = buf[t]
    BY <1>1, <1>2, <1>3
  <2>3. buf[t] \in Msgs
    BY <1>1 DEF IInv, Contents
  <2> QED BY <1>1, <2>1, <2>2, <2>3 DEF IInv, Contents, Holds, history
<1>9. Waiters'
  BY <1>1, <1>3, MqAssumption DEF IInv, Waiters, Threads
<1> QED BY <1>4, <1>5, <1>6, <1>7, <1>8, <1>9 DEF IInv

(* Linking extends the messages by the node of the sender, and the one     *)
(* thread that is resumed leaves the list of those that wait.              *)
LEMMA SendLinkKeeps == ASSUME IInv, NEW t \in Senders, SendLink(t) PROVE IInv'
<1>1. /\ t \in Threads /\ pc[t] = "link"
      /\ next' = IF msg_queue_tail = RT_NULL THEN next
                 ELSE [next EXCEPT ![msg_queue_tail] = msg[t]]
      /\ msg_queue_tail' = msg[t]
      /\ msg_queue_head' = IF msg_queue_head = RT_NULL THEN msg[t] ELSE msg_queue_head
      /\ entry' = entry + 1
      /\ order' = Append(order, msg[t])
      /\ UNCHANGED <<msg_queue_free, data, spare>>
  BY DEF SendLink, Threads
<1>2. /\ msg[t] \in Nodes /\ ~In(msg[t], order) /\ ~In(msg[t], spare)
      /\ \A u \in Threads : u # t /\ Holds(u) => msg[u] # msg[t] /\ msg[u] \in Nodes
      /\ next[msg[t]] = RT_NULL
  BY <1>1 DEF IInv, Apart, Holds, Contents
<1>3. /\ next \in [Nodes -> Nodes \cup {RT_NULL}] /\ RT_NULL \notin Nodes
      /\ order \in Seq(Nodes) /\ spare \in Seq(Nodes) /\ Injective(order)
      /\ pc \in [Threads -> Pc] /\ suspend_thread \in Seq(Receivers)
      /\ Injective(suspend_thread) /\ entry = Len(order)
      /\ ChainIn(next, msg_queue_head, order) /\ ChainIn(next, msg_queue_free, spare)
      /\ msg_queue_tail = IF order = <<>> THEN RT_NULL ELSE order[Len(order)]
  BY MqAssumption DEF IInv, TypeOK, Apart, Waiters, Lists, RT_NULL, Nodes
<1>4. /\ order' \in Seq(Nodes) /\ Injective(order') /\ Len(order') = Len(order) + 1
      /\ order'[Len(order) + 1] = msg[t] /\ Len(order) \in Nat
      /\ \A n : In(n, order') <=> In(n, order) \/ n = msg[t]
  BY <1>1, <1>2, <1>3, AppendFacts, LenProperties
<1>5. order # <<>> => In(order[Len(order)], order) /\ order[Len(order)] \in Nodes
  BY <1>3, <1>4, EmptySeq, LenProperties DEF In
<1>6. next' = IF order = <<>> THEN next ELSE [next EXCEPT ![order[Len(order)]] = msg[t]]
  BY <1>1, <1>3, <1>5
<1>7. ChainIn(next', msg_queue_head', order')
  <2>1. ChainIn(IF order = <<>> THEN next ELSE [next EXCEPT ![order[Len(order)]] = msg[t]],
                IF msg_queue_head = RT_NULL THEN msg[t] ELSE msg_queue_head,
                Append(order, msg[t]))
    BY <1>2, <1>3, ChainAppend, Zenon
  <2> QED BY <1>1, <1>6, <2>1, Zenon
<1>8. ChainIn(next', msg_queue_free', spare')
  <2>1. CASE order = <<>>
    BY <1>1, <1>3, <1>6, <2>1
  <2>2. CASE order # <<>>
    <3>1. ~In(order[Len(order)], spare)
      BY <1>5, <2>2 DEF IInv, Apart
    <3>2. ChainIn([next EXCEPT ![order[Len(order)]] = msg[t]], msg_queue_free, spare)
      BY <1>3, <3>1, ChainFrame, Zenon
    <3>3. /\ next' = [next EXCEPT ![order[Len(order)]] = msg[t]]
          /\ msg_queue_free' = msg_queue_free /\ spare' = spare
      BY <1>1, <1>6, <2>2
    <3> QED BY <3>2, <3>3, Zenon
  <2> QED BY <2>1, <2>2
<1>9. Lists'
  <2>1. order' # <<>>
    BY <1>4, EmptySeq
  <2> QED BY <1>1, <1>3, <1>4, <1>7, <1>8, <2>1 DEF Lists
<1> DEFINE awake == IF suspend_thread = <<>> THEN {} ELSE {Head(suspend_thread)}
<1>10. /\ suspend_thread' = IF suspend_thread = <<>> THEN <<>> ELSE Tail(suspend_thread)
       /\ pc' = [u \in Threads |->
                   IF u = t THEN "idle" ELSE IF u \in awake THEN "retry" ELSE pc[u]]
       /\ msg' = [msg EXCEPT ![t] = RT_NULL] /\ buf' = [buf EXCEPT ![t] = NoMsg]
       /\ due' = [due EXCEPT ![t] = NoMsg]
  BY DEF SendLink, Resumes, Returns
<1>11. /\ suspend_thread' \in Seq(Receivers) /\ Injective(suspend_thread')
       /\ \A u \in Receivers : In(u, suspend_thread') <=> In(u, suspend_thread) /\ u \notin awake
       /\ \A u \in awake : u \in Receivers /\ In(u, suspend_thread)
  <2>1. CASE suspend_thread = <<>>
    BY <1>3, <1>10, <2>1 DEF In
  <2>2. CASE suspend_thread # <<>>
    BY <1>3, <1>10, <2>2, TailFacts
  <2> QED BY <2>1, <2>2
<1>12. \A u \in awake : pc[u] = "wait" /\ u \in Threads
  BY <1>11 DEF IInv, Waiters, Threads
<1>13. TypeOK'
  <2>1. next' \in [Nodes -> Nodes \cup {RT_NULL}]
    BY <1>2, <1>3, <1>5, <1>6
  <2>2. entry' \in 0 .. max_msgs
    <3>1. Len(order') <= max_msgs
      BY <1>4, PoolBounds
    <3> QED BY <1>1, <1>3, <1>4, <3>1, MqAssumption
  <2>3. pc' \in [Threads -> Pc]
    BY <1>3, <1>10 DEF Pc
  <2>4. /\ msg_queue_head' \in Nodes \cup {RT_NULL} /\ msg_queue_tail' \in Nodes \cup {RT_NULL}
        /\ msg_queue_free' \in Nodes \cup {RT_NULL} /\ data' \in [Nodes -> Msgs \cup {NoMsg}]
    BY <1>1, <1>2 DEF IInv, TypeOK
  <2>5. /\ msg' \in [Threads -> Nodes \cup {RT_NULL}]
        /\ buf' \in [Threads -> Msgs \cup {NoMsg}] /\ due' \in [Threads -> Msgs \cup {NoMsg}]
    BY <1>10 DEF IInv, TypeOK
  <2> QED BY <1>1, <1>3, <1>4, <1>11, <2>1, <2>2, <2>3, <2>4, <2>5 DEF TypeOK
<1>14. Positions'
  BY <1>10, <1>11, MqAssumption DEF IInv, Positions, Threads
<1>15. \A u \in Threads : Holds(u)' => u # t /\ Holds(u) /\ pc'[u] = pc[u] /\ msg'[u] = msg[u]
                           /\ buf'[u] = buf[u] /\ due'[u] = due[u]
  BY <1>10, <1>12 DEF IInv, TypeOK, Holds
<1>16. Apart'
  <2>1. \A n \in Nodes : ~(In(n, order') /\ In(n, spare'))
    BY <1>1, <1>2, <1>4 DEF IInv, Apart
  <2>2. \A u \in Threads : Holds(u)' =>
          msg'[u] \in Nodes /\ ~In(msg'[u], order') /\ ~In(msg'[u], spare')
    BY <1>1, <1>2, <1>4, <1>15 DEF IInv, Apart
  <2>3. \A u, v \in Threads : Holds(u)' /\ Holds(v)' /\ msg'[u] = msg'[v] => u = v
    BY <1>15 DEF IInv, Apart
  <2>4. Injective(spare')
    BY <1>1 DEF IInv, Apart
  <2> QED BY <1>4, <2>1, <2>2, <2>3, <2>4 DEF Apart
<1>17. Contents'
  <2>1. ASSUME NEW u \in Threads, Holds(u)'
        PROVE  next'[msg[u]] = next[msg[u]]
    <3>1. msg[u] \in Nodes /\ ~In(msg[u], order)
      BY <1>15, <2>1 DEF IInv, Apart
    <3> QED BY <1>3, <1>5, <1>6, <3>1
  <2>2. \A u \in Threads : pc'[u] = "call" => pc[u] = "call" /\ buf'[u] = buf[u]
    BY <1>10, <1>12 DEF IInv, TypeOK
  <2> QED BY <1>1, <1>15, <2>1, <2>2 DEF IInv, Contents, Holds
<1>18. Waiters'
  <2>1. t \notin Receivers
    BY MqAssumption
  <2>2. \A u \in Receivers : pc'[u] = "wait" <=> pc[u] = "wait" /\ u \notin awake
    BY <1>10, <2>1 DEF Threads
  <2> QED BY <1>11, <2>2 DEF IInv, Waiters
<1> QED BY <1>9, <1>13, <1>14, <1>16, <1>17, <1>18 DEF IInv

LEMMA RecvSuspendKeeps == ASSUME IInv, NEW t \in Receivers, RecvSuspend(t) PROVE IInv'
<1>1. /\ t \in Threads /\ pc[t] \in {"idle", "retry"}
      /\ suspend_thread' = Append(suspend_thread, t)
      /\ pc' = [pc EXCEPT ![t] = "wait"]
      /\ UNCHANGED <<listVars, data, msg, buf, history>>
  BY DEF RecvSuspend, Goes, Threads
<1>2. /\ suspend_thread \in Seq(Receivers) /\ Injective(suspend_thread)
      /\ ~In(t, suspend_thread) /\ pc \in [Threads -> Pc]
  BY <1>1 DEF IInv, TypeOK, Waiters
<1>3. /\ suspend_thread' \in Seq(Receivers) /\ Injective(suspend_thread')
      /\ \A u : In(u, suspend_thread') <=> In(u, suspend_thread) \/ u = t
  BY <1>1, <1>2, AppendFacts
<1>4. TypeOK'
  BY <1>1, <1>2, <1>3 DEF IInv, TypeOK, Pc, listVars, history
<1>5. Positions'
  BY <1>1, <1>2, MqAssumption DEF IInv, Positions, Threads
<1>6. Lists'
  BY <1>1 DEF IInv, Lists, listVars, history
<1>7. \A u \in Threads : Holds(u)' <=> Holds(u)
  BY <1>1, <1>2 DEF Holds
<1>8. Apart'
  BY <1>1, <1>7 DEF IInv, Apart, history
<1>9. Contents'
  BY <1>1, <1>2 DEF IInv, Contents, listVars, history
<1>10. Waiters'
  BY <1>1, <1>2, <1>3 DEF IInv, Waiters, Threads
<1> QED BY <1>4, <1>5, <1>6, <1>8, <1>9, <1>10 DEF IInv

LEMMA RecvTimesOutKeeps == ASSUME IInv, NEW t \in Receivers, RecvTimesOut(t) PROVE IInv'
<1>1. /\ t \in Threads /\ pc[t] \in {"wait", "retry"}
      /\ pc' = [pc EXCEPT ![t] = "idle"]
      /\ UNCHANGED <<listVars, data, msg, buf, history>>
  BY DEF RecvTimesOut, Goes, Threads
<1>2. /\ suspend_thread \in Seq(Receivers) /\ Injective(suspend_thread)
      /\ pc \in [Threads -> Pc]
  BY DEF IInv, TypeOK, Waiters
<1>3. /\ suspend_thread' \in Seq(Receivers) /\ Injective(suspend_thread')
      /\ \A u : In(u, suspend_thread') <=> In(u, suspend_thread) /\ u # t
  <2>1. CASE pc[t] = "wait"
    <3>1. PICK k \in DOMAIN suspend_thread :
            suspend_thread[k] = t /\ suspend_thread' = Without(suspend_thread, k)
      BY <2>1 DEF RecvTimesOut
    <3>2. k \in 1 .. Len(suspend_thread)
      BY <1>2, <3>1, LenProperties
    <3> QED BY <1>2, <3>1, <3>2, WithoutFacts
  <2>2. CASE pc[t] = "retry"
    <3>1. suspend_thread' = suspend_thread /\ ~In(t, suspend_thread)
      BY <2>2 DEF RecvTimesOut, IInv, Waiters
    <3> QED BY <1>2, <3>1
  <2> QED BY <1>1, <2>1, <2>2
<1>4. TypeOK'
  BY <1>1, <1>2, <1>3 DEF IInv, TypeOK, Pc, listVars, history
<1>5. Positions'
  BY <1>1, <1>2, MqAssumption DEF IInv, Positions, Threads
<1>6. Lists'
  BY <1>1 DEF IInv, Lists, listVars, history
<1>7. \A u \in Threads : Holds(u)' <=> Holds(u)
  BY <1>1, <1>2 DEF Holds
<1>8. Apart'
  BY <1>1, <1>7 DEF IInv, Apart, history
<1>9. Contents'
  BY <1>1, <1>2 DEF IInv, Contents, listVars, history
<1>10. Waiters'
  BY <1>1, <1>2, <1>3 DEF IInv, Waiters, Threads
<1> QED BY <1>4, <1>5, <1>6, <1>8, <1>9, <1>10 DEF IInv

LEMMA RecvUnlinkKeeps == ASSUME IInv, NEW t \in Receivers, RecvUnlink(t) PROVE IInv'
<1>1. /\ t \in Threads /\ pc[t] \in {"idle", "retry"} /\ entry > 0
      /\ msg' = [msg EXCEPT ![t] = msg_queue_head]
      /\ msg_queue_head' = next[msg_queue_head]
      /\ msg_queue_tail' = IF msg_queue_tail = msg_queue_head THEN RT_NULL ELSE msg_queue_tail
      /\ entry' = entry - 1
      /\ due' = [due EXCEPT ![t] = data[Head(order)]]
      /\ order' = Tail(order)
      /\ pc' = [pc EXCEPT ![t] = "copy"]
      /\ UNCHANGED <<next, msg_queue_free, data, suspend_thread, buf, spare>>
  BY DEF RecvUnlink, Goes, Threads
<1>2. /\ order \in Seq(Nodes) /\ Injective(order) /\ entry = Len(order)
      /\ pc \in [Threads -> Pc] /\ ChainIn(next, msg_queue_head, order)
      /\ next \in [Nodes -> Nodes \cup {RT_NULL}]
  BY DEF IInv, TypeOK, Apart, Lists
<1>3. order # <<>> /\ Len(order) \in Nat
  BY <1>1, <1>2, EmptySeq, LenProperties
<1>4. /\ msg_queue_head = order[1] /\ order[1] \in Nodes /\ Head(order) = order[1]
      /\ ChainIn(next, msg_queue_head', order')
      /\ order' \in Seq(Nodes) /\ Injective(order') /\ Len(order') = Len(order) - 1
      /\ \A n : In(n, order') <=> In(n, order) /\ n # order[1]
      /\ In(order[1], order)
  BY <1>1, <1>2, <1>3, ChainTail, TailFacts
<1>5. Lists'
  <2>1. msg_queue_tail = order[Len(order)]
    BY <1>3 DEF IInv, Lists
  <2>2. msg_queue_tail = msg_queue_head <=> Len(order) = 1
    BY <1>2, <1>3, <1>4, <2>1, EmptySeq DEF Injective
  <2>3. order' = <<>> <=> Len(order) = 1
    BY <1>3, <1>4, EmptySeq
  <2>4. ASSUME Len(order) # 1 PROVE order'[Len(order')] = order[Len(order)]
    <3>1. Len(order') \in 1 .. Len(Tail(order)) /\ Len(order') + 1 = Len(order)
      BY <1>1, <1>3, <1>4, <2>4
    <3>2. \A k \in 1 .. Len(Tail(order)) : Tail(order)[k] = order[k + 1]
      BY <1>2, <1>3, HeadTailProperties
    <3> QED BY <1>1, <3>1, <3>2
  <2>5. msg_queue_tail' = IF order' = <<>> THEN RT_NULL ELSE order'[Len(order')]
    BY <1>1, <2>1, <2>2, <2>3, <2>4
  <2>6. ChainIn(next', msg_queue_free', spare') /\ ChainIn(next', msg_queue_head', order')
    BY <1>1, <1>4 DEF IInv, Lists
  <2> QED BY <1>1, <1>2, <1>4, <2>5, <2>6 DEF Lists
<1>6. TypeOK'
  <2>1. msg_queue_head' \in Nodes \cup {RT_NULL} /\ msg_queue_head \in Nodes
    BY <1>1, <1>2, <1>4
  <2>2. entry' \in 0 .. max_msgs
    BY <1>1, MqAssumption DEF IInv, TypeOK
  <2>3. data[Head(order)] \in Msgs \cup {NoMsg}
    BY <1>4 DEF IInv, TypeOK
  <2> QED BY <1>1, <1>4, <2>1, <2>2, <2>3 DEF IInv, TypeOK, Pc
<1>7. Positions'
  BY <1>1, <1>2, MqAssumption DEF IInv, Positions, Threads
<1>8. /\ \A u \in Threads : u # t => (Holds(u)' <=> Holds(u)) /\ msg'[u] = msg[u]
                               /\ pc'[u] = pc[u] /\ due'[u] = due[u]
      /\ msg'[t] = order[1] /\ due'[t] = data[order[1]] /\ pc'[t] = "copy"
  BY <1>1, <1>4 DEF IInv, TypeOK, Holds
<1>9. Apart'
  <2>1. ~In(order[1], spare)
    BY <1>4 DEF IInv, Apart
  <2>2. \A u \in Threads : Holds(u) => msg[u] # order[1]
    BY <1>4 DEF IInv, Apart
  <2>3. \A u \in Threads : Holds(u)' =>
          msg'[u] \in Nodes /\ ~In(msg'[u], order') /\ ~In(msg'[u], spare')
    BY <1>1, <1>4, <1>8, <2>1 DEF IInv, Apart
  <2>4. \A u, v \in Threads : Holds(u)' /\ Holds(v)' /\ msg'[u] = msg'[v] => u = v
    BY <1>8, <2>2 DEF IInv, Apart
  <2>5. Injective(spare') /\ \A n \in Nodes : ~(In(n, order') /\ In(n, spare'))
    BY <1>1, <1>4 DEF IInv, Apart
  <2> QED BY <1>4, <2>3, <2>4, <2>5 DEF Apart
<1>10. Contents'
  BY <1>1, <1>8 DEF IInv, Contents
<1>11. Waiters'
  BY <1>1, <1>2, <1>8 DEF IInv, Waiters, Threads
<1> QED BY <1>5, <1>6, <1>7, <1>9, <1>10, <1>11 DEF IInv

LEMMA RecvCopyKeeps == ASSUME IInv, NEW t \in Receivers, RecvCopy(t) PROVE IInv'
<1>1. /\ t \in Threads /\ pc[t] = "copy"
      /\ buf' = [buf EXCEPT ![t] = data[msg[t]]]
      /\ pc' = [pc EXCEPT ![t] = "free"]
      /\ UNCHANGED <<listVars, data, suspend_thread, msg, history>>
  BY DEF RecvCopy, Goes, Threads
<1>2. pc \in [Threads -> Pc] /\ msg[t] \in Nodes /\ data[msg[t]] \in Msgs \cup {NoMsg}
  BY <1>1 DEF IInv, TypeOK, Apart, Holds
<1>3. TypeOK'
  BY <1>1, <1>2 DEF IInv, TypeOK, Pc, listVars, history
<1>4. Positions'
  BY <1>1, <1>2, MqAssumption DEF IInv, Positions, Threads
<1>5. Lists'
  BY <1>1 DEF IInv, Lists, listVars, history
<1>6. \A u \in Threads : Holds(u)' <=> Holds(u)
  BY <1>1, <1>2 DEF Holds
<1>7. Apart'
  BY <1>1, <1>6 DEF IInv, Apart, history
<1>8. Contents'
  BY <1>1, <1>2 DEF IInv, Contents, TypeOK, listVars, history
<1>9. Waiters'
  BY <1>1, <1>2 DEF IInv, Waiters, Threads
<1> QED BY <1>3, <1>4, <1>5, <1>7, <1>8, <1>9 DEF IInv

LEMMA RecvFreeKeeps == ASSUME IInv, NEW t \in Receivers, RecvFree(t) PROVE IInv'
<1>1. /\ t \in Threads /\ pc[t] = "free"
      /\ next' = [next EXCEPT ![msg[t]] = msg_queue_free]
      /\ msg_queue_free' = msg[t]
      /\ spare' = <<msg[t]>> \o spare
      /\ pc' = [pc EXCEPT ![t] = "idle"]
      /\ msg' = [msg EXCEPT ![t] = RT_NULL] /\ buf' = [buf EXCEPT ![t] = NoMsg]
      /\ due' = [due EXCEPT ![t] = NoMsg]
      /\ UNCHANGED <<msg_queue_head, msg_queue_tail, entry, data, suspend_thread, order>>
  BY DEF RecvFree, Goes, Returns, Threads
<1>2. /\ msg[t] \in Nodes /\ ~In(msg[t], order) /\ ~In(msg[t], spare)
      /\ \A u \in Threads : u # t /\ Holds(u) => msg[u] # msg[t] /\ msg[u] \in Nodes
  BY <1>1 DEF IInv, Apart, Holds
<1>3. /\ next \in [Nodes -> Nodes \cup {RT_NULL}] /\ pc \in [Threads -> Pc]
      /\ order \in Seq(Nodes) /\ spare \in Seq(Nodes) /\ Injective(spare)
      /\ ChainIn(next, msg_queue_head, order) /\ ChainIn(next, msg_queue_free, spare)
      /\ msg_queue_free \in Nodes \cup {RT_NULL}
  BY DEF IInv, TypeOK, Apart, Lists
<1>4. /\ spare' \in Seq(Nodes) /\ Injective(spare')
      /\ \A n : In(n, spare') <=> In(n, spare) \/ n = msg[t]
  BY <1>1, <1>2, <1>3, PushFacts
<1>5. Lists'
  <2>1. ChainIn([next EXCEPT ![msg[t]] = msg_queue_free], msg[t], <<msg[t]>> \o spare)
    BY <1>2, <1>3, ChainPush, Zenon
  <2>2. ChainIn([next EXCEPT ![msg[t]] = msg_queue_free], msg_queue_head, order)
    BY <1>2, <1>3, ChainFrame, Zenon
  <2>3. ChainIn(next', msg_queue_free', spare') /\ ChainIn(next', msg_queue_head', order')
    BY <1>1, <2>1, <2>2, Zenon
  <2> QED BY <1>1, <2>3 DEF IInv, Lists
<1>6. TypeOK'
  BY <1>1, <1>2, <1>3, <1>4 DEF IInv, TypeOK, Pc
<1>7. Positions'
  BY <1>1, <1>3, MqAssumption DEF IInv, Positions, Threads
<1>8. \A u \in Threads : Holds(u)' => u # t /\ Holds(u) /\ msg'[u] = msg[u]
  BY <1>1, <1>3 DEF IInv, TypeOK, Holds
<1>9. Apart'
  <2>1. \A u \in Threads : Holds(u)' =>
          msg'[u] \in Nodes /\ ~In(msg'[u], order') /\ ~In(msg'[u], spare')
    BY <1>1, <1>2, <1>4, <1>8 DEF IInv, Apart
  <2>2. \A u, v \in Threads : Holds(u)' /\ Holds(v)' /\ msg'[u] = msg'[v] => u = v
    BY <1>8 DEF IInv, Apart
  <2>3. Injective(order') /\ \A n \in Nodes : ~(In(n, order') /\ In(n, spare'))
    BY <1>1, <1>2, <1>4 DEF IInv, Apart
  <2> QED BY <1>4, <2>1, <2>2, <2>3 DEF Apart
<1>10. Contents'
  <2>1. ASSUME NEW u \in Threads, u # t
        PROVE  /\ pc'[u] = pc[u] /\ msg'[u] = msg[u] /\ buf'[u] = buf[u] /\ due'[u] = due[u]
               /\ Holds(u) => next'[msg[u]] = next[msg[u]]
    BY <1>1, <1>2, <1>3, <2>1 DEF IInv, TypeOK
  <2>2. pc'[t] = "idle"
    BY <1>1, <1>3
  <2> QED BY <1>1, <2>1, <2>2 DEF IInv, Contents, Holds
<1>11. Waiters'
  BY <1>1, <1>3 DEF IInv, Waiters, Threads
<1> QED BY <1>5, <1>6, <1>7, <1>9, <1>10, <1>11 DEF IInv

LEMMA NextIInv == IInv /\ [Next]_vars => IInv'
<1> SUFFICES ASSUME IInv, [Next]_vars PROVE IInv'
  OBVIOUS
<1>1. ASSUME NEW t \in Senders, Sender(t) PROVE IInv'
  BY <1>1, SendCallKeeps, SendTakeKeeps, SendFullKeeps, SendFillKeeps, SendLinkKeeps DEF Sender
<1>2. ASSUME NEW t \in Receivers, Receiver(t) PROVE IInv'
  BY <1>2, RecvSuspendKeeps, RecvTimesOutKeeps, RecvUnlinkKeeps, RecvCopyKeeps, RecvFreeKeeps
     DEF Receiver
<1>3. CASE UNCHANGED vars
  BY <1>3 DEF vars, listVars, history, IInv, TypeOK, Positions, Lists, Apart, Contents,
              Waiters, Holds
<1> QED BY <1>1, <1>2, <1>3 DEF Next

THEOREM MqInductive == Spec => []IInv
<1> QED BY InitIInv, NextIInv, PTL DEF Spec

(* The fields of a queue of any length keep their types, whatever threads  *)
(* send and receive: ipc.c never follows a pointer out of the pool.        *)
THEOREM MqTypeOK == Spec => []TypeOK
<1>1. IInv => TypeOK
  BY DEF IInv
<1> QED BY <1>1, MqInductive, PTL

(* Both linked lists of ipc.c stay intact, for any number of threads that  *)
(* preempt each other between the critical sections of send and recv.      *)
THEOREM MqListsIntact == Spec => []ListsIntact
<1>1. IInv => ListsIntact
  BY ListsAreIntact DEF IInv
<1> QED BY <1>1, MqInductive, PTL

(* rt_mq_recv() copies outside of its critical sections what had been sent *)
(* before, for any number of threads.                                      *)
THEOREM MqCopyIntact == Spec => []CopyIntact
<1>1. IInv => CopyIntact
  BY DEF IInv, Contents, CopyIntact, Threads
<1> QED BY <1>1, MqInductive, PTL

(***************************************************************************)
(* Wake-ups                                                                *)
(***************************************************************************)
Retrying == {u \in Receivers : pc[u] = "retry"}

LEMMA SomeReceiversFinite ==
  ASSUME NEW S \in SUBSET Receivers PROVE IsFiniteSet(S) /\ Cardinality(S) \in Nat
<1>1. IsFiniteSet(S)
  BY MqAssumption, FS_Subset
<1> QED BY <1>1, FS_CardinalityType

LEMMA WakeupsKept == IInv /\ WakeupsSuffice /\ [Next]_vars => WakeupsSuffice'
<1> SUFFICES ASSUME IInv, WakeupsSuffice, [Next]_vars, suspend_thread' # <<>>
             PROVE  entry' <= Cardinality(Retrying')
  BY DEF WakeupsSuffice, Retrying
<1>1. /\ suspend_thread # <<>> => entry <= Cardinality(Retrying)
      /\ entry \in Nat /\ pc \in [Threads -> Pc] /\ IsFiniteSet(Retrying)
      /\ Cardinality(Retrying) \in Nat
  BY SomeReceiversFinite, MqAssumption DEF WakeupsSuffice, Retrying, IInv, TypeOK
<1>2. ASSUME UNCHANGED <<entry, suspend_thread>>, Retrying' = Retrying
      PROVE  entry' <= Cardinality(Retrying')
  BY <1>1, <1>2
<1>3. ASSUME NEW t \in Senders, SendCall(t) \/ SendTake(t) \/ SendFull(t) \/ SendFill(t)
      PROVE  entry' <= Cardinality(Retrying')
  <2>1. UNCHANGED <<entry, suspend_thread>>
    BY <1>3 DEF SendCall, SendTake, SendFull, SendFill, listVars
  <2>2. \A u \in Receivers : pc'[u] = pc[u]
    BY <1>1, <1>3, MqAssumption DEF SendCall, SendTake, SendFull, SendFill, Goes, Threads
  <2> QED BY <1>2, <2>1, <2>2 DEF Retrying
<1>4. ASSUME NEW t \in Senders, SendLink(t)
      PROVE  entry' <= Cardinality(Retrying')
  <2>1. /\ suspend_thread' = IF suspend_thread = <<>> THEN <<>> ELSE Tail(suspend_thread)
        /\ entry' = entry + 1
    BY <1>4 DEF SendLink, Resumes
  <2>2. suspend_thread # <<>>
    BY <2>1
  <2> DEFINE h == Head(suspend_thread)
  <2>3. h \in Receivers /\ In(h, suspend_thread)
    BY <2>2, TailFacts DEF IInv, TypeOK, Waiters
  <2>4. pc[h] = "wait"
    BY <2>3 DEF IInv, Waiters
  <2>5. \A u \in Receivers : pc'[u] = IF u = h THEN "retry" ELSE pc[u]
    BY <1>4, <2>2, MqAssumption DEF SendLink, Resumes, Threads
  <2>6. Retrying' = Retrying \cup {h} /\ h \notin Retrying
    BY <2>3, <2>4, <2>5 DEF Retrying
  <2>7. Cardinality(Retrying') = Cardinality(Retrying) + 1
    BY <1>1, <2>6, FS_AddElement
  <2> QED BY <1>1, <2>1, <2>2, <2>7
<1>5. ASSUME NEW t \in Receivers, RecvSuspend(t)
      PROVE  entry' <= Cardinality(Retrying')
  <2>1. entry' = 0
    BY <1>5 DEF RecvSuspend, listVars
  <2>2. IsFiniteSet(Retrying') /\ Cardinality(Retrying') \in Nat
    BY SomeReceiversFinite DEF Retrying
  <2> QED BY <2>1, <2>2
<1>6. ASSUME NEW t \in Receivers, RecvTimesOut(t)
      PROVE  entry' <= Cardinality(Retrying')
  <2>1. CASE pc[t] = "wait"
    <3>1. PICK k \in DOMAIN suspend_thread : suspend_thread' = Without(suspend_thread, k)
      BY <1>6, <2>1 DEF RecvTimesOut
    <3>2. suspend_thread # <<>>
      BY <2>1, EmptySeq DEF IInv, Waiters, TypeOK, In
    <3>3. entry' = entry
      BY <1>6 DEF RecvTimesOut, listVars
    <3>4. Retrying' = Retrying
      BY <1>1, <1>6, <2>1 DEF RecvTimesOut, Goes, Retrying, Threads
    <3> QED BY <1>1, <3>2, <3>3, <3>4
  <2>2. CASE pc[t] = "retry"
    <3>1. entry' = 0
      BY <1>6, <2>2 DEF RecvTimesOut, listVars
    <3>2. IsFiniteSet(Retrying') /\ Cardinality(Retrying') \in Nat
      BY SomeReceiversFinite DEF Retrying
    <3> QED BY <3>1, <3>2
  <2> QED BY <1>6, <2>1, <2>2 DEF RecvTimesOut
<1>7. ASSUME NEW t \in Receivers, RecvUnlink(t)
      PROVE  entry' <= Cardinality(Retrying')
  <2>1. entry' = entry - 1 /\ suspend_thread' = suspend_thread
    BY <1>7 DEF RecvUnlink
  <2>2. CASE pc[t] = "idle"
    <3>1. Retrying' = Retrying
      BY <1>1, <1>7, <2>2 DEF RecvUnlink, Goes, Retrying, Threads
    <3> QED BY <1>1, <2>1, <3>1
  <2>3. CASE pc[t] = "retry"
    <3>1. Retrying' = Retrying \ {t} /\ t \in Retrying
      BY <1>1, <1>7, <2>3 DEF RecvUnlink, Goes, Retrying, Threads
    <3>2. Cardinality(Retrying') = Cardinality(Retrying) - 1
      BY <1>1, <3>1, FS_RemoveElement
    <3> QED BY <1>1, <2>1, <3>2
  <2> QED BY <1>7, <2>2, <2>3 DEF RecvUnlink
<1>8. ASSUME NEW t \in Receivers, RecvCopy(t) \/ RecvFree(t)
      PROVE  entry' <= Cardinality(Retrying')
  <2>1. UNCHANGED <<entry, suspend_thread>>
    BY <1>8 DEF RecvCopy, RecvFree, listVars
  <2>2. Retrying' = Retrying
    BY <1>1, <1>8 DEF RecvCopy, RecvFree, Goes, Retrying, Threads
  <2> QED BY <1>2, <2>1, <2>2
<1>9. CASE UNCHANGED vars
  BY <1>2, <1>9 DEF vars, listVars, Retrying
<1> QED BY <1>3, <1>4, <1>5, <1>6, <1>7, <1>8, <1>9 DEF Next, Sender, Receiver

(* rt_mq_recv() of ipc.c loses no wake-up, for any number of receivers,    *)
(* those included that time out or find the queue empty again.             *)
THEOREM MqWakeupsSuffice == Spec => []WakeupsSuffice
<1>1. Init => WakeupsSuffice
  BY DEF Init, WakeupsSuffice
<1> QED BY <1>1, WakeupsKept, MqInductive, PTL DEF Spec

(***************************************************************************)
(* The abstract queue                                                      *)
(***************************************************************************)
Sent == [k \in DOMAIN order |-> data[order[k]]]

AbstractStep ==
    \/ Queue!MqTakeNode \/ Queue!MqUnlink \/ Queue!MqFreeNode
    \/ \E e \in Msgs : Queue!MqLink(e)

LEMMA StepImplements ==
  IInv /\ [Next]_vars => [AbstractStep]_(Queue!queueVars)
<1> SUFFICES ASSUME IInv, [Next]_vars
             PROVE  AbstractStep \/ (Sent' = Sent /\ Len(spare)' = Len(spare))
  BY DEF Queue!queueVars, Sent
<1>1. /\ order \in Seq(Nodes) /\ spare \in Seq(Nodes) /\ Len(order) \in Nat
      /\ DOMAIN order = 1 .. Len(order) /\ \A k \in 1 .. Len(order) : order[k] \in Nodes
      /\ Len(spare) \in Nat /\ Injective(order) /\ Injective(spare)
  BY LenProperties DEF IInv, TypeOK, Apart
<1>2. ASSUME UNCHANGED <<order, data, spare>>
      PROVE  Sent' = Sent /\ Len(spare)' = Len(spare)
  BY <1>2 DEF Sent
<1>3. ASSUME NEW t \in Senders, SendTake(t)
      PROVE  Queue!MqTakeNode
  <2>1. spare # <<>>
    BY <1>3 DEF SendTake, IInv, Lists, ChainIn
  <2>2. Len(spare) > 0 /\ Len(spare') = Len(spare) - 1
    BY <1>1, <1>3, <2>1, TailFacts DEF SendTake
  <2>3. UNCHANGED <<order, data>>
    BY <1>3 DEF SendTake
  <2> QED BY <2>2, <2>3 DEF Queue!MqTakeNode
<1>4. ASSUME NEW t \in Senders, SendFill(t)
      PROVE  Sent' = Sent /\ Len(spare)' = Len(spare)
  <2>1. \A k \in 1 .. Len(order) : order[k] # msg[t]
    BY <1>4 DEF SendFill, IInv, Apart, Holds, Threads, In
  <2>2. data' = [data EXCEPT ![msg[t]] = buf[t]] /\ UNCHANGED <<order, spare>>
    BY <1>4 DEF SendFill, history
  <2>3. \A k \in DOMAIN order : data'[order[k]] = data[order[k]]
    BY <1>1, <2>1, <2>2 DEF IInv, TypeOK
  <2> QED BY <2>2, <2>3 DEF Sent
<1>5. ASSUME NEW t \in Senders, SendLink(t)
      PROVE  \E e \in Msgs : Queue!MqLink(e)
  <2>1. /\ t \in Threads /\ data[msg[t]] = buf[t] /\ buf[t] \in Msgs /\ msg[t] \in Nodes
        /\ order' = Append(order, msg[t]) /\ UNCHANGED <<data, spare>>
    BY <1>5 DEF SendLink, IInv, Contents, Apart, Holds, Threads
  <2>2. Sent' = Append(Sent, buf[t])
    <3>1. Sent \in Seq(Msgs \cup {NoMsg}) /\ Len(Sent) = Len(order)
      <4>1. Sent \in [1 .. Len(order) -> Msgs \cup {NoMsg}]
        BY <1>1 DEF Sent, IInv, TypeOK
      <4> QED BY <1>1, <4>1, LenProperties
    <3>2. DOMAIN order' = 1 .. Len(order) + 1
      BY <1>1, <2>1, AppendProperties, LenProperties
    <3>3. DOMAIN Append(Sent, buf[t]) = 1 .. Len(order) + 1
      BY <2>1, <3>1, AppendProperties, LenProperties
    <3>4. ASSUME NEW k \in 1 .. Len(order) + 1
          PROVE  data[order'[k]] = Append(Sent, buf[t])[k]
      <4>1. CASE k = Len(order) + 1
        <5>1. order'[k] = msg[t]
          BY <1>1, <2>1, <4>1, AppendProperties
        <5>2. Append(Sent, buf[t])[Len(Sent) + 1] = buf[t]
          BY <2>1, <3>1, AppendProperties
        <5> QED BY <2>1, <3>1, <4>1, <5>1, <5>2
      <4>2. CASE k \in 1 .. Len(order)
        <5>1. order'[k] = order[k] /\ Append(Sent, buf[t])[k] = Sent[k]
          BY <1>1, <2>1, <3>1, <4>2, AppendProperties
        <5>2. Sent[k] = data[order[k]]
          BY <1>1, <4>2 DEF Sent
        <5> QED BY <5>1, <5>2
      <4>3. k = Len(order) + 1 \/ k \in 1 .. Len(order)
        BY <1>1
      <4> QED BY <4>1, <4>2, <4>3
    <3>5. Sent' = [k \in 1 .. Len(order) + 1 |-> data[order'[k]]]
      BY <2>1, <3>2 DEF Sent
    <3>6. Append(Sent, buf[t]) =
            [k \in 1 .. Len(order) + 1 |-> Append(Sent, buf[t])[k]]
      BY <3>1, <3>3, <2>1, AppendProperties, LenProperties
    <3> QED BY <3>4, <3>5, <3>6
  <2> QED BY <2>1, <2>2 DEF Queue!MqLink, Sent
<1>6. ASSUME NEW t \in Receivers, RecvUnlink(t)
      PROVE  Queue!MqUnlink
  <2>1. order' = Tail(order) /\ UNCHANGED <<data, spare>> /\ Len(order) > 0
    BY <1>6 DEF RecvUnlink, IInv, Lists
  <2>2. Sent \in Seq(Msgs \cup {NoMsg}) /\ Len(Sent) = Len(order)
    <3>1. Sent \in [1 .. Len(order) -> Msgs \cup {NoMsg}]
      BY <1>1 DEF Sent, IInv, TypeOK
    <3> QED BY <1>1, <3>1, LenProperties
  <2>3. /\ Sent # <<>> /\ order # <<>>
    BY <1>1, <2>1, <2>2, EmptySeq
  <2>4. /\ Tail(order) \in Seq(Nodes) /\ Len(Tail(order)) = Len(order) - 1
        /\ \A k \in 1 .. Len(order) - 1 : Tail(order)[k] = order[k + 1]
        /\ DOMAIN Tail(order) = 1 .. Len(order) - 1
    BY <1>1, <2>3, HeadTailProperties, LenProperties
  <2>5. /\ Tail(Sent) \in Seq(Msgs \cup {NoMsg}) /\ Len(Tail(Sent)) = Len(order) - 1
        /\ \A k \in 1 .. Len(order) - 1 : Tail(Sent)[k] = Sent[k + 1]
    BY <2>2, <2>3, HeadTailProperties
  <2>6. ASSUME NEW k \in 1 .. Len(order) - 1
        PROVE  data[order'[k]] = Tail(Sent)[k]
    <3>1. k + 1 \in 1 .. Len(order)
      BY <1>1
    <3>2. Sent[k + 1] = data[order[k + 1]]
      BY <1>1, <3>1 DEF Sent
    <3> QED BY <2>1, <2>4, <2>5, <3>2
  <2>7. Sent' = [k \in 1 .. Len(order) - 1 |-> data[order'[k]]]
    BY <2>1, <2>4 DEF Sent
  <2>8. Tail(Sent) = [k \in 1 .. Len(order) - 1 |-> Tail(Sent)[k]]
    BY <2>5, LenProperties
  <2>9. Sent' = Tail(Sent)
    BY <2>6, <2>7, <2>8
  <2> QED BY <2>1, <2>3, <2>9 DEF Queue!MqUnlink, Sent
<1>7. ASSUME NEW t \in Receivers, RecvFree(t)
      PROVE  Queue!MqFreeNode
  <2>1. msg[t] \in Nodes /\ ~In(msg[t], spare) /\ spare' = <<msg[t]>> \o spare
    BY <1>7 DEF RecvFree, IInv, Apart, Holds, Threads
  <2>2. Len(spare') = Len(spare) + 1
    BY <1>1, <2>1, PushFacts
  <2>3. UNCHANGED <<order, data>>
    BY <1>7 DEF RecvFree
  <2> QED BY <2>2, <2>3 DEF Queue!MqFreeNode
<1>8. ASSUME NEW t \in Senders, Sender(t)
      PROVE  AbstractStep \/ (Sent' = Sent /\ Len(spare)' = Len(spare))
  <2>1. SendCall(t) \/ SendFull(t) => UNCHANGED <<order, data, spare>>
    BY DEF SendCall, SendFull, history
  <2> QED BY <1>2, <1>3, <1>4, <1>5, <1>8, <2>1 DEF Sender, AbstractStep
<1>9. ASSUME NEW t \in Receivers, Receiver(t)
      PROVE  AbstractStep \/ (Sent' = Sent /\ Len(spare)' = Len(spare))
  <2>1. RecvSuspend(t) \/ RecvTimesOut(t) \/ RecvCopy(t) => UNCHANGED <<order, data, spare>>
    BY DEF RecvSuspend, RecvTimesOut, RecvCopy, history
  <2> QED BY <1>2, <1>6, <1>7, <1>9, <2>1 DEF Receiver, AbstractStep
<1>10. UNCHANGED vars => UNCHANGED <<order, data, spare>>
  BY DEF vars, history
<1> QED BY <1>2, <1>8, <1>9, <1>10 DEF Next

LEMMA InitImplements == Init => Queue!QueueInit
<1> SUFFICES ASSUME Init PROVE Queue!QueueInit
  OBVIOUS
<1>1. order = <<>> /\ Len(spare) = max_msgs
  BY MqAssumption DEF Init
<1>2. [k \in DOMAIN order |-> data[order[k]]] = <<>>
  BY <1>1
<1> QED BY <1>1, <1>2 DEF Queue!QueueInit

(* The linked lists of ipc.c implement the queue of EventHandler, on which *)
(* the model of the application is built, for any number of threads.       *)
THEOREM MqImplementsQueue == Spec => QueueSpec
<1>1. Spec => [][AbstractStep]_(Queue!queueVars)
  BY MqInductive, StepImplements, PTL DEF Spec
<1> QED BY <1>1, InitImplements, PTL DEF Spec, QueueSpec, AbstractStep
=============================================================================
