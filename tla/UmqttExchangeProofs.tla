------------------------- MODULE UmqttExchangeProofs -------------------------
(***************************************************************************)
(* The types of UmqttExchange, and that no call is confirmed by an         *)
(* acknowledgement from nowhere, for any number of calls, messages, lost   *)
(* connections and attempts.                                               *)
(***************************************************************************)
EXTENDS UmqttExchange, SequenceTheorems, TLAPS

Elems(s) == {s[k] : k \in 1 .. Len(s)}

(* p is a request only if its call is among the n[t] calls of its thread.  *)
Known(p, n) == \A t \in Callers : p.type = Request(t) => p.n \in 1 .. n[t]

(* a acknowledges something in T.                                          *)
AnswerTo(a, T) == \A t \in Callers : a.type = Answer(t) => Pkt(Request(t), a.n) \in T

(* A thread inside a call has begun one and has an attempt left.           *)
InCall ==
    /\ \A t \in Callers : pc[t] # "idle" => nth[t] > 0
    /\ pc["card"] # "idle" => cnt < PUBLISH_RECON
    /\ pc["timer"] \in {"idle", "spin"}

(* The buffer all threads share, and what they took from it, hold requests *)
(* of calls that have begun only ...                                       *)
Buffers ==
    /\ Known(send_buf, nth) /\ Known(send_len, nth)
    /\ \A t \in Threads : Known(wire[t][1], nth) /\ Known(wire[t][2], nth)
    /\ \A p \in taken : Known(p, nth)

(* ... so acknowledgements, on their way or in the queue, answer those.    *)
Answers ==
    /\ \A a \in Elems(msg_queue) : AnswerTo(a, taken)
    /\ \A a \in Elems(down) : AnswerTo(a, taken)

IInv == TypeOK /\ InCall /\ Buffers /\ Answers /\ ConfirmedByBroker

(* The elements of a sequence that grows or shrinks at an end.             *)
LEMMA ElemsAppend ==
  ASSUME NEW S, NEW s \in Seq(S), NEW x \in S
  PROVE  /\ Append(s, x) \in Seq(S) /\ Len(Append(s, x)) = Len(s) + 1
         /\ \A y \in Elems(Append(s, x)) : y \in Elems(s) \/ y = x
<1>1. Append(s, x) \in Seq(S) /\ Len(Append(s, x)) = Len(s) + 1
  BY AppendProperties
<1>2. ASSUME NEW k \in 1 .. Len(Append(s, x))
      PROVE  Append(s, x)[k] \in Elems(s) \/ Append(s, x)[k] = x
  BY <1>1, AppendProperties, LenProperties DEF Elems
<1> QED BY <1>1, <1>2 DEF Elems

LEMMA ElemsTail ==
  ASSUME NEW S, NEW s \in Seq(S), s # <<>>
  PROVE  /\ \A y \in Elems(Tail(s)) : y \in Elems(s)
         /\ Head(s) \in Elems(s) /\ Head(s) \in S
         /\ Tail(s) \in Seq(S) /\ Len(Tail(s)) <= Len(s)
<1>1. Len(s) \in Nat /\ Len(s) > 0 /\ Head(s) = s[1]
  BY EmptySeq, LenProperties, HeadTailProperties
<1>2. /\ Head(s) \in S /\ Tail(s) \in Seq(S) /\ Len(Tail(s)) = Len(s) - 1
      /\ \A k \in 1 .. Len(Tail(s)) : Tail(s)[k] = s[k + 1]
  BY HeadTailProperties
<1> QED BY <1>1, <1>2 DEF Elems

(* A request stays known while the threads begin more calls.               *)
LEMMA KnownGrows ==
  ASSUME NEW n \in [Callers -> Nat], NEW m \in [Callers -> Nat],
         \A t \in Callers : n[t] <= m[t], NEW p, Known(p, n)
  PROVE  Known(p, m)
  BY DEF Known

LEMMA InitIInv == Init => IInv
<1> SUFFICES ASSUME Init PROVE IInv
  OBVIOUS
<1> USE ExchangeAssumption
<1>1. TypeOK
  <2>1. timer_on \in BOOLEAN /\ halted \in BOOLEAN
    BY DEF Init
  <2>2. /\ pc \in [Threads -> Pc]
        /\ nth \in [Callers -> Nat] /\ \A t \in Callers : nth[t] <= Calls(t)
        /\ cnt \in 0 .. PUBLISH_RECON
    BY LenProperties DEF Init, Pc, Calls
  <2>3. Nothing \in SendPkts /\ Pkt("CONNECT", 0) \in SendPkts
    BY DEF Nothing, Pkt, SendPkts
  <2>4. /\ send_buf \in SendPkts /\ send_len \in SendPkts
        /\ wire \in [Threads -> SendPkts \X SendPkts]
    BY <2>3 DEF Init, NoSend
  <2>5. pubrec_msg \in [1 .. QOS2_QUE -> [cnt : 0 .. PUBLISH_RECON + 1, id : Nat]]
    BY DEF Init, Free
  <2>6. /\ msg_queue = <<>> /\ Len(msg_queue) <= MSG_QUEUE_ACK
        /\ down = <<>> /\ qos2_msg_list = <<>>
    BY DEF Init
  <2>7. losses \in 0 .. Losses /\ msgs \in 0 .. Messages
    BY DEF Init
  <2> QED BY <2>1, <2>2, <2>4, <2>5, <2>6, <2>7 DEF Init, TypeOK
<1>2. InCall
  BY DEF Init, InCall, Threads, Callers
<1>3. Buffers
  BY DEF Init, Buffers, Known, Pkt, Nothing, NoSend, Threads, Callers, Request
<1>4. Answers /\ ConfirmedByBroker
  BY DEF Init, Answers, Elems, ConfirmedByBroker
<1> QED BY <1>1, <1>2, <1>3, <1>4 DEF IInv

Senders == Callers \cup {"umqtt"}

(* The part of IInv a step leaves alone when it leaves its variables.      *)
LEMMA AnswersFrame ==
  ASSUME IInv, UNCHANGED <<msg_queue, down, taken, confirmed>>
  PROVE  (Answers /\ ConfirmedByBroker)'
  BY DEF IInv, Answers, ConfirmedByBroker

LEMMA SetsLengthKeeps ==
  ASSUME IInv, NEW t \in Senders, SetsLength(t), UNCHANGED halted
  PROVE  IInv'
<1> USE DEF IInv
<1>1. TypeOK'
  BY DEF SetsLength, Goes, TypeOK, Senders, Threads, Callers, Pc, qos2Vars,
         brokerVars, NoSend, Nothing, Pkt, SendPkts
<1>2. InCall'
  BY DEF SetsLength, Goes, InCall, TypeOK, Senders, Threads, Callers
<1>3. Buffers'
  BY DEF SetsLength, Buffers, TypeOK, Senders, Threads, Callers, brokerVars,
         NoSend, Nothing, Pkt, Known, Request
<1> QED BY <1>1, <1>2, <1>3, AnswersFrame DEF SetsLength, brokerVars

LEMMA BeginsKeeps ==
  ASSUME IInv, NEW t \in Senders, Begins(t), UNCHANGED halted
  PROVE  IInv'
<1> USE DEF IInv
<1>1. \E p \in {"idle", "wait", "sending", "spin"} : pc' = [pc EXCEPT ![t] = p]
  BY DEF Begins, Goes, Sent, TypeOK
<1>2. /\ wire' = wire \/ wire' = [wire EXCEPT ![t] = <<send_buf, send_len>>]
      /\ UNCHANGED <<nth, cnt, bufVars, msg_queue, sub_recv_list, qos2Vars, timer_on,
                     brokerVars, confirmed>>
      /\ pc[t] = "ready"
  BY DEF Begins
<1> HIDE DEF IInv
<1>3. TypeOK'
  BY <1>1, <1>2 DEF IInv, TypeOK, Senders, Threads, Callers, Pc, bufVars, qos2Vars,
                    brokerVars
<1>4. InCall'
  BY <1>1, <1>2 DEF IInv, InCall, TypeOK, Senders, Threads, Callers
<1>5. Buffers'
  BY <1>2 DEF IInv, Buffers, TypeOK, Senders, Threads, Callers, bufVars, brokerVars
<1> QED BY <1>2, <1>3, <1>4, <1>5, AnswersFrame DEF IInv, brokerVars

(* What leaves the buffer is a request of a call that has begun, or no     *)
(* request.                                                                *)
LEMMA OnTheWireKnown ==
  ASSUME IInv, NEW t \in Threads, NEW p \in OnTheWire(t)
  PROVE  (p \in SendPkts /\ Known(p, nth)) \/ p = Torn
  BY DEF IInv, TypeOK, Buffers, OnTheWire

(* The broker answers it, and what it answers it has taken.                *)
LEMMA BrokerTakesKeeps ==
  ASSUME IInv, NEW p, (p \in SendPkts /\ Known(p, nth)) \/ p = Torn,
         BrokerTakes(p), UNCHANGED <<nth, msg_queue, confirmed>>
  PROVE  /\ down' \in Seq(Acks \cup DownMsgs) /\ bsubs' \subseteq DOMAIN SubQos
         /\ link' \in {"up", "fin", "down"} /\ taken' \subseteq Requests
         /\ \A q \in taken' : Known(q, nth)
         /\ (Answers /\ ConfirmedByBroker)'
<1> USE ExchangeAssumption
<1>1. CASE p.type \notin {"SUBSCRIBE", "PUBLISH"}
  <2>1. UNCHANGED <<down, taken, bsubs>> /\ link' \in {link, "fin"}
    BY <1>1 DEF BrokerTakes
  <2> QED BY <2>1, AnswersFrame DEF IInv, TypeOK, Buffers
<1>2. ASSUME NEW t \in Callers, p.type = Request(t)
      PROVE  /\ down' \in Seq(Acks \cup DownMsgs) /\ bsubs' \subseteq DOMAIN SubQos
             /\ link' \in {"up", "fin", "down"} /\ taken' \subseteq Requests
             /\ \A q \in taken' : Known(q, nth)
             /\ (Answers /\ ConfirmedByBroker)'
  <2> DEFINE a == Pkt(Answer(t), p.n)
  <2>1. p \in SendPkts /\ p.n \in 1 .. nth[t] /\ Known(p, nth)
    BY <1>2 DEF Known, Torn, Pkt, Request, Callers
  <2>2. p.n \in Nat \ {0} /\ (t = "main" => p.n \in DOMAIN SubQos)
    BY <2>1, LenProperties DEF IInv, TypeOK, Calls, Callers
  <2>3. p \in Requests /\ p = Pkt(Request(t), p.n) /\ a \in Acks
    BY <1>2, <2>1, <2>2 DEF SendPkts, Requests, Acks, Pkt, Request, Answer, Callers
  <2>4. /\ down' = Append(down, a) /\ taken' = taken \cup {p} /\ link' = link
        /\ bsubs' = IF t = "main" THEN bsubs \cup {p.n} ELSE bsubs
    BY <1>2 DEF BrokerTakes, Request, Answer, Callers
  <2>5. AnswerTo(a, taken')
    BY <2>3, <2>4 DEF AnswerTo, Answer, Request, Callers, Pkt
  <2>6. \A x \in Elems(down') : AnswerTo(x, taken')
    <3>1. a \in Acks \cup DownMsgs /\ down \in Seq(Acks \cup DownMsgs)
      BY <2>3 DEF IInv, TypeOK
    <3>2. \A x \in Elems(Append(down, a)) : x \in Elems(down) \/ x = a
      BY <3>1, ElemsAppend
    <3> QED BY <3>2, <2>4, <2>5 DEF IInv, Answers, AnswerTo
  <2>7. (Answers /\ ConfirmedByBroker)'
    BY <2>4, <2>6 DEF IInv, Answers, AnswerTo, ConfirmedByBroker
  <2>8. down' \in Seq(Acks \cup DownMsgs)
    BY <2>3, <2>4, ElemsAppend DEF IInv, TypeOK
  <2> QED BY <2>1, <2>2, <2>3, <2>4, <2>7, <2>8 DEF IInv, TypeOK, Buffers
<1> QED BY <1>1, <1>2 DEF Callers, Request

LEMMA EndsKeeps ==
  ASSUME IInv, NEW t \in Senders, Ends(t), UNCHANGED halted
  PROVE  IInv'
<1>1. PICK p \in OnTheWire(t) : BrokerTakes(p)
  BY DEF Ends
<1>2. /\ pc[t] = "sending"
      /\ wire' = [wire EXCEPT ![t] = NoSend]
      /\ UNCHANGED <<nth, cnt, bufVars, msg_queue, sub_recv_list, qos2Vars, timer_on,
                     confirmed>>
      /\ \E q \in {"idle", "wait"} : pc' = [pc EXCEPT ![t] = q]
  BY DEF Ends, Sent, Goes
<1>3. /\ down' \in Seq(Acks \cup DownMsgs) /\ bsubs' \subseteq DOMAIN SubQos
      /\ link' \in {"up", "fin", "down"} /\ taken' \subseteq Requests
      /\ \A q \in taken' : Known(q, nth)
      /\ (Answers /\ ConfirmedByBroker)'
  BY <1>1, <1>2, OnTheWireKnown, BrokerTakesKeeps DEF Senders, Threads
<1>4. UNCHANGED <<losses, msgs>>
  BY <1>1 DEF BrokerTakes
<1>5. NoSend \in SendPkts \X SendPkts /\ Known(NoSend[1], nth) /\ Known(NoSend[2], nth)
  BY DEF NoSend, Nothing, Pkt, SendPkts, Known, Request, Callers
<1>6. TypeOK'
  BY <1>2, <1>3, <1>4, <1>5 DEF IInv, TypeOK, Senders, Threads, Callers, Pc,
     bufVars, qos2Vars
<1>7. InCall'
  BY <1>2 DEF IInv, InCall, TypeOK, Senders, Threads, Callers
<1>8. Buffers'
  BY <1>2, <1>3, <1>5 DEF IInv, Buffers, TypeOK, Senders, Threads, bufVars
<1> QED BY <1>3, <1>6, <1>7, <1>8 DEF IInv

LEMMA EndsUnreadKeeps ==
  ASSUME IInv, NEW t \in Senders, EndsUnread(t) \/ SendFails(t), UNCHANGED halted
  PROVE  IInv'
<1>1. /\ pc[t] # "idle"
      /\ wire' = [wire EXCEPT ![t] = NoSend]
      /\ UNCHANGED <<nth, cnt, bufVars, msg_queue, sub_recv_list, qos2Vars, timer_on,
                     down, bsubs, msgs, taken, confirmed>>
      /\ \E q \in {"idle", "wait"} : pc' = [pc EXCEPT ![t] = q]
      /\ link' \in {link, "fin"}
  BY DEF EndsUnread, SendFails, Sent, Goes, brokerVars
<1>2. losses' \in 0 .. Losses
  <2>1. losses \in 0 .. Losses /\ Losses \in Nat
    BY ExchangeAssumption DEF IInv, TypeOK, ExchangeAssumption
  <2>2. losses' = losses \/ (losses < Losses /\ losses' = losses + 1)
    BY DEF EndsUnread, SendFails, brokerVars
  <2> QED BY <2>1, <2>2
<1>3. NoSend \in SendPkts \X SendPkts /\ Known(NoSend[1], nth) /\ Known(NoSend[2], nth)
  BY DEF NoSend, Nothing, Pkt, SendPkts, Known, Request, Callers
<1>4. TypeOK'
  BY <1>1, <1>2, <1>3 DEF IInv, TypeOK, Senders, Threads, Callers, Pc, bufVars,
     qos2Vars
<1>5. InCall'
  BY <1>1 DEF IInv, InCall, TypeOK, Senders, Threads, Callers
<1>6. Buffers'
  BY <1>1, <1>3 DEF IInv, Buffers, TypeOK, Senders, Threads, bufVars
<1> QED BY <1>1, <1>4, <1>5, <1>6, AnswersFrame DEF IInv

(* A call that begins makes its own request known, and keeps the others.   *)
LEMMA CallingKeeps ==
  ASSUME IInv, NEW t \in Callers, Calling(t), UNCHANGED halted
  PROVE  IInv'
<1> USE ExchangeAssumption
<1>1. /\ pc[t] = "idle" /\ nth[t] < Calls(t)
      /\ nth' = [nth EXCEPT ![t] = @ + 1]
      /\ UNCHANGED <<send_len, msg_queue, sub_recv_list, qos2Vars, timer_on,
                     brokerVars, confirmed>>
  BY DEF Calling
<1> DEFINE p == Pkt(Request(t), nth'[t])
<1>2. \/ UNCHANGED <<pc, cnt, wire, send_buf>>
      \/ /\ send_buf' = p /\ wire' = [wire EXCEPT ![t] = <<p, p>>]
         /\ cnt' = IF t = "card" THEN 0 ELSE cnt
         /\ pc' = [pc EXCEPT ![t] = "encoded"]
  BY DEF Calling, Goes
<1>3. /\ nth' \in [Callers -> Nat] /\ \A u \in Callers : nth[u] <= nth'[u]
      /\ nth'[t] > 0 /\ \A u \in Callers : nth'[u] <= Calls(u)
  <2>1. Calls(t) \in Nat
    BY LenProperties DEF Calls
  <2>2. nth \in [Callers -> Nat] /\ \A u \in Callers : nth[u] <= Calls(u)
    BY DEF IInv, TypeOK
  <2>3. nth'[t] = nth[t] + 1 /\ \A u \in Callers \ {t} : nth'[u] = nth[u]
    BY <1>1, <2>2
  <2>4. nth' \in [Callers -> Nat]
    BY <1>1, <2>2
  <2> QED BY <1>1, <2>1, <2>2, <2>3, <2>4
<1>4. p \in SendPkts /\ Known(p, nth')
  BY <1>3 DEF Pkt, SendPkts, Known, Request, Callers
<1> HIDE DEF p
<1>5. \A q : Known(q, nth) => Known(q, nth')
  BY <1>3, KnownGrows DEF IInv, TypeOK
<1>6. TypeOK'
  <2>1. /\ cnt \in 0 .. PUBLISH_RECON /\ pc \in [Threads -> Pc]
        /\ send_buf \in SendPkts /\ wire \in [Threads -> SendPkts \X SendPkts]
    BY DEF IInv, TypeOK
  <2>2. cnt' \in 0 .. PUBLISH_RECON
    BY <1>2, <2>1
  <2>3. pc' \in [Threads -> Pc]
    BY <1>2, <2>1 DEF Pc, Threads, Callers
  <2>4. send_buf' \in SendPkts /\ wire' \in [Threads -> SendPkts \X SendPkts]
    BY <1>2, <1>4, <2>1 DEF Threads
  <2> QED BY <1>1, <1>3, <2>2, <2>3, <2>4 DEF IInv, TypeOK, qos2Vars, brokerVars
<1>7. InCall'
  <2>1. ASSUME NEW u \in Callers, pc'[u] # "idle" PROVE nth'[u] > 0
    BY <1>1, <1>2, <1>3, <2>1 DEF IInv, InCall, TypeOK, Threads, Callers
  <2>2. pc'["card"] # "idle" => cnt' < PUBLISH_RECON
    BY <1>1, <1>2 DEF IInv, InCall, TypeOK, Threads, Callers
  <2>3. pc'["timer"] \in {"idle", "spin"}
    BY <1>2 DEF IInv, InCall, TypeOK, Threads, Callers
  <2> QED BY <2>1, <2>2, <2>3 DEF InCall
<1>8. Buffers'
  <2>1. Known(send_buf', nth') /\ Known(send_len', nth')
    BY <1>1, <1>2, <1>4, <1>5 DEF IInv, Buffers
  <2>2. ASSUME NEW u \in Threads
        PROVE  Known(wire'[u][1], nth') /\ Known(wire'[u][2], nth')
    <3>1. wire \in [Threads -> SendPkts \X SendPkts] /\ t \in Threads
      BY DEF IInv, TypeOK, Threads
    <3>2. wire'[u] \in {wire[u], <<p, p>>}
      BY <1>2, <3>1
    <3> QED BY <3>2, <1>4, <1>5 DEF IInv, Buffers
  <2>3. \A q \in taken' : Known(q, nth')
    BY <1>1, <1>5 DEF IInv, Buffers, brokerVars
  <2> QED BY <2>1, <2>2, <2>3 DEF Buffers
<1> QED BY <1>1, <1>6, <1>7, <1>8, AnswersFrame DEF IInv, brokerVars

(* The acknowledgement in the queue answers something the broker took, and *)
(* that was the request of a call up to the one that waits.                *)
LEMMA TakesAckKeeps ==
  ASSUME IInv, NEW t \in Callers, TakesAck(t), UNCHANGED halted
  PROVE  IInv'
<1> USE ExchangeAssumption
<1> DEFINE a == Head(msg_queue)
           c == <<Pkt(Request(t), nth[t]), Pkt(Request(t), a.n)>>
<1>1. /\ pc[t] = "wait" /\ msg_queue' = Tail(msg_queue)
      /\ pc' = [pc EXCEPT ![t] = "idle"]
      /\ UNCHANGED <<nth, cnt, wire, bufVars, qos2Vars, timer_on, brokerVars>>
  BY DEF TakesAck, Goes
<1>2. /\ a \in Elems(msg_queue) /\ a \in Acks /\ Tail(msg_queue) \in Seq(Acks)
      /\ Len(Tail(msg_queue)) <= Len(msg_queue)
      /\ \A y \in Elems(Tail(msg_queue)) : y \in Elems(msg_queue)
  BY ElemsTail DEF IInv, TypeOK, TakesAck
<1>3. nth[t] \in Nat \ {0} /\ nth[t] <= Calls(t)
  <2>1. nth[t] \in Nat /\ nth[t] <= Calls(t)
    BY DEF IInv, TypeOK
  <2>2. nth[t] > 0
    BY <1>1 DEF IInv, InCall
  <2> QED BY <2>1, <2>2
<1>4. ASSUME a.type = Answer(t)
      PROVE  /\ c \in Requests \X Requests
             /\ c[2] \in taken /\ c[2].type = c[1].type /\ c[2].n <= c[1].n
  <2>1. Pkt(Request(t), a.n) \in taken
    BY <1>2, <1>4 DEF IInv, Answers, AnswerTo
  <2>2. Known(Pkt(Request(t), a.n), nth) /\ a.n \in Nat \ {0}
    BY <1>2, <2>1 DEF IInv, Buffers, Acks
  <2>3. a.n \in 1 .. nth[t]
    BY <2>2 DEF Known, Pkt
  <2> QED BY <1>3, <2>1, <2>2, <2>3 DEF Pkt, Requests, Request, Callers
<1>5. /\ confirmed' \subseteq Requests \X Requests
      /\ ConfirmedByBroker'
  <2>1. CASE a.type = Answer(t)
    <3>1. confirmed' = confirmed \cup {c}
      BY <2>1 DEF TakesAck
    <3> HIDE DEF c
    <3> QED BY <1>1, <1>4, <2>1, <3>1
            DEF IInv, TypeOK, ConfirmedByBroker, brokerVars
  <2>2. CASE a.type # Answer(t)
    BY <1>1, <2>2 DEF IInv, TypeOK, ConfirmedByBroker, TakesAck, brokerVars
  <2> QED BY <2>1, <2>2
<1>6. sub_recv_list' \subseteq DOMAIN SubQos
  <2>1. t = "main" => nth[t] \in DOMAIN SubQos
    BY <1>3, LenProperties DEF Calls
  <2> QED BY <2>1 DEF TakesAck, IInv, TypeOK
<1>7. TypeOK'
  <2>1. pc' \in [Threads -> Pc]
    BY <1>1 DEF IInv, TypeOK, Pc
  <2>2. msg_queue' \in Seq(Acks) /\ Len(msg_queue') <= MSG_QUEUE_ACK
    <3>1. /\ msg_queue \in Seq(Acks) /\ Len(msg_queue) <= MSG_QUEUE_ACK
          /\ Len(msg_queue) \in Nat /\ Len(Tail(msg_queue)) \in Nat
      BY <1>2, LenProperties DEF IInv, TypeOK
    <3> QED BY <1>1, <1>2, <3>1
  <2> QED BY <1>1, <1>5, <1>6, <2>1, <2>2 DEF IInv, TypeOK, bufVars, qos2Vars, brokerVars
<1>8. InCall'
  BY <1>1 DEF IInv, InCall, TypeOK, Threads, Callers
<1>9. Buffers'
  BY <1>1 DEF IInv, Buffers, bufVars, brokerVars
<1>10. Answers'
  BY <1>1, <1>2 DEF IInv, Answers, brokerVars
<1> QED BY <1>5, <1>7, <1>8, <1>9, <1>10 DEF IInv

(* umqtt_publish() sends again only with an attempt left.                  *)
LEMMA WaitEndsKeeps ==
  ASSUME IInv, NEW t \in Callers, WaitEnds(t), UNCHANGED halted
  PROVE  IInv'
<1> USE ExchangeAssumption
<1>1. /\ pc[t] = "wait"
      /\ UNCHANGED <<nth, wire, bufVars, msg_queue, sub_recv_list, qos2Vars, timer_on,
                     brokerVars, confirmed>>
      /\ cnt' = IF t = "card" THEN cnt + 1 ELSE cnt
      /\ \/ pc' = [pc EXCEPT ![t] = "idle"]
         \/ t = "card" /\ cnt' < PUBLISH_RECON /\ pc' = [pc EXCEPT ![t] = "ready"]
  BY DEF WaitEnds, Goes
<1>2. cnt \in 0 .. PUBLISH_RECON /\ (t = "card" => cnt < PUBLISH_RECON)
  BY <1>1 DEF IInv, TypeOK, InCall, Callers
<1>3. cnt' \in 0 .. PUBLISH_RECON /\ pc' \in [Threads -> Pc]
  <2>1. pc \in [Threads -> Pc]
    BY DEF IInv, TypeOK
  <2>2. pc' \in [Threads -> Pc]
    BY <1>1, <2>1 DEF Pc
  <2> QED BY <1>1, <1>2, <2>2
<1>4. TypeOK'
  BY <1>1, <1>3 DEF IInv, TypeOK, bufVars, qos2Vars, brokerVars
<1>5. InCall'
  BY <1>1 DEF IInv, InCall, TypeOK, Threads, Callers
<1>6. Buffers'
  BY <1>1 DEF IInv, Buffers, bufVars, brokerVars
<1> QED BY <1>1, <1>4, <1>5, <1>6, AnswersFrame DEF IInv, brokerVars

(* An acknowledgement moves from the wire to the queue.                    *)
LEMMA ReadsAckKeeps == ASSUME IInv, ReadsAck PROVE IInv'
<1> USE ExchangeAssumption
<1> DEFINE a == Head(down)
<1>1. /\ down' = Tail(down) /\ down # <<>> /\ a.type \in {"PUBACK", "SUBACK"}
      /\ UNCHANGED <<callVars, bufVars, sub_recv_list, qos2Vars, timer_on, halted,
                     link, losses, bsubs, msgs, taken, confirmed>>
      /\ \/ msg_queue' = msg_queue
         \/ msg_queue' = Append(msg_queue, a) /\ Len(msg_queue) < MSG_QUEUE_ACK
  BY DEF ReadsAck, Arrives
<1>2. /\ a \in Elems(down) /\ a \in Acks \cup DownMsgs
      /\ down' \in Seq(Acks \cup DownMsgs)
      /\ \A y \in Elems(down') : y \in Elems(down)
  BY <1>1, ElemsTail DEF IInv, TypeOK
<1>3. a \in Acks
  BY <1>1, <1>2 DEF DownMsgs
<1> HIDE DEF a
<1>4. /\ msg_queue' \in Seq(Acks) /\ Len(msg_queue') <= MSG_QUEUE_ACK
      /\ \A y \in Elems(msg_queue') : y \in Elems(msg_queue) \/ y = a
  <2>1. /\ msg_queue \in Seq(Acks) /\ Len(msg_queue) <= MSG_QUEUE_ACK
        /\ Len(msg_queue) \in Nat
    BY LenProperties DEF IInv, TypeOK
  <2>2. /\ Append(msg_queue, a) \in Seq(Acks)
        /\ Len(Append(msg_queue, a)) = Len(msg_queue) + 1
        /\ \A y \in Elems(Append(msg_queue, a)) : y \in Elems(msg_queue) \/ y = a
    BY <1>3, <2>1, ElemsAppend
  <2>3. CASE msg_queue' = msg_queue
    BY <2>1, <2>3
  <2>4. CASE msg_queue' = Append(msg_queue, a) /\ Len(msg_queue) < MSG_QUEUE_ACK
    <3>1. Len(msg_queue) + 1 <= MSG_QUEUE_ACK
      BY <2>1, <2>4
    <3> QED BY <2>2, <2>4, <3>1
  <2> QED BY <1>1, <2>3, <2>4
<1>5. TypeOK'
  BY <1>1, <1>2, <1>4 DEF IInv, TypeOK, callVars, bufVars, qos2Vars
<1>6. InCall' /\ Buffers'
  BY <1>1 DEF IInv, InCall, Buffers, callVars, bufVars
<1>7. (Answers /\ ConfirmedByBroker)'
  BY <1>1, <1>2, <1>4 DEF IInv, Answers, ConfirmedByBroker
<1> QED BY <1>5, <1>6, <1>7 DEF IInv

(* A message leaves the wire and is no acknowledgement.                    *)
LEMMA ReadsMessageKeeps == ASSUME IInv, ReadsMessage PROVE IInv'
<1> DEFINE p == Pkt("PUBACK", 0)
<1>1. /\ down' = Tail(down) /\ down # <<>>
      /\ UNCHANGED <<nth, cnt, send_len, msg_queue, sub_recv_list, qos2Vars, timer_on,
                     halted, link, losses, bsubs, msgs, taken, confirmed>>
      /\ \/ UNCHANGED <<pc, wire, send_buf>>
         \/ /\ send_buf' = p /\ wire' = [wire EXCEPT !["umqtt"] = <<p, p>>]
            /\ pc' = [pc EXCEPT !["umqtt"] = "encoded"]
  BY DEF ReadsMessage, Arrives, Goes
<1>2. /\ down' \in Seq(Acks \cup DownMsgs)
      /\ \A y \in Elems(down') : y \in Elems(down)
  BY <1>1, ElemsTail DEF IInv, TypeOK
<1>3. p \in SendPkts /\ Known(p, nth)
  BY DEF Pkt, SendPkts, Known, Request, Callers
<1> HIDE DEF p
<1>4. TypeOK'
  <2>1. /\ pc \in [Threads -> Pc] /\ send_buf \in SendPkts
        /\ wire \in [Threads -> SendPkts \X SendPkts]
    BY DEF IInv, TypeOK
  <2>2. pc' \in [Threads -> Pc]
    BY <1>1, <2>1 DEF Pc
  <2>3. send_buf' \in SendPkts /\ wire' \in [Threads -> SendPkts \X SendPkts]
    BY <1>1, <1>3, <2>1
  <2> QED BY <1>1, <1>2, <2>2, <2>3 DEF IInv, TypeOK, qos2Vars
<1>5. InCall'
  BY <1>1 DEF IInv, InCall, TypeOK, Threads, Callers
<1>6. Buffers'
  BY <1>1, <1>3 DEF IInv, Buffers, TypeOK, Threads
<1>7. (Answers /\ ConfirmedByBroker)'
  BY <1>1, <1>2 DEF IInv, Answers, ConfirmedByBroker
<1> QED BY <1>4, <1>5, <1>6, <1>7 DEF IInv

LEMMA ReadsQos2Keeps == ASSUME IInv, ReadsQos2 PROVE IInv'
<1> USE ExchangeAssumption
<1> DEFINE m == Head(down).n
<1>1. /\ down' = Tail(down) /\ down # <<>> /\ Head(down).type = "PUBLISH"
      /\ send_len' = Nothing
      /\ UNCHANGED <<callVars, send_buf, msg_queue, sub_recv_list, timer_on, link,
                     losses, bsubs, msgs, taken, confirmed>>
      /\ add_one_qos2_msg(m) /\ add_one_pubrec_msg(m)
  BY DEF ReadsQos2, Arrives
<1>2. /\ Head(down) \in Acks \cup DownMsgs /\ down' \in Seq(Acks \cup DownMsgs)
      /\ \A y \in Elems(down') : y \in Elems(down)
  BY <1>1, ElemsTail DEF IInv, TypeOK
<1>3. m \in Nat
  BY <1>1, <1>2 DEF Acks, DownMsgs
<1> HIDE DEF m
<1>4. qos2_msg_list' \in Seq(Nat) /\ halted' \in BOOLEAN
  <2>1. qos2_msg_list \in Seq(Nat) /\ halted \in BOOLEAN
    BY DEF IInv, TypeOK
  <2>2. <<m>> \o qos2_msg_list \in Seq(Nat) /\ Corrupt \in Seq(Nat)
    BY <1>3, <2>1, ConcatProperties DEF Corrupt
  <2>3. \/ halted' = TRUE /\ UNCHANGED qos2_msg_list
        \/ halted' \in BOOLEAN /\ qos2_msg_list' = Corrupt
        \/ qos2_msg_list' = <<m>> \o qos2_msg_list /\ UNCHANGED halted
    BY <1>1 DEF add_one_qos2_msg
  <2> QED BY <2>1, <2>2, <2>3, Zenon
<1>5. pubrec_msg' \in [1 .. QOS2_QUE -> [cnt : 0 .. PUBLISH_RECON + 1, id : Nat]]
  <2>1. pubrec_msg \in [1 .. QOS2_QUE -> [cnt : 0 .. PUBLISH_RECON + 1, id : Nat]]
    BY DEF IInv, TypeOK
  <2>2. [cnt |-> PUBLISH_RECON + 1, id |-> m] \in [cnt : 0 .. PUBLISH_RECON + 1, id : Nat]
    BY <1>3
  <2> QED BY <1>1, <2>1, <2>2 DEF add_one_pubrec_msg
<1>6. Nothing \in SendPkts /\ Known(Nothing, nth)
  BY DEF Nothing, Pkt, SendPkts, Known, Request, Callers
<1>7. TypeOK'
  BY <1>1, <1>2, <1>4, <1>5, <1>6 DEF IInv, TypeOK, callVars
<1>8. InCall' /\ Buffers'
  BY <1>1, <1>6 DEF IInv, InCall, Buffers, callVars
<1>9. (Answers /\ ConfirmedByBroker)'
  BY <1>1, <1>2 DEF IInv, Answers, ConfirmedByBroker
<1> QED BY <1>7, <1>8, <1>9 DEF IInv

LEMMA LinkKeeps == ASSUME IInv, ReadsFin \/ Reconnects PROVE IInv'
<1>1. /\ UNCHANGED <<callVars, msg_queue, sub_recv_list, qos2Vars, halted, losses, down,
                     msgs, taken, confirmed>>
      /\ timer_on' \in BOOLEAN /\ link' \in {"up", "fin", "down"} /\ bsubs' \subseteq bsubs
  BY DEF ReadsFin, Reconnects, IInv, TypeOK
<1>2. UNCHANGED bufVars \/ (send_buf' = Pkt("CONNECT", 0) /\ send_len' = Pkt("CONNECT", 0))
  BY DEF ReadsFin, Reconnects
<1>3. Pkt("CONNECT", 0) \in SendPkts /\ Known(Pkt("CONNECT", 0), nth)
  BY DEF Pkt, SendPkts, Known, Request, Callers
<1>4. TypeOK'
  BY <1>1, <1>2, <1>3 DEF IInv, TypeOK, callVars, bufVars, qos2Vars
<1>5. InCall' /\ Buffers'
  BY <1>1, <1>2, <1>3 DEF IInv, InCall, Buffers, callVars, bufVars
<1> QED BY <1>1, <1>4, <1>5, AnswersFrame DEF IInv

LEMMA TimerKeeps ==
  ASSUME IInv, UNCHANGED halted,
         TimerPings \/ \E s \in 1 .. QOS2_QUE : PubrecCycle(s)
  PROVE  IInv'
<1> USE ExchangeAssumption
<1>1. /\ Pkt("PINGREQ", 0) \in SendPkts /\ Known(Pkt("PINGREQ", 0), nth)
      /\ Nothing \in SendPkts /\ Known(Nothing, nth)
  BY DEF Pkt, Nothing, SendPkts, Known, Request, Callers
<1>2. CASE TimerPings
  <2>1. /\ pc["timer"] = "idle" /\ send_buf' = Pkt("PINGREQ", 0)
        /\ pc' = pc \/ pc' = [pc EXCEPT !["timer"] = "spin"]
        /\ UNCHANGED <<nth, cnt, wire, send_len, msg_queue, sub_recv_list, qos2Vars,
                       timer_on, brokerVars, confirmed>>
    BY <1>2 DEF TimerPings, Goes
  <2>2. TypeOK'
    BY <1>1, <2>1 DEF IInv, TypeOK, Pc, qos2Vars, brokerVars
  <2>3. InCall'
    BY <2>1 DEF IInv, InCall, TypeOK, Threads, Callers
  <2>4. Buffers'
    BY <1>1, <2>1 DEF IInv, Buffers, brokerVars
  <2> QED BY <2>1, <2>2, <2>3, <2>4, AnswersFrame DEF IInv, brokerVars
<1>3. ASSUME NEW s \in 1 .. QOS2_QUE, PubrecCycle(s) PROVE IInv'
  <2>1. /\ pubrec_msg[s].cnt > 0
        /\ \/ pubrec_msg' = [pubrec_msg EXCEPT ![s] = Free]
           \/ pubrec_msg' = [pubrec_msg EXCEPT ![s].cnt = @ - 1]
        /\ send_len' \in {send_len, Nothing}
        /\ UNCHANGED <<callVars, send_buf, msg_queue, sub_recv_list, qos2_msg_list,
                       timer_on, brokerVars, confirmed>>
    BY <1>3 DEF PubrecCycle, qos2_publish_delete
  <2>2. pubrec_msg' \in [1 .. QOS2_QUE -> [cnt : 0 .. PUBLISH_RECON + 1, id : Nat]]
    <3>1. pubrec_msg \in [1 .. QOS2_QUE -> [cnt : 0 .. PUBLISH_RECON + 1, id : Nat]]
      BY DEF IInv, TypeOK
    <3>2. Free \in [cnt : 0 .. PUBLISH_RECON + 1, id : Nat]
      BY DEF Free
    <3>3. /\ pubrec_msg[s].cnt - 1 \in 0 .. PUBLISH_RECON + 1 /\ pubrec_msg[s].id \in Nat
          /\ [pubrec_msg[s] EXCEPT !.cnt = @ - 1]
               = [cnt |-> pubrec_msg[s].cnt - 1, id |-> pubrec_msg[s].id]
      BY <2>1, <3>1
    <3>4. [pubrec_msg[s] EXCEPT !.cnt = @ - 1] \in [cnt : 0 .. PUBLISH_RECON + 1, id : Nat]
      BY <3>3
    <3> QED BY <2>1, <3>1, <3>2, <3>4
  <2>3. TypeOK'
    BY <1>1, <2>1, <2>2 DEF IInv, TypeOK, callVars, brokerVars
  <2>4. InCall' /\ Buffers'
    BY <1>1, <2>1 DEF IInv, InCall, Buffers, callVars, brokerVars
  <2> QED BY <2>1, <2>3, <2>4, AnswersFrame DEF IInv, brokerVars
<1> QED BY <1>2, <1>3

(* A message of the broker is no acknowledgement either.                   *)
LEMMA BrokerKeeps == ASSUME IInv, BrokerSends \/ PeerCloses PROVE IInv'
<1> USE ExchangeAssumption
<1>1. CASE BrokerSends
  <2>1. /\ msgs' = msgs + 1 /\ msgs < Messages
        /\ UNCHANGED <<callVars, bufVars, msg_queue, sub_recv_list, qos2Vars, timer_on,
                       halted, link, losses, bsubs, taken, confirmed>>
    BY <1>1 DEF BrokerSends
  <2>2. PICK i \in bsubs : \E q \in 0 .. SubQos[i] :
           down' = Append(down, [type |-> "PUBLISH", n |-> msgs', qos |-> q])
    BY <1>1 DEF BrokerSends
  <2>3. PICK q \in 0 .. SubQos[i] :
           down' = Append(down, [type |-> "PUBLISH", n |-> msgs', qos |-> q])
    BY <2>2
  <2> DEFINE x == [type |-> "PUBLISH", n |-> msgs', qos |-> q]
  <2>4. msgs' \in 0 .. Messages /\ msgs' # 0
    BY <2>1 DEF IInv, TypeOK
  <2>5. SubQos[i] \in 0 .. 2
    BY LenProperties DEF IInv, TypeOK
  <2>6. x \in Acks \cup DownMsgs /\ \A T : AnswerTo(x, T)
    BY <2>4, <2>5 DEF DownMsgs, AnswerTo, Answer, Callers
  <2> HIDE DEF x
  <2>7. /\ down' \in Seq(Acks \cup DownMsgs)
        /\ \A y \in Elems(down') : y \in Elems(down) \/ y = x
    <3>1. down \in Seq(Acks \cup DownMsgs) /\ down' = Append(down, x)
      BY <2>3 DEF IInv, TypeOK, x
    <3> QED BY <2>6, <3>1, ElemsAppend
  <2>8. TypeOK'
    BY <2>1, <2>4, <2>7 DEF IInv, TypeOK, callVars, bufVars, qos2Vars
  <2>9. InCall' /\ Buffers'
    BY <2>1 DEF IInv, InCall, Buffers, callVars, bufVars
  <2>10. (Answers /\ ConfirmedByBroker)'
    BY <2>1, <2>6, <2>7 DEF IInv, Answers, ConfirmedByBroker
  <2> QED BY <2>8, <2>9, <2>10 DEF IInv
<1>2. CASE PeerCloses
  <2>1. /\ link' = "fin" /\ losses < Losses /\ losses' = losses + 1
        /\ down' \in {down, <<>>}
        /\ UNCHANGED <<callVars, bufVars, msg_queue, sub_recv_list, qos2Vars, timer_on,
                       halted, bsubs, msgs, taken, confirmed>>
    BY <1>2 DEF PeerCloses
  <2>2. Elems(<<>>) = {}
    BY DEF Elems
  <2>3. TypeOK'
    <3>1. losses' \in 0 .. Losses
      BY <2>1 DEF IInv, TypeOK
    <3>2. down' \in Seq(Acks \cup DownMsgs)
      <4>1. <<>> \in Seq(Acks \cup DownMsgs)
        OBVIOUS
      <4>2. down \in Seq(Acks \cup DownMsgs)
        BY DEF IInv, TypeOK
      <4> QED BY <2>1, <4>1, <4>2
    <3> QED BY <2>1, <3>1, <3>2 DEF IInv, TypeOK, callVars, bufVars, qos2Vars
  <2>4. InCall' /\ Buffers'
    BY <2>1 DEF IInv, InCall, Buffers, callVars, bufVars
  <2>5. (Answers /\ ConfirmedByBroker)'
    BY <2>1, <2>2 DEF IInv, Answers, ConfirmedByBroker
  <2> QED BY <2>3, <2>4, <2>5 DEF IInv
<1> QED BY <1>1, <1>2

LEMMA NextIInv == IInv /\ [Next]_vars => IInv'
<1> SUFFICES ASSUME IInv, [Next]_vars PROVE IInv'
  OBVIOUS
<1>1. CASE UNCHANGED vars
  BY <1>1 DEF vars, callVars, bufVars, qos2Vars, brokerVars, IInv, TypeOK, InCall,
     Buffers, Answers, ConfirmedByBroker
<1>2. ASSUME NEW t \in Callers, CallsOf(t) PROVE IInv'
  BY <1>2, CallingKeeps, TakesAckKeeps, WaitEndsKeeps DEF CallsOf, CallerStep
<1>3. ASSUME NEW t \in Callers \cup {"umqtt"}, SendsOf(t) PROVE IInv'
  BY <1>3, SetsLengthKeeps, BeginsKeeps, EndsKeeps, EndsUnreadKeeps
     DEF SendsOf, Sending, Senders
<1>4. CASE ReaderRuns \/ (Runs("umqtt") /\ Reconnects)
  BY <1>4, ReadsAckKeeps, ReadsMessageKeeps, ReadsQos2Keeps, LinkKeeps
     DEF ReaderRuns, Reader
<1>5. CASE (Runs("timer") /\ TimerPings /\ UNCHANGED halted) \/ Cycles
  BY <1>5, TimerKeeps DEF Cycles
<1>6. CASE BrokerSends \/ PeerCloses
  BY <1>6, BrokerKeeps
<1> QED BY <1>1, <1>2, <1>3, <1>4, <1>5, <1>6 DEF Next

(* The state of the client keeps its C types and the counters their limits *)
(* for every number of calls, messages and lost connections.               *)
THEOREM ExchangeTypeOK == Spec => []TypeOK
<1>1. IInv => TypeOK
  BY DEF IInv
<1> QED BY InitIInv, NextIInv, <1>1, PTL DEF Spec

(* However many threads share the buffer and the queue, a call of umqtt.c  *)
(* is only ever confirmed by an acknowledgement for a packet of its kind,  *)
(* of this call or an earlier one, that the broker has taken.              *)
THEOREM CallsConfirmedByBroker == Spec => []ConfirmedByBroker
<1>1. IInv => ConfirmedByBroker
  BY DEF IInv
<1> QED BY InitIInv, NextIInv, <1>1, PTL DEF Spec
=============================================================================
