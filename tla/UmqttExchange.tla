--------------------------- MODULE UmqttExchange ---------------------------
(***************************************************************************)
(* The packets of one umqtt client (umqtt.c): main subscribes the topics   *)
(* of mqtt_link.c, the card reader publishes swipes with QoS 1, the umqtt  *)
(* thread reads, and the uplink timer sends heartbeats and looks after the *)
(* QoS 2 messages.  All encode into one send_buf, and both callers wait    *)
(* for their answer at one queue.                                          *)
(*                                                                         *)
(* A packet is its type and the number of the call or message it is for;   *)
(* packet identifiers are left out, nothing reads them back.  Ticks are    *)
(* left out as well: a timeout or a period may end at any time.            *)
(***************************************************************************)
EXTENDS Naturals, Sequences, FiniteSets

CONSTANTS
    SubQos,           \* the QoS of each umqtt_subscribe() of mqtt_link.c
    Swipes,           \* bound: umqtt_publish() calls of the card reader
    Messages,         \* bound: messages of the broker
    InFlight,         \* bound: packets waiting to be read
    Losses,           \* bound: connections that are lost
    MSG_QUEUE_ACK,    \* PKG_UMQTT_MSG_QUEUE_ACK_DEF_SIZE
    PUBLISH_RECON,    \* PKG_UMQTT_PUBLISH_RECON_MAX
    QOS2_QUE,         \* PKG_UMQTT_QOS2_QUE_MAX
    SUBRECV_LEN       \* PKG_UMQTT_SUBRECV_DEF_LENGTH

ASSUME ExchangeAssumption ==
    /\ SubQos \in Seq(0 .. 2)
    /\ Swipes \in Nat /\ Messages \in Nat /\ InFlight \in Nat /\ Losses \in Nat
    /\ MSG_QUEUE_ACK \in Nat /\ PUBLISH_RECON \in Nat \ {0}
    /\ QOS2_QUE \in Nat \ {0} /\ SUBRECV_LEN \in Nat

VARIABLES
    pc,               \* where each thread is, see Pc
    nth,              \* calls each caller has begun
    cnt,              \* _cnt of umqtt_publish()
    send_buf, send_len, \* the shared buffer, and the packet whose length is set
    wire,             \* the packet a thread has encoded; the buffer and
                      \* the length its send began with
    msg_queue,        \* acknowledgements for the callers
    sub_recv_list,    \* topics with a callback
    qos2_msg_list,    \* QoS 2 messages kept, or Corrupt
    pubrec_msg,       \* the PUBREC slots
    timer_on,         \* the uplink timer runs
    halted,           \* the processor has stopped in a fault
    link,             \* the connection: up, fin (closed by the peer), down
    losses,
    down,             \* packets on their way to the client
    bsubs,            \* subscriptions the broker holds for the session
    msgs,             \* messages the broker has sent
    taken,            \* history: calls whose packet the broker took
    confirmed         \* history: <<call, call its acknowledgement was for>>

callVars == <<pc, nth, cnt, wire>>
bufVars == <<send_buf, send_len>>
qos2Vars == <<qos2_msg_list, pubrec_msg>>
brokerVars == <<link, losses, down, bsubs, msgs, taken>>
vars == <<callVars, bufVars, msg_queue, sub_recv_list, qos2Vars, timer_on,
          halted, brokerVars, confirmed>>

Callers == {"main", "card"}
Threads == Callers \cup {"umqtt", "timer"}

(* idle     between two calls, or in recv() for the umqtt thread           *)
(* encoded  the packet is in send_buf, its length not yet in send_len      *)
(* ready    about to call umqtt_trans_send()                               *)
(* sending  the modem takes the bytes of send_buf                          *)
(* spin     in the loop of umqtt_trans_send(), send() returns 0            *)
(* wait     in rt_mq_recv()                                                *)
Pc == {"idle", "encoded", "ready", "sending", "spin", "wait"}

Pkt(type, n) == [type |-> type, n |-> n]
Nothing == Pkt("none", 0)          \* length 0
NoSend == <<Nothing, Nothing>>
Torn == Pkt("torn", 0)             \* bytes of two packets
Corrupt == <<0>>                   \* a list with a null node in it
Free == [cnt |-> 0, id |-> 0]      \* cnt = packet_id = -1; else cnt is 1 more

(* The request of each caller, and the answer it wants.                    *)
Request(t) == IF t = "main" THEN "SUBSCRIBE" ELSE "PUBLISH"
Answer(t) == IF t = "main" THEN "SUBACK" ELSE "PUBACK"
Calls(t) == IF t = "main" THEN Len(SubQos) ELSE Swipes

Init ==
    /\ pc = [t \in Threads |-> "idle"]
    /\ nth = [t \in Callers |-> 0]
    /\ cnt = 0
    /\ send_buf = Pkt("CONNECT", 0) /\ send_len = Pkt("CONNECT", 0)
    /\ wire = [t \in Threads |-> NoSend]
    /\ msg_queue = <<>>
    /\ sub_recv_list = {}
    /\ qos2_msg_list = <<>>
    /\ pubrec_msg = [s \in 1 .. QOS2_QUE |-> Free]
    /\ timer_on = TRUE
    /\ halted = FALSE
    /\ link = "up" /\ losses = 0
    /\ down = <<>> /\ bsubs = {} /\ msgs = 0
    /\ taken = {} /\ confirmed = {}

(***************************************************************************)
(* Priorities: timer 4, umqtt 8, main 10, card reader 18.  A thread that   *)
(* neither waits nor sends keeps those below it from running.  main has    *)
(* set the client and subscribes without a pause, so the card reader,      *)
(* which publishes with a client only, runs while main waits or is done.   *)
(***************************************************************************)
Above(t) ==
    CASE t = "timer" -> {}
      [] t = "umqtt" -> {"timer"}
      [] t = "main"  -> {"timer", "umqtt"}
      [] t = "card"  -> {"timer", "umqtt", "main"}

Busy(u) ==
    \/ pc[u] \in {"encoded", "ready", "spin"}
    \/ u = "main" /\ pc[u] = "idle" /\ nth[u] < Calls(u)

Runs(t) == ~halted /\ \A u \in Above(t) : ~Busy(u)

Goes(t, p) == pc' = [pc EXCEPT ![t] = p]

(***************************************************************************)
(* umqtt_trans_send(client->sock, client->send_buf, client->send_len)      *)
(***************************************************************************)

(* client->send_len = _length: by now another thread may have encoded.     *)
SetsLength(t) ==
    /\ pc[t] = "encoded"
    /\ send_len' = wire[t][2]
    /\ wire' = [wire EXCEPT ![t] = NoSend]
    /\ Goes(t, "ready")
    /\ UNCHANGED <<nth, cnt, send_buf, msg_queue, sub_recv_list, qos2Vars,
                   timer_on, brokerVars, confirmed>>

(* After its send a caller waits for the answer; umqtt goes back to recv().*)
Sent(t) == Goes(t, IF t = "umqtt" THEN "idle" ELSE "wait")

(* The send begins.  A length of 0 sends nothing; on a connection the peer *)
(* has closed send() returns 0 and the loop turns; on none it fails.  A    *)
(* caller takes a failure for a success: umqtt_trans_send() returns -errno *)
(* and errno, the error of the thread, is zero or a negative RT-Thread     *)
(* code, so that the result is never negative.                             *)
Begins(t) ==
    /\ pc[t] = "ready"
    /\ IF send_len # Nothing /\ link = "up"
       THEN wire' = [wire EXCEPT ![t] = <<send_buf, send_len>>] ELSE UNCHANGED wire
    /\ CASE send_len = Nothing \/ link = "down"  -> Sent(t)
         [] send_len # Nothing /\ link = "up"   -> Goes(t, "sending")
         [] send_len # Nothing /\ link = "fin"  -> Goes(t, "spin")
    /\ UNCHANGED <<nth, cnt, bufVars, msg_queue, sub_recv_list, qos2Vars,
                   timer_on, brokerVars, confirmed>>

(* What the modem has read: the buffer as it was, as it is now, or parts   *)
(* of both, cut to the length the send began with.                         *)
OnTheWire(t) ==
    {IF b = wire[t][2] THEN b ELSE Torn : b \in {wire[t][1], send_buf}}
        \cup (IF wire[t][1] = send_buf THEN {} ELSE {Torn})

(* The broker takes a packet.  It answers a request; what is no packet, or *)
(* a second CONNECT, makes it close the connection.                        *)
BrokerTakes(p) ==
    /\ down' = CASE p.type = "SUBSCRIBE" -> Append(down, Pkt("SUBACK", p.n))
                 [] p.type = "PUBLISH"   -> Append(down, Pkt("PUBACK", p.n))
                 [] OTHER -> down
    /\ taken' = IF p.type \in {"SUBSCRIBE", "PUBLISH"} THEN taken \cup {p} ELSE taken
    /\ bsubs' = IF p.type = "SUBSCRIBE" THEN bsubs \cup {p.n} ELSE bsubs
    /\ link' = IF p.type \in {"torn", "CONNECT"} THEN "fin" ELSE link
    /\ UNCHANGED <<losses, msgs>>

Ends(t) ==
    /\ pc[t] = "sending" /\ link = "up"
    /\ \E p \in OnTheWire(t) : BrokerTakes(p)
    /\ Sent(t)
    /\ wire' = [wire EXCEPT ![t] = NoSend]
    /\ UNCHANGED <<nth, cnt, bufVars, msg_queue, sub_recv_list, qos2Vars,
                   timer_on, confirmed>>

(* The modem has sent the bytes, but the peer closes without reading them. *)
EndsUnread(t) ==
    /\ pc[t] = "sending" /\ (link = "fin" \/ (link = "up" /\ losses < Losses))
    /\ link' = "fin"
    /\ losses' = IF link = "up" THEN losses + 1 ELSE losses
    /\ Sent(t)
    /\ wire' = [wire EXCEPT ![t] = NoSend]
    /\ UNCHANGED <<nth, cnt, bufVars, msg_queue, sub_recv_list, qos2Vars,
                   timer_on, down, bsubs, msgs, taken, confirmed>>

(* SEND FAIL or no report of the modem, or a socket closed meanwhile: the  *)
(* caller waits for an answer all the same.                                *)
SendFails(t) ==
    /\ \/ pc[t] = "sending"
       \/ pc[t] = "spin" /\ link # "fin"
    /\ Sent(t)
    /\ wire' = [wire EXCEPT ![t] = NoSend]
    /\ UNCHANGED <<nth, cnt, bufVars, msg_queue, sub_recv_list, qos2Vars,
                   timer_on, brokerVars, confirmed>>

Sending(t) ==
    \/ SetsLength(t) \/ Begins(t) \/ Ends(t) \/ EndsUnread(t) \/ SendFails(t)

(***************************************************************************)
(* umqtt_subscribe() and umqtt_publish() with QoS 1                        *)
(***************************************************************************)

(* A call begins.  umqtt_subscribe() returns at once when the topic has a  *)
(* callback or the list is longer than its limit.                          *)
Calling(t) ==
    /\ pc[t] = "idle" /\ nth[t] < Calls(t)
    /\ nth' = [nth EXCEPT ![t] = @ + 1]
    /\ IF t = "main" /\ (nth'[t] \in sub_recv_list
                         \/ Cardinality(sub_recv_list) > SUBRECV_LEN)
       THEN UNCHANGED <<pc, cnt, wire, send_buf>>
       ELSE LET p == Pkt(Request(t), nth'[t]) IN
            /\ send_buf' = p
            /\ wire' = [wire EXCEPT ![t] = <<p, p>>]
            /\ cnt' = IF t = "card" THEN 0 ELSE cnt
            /\ Goes(t, "encoded")
    /\ UNCHANGED <<send_len, msg_queue, sub_recv_list, qos2Vars, timer_on,
                   brokerVars, confirmed>>

\* Mutant: the type of the acknowledgement is not looked at.
TakesAckMutant(t) ==
    /\ pc[t] = "wait" /\ msg_queue # <<>>
    /\ msg_queue' = Tail(msg_queue)
    /\ sub_recv_list' = IF t = "main" THEN sub_recv_list \cup {nth[t]}
                                      ELSE sub_recv_list
    /\ confirmed' = confirmed \cup
         {<<Pkt(Request(t), nth[t]), Pkt(Request(t), Head(msg_queue).n)>>}
    /\ Goes(t, "idle")
    /\ UNCHANGED <<nth, cnt, wire, bufVars, qos2Vars, timer_on, brokerVars>>

(* rt_mq_recv() gives the caller the oldest acknowledgement, whoever it is *)
(* for: one of the type it wants means success, and registers the callback *)
(* of a subscription; another one means failure.                           *)
TakesAck(t) ==
    /\ pc[t] = "wait" /\ msg_queue # <<>>
    /\ msg_queue' = Tail(msg_queue)
    /\ IF Head(msg_queue).type = Answer(t)
       THEN /\ sub_recv_list' = IF t = "main" THEN sub_recv_list \cup {nth[t]}
                                              ELSE sub_recv_list
            /\ confirmed' = confirmed \cup
                 {<<Pkt(Request(t), nth[t]), Pkt(Request(t), Head(msg_queue).n)>>}
       ELSE UNCHANGED <<sub_recv_list, confirmed>>
    /\ Goes(t, "idle")
    /\ UNCHANGED <<nth, cnt, wire, bufVars, qos2Vars, timer_on, brokerVars>>

\* Mutant: the counter of attempts is set back before every attempt, as it
\* is for PUBREL.
WaitEndsMutant(t) ==
    /\ pc[t] = "wait" /\ msg_queue = <<>>
    /\ cnt' = 0
    /\ IF t = "card" THEN Goes(t, "ready") ELSE Goes(t, "idle")
    /\ UNCHANGED <<nth, wire, bufVars, msg_queue, sub_recv_list, qos2Vars,
                   timer_on, brokerVars, confirmed>>

(* No answer in time: umqtt_subscribe() fails; umqtt_publish() sends what  *)
(* is then in send_buf, up to its number of attempts.                      *)
WaitEnds(t) ==
    /\ pc[t] = "wait" /\ msg_queue = <<>>
    /\ cnt' = IF t = "card" THEN cnt + 1 ELSE cnt
    /\ IF t = "card" /\ cnt' < PUBLISH_RECON THEN Goes(t, "ready") ELSE Goes(t, "idle")
    /\ UNCHANGED <<nth, wire, bufVars, msg_queue, sub_recv_list, qos2Vars,
                   timer_on, brokerVars, confirmed>>

CallerStep(t) == Calling(t) \/ TakesAck(t) \/ WaitEnds(t)

(***************************************************************************)
(* umqtt_thread() and umqtt_handle_readpacket()                            *)
(***************************************************************************)
Arrives == pc["umqtt"] = "idle" /\ link \in {"up", "fin"} /\ down # <<>>

\* Mutant: one acknowledgement more than the queue has room for.
ReadsAckMutant ==
    /\ Arrives /\ Head(down).type \in {"PUBACK", "SUBACK"}
    /\ down' = Tail(down)
    /\ msg_queue' = IF Len(msg_queue) <= MSG_QUEUE_ACK
                    THEN Append(msg_queue, Head(down)) ELSE msg_queue
    /\ UNCHANGED <<callVars, bufVars, sub_recv_list, qos2Vars, timer_on, halted,
                   link, losses, bsubs, msgs, taken, confirmed>>

(* An acknowledgement goes to the queue, or is dropped when that is full.  *)
ReadsAck ==
    /\ Arrives /\ Head(down).type \in {"PUBACK", "SUBACK"}
    /\ down' = Tail(down)
    /\ msg_queue' = IF Len(msg_queue) < MSG_QUEUE_ACK
                    THEN Append(msg_queue, Head(down)) ELSE msg_queue
    /\ UNCHANGED <<callVars, bufVars, sub_recv_list, qos2Vars, timer_on, halted,
                   link, losses, bsubs, msgs, taken, confirmed>>

(* A message of QoS 0 or 1 goes to the callback of its topic, whose work   *)
(* is in MqttLink; QoS 1 is answered with PUBACK.                          *)
ReadsMessage ==
    /\ Arrives /\ Head(down).type = "PUBLISH" /\ Head(down).qos < 2
    /\ down' = Tail(down)
    /\ IF Head(down).qos = 0
       THEN UNCHANGED <<pc, wire, send_buf>>
       ELSE LET p == Pkt("PUBACK", 0) IN
            /\ send_buf' = p
            /\ wire' = [wire EXCEPT !["umqtt"] = <<p, p>>]
            /\ Goes("umqtt", "encoded")
    /\ UNCHANGED <<nth, cnt, send_len, msg_queue, sub_recv_list, qos2Vars,
                   timer_on, halted, link, losses, bsubs, msgs, taken, confirmed>>

(* add_one_qos2_msg(): with the list full the message is null, and linking *)
(* it faults or leaves a list that the next walk cannot get through.       *)
add_one_qos2_msg(m) ==
    CASE qos2_msg_list = Corrupt ->
           halted' = TRUE /\ UNCHANGED qos2_msg_list
      [] qos2_msg_list # Corrupt /\ Len(qos2_msg_list) >= QOS2_QUE ->
           halted' \in BOOLEAN /\ qos2_msg_list' = Corrupt
      [] OTHER ->
           qos2_msg_list' = <<m>> \o qos2_msg_list /\ UNCHANGED halted

(* add_one_pubrec_msg(): the first free slot, if there is one.             *)
add_one_pubrec_msg(m) ==
    LET free == {s \in 1 .. QOS2_QUE : pubrec_msg[s].cnt = 0}
    IN  pubrec_msg' = [s \in 1 .. QOS2_QUE |->
                         IF s \in free /\ \A r \in free : s <= r
                         THEN [cnt |-> PUBLISH_RECON + 1, id |-> m]
                         ELSE pubrec_msg[s]]

(* A message of QoS 2 is kept.  umqtt_encode() knows no PUBREC: the length *)
(* of the packet is 0 and nothing is sent.                                 *)
ReadsQos2 ==
    /\ Arrives /\ Head(down).type = "PUBLISH" /\ Head(down).qos = 2
    /\ down' = Tail(down)
    /\ add_one_qos2_msg(Head(down).n)
    /\ add_one_pubrec_msg(Head(down).n)
    /\ send_len' = Nothing
    /\ UNCHANGED <<callVars, send_buf, msg_queue, sub_recv_list, timer_on, link,
                   losses, bsubs, msgs, taken, confirmed>>

(* The stream ends: stop the timer and close the socket.                   *)
ReadsFin ==
    /\ pc["umqtt"] = "idle" /\ link = "fin" /\ down = <<>>
    /\ link' = "down"
    /\ timer_on' = FALSE
    /\ UNCHANGED <<callVars, bufVars, msg_queue, sub_recv_list, qos2Vars, halted,
                   losses, down, bsubs, msgs, taken, confirmed>>

(* umqtt_connect() succeeds: CONNECT has been in send_buf, the session is  *)
(* a new one, and msg_queue and the lists are as they were.                *)
Reconnects ==
    /\ pc["umqtt"] = "idle" /\ link = "down"
    /\ link' = "up"
    /\ bsubs' = {}
    /\ send_buf' = Pkt("CONNECT", 0) /\ send_len' = Pkt("CONNECT", 0)
    /\ UNCHANGED <<callVars, msg_queue, sub_recv_list, qos2Vars, timer_on, halted,
                   losses, down, msgs, taken, confirmed>>

Reader == ReadsAck \/ ReadsMessage \/ ReadsQos2 \/ ReadsFin

(***************************************************************************)
(* umqtt_uplink_timer_callback()                                           *)
(***************************************************************************)

(* umqtt_keepalive_callback(): PINGREQ, sent with a length of its own.     *)
TimerPings ==
    /\ timer_on /\ pc["timer"] = "idle" /\ link \in {"up", "fin"}
    /\ send_buf' = Pkt("PINGREQ", 0)
    /\ IF link = "fin" THEN Goes("timer", "spin") ELSE UNCHANGED pc
    /\ UNCHANGED <<nth, cnt, wire, send_len, msg_queue, sub_recv_list, qos2Vars,
                   timer_on, brokerVars, confirmed>>

(* qos2_publish_delete(): its test holds for an empty list only, so it     *)
(* finds no message to deliver and remove.                                 *)
qos2_publish_delete(m) == UNCHANGED qos2_msg_list

\* Mutant: the counter of the slot is not written back.
PubrecCycleMutant(s) ==
    /\ timer_on /\ pc["timer"] = "idle" /\ pubrec_msg[s].cnt > 0
    /\ UNCHANGED pubrec_msg
    /\ send_len' = Nothing
    /\ UNCHANGED <<callVars, send_buf, msg_queue, sub_recv_list, qos2_msg_list,
                   timer_on, brokerVars, confirmed>>

(* pubrec_cycle_callback() for a slot that is due: count down, and "send"  *)
(* PUBREC again, with length 0; below 0 the message is given up.           *)
PubrecCycle(s) ==
    /\ timer_on /\ pc["timer"] = "idle" /\ pubrec_msg[s].cnt > 0
    /\ IF pubrec_msg[s].cnt = 1
       THEN /\ qos2_publish_delete(pubrec_msg[s].id)
            /\ pubrec_msg' = [pubrec_msg EXCEPT ![s] = Free]
            /\ UNCHANGED send_len
       ELSE /\ pubrec_msg' = [pubrec_msg EXCEPT ![s].cnt = @ - 1]
            /\ send_len' = Nothing
            /\ UNCHANGED qos2_msg_list
    /\ UNCHANGED <<callVars, send_buf, msg_queue, sub_recv_list, timer_on,
                   brokerVars, confirmed>>

(***************************************************************************)
(* The broker and the network                                              *)
(***************************************************************************)
BrokerSends ==
    /\ link = "up" /\ msgs < Messages /\ Len(down) < InFlight
    /\ msgs' = msgs + 1
    /\ \E i \in bsubs : \E q \in 0 .. SubQos[i] :
         down' = Append(down, [type |-> "PUBLISH", n |-> msgs', qos |-> q])
    /\ UNCHANGED <<callVars, bufVars, msg_queue, sub_recv_list, qos2Vars, timer_on,
                   halted, link, losses, bsubs, taken, confirmed>>

(* The peer closes; what it has sent can still be read, or is lost.        *)
PeerCloses ==
    /\ link = "up" /\ losses < Losses
    /\ link' = "fin" /\ losses' = losses + 1
    /\ down' \in {down, <<>>}
    /\ UNCHANGED <<callVars, bufVars, msg_queue, sub_recv_list, qos2Vars, timer_on,
                   halted, bsubs, msgs, taken, confirmed>>

CallsOf(t) == Runs(t) /\ CallerStep(t) /\ UNCHANGED halted
SendsOf(t) == Runs(t) /\ Sending(t) /\ UNCHANGED halted
ReaderRuns == Runs("umqtt") /\ Reader
Cycles == \E s \in 1 .. QOS2_QUE : Runs("timer") /\ PubrecCycle(s) /\ UNCHANGED halted

Next ==
    \/ \E t \in Callers : CallsOf(t)
    \/ \E t \in Callers \cup {"umqtt"} : SendsOf(t)
    \/ ReaderRuns
    \/ Runs("umqtt") /\ Reconnects
    \/ Runs("timer") /\ TimerPings /\ UNCHANGED halted
    \/ Cycles
    \/ BrokerSends \/ PeerCloses

Spec == Init /\ [][Next]_vars

(* A thread that is ready runs, send() and rt_mq_recv() return, and the    *)
(* timer fires.  The broker need not answer, nor a reconnect succeed.      *)
Fairness ==
    /\ \A t \in Callers : WF_vars(CallsOf(t))
    /\ \A t \in Callers \cup {"umqtt"} : WF_vars(SendsOf(t))
    /\ WF_vars(ReaderRuns)
    /\ WF_vars(Cycles)

FairSpec == Spec /\ Fairness

(***************************************************************************)
(* Properties                                                              *)
(***************************************************************************)
Requests == [type : {"SUBSCRIBE", "PUBLISH"}, n : Nat \ {0}]
SendPkts == [type : {"CONNECT", "PUBLISH", "SUBSCRIBE", "PUBACK", "PINGREQ", "none"},
             n : Nat]
Acks == [type : {"PUBACK", "SUBACK"}, n : Nat \ {0}]
DownMsgs == [type : {"PUBLISH"}, n : Nat \ {0}, qos : 0 .. 2]

(* The state of the client has its C types: the queue of acknowledgements  *)
(* never exceeds its size, a call never exceeds its attempts, and the      *)
(* PUBREC slots count down from their maximum.                             *)
TypeOK ==
    /\ pc \in [Threads -> Pc]
    /\ nth \in [Callers -> Nat] /\ \A t \in Callers : nth[t] <= Calls(t)
    /\ cnt \in 0 .. PUBLISH_RECON
    /\ send_buf \in SendPkts /\ send_len \in SendPkts
    /\ wire \in [Threads -> SendPkts \X SendPkts]
    /\ msg_queue \in Seq(Acks) /\ Len(msg_queue) <= MSG_QUEUE_ACK
    /\ sub_recv_list \subseteq DOMAIN SubQos
    /\ qos2_msg_list \in Seq(Nat)
    /\ pubrec_msg \in [1 .. QOS2_QUE -> [cnt : 0 .. PUBLISH_RECON + 1, id : Nat]]
    /\ timer_on \in BOOLEAN /\ halted \in BOOLEAN
    /\ link \in {"up", "fin", "down"} /\ losses \in 0 .. Losses
    /\ down \in Seq(Acks \cup DownMsgs)
    /\ bsubs \subseteq DOMAIN SubQos
    /\ msgs \in 0 .. Messages
    /\ taken \subseteq Requests
    /\ confirmed \subseteq Requests \X Requests

(* Acknowledgements are matched by their type only, through one queue that *)
(* two threads read and nothing ever empties.  Still no call succeeds on   *)
(* an acknowledgement from nowhere: what confirms it was for a packet of   *)
(* the same kind, of this call or an earlier one, that the broker took.    *)
ConfirmedByBroker ==
    \A c \in confirmed : c[2] \in taken /\ c[2].type = c[1].type /\ c[2].n <= c[1].n

(* The device can do nothing any more: it has faulted, or a thread turns   *)
(* in umqtt_trans_send() on a connection only a starved thread would close.*)
Stuck == halted \/ pc["timer"] = "spin" \/ pc["umqtt"] = "spin"

(* Every umqtt_subscribe() and umqtt_publish(), and every answer of the    *)
(* umqtt thread, comes to an end, with a silent broker too: the attempts   *)
(* are bounded.                                                            *)
CallsReturn == \A t \in Callers \cup {"umqtt"} : pc[t] # "idle" ~> (pc[t] = "idle" \/ Stuck)

(* A PUBREC slot is freed while the timer runs: a QoS 2 message that is    *)
(* never released does not keep the only slot.                             *)
PubrecEnds ==
    \A s \in 1 .. QOS2_QUE :
        pubrec_msg[s].cnt > 0 ~> (pubrec_msg[s].cnt = 0 \/ ~timer_on \/ Stuck)

(* umqtt.c: umqtt_publish() returns ">= 0: success": a publish with QoS 1  *)
(* that succeeds has reached the broker.                                   *)
PublishConfirmed == \A c \in confirmed : c[1].type = "PUBLISH" => c[1] \in taken

(* README.md of the package: QoS 2 is supported: a QoS 2 message that has  *)
(* been kept leaves the list in the end, as it does when it is delivered.  *)
Qos2Delivered ==
    \A m \in 1 .. Messages :
        (qos2_msg_list = <<m>>) ~> (qos2_msg_list = <<>> \/ Stuck)
=============================================================================
