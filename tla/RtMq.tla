-------------------------------- MODULE RtMq --------------------------------
(***************************************************************************)
(* The message queue of the kernel (rt-thread/src/ipc.c) as the event      *)
(* queue and umqtt use it: rt_mq_send(), which never waits, and            *)
(* rt_mq_recv() with or without a timeout.  Nodes of a fixed pool are on a *)
(* list of messages, on a list of free nodes, or held by a thread between  *)
(* two critical sections, with the interrupts enabled.                     *)
(*                                                                         *)
(* A step is one critical section, or the copying outside of them; threads *)
(* interleave in any order, so no priority is assumed.                     *)
(***************************************************************************)
EXTENDS Naturals, Sequences, FiniteSets

CONSTANTS
    max_msgs,          \* nodes of the pool
    Senders,
    Receivers,
    Forever,           \* receivers without a timeout
    Msgs,              \* the contents of a message
    NoMsg

ASSUME MqAssumption ==
    /\ max_msgs \in Nat \ {0}
    /\ Senders \cap Receivers = {} /\ Forever \subseteq Receivers
    /\ IsFiniteSet(Receivers)
    /\ NoMsg \notin Msgs

VARIABLES
    next,              \* of every node
    data,              \* the bytes behind the node
    msg_queue_head, msg_queue_tail, msg_queue_free,
    entry,
    suspend_thread,    \* receivers that wait, first come first
    pc,                \* where each thread is, see Pc
    msg,               \* the local variable msg of each thread
    buf,               \* the buffer each caller passes
    order,             \* history: nodes linked and not yet unlinked
    spare,             \* history: nodes given back and not yet taken
    due                \* history: the message a receiver unlinked

listVars == <<next, msg_queue_head, msg_queue_tail, msg_queue_free, entry>>
history == <<order, spare, due>>
vars == <<listVars, data, suspend_thread, pc, msg, buf, history>>

Threads == Senders \cup Receivers
Nodes == 1 .. max_msgs
RT_NULL == 0

(* idle   not in a call                                                    *)
(* call   rt_mq_send() has been called                                     *)
(* fill   holds a node taken off the free list                             *)
(* link   has filled it                                                    *)
(* wait   on the list suspend_thread                                       *)
(* retry  resumed by a sender                                              *)
(* copy   holds a node unlinked from the messages                          *)
(* free   has copied it                                                    *)
Pc == {"idle", "call", "fill", "link", "wait", "retry", "copy", "free"}

(* rt_mq_create(): every node is put in front of the free list.            *)
Init ==
    /\ next = [n \in Nodes |-> n - 1]
    /\ data = [n \in Nodes |-> NoMsg]
    /\ msg_queue_head = RT_NULL /\ msg_queue_tail = RT_NULL
    /\ msg_queue_free = max_msgs
    /\ entry = 0
    /\ suspend_thread = <<>>
    /\ pc = [t \in Threads |-> "idle"]
    /\ msg = [t \in Threads |-> RT_NULL]
    /\ buf = [t \in Threads |-> NoMsg]
    /\ order = <<>>
    /\ spare = [k \in 1 .. max_msgs |-> max_msgs + 1 - k]
    /\ due = [t \in Threads |-> NoMsg]

Goes(t, p) == pc' = [pc EXCEPT ![t] = p]

(* The variables of a call end with it.                                    *)
Returns(t) ==
    /\ msg' = [msg EXCEPT ![t] = RT_NULL]
    /\ buf' = [buf EXCEPT ![t] = NoMsg]
    /\ due' = [due EXCEPT ![t] = NoMsg]

(***************************************************************************)
(* rt_mq_send(), _rt_mq_send_wait() with timeout 0                         *)
(***************************************************************************)
SendCall(t) ==
    /\ pc[t] = "idle"
    /\ \E m \in Msgs : buf' = [buf EXCEPT ![t] = m]
    /\ Goes(t, "call")
    /\ UNCHANGED <<listVars, data, suspend_thread, msg, history>>

(* Take the first free node ...                                            *)
SendTake(t) ==
    /\ pc[t] = "call" /\ msg_queue_free # RT_NULL
    /\ msg' = [msg EXCEPT ![t] = msg_queue_free]
    /\ msg_queue_free' = next[msg_queue_free]
    /\ spare' = Tail(spare)
    /\ Goes(t, "fill")
    /\ UNCHANGED <<next, msg_queue_head, msg_queue_tail, entry, data,
                   suspend_thread, buf, order, due>>

(* ... or return -RT_EFULL.                                                *)
SendFull(t) ==
    /\ pc[t] = "call" /\ msg_queue_free = RT_NULL
    /\ Goes(t, "idle") /\ Returns(t)
    /\ UNCHANGED <<listVars, data, suspend_thread, order, spare>>

\* Mutant: the old link of the node is kept.
SendFillMutant(t) ==
    /\ pc[t] = "fill"
    /\ data' = [data EXCEPT ![msg[t]] = buf[t]]
    /\ Goes(t, "link")
    /\ UNCHANGED <<listVars, suspend_thread, msg, buf, history>>

(* Between the critical sections the node belongs to the sender alone.     *)
SendFill(t) ==
    /\ pc[t] = "fill"
    /\ next' = [next EXCEPT ![msg[t]] = RT_NULL]
    /\ data' = [data EXCEPT ![msg[t]] = buf[t]]
    /\ Goes(t, "link")
    /\ UNCHANGED <<msg_queue_head, msg_queue_tail, msg_queue_free, entry,
                   suspend_thread, msg, buf, history>>

(* _ipc_list_resume() of the receiver that has waited longest, if any.     *)
Resumes(t) ==
    LET awake == IF suspend_thread = <<>> THEN {} ELSE {Head(suspend_thread)}
    IN  /\ suspend_thread' = IF suspend_thread = <<>> THEN <<>> ELSE Tail(suspend_thread)
        /\ pc' = [u \in Threads |->
                    IF u = t THEN "idle" ELSE IF u \in awake THEN "retry" ELSE pc[u]]

\* Mutant: a receiver is resumed for the first message only.
SendLinkMutant(t) ==
    /\ pc[t] = "link"
    /\ next' = IF msg_queue_tail = RT_NULL THEN next
               ELSE [next EXCEPT ![msg_queue_tail] = msg[t]]
    /\ msg_queue_tail' = msg[t]
    /\ msg_queue_head' = IF msg_queue_head = RT_NULL THEN msg[t] ELSE msg_queue_head
    /\ entry' = entry + 1
    /\ order' = Append(order, msg[t])
    /\ IF entry = 0 THEN Resumes(t) ELSE Goes(t, "idle") /\ UNCHANGED suspend_thread
    /\ Returns(t)
    /\ UNCHANGED <<msg_queue_free, data, spare>>

\* Mutant: the node is linked at the head, as rt_mq_urgent() does.
SendLinkUrgentMutant(t) ==
    /\ pc[t] = "link"
    /\ next' = [next EXCEPT ![msg[t]] = msg_queue_head]
    /\ msg_queue_head' = msg[t]
    /\ msg_queue_tail' = IF msg_queue_tail = RT_NULL THEN msg[t] ELSE msg_queue_tail
    /\ entry' = entry + 1
    /\ order' = <<msg[t]>> \o order
    /\ Resumes(t) /\ Returns(t)
    /\ UNCHANGED <<msg_queue_free, data, spare>>

(* Link the node at the tail and resume a receiver.  entry stays below     *)
(* RT_MQ_ENTRY_MAX: max_msgs, which bounds it, is 16 bits wide.            *)
SendLink(t) ==
    /\ pc[t] = "link"
    /\ next' = IF msg_queue_tail = RT_NULL THEN next
               ELSE [next EXCEPT ![msg_queue_tail] = msg[t]]
    /\ msg_queue_tail' = msg[t]
    /\ msg_queue_head' = IF msg_queue_head = RT_NULL THEN msg[t] ELSE msg_queue_head
    /\ entry' = entry + 1
    /\ order' = Append(order, msg[t])
    /\ Resumes(t) /\ Returns(t)
    /\ UNCHANGED <<msg_queue_free, data, spare>>

Sender(t) ==
    SendCall(t) \/ SendTake(t) \/ SendFull(t) \/ SendFill(t) \/ SendLink(t)

(***************************************************************************)
(* rt_mq_recv(), _rt_mq_recv()                                             *)
(***************************************************************************)

(* The loop while (mq->entry == 0): wait, the first time or again.         *)
RecvSuspend(t) ==
    /\ pc[t] \in {"idle", "retry"} /\ entry = 0
    /\ suspend_thread' = Append(suspend_thread, t)
    /\ Goes(t, "wait")
    /\ UNCHANGED <<listVars, data, msg, buf, history>>

Without(s, k) == SubSeq(s, 1, k - 1) \o SubSeq(s, k + 1, Len(s))

(* The time is over: _thread_timeout() takes it off the list while it      *)
(* waits, or nothing is left of it after it was resumed in vain.           *)
RecvTimesOut(t) ==
    /\ t \notin Forever
    /\ \/ /\ pc[t] = "wait"
          /\ \E k \in DOMAIN suspend_thread :
               suspend_thread[k] = t /\ suspend_thread' = Without(suspend_thread, k)
       \/ pc[t] = "retry" /\ entry = 0 /\ UNCHANGED suspend_thread
    /\ Goes(t, "idle")
    /\ UNCHANGED <<listVars, data, msg, buf, history>>

(* Unlink the first message.                                               *)
RecvUnlink(t) ==
    /\ pc[t] \in {"idle", "retry"} /\ entry > 0
    /\ msg' = [msg EXCEPT ![t] = msg_queue_head]
    /\ msg_queue_head' = next[msg_queue_head]
    /\ msg_queue_tail' = IF msg_queue_tail = msg_queue_head THEN RT_NULL ELSE msg_queue_tail
    /\ entry' = entry - 1
    /\ due' = [due EXCEPT ![t] = data[Head(order)]]
    /\ order' = Tail(order)
    /\ Goes(t, "copy")
    /\ UNCHANGED <<next, msg_queue_free, data, suspend_thread, buf, spare>>

\* Mutant: the copy is made from the head of the queue, which has moved on.
RecvCopyMutant(t) ==
    /\ pc[t] = "copy"
    /\ buf' = [buf EXCEPT ![t] = IF msg_queue_head = RT_NULL THEN NoMsg
                                 ELSE data[msg_queue_head]]
    /\ Goes(t, "free")
    /\ UNCHANGED <<listVars, data, suspend_thread, msg, history>>

\* Mutant: the loop that copies does not advance.
RecvCopyStuckMutant(t) ==
    /\ pc[t] = "copy"
    /\ buf' = [buf EXCEPT ![t] = data[msg[t]]]
    /\ UNCHANGED <<pc, listVars, data, suspend_thread, msg, history>>

RecvCopy(t) ==
    /\ pc[t] = "copy"
    /\ buf' = [buf EXCEPT ![t] = data[msg[t]]]
    /\ Goes(t, "free")
    /\ UNCHANGED <<listVars, data, suspend_thread, msg, history>>

\* Mutant: the address of the bytes behind the node is put on the list.
RecvFreeMutant(t) ==
    /\ pc[t] = "free"
    /\ next' = [next EXCEPT ![msg[t]] = msg_queue_free]
    /\ msg_queue_free' = msg[t] + 1
    /\ spare' = <<msg[t]>> \o spare
    /\ Goes(t, "idle") /\ Returns(t)
    /\ UNCHANGED <<msg_queue_head, msg_queue_tail, entry, data, suspend_thread, order>>

(* Put the node in front of the free list.  No sender waits for one.       *)
RecvFree(t) ==
    /\ pc[t] = "free"
    /\ next' = [next EXCEPT ![msg[t]] = msg_queue_free]
    /\ msg_queue_free' = msg[t]
    /\ spare' = <<msg[t]>> \o spare
    /\ Goes(t, "idle") /\ Returns(t)
    /\ UNCHANGED <<msg_queue_head, msg_queue_tail, entry, data, suspend_thread, order>>

Receiver(t) ==
    \/ RecvSuspend(t) \/ RecvTimesOut(t) \/ RecvUnlink(t) \/ RecvCopy(t) \/ RecvFree(t)

Next == (\E t \in Senders : Sender(t)) \/ (\E t \in Receivers : Receiver(t))

Spec == Init /\ [][Next]_vars

(* A thread inside a call that does not wait gets to run, and a receiver   *)
(* without a timeout, like the loop of the application, calls again.       *)
Fairness ==
    /\ \A t \in Senders : WF_vars(pc[t] # "idle" /\ Sender(t))
    /\ \A t \in Receivers : WF_vars(pc[t] \notin {"idle", "wait"} /\ Receiver(t))
    /\ \A t \in Forever : WF_vars(Receiver(t))

FairSpec == Spec /\ Fairness

(***************************************************************************)
(* Properties                                                              *)
(***************************************************************************)

(* The fields of the queue and the variables of the callers have their     *)
(* types.                                                                  *)
TypeOK ==
    /\ next \in [Nodes -> Nodes \cup {RT_NULL}]
    /\ data \in [Nodes -> Msgs \cup {NoMsg}]
    /\ msg_queue_head \in Nodes \cup {RT_NULL}
    /\ msg_queue_tail \in Nodes \cup {RT_NULL}
    /\ msg_queue_free \in Nodes \cup {RT_NULL}
    /\ entry \in 0 .. max_msgs
    /\ suspend_thread \in Seq(Receivers)
    /\ pc \in [Threads -> Pc]
    /\ msg \in [Threads -> Nodes \cup {RT_NULL}]
    /\ buf \in [Threads -> Msgs \cup {NoMsg}] /\ due \in [Threads -> Msgs \cup {NoMsg}]
    /\ order \in Seq(Nodes) /\ spare \in Seq(Nodes)

(* From first the pointers lead through the nodes of s, and no further.    *)
Chain(first, s) ==
    /\ first = IF s = <<>> THEN RT_NULL ELSE s[1]
    /\ \A k \in 1 .. Len(s) : next[s[k]] = IF k = Len(s) THEN RT_NULL ELSE s[k + 1]

(* However the threads preempt each other between the critical sections,   *)
(* the pointers lead through the messages in the order they were linked    *)
(* and through the free nodes, entry counts the messages and the tail is   *)
(* the last of them: neither list is ever cut, crossed or closed.          *)
ListsIntact ==
    /\ Chain(msg_queue_head, order)
    /\ Chain(msg_queue_free, spare)
    /\ msg_queue_tail = IF order = <<>> THEN RT_NULL ELSE order[Len(order)]
    /\ entry = Len(order)

(* A receiver copies its message while others send and receive, and still  *)
(* gets what had been sent.                                                *)
CopyIntact == \A t \in Receivers : pc[t] = "free" => buf[t] = due[t]

(* No wake-up is lost: receivers wait while there are messages only if as  *)
(* many others have been resumed to fetch them, although each message      *)
(* resumes one, and a caller that did not wait may take it first.          *)
WakeupsSuffice ==
    suspend_thread # <<>> => entry <= Cardinality({t \in Receivers : pc[t] = "retry"})

(* A message that has been linked is received in the end.                  *)
MessagesReceived ==
    \A n \in Nodes : (\E k \in DOMAIN order : order[k] = n)
                        ~> ~(\E k \in DOMAIN order : order[k] = n)

(* The queue the application's model is built on.                          *)
Queue == INSTANCE EventHandler WITH
    EVT_QUEUE_LEN <- max_msgs, evt_queue <- [k \in DOMAIN order |-> data[order[k]]],
    free <- Len(spare), lost <- FALSE,
    U16 <- 2, U32 <- 2, Names <- {}, DefaultName <- 1, NoName <- 0,
    Prices <- {}, Pulses <- {}, Enables <- {}, Counts <- {}, Balances <- {}, Uids <- {}

(* The linked lists implement EventHandler: each critical section is the   *)
(* step of that module it stands for, and nothing else changes the queue.  *)
QueueSpec ==
    /\ Queue!QueueInit
    /\ [][\/ Queue!MqTakeNode \/ Queue!MqUnlink \/ Queue!MqFreeNode
          \/ \E e \in Msgs : Queue!MqLink(e)]_(Queue!queueVars)
=============================================================================
