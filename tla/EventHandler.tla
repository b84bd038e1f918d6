---------------------------- MODULE EventHandler ----------------------------
(***************************************************************************)
(* The event queue of rt-pay: applications/event_handler.c over the        *)
(* kernel's message queue (rt-thread/src/ipc.c).                           *)
(*                                                                         *)
(* rt_mq_send() and rt_mq_recv() each take two critical sections with the  *)
(* interrupts enabled in between:                                          *)
(*    send: take a node off the free list | copy | link it at the tail;    *)
(*    recv: unlink the head node | copy | put it back on the free list.    *)
(* A thread preempted between the two therefore holds one of the           *)
(* EVT_QUEUE_LEN nodes although the queue itself does not contain it.      *)
(* A sender finding the free list empty gives up at once (no timeout) and  *)
(* event_handler_push_event() ignores the error: the event is lost.        *)
(***************************************************************************)
EXTENDS Events

CONSTANT EVT_QUEUE_LEN

ASSUME QueueAssumption == EVT_QUEUE_LEN \in Nat /\ EVT_QUEUE_LEN > 0

VARIABLES
    evt_queue,       \* the linked messages, head first
    free,            \* number of nodes on the free list
    lost             \* history: a credit event found no node

queueVars == <<evt_queue, free, lost>>

QueueInit ==
    /\ evt_queue = <<>>
    /\ free = EVT_QUEUE_LEN
    /\ lost = FALSE

(* First critical section of rt_mq_send() with a node on the free list.    *)
MqTakeNode ==
    /\ free > 0
    /\ free' = free - 1
    /\ UNCHANGED <<evt_queue, lost>>

(* First critical section of rt_mq_send(): -RT_EFULL, ignored.             *)
MqFull(e) ==
    /\ free = 0
    /\ lost' = (lost \/ e.type = "event_type_credit_e")
    /\ UNCHANGED <<evt_queue, free>>

(* Second critical section of rt_mq_send().                                *)
MqLink(e) ==
    /\ evt_queue' = Append(evt_queue, e)
    /\ UNCHANGED <<free, lost>>

\* Mutant: the message is put at the head, as rt_mq_urgent() does.
MqSendMutant(e) ==
    /\ free > 0
    /\ free' = free - 1
    /\ evt_queue' = <<e>> \o evt_queue
    /\ UNCHANGED lost

(* Both critical sections of a send that no other user of the queue can    *)
(* interrupt: the sender has the highest priority of all of them.          *)
MqSend(e) ==
    /\ free > 0
    /\ free' = free - 1
    /\ evt_queue' = Append(evt_queue, e)
    /\ UNCHANGED lost

(* First critical section of rt_mq_recv().  On an empty queue the caller   *)
(* waits for ever: RT_TICK_MAX is -1 as the signed timeout.                *)
MqUnlink ==
    /\ evt_queue # <<>>
    /\ evt_queue' = Tail(evt_queue)
    /\ UNCHANGED <<free, lost>>

\* Mutant: the node is not put back.
MqFreeNodeMutant == UNCHANGED <<evt_queue, free, lost>>

(* Second critical section of rt_mq_recv().                                *)
MqFreeNode ==
    /\ free' = free + 1
    /\ UNCHANGED <<evt_queue, lost>>

QueueTypeOK ==
    /\ evt_queue \in Seq(event_t)
    /\ free \in 0 .. EVT_QUEUE_LEN
    /\ lost \in BOOLEAN
=============================================================================
