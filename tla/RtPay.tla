------------------------------- MODULE RtPay -------------------------------
(***************************************************************************)
(* The rt-pay firmware: the main, umqtt, application and card reader       *)
(* threads around the event queue.                                         *)
(*                                                                         *)
(* The kernel schedules by fixed priority on one processor: a thread runs  *)
(* only when no thread of a higher priority is ready, and can be preempted *)
(* between any two of its steps.  From high to low: the timer thread (4),  *)
(* umqtt (8), main (10), application (16), card reader (18).  The umqtt    *)
(* thread is ready whenever the network delivers something, so its steps   *)
(* can come at any time.                                                   *)
(*                                                                         *)
(* umqtt_trans_send() calls send() again at once while it returns 0, as it *)
(* does on a connection that is closed and not freed: a thread in this     *)
(* loop is always ready, and none below it runs.                           *)
(***************************************************************************)
EXTENDS App, CardReader

VARIABLE spinning    \* the threads in that loop: main, and umqtt, which
                     \* stands for the umqtt thread and the timer thread

deviceVars == <<queueVars, appVars, linkVars, cardVars>>
vars == <<deviceVars, spinning>>

Init == QueueInit /\ AppInit /\ LinkInit /\ CardInit /\ spinning = {}

UmqttThread ==
    /\ "umqtt" \notin spinning
    /\ UmqttStep
    /\ UNCHANGED <<appVars, cardVars, spinning>>

MainThread ==
    /\ spinning = {}
    /\ MainStep
    /\ UNCHANGED <<appVars, cardVars, spinning>>

AppThread ==
    /\ spinning = {} /\ ~MainReady
    /\ AppStep
    /\ UNCHANGED <<linkVars, cardVars, spinning>>

CardThread ==
    /\ spinning = {} /\ ~MainReady /\ ~AppReady
    /\ CardStep
    /\ UNCHANGED <<appVars, linkVars, spinning>>

(* The connection closes just before main sends CONNECT or SUBSCRIBE, or,  *)
(* once there is a client, before the umqtt thread sends an answer or the  *)
(* timer a heartbeat, or either of them CONNECT.                           *)
SpinStarts ==
    /\ "umqtt" \notin spinning
    /\ \/ mpc \in {"start", "subscribe"} /\ spinning' = spinning \cup {"main"}
       \/ client /\ spinning' = spinning \cup {"umqtt"}
    /\ UNCHANGED deviceVars

(* A thread above frees the socket, and send() fails: there is none before *)
(* mqtt_start_client() returns a client.                                   *)
SpinEnds ==
    /\ client
    /\ \E t \in spinning :
         /\ t = "main" => "umqtt" \notin spinning
         /\ spinning' = spinning \ {t}
    /\ UNCHANGED deviceVars

Next ==
    \/ UmqttThread \/ MainThread \/ AppThread \/ CardThread
    \/ SpinStarts \/ SpinEnds

Spec == Init /\ [][Next]_vars

(***************************************************************************)
(* A spin that ends puts the threads below off: the thread that has left   *)
(* the loop waits for the network before it sends again, and they run in   *)
(* the meantime.  So does the application whenever main sleeps or waits,   *)
(* as it does in every turn of its loop.  A thread that can run again and  *)
(* again therefore does: strong fairness.  Main may, however, wait for     *)
(* ever inside mqtt_start_client(), whose recv() has no timeout (module    *)
(* UmqttSession), and nothing is assumed of the end of a spin, the         *)
(* network, the owner or the cards.                                        *)
(***************************************************************************)
Fairness == SF_vars(mpc # "start" /\ MainThread) /\ SF_vars(AppThread)

FairSpec == Spec /\ Fairness

(***************************************************************************)
(* Properties                                                              *)
(***************************************************************************)

(* Every variable of the threads and of the queue holds a value of its C   *)
(* type; the loop counters of on_credit_event() and add_credit() stay      *)
(* within the width of the fields that bound them.                         *)
TypeOK ==
    /\ QueueTypeOK /\ AppTypeOK /\ LinkTypeOK /\ CardTypeOK
    /\ spinning \in SUBSET {"main", "umqtt"}

(* Nodes of the queue a preempted thread holds between the two critical    *)
(* sections of rt_mq_send() or rt_mq_recv().                               *)
Held ==
    (IF mpc \in {"push1", "push2"} THEN 1 ELSE 0)
    + (IF cpc = "push" THEN 1 ELSE 0)
    + (IF apc = "release" THEN 1 ELSE 0)

(* However the threads preempt each other inside rt_mq_send() and          *)
(* rt_mq_recv(), no node of the event queue is lost or used twice: the     *)
(* free, the linked and the held nodes always add up to EVT_QUEUE_LEN.     *)
NodesConserved == free + Len(evt_queue) + Held = EVT_QUEUE_LEN

(* The events accepted and not yet completely handled, oldest first.       *)
Backlog ==
    IF apc \in {"release", "dispatch"} \/ InCredit
    THEN <<evt>> \o evt_queue ELSE evt_queue

(* e is in q, and is the last of its type in it.                           *)
IsLast(q, e) ==
    \E k \in DOMAIN q :
        /\ q[k] = e
        /\ \A m \in DOMAIN q : m > k => q[m].type # e.type

NoneOf(q, type) == \A k \in DOMAIN q : q[k].type # type

(* The owner's last accepted enable message always decides: it is the      *)
(* youngest one still to be handled by on_enable_event(), or it is what    *)
(* sys_cfg.enabled says - whatever happened during a credit's delays, and  *)
(* although on_enable_event() skips a value equal to the current one.      *)
EnableSettles ==
    \/ IsLast(Backlog, lastEnable)
    \/ /\ NoneOf(Backlog, "event_type_enable_e")
       /\ sys_cfg.enabled = lastEnable.enable

(* The same for config messages and the price and pulses on_config_event() *)
(* sets: no older message can overwrite a younger one.                     *)
ConfigSettles ==
    \/ IsLast(Backlog, lastConfig)
    \/ /\ NoneOf(Backlog, "event_type_config_e")
       /\ lastConfig # NoConfig =>
            /\ sys_cfg.price = lastConfig.price
            /\ sys_cfg.pulses_per_credit = lastConfig.pulses_per_credit

(* While add_credit() drives the pin the device is enabled, and the event  *)
(* in the static evt is still the credit message being honoured, with at   *)
(* most its count of credits inserted.                                     *)
CreditWhileEnabled ==
    InCredit => /\ sys_cfg.enabled # 0
                /\ evt.type = "event_type_credit_e"
                /\ i <= evt.count

(* The coin line rests high: outside add_credit() the pin is never left    *)
(* low, so the arcade machine never sees a coin that is not being counted. *)
PinRests == pin = "PIN_LOW" => apc \in {"high", "low"}

(* Once the application has reported the connection, the screen tells the  *)
(* truth between two events: the idle screen with the current price iff    *)
(* the device is enabled, "disabled by ownr" otherwise.                    *)
ScreenTruth ==
    shown = "mqtt_event_conn_success_e" /\ ~InCredit =>
        screen = IF sys_cfg.enabled # 0
                 THEN idle_message(sys_cfg)
                 ELSE out_of_service_message("disabled by ownr")

(* The card reader thread is inside umqtt_publish() only with a client:    *)
(* mqtt_link_send() tests the static client and uses it later, while       *)
(* mqtt_link_connect() in the main thread assigns it on every attempt.     *)
PublishHasClient == cpc = "publish" => client

(* Once the application has shown the success of the connection it never   *)
(* shows "connecting" or "connection error" again: main stops retrying,    *)
(* and no event of an earlier attempt is still on its way.                 *)
ServiceIsFinal ==
    [][shown = "mqtt_event_conn_success_e" => shown' = shown]_shown

(* From some time on a thread above the application always spins in        *)
(* umqtt_trans_send().                                                     *)
Starved == <>[](spinning # {})

(* Every low level of the coin line ends, unless a send that never returns *)
(* starves the application, even in the middle of a pulse: one that ends   *)
(* only puts the end of the pulse off.                                     *)
PulseEnds == Starved \/ (pin = "PIN_LOW" ~> pin = "PIN_HIGH")

(* A failed connection attempt is always followed by another one.          *)
ConnectRetried ==
    (mpc = "sleep" /\ ~mqtt_link_connected) ~> (mpc = "start")

(* The firmware serves the accepted events as PayDevice promises.          *)
Device == INSTANCE PayDevice WITH
    CAPACITY <- EVT_QUEUE_LEN + 1,
    InitialPrice <- DEFAULT_PRICE,
    InitialPulses <- DEFAULT_PULSES_PER_CREDIT,
    inbox <- Backlog,
    settings <- [price |-> sys_cfg.price,
                 pulses_per_credit |-> sys_cfg.pulses_per_credit,
                 enabled |-> sys_cfg.enabled]

(* The events accepted from the broker, the card reader and main are       *)
(* served in order, once each and completely: Spec implements PayDevice.   *)
DeviceSpec == Device!Spec

(* ... and each of them is served in the end, unless a send that never     *)
(* returns starves the application.                                        *)
DeviceServes == Starved \/ Device!Liveness

(***************************************************************************)
(* What the README and the comments say and the code does not do.          *)
(***************************************************************************)

(* "pulses: the total of pulses per credit" (README): when add_credit()    *)
(* returns, the pin has been lowered pulses_per_credit times.              *)
PulsesPerCredit ==
    apc = "high" /\ j >= sys_cfg.pulses_per_credit =>
        edges = sys_cfg.pulses_per_credit

(* "You can add credits ... by sending the add-credit message" (README):   *)
(* no credit message that reaches its callback while add_credit() pulses   *)
(* the coin line for an earlier one is dropped.                            *)
NoCreditLost == [][pin = "PIN_LOW" => lost' = lost]_lost

(* "in order to enable the device you should send an enable message"       *)
(* (README, of the screen "disabled by ownr"): with the session up, the    *)
(* device that shows it receives enable messages.                          *)
DisabledCanBeEnabled ==
    screen.msg = "disabled by ownr" /\ online => "enable" \in subs
=============================================================================
