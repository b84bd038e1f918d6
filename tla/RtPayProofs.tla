---------------------------- MODULE RtPayProofs ----------------------------
(***************************************************************************)
(* Proofs about RtPay, for every length of the event queue, every width of *)
(* the integers and every set of messages the broker can send.             *)
(***************************************************************************)
EXTENDS RtPay, SequenceTheorems, TLAPS

(***************************************************************************)
(* The inductive invariant.  To the type invariant and the conservation of *)
(* the queue's nodes it adds what the threads know at their program        *)
(* counters.                                                               *)
(***************************************************************************)

(* What the application thread knows at its program counter: before its    *)
(* loop no event has been handled; the event in evt is the one being       *)
(* handled; the loop counters stay below the bounds they are tested        *)
(* against; the device stays enabled while the pulses of a credit are sent.*)
AppPcInv ==
    /\ apc = "boot" => shown = "mqtt_event_undefined_e"
    /\ apc \in {"release", "dispatch"} => evt \in event_t
    /\ InCredit => evt \in credit_evt_t /\ sys_cfg.enabled # 0 /\ i <= evt.count
    /\ apc \in {"high", "low"} => i < evt.count
    /\ apc = "high" => j <= sys_cfg.pulses_per_credit
    /\ apc = "low" => j < sys_cfg.pulses_per_credit
    /\ apc = "thanks" => i = evt.count
    /\ apc \notin {"high", "low"} => j = 0
    /\ ~InCredit => i = 0

(* The pin and the falling edges seen in the current add_credit().         *)
PinInv ==
    /\ edges \in {0, 1}
    /\ pin = "PIN_HIGH" => edges = 0
    /\ apc \notin {"high", "low"} => pin # "PIN_LOW" /\ edges = 0

(* What the main thread knows of the client and of its status.             *)
ClientInv ==
    /\ mpc # "boot" => status \in mqtt_event_t
    /\ mpc \in {"boot", "push1", "start"} => ~client
    /\ mqtt_link_connected => client
    /\ mpc = "sleep" => (mqtt_link_connected <=> client)
    /\ mqtt_link_connected => mpc = "sleep"

(* What the card reader thread knows.                                      *)
CardInv ==
    /\ cpc = "push" => card_evt \in Uids
    /\ cpc = "publish" => client

DeviceTypeOK == QueueTypeOK /\ AppTypeOK /\ LinkTypeOK /\ CardTypeOK

IInv ==
    /\ DeviceTypeOK /\ NodesConserved
    /\ AppPcInv /\ PinInv /\ ClientInv /\ CardInv

(***************************************************************************)
(* Events                                                                  *)
(***************************************************************************)

(* A number stored in an unsigned field is within its width.               *)
LEMMA Narrowed ==
    /\ \A n \in Int : ToU16(n) \in rt_uint16_t
    /\ \A n \in Int : ToU32(n) \in rt_uint32_t
BY WidthAssumption DEF ToU16, ToU32, rt_uint16_t, rt_uint32_t

(* The events the MQTT callbacks, main and the card reader push are        *)
(* well-formed.                                                            *)
LEMMA EventsTyped ==
    /\ \A name \in Names \cup {NoName}, price \in Prices, pulses \in Pulses :
         ConfigEvent(name, price, pulses) \in config_evt_t
    /\ \A count \in Counts, balance \in Balances :
         CreditEvent(count, balance) \in credit_evt_t
    /\ \A enable \in rt_bool_t : EnableEvent(enable) \in enable_evt_t
    /\ \A status_ \in mqtt_event_t : MqttEvent(status_) \in mqtt_evt_t
    /\ \A uid \in Uids : CardEvent(uid) \in card_event_t
<1>1. ASSUME NEW name \in Names \cup {NoName}, NEW price \in Prices,
             NEW pulses \in Pulses
      PROVE  ConfigEvent(name, price, pulses) \in config_evt_t
  <2>1. ToU32(price) \in rt_uint32_t /\ ToU16(pulses) \in rt_uint16_t
    BY Narrowed, FieldAssumption
  <2>2. QED
    BY <2>1 DEF ConfigEvent, config_evt_t
<1>2. ASSUME NEW count \in Counts, NEW balance \in Balances
      PROVE  CreditEvent(count, balance) \in credit_evt_t
  <2>1. ToU16(count) \in rt_uint16_t /\ ToU32(balance) \in rt_uint32_t
    BY Narrowed, FieldAssumption
  <2>2. QED
    BY <2>1 DEF CreditEvent, credit_evt_t
<1>3. QED
  BY <1>1, <1>2 DEF EnableEvent, enable_evt_t, MqttEvent, mqtt_evt_t,
                    CardEvent, card_event_t

(* The type field tells which member of the union an event has.            *)
LEMMA EventByType ==
    ASSUME NEW e \in event_t
    PROVE  /\ e.type = "event_type_config_e" => e \in config_evt_t
           /\ e.type = "event_type_credit_e" => e \in credit_evt_t
           /\ e.type = "event_type_enable_e" => e \in enable_evt_t
           /\ e.type = "event_type_mqtt_e" => e \in mqtt_evt_t
           /\ e.type = "event_type_card_e" => e \in card_event_t
BY DEF event_t, config_evt_t, credit_evt_t, enable_evt_t, mqtt_evt_t,
       card_event_t

(* Each kind of event is an event_t.                                       *)
LEMMA EventUnion ==
    /\ config_evt_t \subseteq event_t /\ credit_evt_t \subseteq event_t
    /\ enable_evt_t \subseteq event_t /\ mqtt_evt_t \subseteq event_t
    /\ card_event_t \subseteq event_t
BY DEF event_t

(* The messages the handlers put on the screen.                            *)
LEMMA ScreensTyped ==
    /\ \A msg \in {"blank", "booting", "connecting", "disabled by ownr",
                   "connection error"} :
         Message(msg) \in Screen /\ out_of_service_message(msg) \in Screen
    /\ \A cfg \in system_config_t : idle_message(cfg) \in Screen
    /\ \A balance \in rt_uint32_t : credit_message(balance) \in Screen
<1>1. 0 \in rt_uint32_t
  BY WidthAssumption DEF rt_uint32_t
<1>2. QED
  BY <1>1 DEF Message, out_of_service_message, idle_message, credit_message,
              Screen, system_config_t

(***************************************************************************)
(* The invariant holds initially.                                          *)
(***************************************************************************)
LEMMA InitIInv == Init => IInv
<1> SUFFICES ASSUME Init PROVE IInv
  OBVIOUS
<1> USE DEF Init, QueueInit, AppInit, LinkInit, CardInit
<1>1. QueueTypeOK
  <2>1. evt_queue \in Seq(event_t) /\ free \in 0 .. EVT_QUEUE_LEN
    BY QueueAssumption
  <2>2. lost \in BOOLEAN
    OBVIOUS
  <2>3. QED
    BY <2>1, <2>2 DEF QueueTypeOK
<1>2. NodesConserved
  BY QueueAssumption DEF NodesConserved, Held
<1>3. AppTypeOK
  BY DefaultAssumption, WidthAssumption
     DEF AppTypeOK, system_config_t, AppPc, Level, Screen, Message,
         rt_uint16_t, rt_uint32_t, rt_bool_t
<1>4. LinkTypeOK /\ CardTypeOK
  <2>1. lastEnable \in enable_evt_t
    BY EventsTyped DEF rt_bool_t
  <2>2. mqtt_link_connected \in BOOLEAN /\ client \in BOOLEAN /\ online \in BOOLEAN
    OBVIOUS
  <2>3. topic \in 1 .. 3
    OBVIOUS
  <2>4. QED
    BY <2>1, <2>2, <2>3 DEF LinkTypeOK, CardTypeOK, MainPc, CardPc
<1>5. AppPcInv /\ PinInv /\ ClientInv /\ CardInv
  BY DEF AppPcInv, PinInv, ClientInv, CardInv, InCredit
<1>6. QED
  BY <1>1, <1>2, <1>3, <1>4, <1>5 DEF IInv, DeviceTypeOK

(***************************************************************************)
(* The application thread preserves the invariant.                         *)
(***************************************************************************)

(* The variables of the queue, the application and the held nodes, which   *)
(* are all that an application step can disturb.                           *)
AppIInv == QueueTypeOK /\ AppTypeOK /\ NodesConserved /\ AppPcInv /\ PinInv

(* Taking an event out of the queue and putting its node back.             *)
LEMMA AppQueueStep ==
    ASSUME IInv, AppRecv \/ AppRelease, UNCHANGED <<mpc, cpc>>
    PROVE  AppIInv'
<1> USE DEF IInv, DeviceTypeOK
<1>1. CASE AppRecv
  <2> USE <1>1 DEF AppRecv, MqUnlink
  <2>1. evt_queue \in Seq(event_t) /\ evt_queue # <<>>
    BY DEF QueueTypeOK
  <2>2. /\ evt' \in event_t /\ evt_queue' \in Seq(event_t)
        /\ Len(evt_queue') = Len(evt_queue) - 1 /\ Len(evt_queue) \in Nat
    BY <2>1
  <2>3. QueueTypeOK'
    BY <2>2 DEF QueueTypeOK
  <2>4. NodesConserved'
    <3>1. apc # "release" /\ apc' = "release" /\ free' = free /\ free \in Nat
      BY QueueAssumption DEF QueueTypeOK
    <3>2. QED
      BY <2>2, <3>1, QueueAssumption DEF NodesConserved, Held
  <2>5. AppTypeOK'
    BY <2>2 DEF AppTypeOK, AppPc
  <2>6. AppPcInv' /\ PinInv'
    BY <2>2 DEF AppPcInv, PinInv, InCredit
  <2>7. QED
    BY <2>3, <2>4, <2>5, <2>6 DEF AppIInv
<1>2. CASE AppRelease
  <2> USE <1>2 DEF AppRelease, MqFreeNode
  <2>1. free \in Nat /\ Len(evt_queue) \in Nat /\ evt_queue' = evt_queue
        /\ free' = free + 1
    BY QueueAssumption DEF QueueTypeOK
  <2>2. NodesConserved'
    BY <2>1, QueueAssumption DEF NodesConserved, Held
  <2>3. QueueTypeOK'
    <3>1. free' \in 0 .. EVT_QUEUE_LEN
      BY <2>1, QueueAssumption DEF NodesConserved, Held
    <3>2. QED
      BY <3>1 DEF QueueTypeOK
  <2>4. AppTypeOK'
    BY DEF AppTypeOK, AppPc
  <2>5. AppPcInv' /\ PinInv'
    BY DEF AppPcInv, PinInv, InCredit
  <2>6. QED
    BY <2>2, <2>3, <2>4, <2>5 DEF AppIInv
<1>3. QED
  BY <1>1, <1>2

(* A step that leaves the queue alone, and the thread outside of rt_mq_recv(). *)
LEMMA AppQueueUnchanged ==
    ASSUME IInv, UNCHANGED queueVars, UNCHANGED <<mpc, cpc>>,
           apc # "release", apc' # "release"
    PROVE  QueueTypeOK' /\ NodesConserved'
BY DEF IInv, DeviceTypeOK, QueueTypeOK, NodesConserved, Held, queueVars

(* What a handler finds in evt.                                            *)
LEMMA Dispatched ==
    ASSUME IInv, apc = "dispatch"
    PROVE  evt \in event_t /\ i = 0 /\ j = 0 /\ edges = 0 /\ pin # "PIN_LOW"
BY DEF IInv, AppPcInv, PinInv, InCredit

(* Boot and the handlers that return at once.                              *)
LEMMA AppHandlerStep ==
    ASSUME IInv, AppBoot \/ AppHandle, UNCHANGED <<mpc, cpc>>
    PROVE  AppIInv'
<1> USE DEF IInv, DeviceTypeOK
<1>1. CASE AppBoot
  <2> USE <1>1 DEF AppBoot
  <2>1. QueueTypeOK' /\ NodesConserved'
    BY AppQueueUnchanged
  <2>2. AppTypeOK'
    BY ScreensTyped DEF AppTypeOK, AppPc
  <2>3. AppPcInv' /\ PinInv'
    BY DEF AppPcInv, PinInv, InCredit
  <2>4. QED
    BY <2>1, <2>2, <2>3 DEF AppIInv
<1>2. CASE OnEnable
  <2> USE <1>2 DEF OnEnable, Dispatch, Return
  <2>1. QueueTypeOK' /\ NodesConserved'
    BY AppQueueUnchanged
  <2>2. evt.enable \in rt_bool_t
    BY Dispatched, EventByType DEF enable_evt_t
  <2>3. AppTypeOK'
    <3>1. sys_cfg' \in system_config_t
      BY <2>2 DEF AppTypeOK, system_config_t
    <3>2. screen' \in Screen
      BY ScreensTyped DEF AppTypeOK
    <3>3. QED
      BY <3>1, <3>2 DEF AppTypeOK, AppPc
  <2>4. AppPcInv' /\ PinInv'
    BY Dispatched DEF AppPcInv, PinInv, InCredit
  <2>5. QED
    BY <2>1, <2>3, <2>4 DEF AppIInv
<1>3. CASE OnConfig
  <2> USE <1>3 DEF OnConfig, Dispatch, Return
  <2>1. QueueTypeOK' /\ NodesConserved'
    BY AppQueueUnchanged
  <2>2. evt.price \in rt_uint32_t /\ evt.pulses_per_credit \in rt_uint32_t
    BY Dispatched, EventByType, WidthAssumption
       DEF config_evt_t, rt_uint16_t, rt_uint32_t
  <2>3. AppTypeOK'
    <3>1. sys_cfg' \in system_config_t
      BY <2>2 DEF AppTypeOK, system_config_t
    <3>2. screen' \in Screen
      BY <3>1, ScreensTyped DEF AppTypeOK
    <3>3. QED
      BY <3>1, <3>2 DEF AppTypeOK, AppPc
  <2>4. AppPcInv' /\ PinInv'
    BY Dispatched DEF AppPcInv, PinInv, InCredit
  <2>5. QED
    BY <2>1, <2>3, <2>4 DEF AppIInv
<1>4. CASE OnMqtt
  <2> USE <1>4 DEF OnMqtt, Dispatch, Return
  <2>1. QueueTypeOK' /\ NodesConserved'
    BY AppQueueUnchanged
  <2>2. evt.mqtt \in mqtt_event_t
    BY Dispatched, EventByType DEF mqtt_evt_t
  <2>3. AppTypeOK'
    <3>1. screen' \in Screen
      BY <2>2, ScreensTyped DEF AppTypeOK, mqtt_event_t
    <3>2. QED
      BY <2>2, <3>1 DEF AppTypeOK, AppPc
  <2>4. AppPcInv' /\ PinInv'
    BY Dispatched DEF AppPcInv, PinInv, InCredit
  <2>5. QED
    BY <2>1, <2>3, <2>4 DEF AppIInv
<1>5. CASE OnCard \/ OnCreditRefused
  <2> USE <1>5 DEF OnCard, OnCreditRefused, Dispatch, Return
  <2>1. QueueTypeOK' /\ NodesConserved'
    BY AppQueueUnchanged
  <2>2. AppTypeOK'
    BY WidthAssumption DEF AppTypeOK, AppPc, rt_uint16_t
  <2>3. AppPcInv' /\ PinInv'
    BY Dispatched DEF AppPcInv, PinInv, InCredit
  <2>4. QED
    BY <2>1, <2>2, <2>3 DEF AppIInv
<1>6. CASE OnCredit
  <2> USE <1>6 DEF OnCredit, Dispatch
  <2>1. QueueTypeOK' /\ NodesConserved'
    BY AppQueueUnchanged
  <2>2. evt \in credit_evt_t /\ 0 <= evt.count
    BY Dispatched, EventByType DEF credit_evt_t, rt_uint16_t
  <2>3. AppTypeOK'
    BY DEF AppTypeOK, AppPc
  <2>4. AppPcInv' /\ PinInv'
    BY <2>2, Dispatched DEF AppPcInv, PinInv, InCredit
  <2>5. QED
    BY <2>1, <2>3, <2>4 DEF AppIInv
<1>7. QED
  BY <1>1, <1>2, <1>3, <1>4, <1>5, <1>6 DEF AppHandle

(* Inserting the credits of a credit event.                                *)
LEMMA AppCreditStep ==
    ASSUME IInv, AppCredit, UNCHANGED <<mpc, cpc>>
    PROVE  AppIInv'
<1> USE DEF IInv, DeviceTypeOK
<1>1. /\ InCredit /\ evt \in credit_evt_t /\ sys_cfg \in system_config_t
      /\ i \in Nat /\ j \in Nat /\ evt.count \in 0 .. (U16 - 1)
      /\ sys_cfg.pulses_per_credit \in 0 .. (U32 - 1)
  BY DEF AppCredit, AddCredit, PulseLow, PulseDelay, PulseEnd, CreditThanks,
         CreditDone, InCredit, AppPcInv, AppTypeOK, credit_evt_t,
         system_config_t, rt_uint16_t, rt_uint32_t
<1>2. QueueTypeOK' /\ NodesConserved'
  BY AppQueueUnchanged
     DEF AppCredit, AddCredit, PulseLow, PulseDelay, PulseEnd, CreditThanks,
         CreditDone, Return
<1>3. CASE AddCredit
  <2> USE <1>3 DEF AddCredit, rt_pin_write
  <2>1. AppTypeOK'
    BY DEF AppTypeOK, AppPc, Level
  <2>2. AppPcInv' /\ PinInv'
    BY <1>1 DEF AppPcInv, PinInv, InCredit
  <2>3. QED
    BY <1>2, <2>1, <2>2 DEF AppIInv
<1>4. CASE PulseLow
  <2> USE <1>4 DEF PulseLow, rt_pin_write
  <2>1. PinInv'
    BY DEF PinInv
  <2>2. AppTypeOK'
    BY <2>1, WidthAssumption DEF AppTypeOK, AppPc, Level, PinInv, rt_uint32_t
  <2>3. AppPcInv'
    BY <1>1 DEF AppPcInv, InCredit
  <2>4. QED
    BY <1>2, <2>1, <2>2, <2>3 DEF AppIInv
<1>5. CASE PulseDelay
  <2> USE <1>5 DEF PulseDelay
  <2>1. AppPcInv' /\ PinInv'
    BY <1>1 DEF AppPcInv, PinInv, InCredit
  <2>2. j' \in rt_uint32_t
    BY <1>1, WidthAssumption DEF AppPcInv, rt_uint32_t
  <2>3. AppTypeOK'
    BY <2>2 DEF AppTypeOK, AppPc
  <2>4. QED
    BY <1>2, <2>1, <2>3 DEF AppIInv
<1>6. CASE PulseEnd
  <2> USE <1>6 DEF PulseEnd, rt_pin_write
  <2>1. AppPcInv' /\ PinInv'
    BY <1>1 DEF AppPcInv, PinInv, InCredit
  <2>2. AppTypeOK'
    BY <1>1, WidthAssumption
       DEF AppTypeOK, AppPc, Level, AppPcInv, rt_uint16_t, rt_uint32_t
  <2>3. QED
    BY <1>2, <2>1, <2>2 DEF AppIInv
<1>7. CASE CreditThanks
  <2> USE <1>7 DEF CreditThanks
  <2>1. screen' \in Screen
    BY <1>1, ScreensTyped DEF credit_evt_t
  <2>2. AppTypeOK'
    BY <2>1 DEF AppTypeOK, AppPc
  <2>3. AppPcInv' /\ PinInv'
    BY <1>1 DEF AppPcInv, PinInv, InCredit
  <2>4. QED
    BY <1>2, <2>2, <2>3 DEF AppIInv
<1>8. CASE CreditDone
  <2> USE <1>8 DEF CreditDone, Return
  <2>1. screen' \in Screen
    BY <1>1, ScreensTyped
  <2>2. AppTypeOK'
    BY <2>1, WidthAssumption DEF AppTypeOK, AppPc, rt_uint16_t
  <2>3. AppPcInv' /\ PinInv'
    BY DEF AppPcInv, PinInv, InCredit
  <2>4. QED
    BY <1>2, <2>2, <2>3 DEF AppIInv
<1>9. QED
  BY <1>3, <1>4, <1>5, <1>6, <1>7, <1>8 DEF AppCredit

(* A step of the application thread preserves the invariant.               *)
LEMMA AppThreadIInv == IInv /\ AppThread => IInv'
<1> SUFFICES ASSUME IInv, AppThread PROVE IInv'
  OBVIOUS
<1>1. UNCHANGED <<linkVars, cardVars>>
  BY DEF AppThread
<1>2. UNCHANGED <<mpc, cpc>>
  BY <1>1 DEF linkVars, cardVars
<1>3. AppIInv'
  BY <1>2, AppQueueStep, AppHandlerStep, AppCreditStep DEF AppThread, AppStep
<1>4. LinkTypeOK' /\ CardTypeOK' /\ ClientInv' /\ CardInv'
  BY <1>1 DEF IInv, DeviceTypeOK, linkVars, cardVars, LinkTypeOK, CardTypeOK,
              ClientInv, CardInv
<1>5. QED
  BY <1>3, <1>4 DEF AppIInv, IInv, DeviceTypeOK

(***************************************************************************)
(* The senders preserve the invariant.                                     *)
(***************************************************************************)

(* One operation of a sender on the queue, with the nodes it holds before  *)
(* and after.                                                              *)
LEMMA SenderStep ==
    ASSUME IInv, NEW e \in event_t, UNCHANGED apc,
           \/ MqTakeNode /\ Held' = Held + 1
           \/ MqFull(e) /\ Held' = Held
           \/ MqLink(e) /\ Held' = Held - 1
           \/ MqSend(e) /\ Held' = Held
    PROVE  QueueTypeOK' /\ NodesConserved'
<1>1. /\ evt_queue \in Seq(event_t) /\ free \in Nat /\ Held \in Int
      /\ Len(evt_queue) \in Nat /\ lost \in BOOLEAN /\ free <= EVT_QUEUE_LEN
      /\ EVT_QUEUE_LEN \in Nat
  BY QueueAssumption DEF IInv, DeviceTypeOK, QueueTypeOK, Held
<1>2. /\ Append(evt_queue, e) \in Seq(event_t)
      /\ Len(Append(evt_queue, e)) = Len(evt_queue) + 1
  BY <1>1
<1>3. NodesConserved'
  BY <1>1, <1>2 DEF IInv, NodesConserved, MqTakeNode, MqFull, MqLink, MqSend
<1>4. evt_queue' \in Seq(event_t) /\ free' \in 0 .. EVT_QUEUE_LEN
  BY <1>1, <1>2 DEF MqTakeNode, MqFull, MqLink, MqSend
<1>5. lost' \in BOOLEAN
  BY <1>1 DEF MqTakeNode, MqFull, MqLink, MqSend
<1>6. QED
  BY <1>3, <1>4, <1>5 DEF QueueTypeOK

(* A step of another thread that does not touch the queue.                 *)
LEMMA SenderIdle ==
    ASSUME IInv, UNCHANGED queueVars, Held' = Held
    PROVE  QueueTypeOK' /\ NodesConserved'
BY DEF IInv, DeviceTypeOK, QueueTypeOK, NodesConserved, queueVars

(* The invariants of the application only depend on its variables.         *)
LEMMA AppUnchanged ==
    ASSUME IInv, UNCHANGED appVars
    PROVE  AppTypeOK' /\ AppPcInv' /\ PinInv' /\ apc' = apc
BY DEF IInv, DeviceTypeOK, appVars, AppTypeOK, AppPcInv, PinInv, InCredit

(* A step of main(), inside mqtt_link_connect() or around it, preserves it. *)
LEMMA MainThreadIInv == IInv /\ MainThread => IInv'
<1> SUFFICES ASSUME IInv, MainThread PROVE IInv'
  OBVIOUS
<1>1. UNCHANGED appVars /\ UNCHANGED <<cpc, card_evt>>
  BY DEF MainThread, cardVars
<1>2. AppTypeOK' /\ AppPcInv' /\ PinInv' /\ apc' = apc /\ CardTypeOK'
  BY <1>1, AppUnchanged DEF IInv, DeviceTypeOK, CardTypeOK
<1>3. ASSUME NEW s \in mqtt_event_t PROVE MqttEvent(s) \in event_t
  BY EventsTyped, EventUnion
<1>4. LinkTypeOK /\ ClientInv /\ CardInv
  BY DEF IInv, DeviceTypeOK
<1>5. CASE MainConnect
  <2> USE <1>5 DEF MainConnect
  <2>1. QueueTypeOK' /\ NodesConserved'
    <3>1. MqttEvent(status') \in event_t
      BY <1>3 DEF mqtt_event_t
    <3>2. QED
      BY <1>1, <1>2, <3>1, SenderStep DEF Held
  <2>2. LinkTypeOK'
    BY <1>4 DEF LinkTypeOK, MainPc, mqtt_event_t
  <2>3. ClientInv' /\ CardInv'
    BY <1>1, <1>4 DEF ClientInv, CardInv, mqtt_event_t
  <2>4. QED
    BY <1>2, <2>1, <2>2, <2>3 DEF IInv, DeviceTypeOK
<1>6. CASE MainPushConnecting
  <2> USE <1>6 DEF MainPushConnecting
  <2>1. QueueTypeOK' /\ NodesConserved'
    <3>1. MqttEvent(status) \in event_t
      BY <1>3, <1>4 DEF ClientInv
    <3>2. QED
      BY <1>1, <1>2, <3>1, SenderStep DEF Held
  <2>2. LinkTypeOK'
    BY <1>4 DEF LinkTypeOK, MainPc
  <2>3. ClientInv' /\ CardInv'
    BY <1>1, <1>4 DEF ClientInv, CardInv
  <2>4. QED
    BY <1>2, <2>1, <2>2, <2>3 DEF IInv, DeviceTypeOK
<1>7. CASE MainStarted \/ MainStartFailed
  <2> USE <1>7 DEF MainStarted, MainStartFailed
  <2>1. QueueTypeOK' /\ NodesConserved'
    BY <1>1, <1>2, SenderIdle DEF Held
  <2>2. LinkTypeOK'
    <3>1. topic' \in 1 .. 3 /\ mpc' \in MainPc
      BY <1>4 DEF LinkTypeOK, MainPc
    <3>2. client' \in BOOLEAN /\ online' \in BOOLEAN
      BY <1>4 DEF LinkTypeOK
    <3>3. QED
      BY <1>4, <3>1, <3>2 DEF LinkTypeOK, mqtt_event_t
  <2>3. ClientInv' /\ CardInv'
    BY <1>1, <1>4 DEF ClientInv, CardInv, mqtt_event_t
  <2>4. QED
    BY <1>2, <2>1, <2>2, <2>3 DEF IInv, DeviceTypeOK
<1>8. CASE MainSubscribe
  <2> USE <1>8 DEF MainSubscribe
  <2>1. QueueTypeOK' /\ NodesConserved'
    BY <1>1, <1>2, SenderIdle DEF Held
  <2>2. LinkTypeOK'
    <3>1. topic' \in 1 .. 3 /\ mpc' \in MainPc
      BY <1>4 DEF LinkTypeOK, MainPc, Topics
    <3>2. Topics[topic] \in {"config", "enable", "add-credit"}
      BY <1>4 DEF LinkTypeOK, Topics
    <3>3. subs' \subseteq {"config", "enable", "add-credit"}
      BY <1>4, <3>2 DEF LinkTypeOK
    <3>4. QED
      BY <1>4, <3>1, <3>3 DEF LinkTypeOK
  <2>3. ClientInv' /\ CardInv'
    BY <1>1, <1>4 DEF ClientInv, CardInv
  <2>4. QED
    BY <1>2, <2>1, <2>2, <2>3 DEF IInv, DeviceTypeOK
<1>9. CASE MainReport \/ MainPushResult
  <2> USE <1>9 DEF MainReport, MainPushResult
  <2>1. QueueTypeOK' /\ NodesConserved'
    <3>1. MqttEvent(status) \in event_t
      BY <1>3, <1>4 DEF ClientInv
    <3>2. QED
      BY <1>1, <1>2, <3>1, SenderStep DEF Held
  <2>2. LinkTypeOK'
    BY <1>4 DEF LinkTypeOK, MainPc
  <2>3. ClientInv' /\ CardInv'
    BY <1>1, <1>4 DEF ClientInv, CardInv
  <2>4. QED
    BY <1>2, <2>1, <2>2, <2>3 DEF IInv, DeviceTypeOK
<1>10. QED
  BY <1>5, <1>6, <1>7, <1>8, <1>9 DEF MainThread, MainStep

(* A callback of mqtt_link.c and a loss or return of the session do, too.  *)
LEMMA UmqttThreadIInv == IInv /\ UmqttThread => IInv'
<1> SUFFICES ASSUME IInv, UmqttThread PROVE IInv'
  OBVIOUS
<1>1. UNCHANGED appVars /\ UNCHANGED <<cpc, card_evt>>
  BY DEF UmqttThread, cardVars
<1>2. AppTypeOK' /\ AppPcInv' /\ PinInv' /\ apc' = apc /\ CardTypeOK'
  BY <1>1, AppUnchanged DEF IInv, DeviceTypeOK, CardTypeOK
<1>3. UNCHANGED <<mpc, status, mqtt_link_connected, client, topic>>
  BY DEF UmqttThread, UmqttStep, mqtt_config_callback, mqtt_enable_callback,
         mqtt_add_coins_callback, LinkLost, LinkBack, linkVars
<1>4. Held' = Held /\ ClientInv' /\ CardInv'
  BY <1>1, <1>2, <1>3 DEF IInv, Held, ClientInv, CardInv
<1>5. LinkTypeOK
  BY DEF IInv, DeviceTypeOK
<1>6. CASE mqtt_config_callback
  <2>1. PICK e \in config_evt_t :
            \/ MqSend(e) /\ lastConfig' = e
            \/ MqFull(e) /\ UNCHANGED lastConfig
    BY <1>6, EventsTyped DEF mqtt_config_callback
  <2>2. QueueTypeOK' /\ NodesConserved'
    BY <1>2, <1>4, <2>1, SenderStep, EventUnion
  <2>3. LinkTypeOK'
    BY <1>3, <1>5, <1>6, <2>1 DEF LinkTypeOK, mqtt_config_callback
  <2>4. QED
    BY <1>2, <1>4, <2>2, <2>3 DEF IInv, DeviceTypeOK
<1>7. CASE mqtt_enable_callback
  <2>1. PICK e \in enable_evt_t :
            \/ MqSend(e) /\ lastEnable' = e
            \/ MqFull(e) /\ UNCHANGED lastEnable
    BY <1>7, EventsTyped DEF mqtt_enable_callback, rt_bool_t
  <2>2. QueueTypeOK' /\ NodesConserved'
    BY <1>2, <1>4, <2>1, SenderStep, EventUnion
  <2>3. LinkTypeOK'
    BY <1>3, <1>5, <1>7, <2>1 DEF LinkTypeOK, mqtt_enable_callback
  <2>4. QED
    BY <1>2, <1>4, <2>2, <2>3 DEF IInv, DeviceTypeOK
<1>8. CASE mqtt_add_coins_callback
  <2>1. PICK e \in credit_evt_t : MqSend(e) \/ MqFull(e)
    BY <1>8, EventsTyped DEF mqtt_add_coins_callback
  <2>2. QueueTypeOK' /\ NodesConserved'
    BY <1>2, <1>4, <2>1, SenderStep, EventUnion
  <2>3. LinkTypeOK'
    BY <1>5, <1>8 DEF LinkTypeOK, mqtt_add_coins_callback, linkVars
  <2>4. QED
    BY <1>2, <1>4, <2>2, <2>3 DEF IInv, DeviceTypeOK
<1>9. CASE LinkLost \/ LinkBack
  <2>1. QueueTypeOK' /\ NodesConserved'
    BY <1>4, <1>9, SenderIdle DEF LinkLost, LinkBack
  <2>2. online' \in BOOLEAN
    BY <1>9 DEF LinkLost, LinkBack
  <2>3. LinkTypeOK'
    BY <1>5, <1>9, <2>2 DEF LinkTypeOK, LinkLost, LinkBack
  <2>4. QED
    BY <1>2, <1>4, <2>1, <2>3 DEF IInv, DeviceTypeOK
<1>10. QED
  BY <1>6, <1>7, <1>8, <1>9 DEF UmqttThread, UmqttStep

(* ... and so does a step of card_reader_loop().                           *)
LEMMA CardThreadIInv == IInv /\ CardThread => IInv'
<1> SUFFICES ASSUME IInv, CardThread PROVE IInv'
  OBVIOUS
<1>1. UNCHANGED appVars /\ UNCHANGED linkVars
  BY DEF CardThread
<1>2. AppTypeOK' /\ AppPcInv' /\ PinInv' /\ apc' = apc
  BY <1>1, AppUnchanged
<1>3. LinkTypeOK' /\ ClientInv' /\ UNCHANGED <<mpc, client>>
  BY <1>1 DEF IInv, DeviceTypeOK, LinkTypeOK, ClientInv, linkVars
<1>4. ASSUME NEW uid \in Uids PROVE CardEvent(uid) \in event_t
  BY EventsTyped, EventUnion
<1>5. CardTypeOK /\ CardInv
  BY DEF IInv, DeviceTypeOK
<1>6. CASE CardSwipe
  <2>1. PICK uid \in Uids :
            /\ card_evt' = uid
            /\ \/ MqTakeNode /\ cpc' = "push"
               \/ MqFull(CardEvent(uid)) /\ cpc' = "send"
    BY <1>6 DEF CardSwipe
  <2>2. QueueTypeOK' /\ NodesConserved'
    <3>1. \/ MqTakeNode /\ Held' = Held + 1
          \/ MqFull(CardEvent(uid)) /\ Held' = Held
      BY <1>2, <1>3, <1>6, <2>1 DEF Held, CardSwipe
    <3>2. QED
      BY <1>2, <1>4, <3>1, SenderStep
  <2>3. CardTypeOK' /\ CardInv'
    BY <2>1 DEF CardTypeOK, CardInv, CardPc
  <2>4. QED
    BY <1>2, <1>3, <2>2, <2>3 DEF IInv, DeviceTypeOK
<1>7. CASE CardPush
  <2>1. QueueTypeOK' /\ NodesConserved'
    <3>1. MqLink(CardEvent(card_evt)) /\ Held' = Held - 1
      BY <1>2, <1>3, <1>7 DEF Held, CardPush
    <3>2. CardEvent(card_evt) \in event_t
      BY <1>4, <1>5, <1>7 DEF CardInv, CardPush
    <3>3. QED
      BY <1>2, <3>1, <3>2, SenderStep
  <2>2. CardTypeOK' /\ CardInv'
    BY <1>5, <1>7 DEF CardTypeOK, CardInv, CardPc, CardPush
  <2>3. QED
    BY <1>2, <1>3, <2>1, <2>2 DEF IInv, DeviceTypeOK
<1>8. CASE mqtt_link_send \/ CardPublished
  <2>1. QueueTypeOK' /\ NodesConserved'
    BY <1>2, <1>3, <1>8, SenderIdle DEF Held, mqtt_link_send, CardPublished
  <2>2. CardTypeOK' /\ CardInv'
    BY <1>3, <1>5, <1>8
       DEF CardTypeOK, CardInv, CardPc, mqtt_link_send, CardPublished
  <2>3. QED
    BY <1>2, <1>3, <2>1, <2>2 DEF IInv, DeviceTypeOK
<1>9. QED
  BY <1>6, <1>7, <1>8 DEF CardThread, CardStep

(***************************************************************************)
(* The theorems                                                            *)
(***************************************************************************)

(* The threads, and the spinning in umqtt_trans_send(), which changes      *)
(* nothing but who may run.                                                *)
LEMMA NextSteps ==
    ASSUME [Next]_vars
    PROVE  \/ UmqttThread \/ MainThread \/ AppThread \/ CardThread
           \/ UNCHANGED deviceVars
BY DEF Next, SpinStarts, SpinEnds, vars

(* IInv is an invariant of the firmware.                                   *)
THEOREM Invariance == Spec => []IInv
<1>1. IInv /\ [Next]_vars => IInv'
  <2> SUFFICES ASSUME IInv, [Next]_vars PROVE IInv'
    OBVIOUS
  <2>1. CASE UNCHANGED deviceVars
    BY <2>1 DEF deviceVars, queueVars, appVars, linkVars, cardVars, IInv, DeviceTypeOK,
                QueueTypeOK, AppTypeOK, LinkTypeOK, CardTypeOK, NodesConserved,
                Held, AppPcInv, InCredit, PinInv, ClientInv, CardInv
  <2>2. QED
    BY <2>1, AppThreadIInv, MainThreadIInv, UmqttThreadIInv, CardThreadIInv,
       NextSteps
<1>2. QED
  BY <1>1, InitIInv, PTL DEF Spec

(* Every variable keeps its C type, the counters of the credit loops       *)
(* included.                                                               *)
THEOREM TypeCorrect == Spec => []TypeOK
<1> DEFINE Spins == spinning \in SUBSET {"main", "umqtt"}
<1>1. Init => Spins
  BY DEF Init
<1>2. Spins /\ [Next]_vars => Spins'
  BY DEF Next, UmqttThread, MainThread, AppThread, CardThread, SpinStarts, SpinEnds, vars
<1>3. IInv /\ Spins => TypeOK
  BY DEF IInv, DeviceTypeOK, TypeOK
<1>4. QED
  BY <1>1, <1>2, <1>3, Invariance, PTL DEF Spec

(* No preemption inside rt_mq_send() or rt_mq_recv() loses a queue node.   *)
THEOREM QueueNodesConserved == Spec => []NodesConserved
<1>1. IInv => NodesConserved
  BY DEF IInv
<1>2. QED
  BY <1>1, Invariance, PTL

(* Pulses are only sent for a credit event, while the device is enabled.   *)
THEOREM CreditsOnlyWhileEnabled == Spec => []CreditWhileEnabled
<1>1. IInv => CreditWhileEnabled
  BY DEF IInv, AppPcInv, CreditWhileEnabled, credit_evt_t
<1>2. QED
  BY <1>1, Invariance, PTL

(* The coin line is never left low.                                        *)
THEOREM CoinLineRests == Spec => []PinRests
<1>1. IInv => PinRests
  BY DEF IInv, PinInv, PinRests
<1>2. QED
  BY <1>1, Invariance, PTL

(* The card reader never publishes through a null client.                  *)
THEOREM PublishesWithClient == Spec => []PublishHasClient
<1>1. IInv => PublishHasClient
  BY DEF IInv, CardInv, PublishHasClient
<1>2. QED
  BY <1>1, Invariance, PTL

(* The screen tells the truth once the connection has been reported.       *)
THEOREM ScreenTellsTruth == Spec => []ScreenTruth
<1>1. Init => ScreenTruth
  BY DEF Init, AppInit, ScreenTruth
<1>2. IInv /\ ScreenTruth /\ [Next]_vars => ScreenTruth'
  <2> SUFFICES ASSUME IInv, ScreenTruth, [Next]_vars PROVE ScreenTruth'
    OBVIOUS
  <2>1. CASE UNCHANGED appVars
    BY <2>1 DEF appVars, ScreenTruth, InCredit
  <2>2. CASE AppThread
    <3> USE DEF ScreenTruth, InCredit
    <3>1. CASE AppBoot \/ AppRecv \/ AppRelease
      <4>1. shown' = shown /\ sys_cfg' = sys_cfg
        BY <3>1 DEF AppBoot, AppRecv, AppRelease
      <4>2. QED
        BY <3>1, <4>1 DEF AppBoot, AppRecv, AppRelease, IInv, AppPcInv
    <3>2. CASE OnEnable
      BY <3>2 DEF OnEnable, Dispatch, Return, idle_message, IInv, DeviceTypeOK,
                  AppTypeOK, system_config_t
    <3>3. CASE OnConfig
      BY <3>3 DEF OnConfig, Dispatch, Return, IInv, DeviceTypeOK, AppTypeOK,
                  system_config_t
    <3>4. CASE OnMqtt
      BY <3>4 DEF OnMqtt, Dispatch, Return
    <3>5. CASE OnCard \/ OnCreditRefused \/ OnCredit
      BY <3>5 DEF OnCard, OnCreditRefused, OnCredit, Dispatch, Return
    <3>6. CASE AddCredit \/ PulseLow \/ PulseDelay \/ PulseEnd \/ CreditThanks
      BY <3>6 DEF AddCredit, PulseLow, PulseDelay, PulseEnd, CreditThanks
    <3>7. CASE CreditDone
      BY <3>7 DEF CreditDone, Return, IInv, AppPcInv
    <3>8. QED
      BY <2>2, <3>1, <3>2, <3>3, <3>4, <3>5, <3>6, <3>7
         DEF AppThread, AppStep, AppHandle, AppCredit
  <2>3. QED
    BY <2>1, <2>2, NextSteps DEF MainThread, UmqttThread, CardThread, deviceVars
<1>3. QED
  BY <1>1, <1>2, Invariance, PTL DEF Spec

(***************************************************************************)
(* The firmware implements PayDevice.                                      *)
(***************************************************************************)

(* The queue behind the event being handled.                               *)
LEMMA ConsProperties ==
    ASSUME NEW S, NEW e \in S, NEW q \in Seq(S)
    PROVE  /\ <<e>> \o q \in Seq(S)
           /\ Len(<<e>> \o q) = Len(q) + 1
           /\ <<e>> \o q # <<>>
           /\ Head(<<e>> \o q) = e
           /\ Tail(<<e>> \o q) = q
           /\ \A f \in S : Append(<<e>> \o q, f) = <<e>> \o Append(q, f)
BY SMTT(30)

(* A sequence is its head in front of its tail.                            *)
LEMMA HeadTail ==
    ASSUME NEW S, NEW q \in Seq(S), q # <<>>
    PROVE  <<Head(q)>> \o Tail(q) = q
BY SMTT(30)

(* The backlog is the queue, behind the event in evt if there is one.      *)
LEMMA BacklogShape ==
    ASSUME IInv
    PROVE  /\ apc \in {"boot", "recv"} => Backlog = evt_queue
           /\ apc \notin {"boot", "recv"} =>
                Backlog = <<evt>> \o evt_queue /\ evt \in event_t
           /\ evt_queue \in Seq(event_t)
BY EventUnion DEF IInv, DeviceTypeOK, AppTypeOK, AppPc, QueueTypeOK, AppPcInv,
                  Backlog, InCredit

(* PayDevice has the events of Events.                                     *)
LEMMA DeviceEvents == Device!event_t = event_t
BY DEF event_t, config_evt_t, credit_evt_t, enable_evt_t, mqtt_evt_t,
       card_event_t, mqtt_event_t, rt_bool_t, rt_uint16_t, rt_uint32_t,
       Device!event_t, Device!config_evt_t, Device!credit_evt_t,
       Device!enable_evt_t, Device!mqtt_evt_t, Device!card_event_t,
       Device!mqtt_event_t, Device!rt_bool_t, Device!rt_uint16_t,
       Device!rt_uint32_t

(* An event linked to the queue comes last in the backlog ...              *)
LEMMA LinkAppends ==
    ASSUME IInv, NEW e \in event_t, UNCHANGED appVars,
           evt_queue' = Append(evt_queue, e)
    PROVE  Backlog' = Append(Backlog, e)
<1>1. apc' = apc /\ evt' = evt
  BY DEF appVars
<1>2. CASE apc \in {"boot", "recv"}
  BY <1>1, <1>2, BacklogShape DEF Backlog, InCredit
<1>3. CASE apc \notin {"boot", "recv"}
  <2>1. Backlog' = <<evt>> \o Append(evt_queue, e)
    BY <1>1, <1>3 DEF Backlog, InCredit, IInv, DeviceTypeOK, AppTypeOK, AppPc
  <2>2. QED
    BY <1>3, <2>1, BacklogShape, ConsProperties
<1>4. QED
  BY <1>2, <1>3

(* ... and is accepted by the device: the backlog still has room for it.   *)
LEMMA LinkAccepts ==
    ASSUME IInv, IInv', NEW e \in event_t, UNCHANGED appVars,
           evt_queue' = Append(evt_queue, e)
    PROVE  Device!Accept
<1>2. Backlog' = Append(Backlog, e)
  BY LinkAppends
<1>3. Len(Backlog) < EVT_QUEUE_LEN + 1
  <2>1. Len(evt_queue') = Len(evt_queue) + 1 /\ Len(evt_queue) \in Nat
    BY BacklogShape
  <2>2. Len(evt_queue') <= EVT_QUEUE_LEN
    BY QueueAssumption DEF IInv, DeviceTypeOK, QueueTypeOK, NodesConserved, Held
  <2>3. Len(Backlog) <= Len(evt_queue) + 1
    BY <2>1, BacklogShape, ConsProperties
  <2>4. Len(Backlog) \in Nat
    BY <2>1, BacklogShape, ConsProperties
  <2>5. QED
    BY <2>1, <2>2, <2>3, <2>4, QueueAssumption
<1>4. sys_cfg' = sys_cfg /\ paid' = paid
  BY DEF appVars
<1>5. QED
  BY <1>2, <1>3, <1>4, DeviceEvents DEF Device!Accept

(* A step of a sender that leaves the linked messages alone is invisible.  *)
LEMMA SenderInvisible ==
    ASSUME UNCHANGED appVars, UNCHANGED evt_queue
    PROVE  UNCHANGED Device!vars
BY DEF appVars, Device!vars, Backlog, InCredit

(* Every step of main, the umqtt thread and the card reader accepts an     *)
(* event or is invisible.                                                  *)
LEMMA SendersRefine ==
    ASSUME IInv, IInv', MainThread \/ UmqttThread \/ CardThread
    PROVE  Device!Accept \/ UNCHANGED Device!vars
<1>1. UNCHANGED appVars
  BY DEF MainThread, UmqttThread, CardThread
<1>2. UNCHANGED evt_queue
      \/ \E e \in event_t : evt_queue' = Append(evt_queue, e)
  <2> USE DEF MqTakeNode, MqFull, MqLink, MqSend, queueVars
  <2>1. CASE MainThread
    <3>1. ASSUME MainPushConnecting \/ MainPushResult
          PROVE  MqttEvent(status) \in event_t
      <4>1. status \in mqtt_event_t
        BY <3>1 DEF IInv, ClientInv, MainPushConnecting, MainPushResult
      <4>2. QED
        BY <4>1, EventsTyped, EventUnion
    <3>2. QED
      BY <2>1, <3>1
         DEF MainThread, MainStep, MainConnect, MainPushConnecting, MainStarted,
             MainStartFailed, MainSubscribe, MainReport, MainPushResult
  <2>2. CASE UmqttThread
    <3>1. CASE mqtt_config_callback
      BY <3>1, EventsTyped, EventUnion DEF mqtt_config_callback
    <3>2. CASE mqtt_enable_callback
      BY <3>2, EventsTyped, EventUnion DEF mqtt_enable_callback, rt_bool_t
    <3>3. CASE mqtt_add_coins_callback
      BY <3>3, EventsTyped, EventUnion DEF mqtt_add_coins_callback
    <3>4. QED
      BY <2>2, <3>1, <3>2, <3>3 DEF UmqttThread, UmqttStep, LinkLost, LinkBack
  <2>3. CASE CardThread
    <3>1. ASSUME CardPush PROVE CardEvent(card_evt) \in event_t
      BY <3>1, EventsTyped, EventUnion DEF CardPush, IInv, CardInv
    <3>2. QED
      BY <2>3, <3>1
         DEF CardThread, CardStep, CardSwipe, CardPush, mqtt_link_send,
             CardPublished
  <2>4. QED
    BY <2>1, <2>2, <2>3
<1>3. QED
  BY <1>1, <1>2, LinkAccepts, SenderInvisible

(* Every step of the application thread serves the event in evt or is      *)
(* invisible.                                                              *)
LEMMA AppRefines ==
    ASSUME IInv, AppThread
    PROVE  Device!Serve \/ UNCHANGED Device!vars
<1>1. /\ sys_cfg \in system_config_t
      /\ evt_queue \in Seq(event_t)
  BY DEF IInv, DeviceTypeOK, AppTypeOK, QueueTypeOK
<1>2. ASSUME apc \notin {"boot", "recv"}, apc' = "recv", UNCHANGED queueVars
      PROVE  /\ Backlog # <<>> /\ Head(Backlog) = evt
             /\ Backlog' = Tail(Backlog) /\ evt \in event_t
  BY <1>1, <1>2, BacklogShape, ConsProperties DEF Backlog, InCredit, queueVars
<1>3. CASE AppBoot
  BY <1>3 DEF AppBoot, Device!vars, Backlog, InCredit, queueVars
<1>4. CASE AppRecv
  <2>1. Backlog = evt_queue /\ evt_queue # <<>>
    BY <1>4, BacklogShape DEF AppRecv, MqUnlink
  <2>2. Backlog' = <<Head(evt_queue)>> \o Tail(evt_queue)
    BY <1>4 DEF AppRecv, MqUnlink, Backlog
  <2>3. QED
    BY <1>1, <1>4, <2>1, <2>2, HeadTail DEF AppRecv, Device!vars
<1>5. CASE AppRelease
  BY <1>5 DEF AppRelease, MqFreeNode, Device!vars, Backlog, InCredit
<1>6. CASE OnEnable
  <2> USE <1>6 DEF OnEnable, Dispatch, Return
  <2>1. sys_cfg' = [sys_cfg EXCEPT !.enabled = evt.enable]
    BY <1>1 DEF system_config_t
  <2>2. /\ sys_cfg'.price = sys_cfg.price /\ sys_cfg'.enabled = evt.enable
        /\ sys_cfg'.pulses_per_credit = sys_cfg.pulses_per_credit
    BY <1>1, <2>1 DEF system_config_t
  <2>3. Device!ServeEnable(evt)
    <3>1. UNCHANGED paid /\ evt.type = "event_type_enable_e"
      OBVIOUS
    <3>2. QED
      BY ONLY <2>2, <3>1 DEF Device!ServeEnable
  <2>4. QED
    BY <1>2, <2>3 DEF Device!Serve
<1>7. CASE OnConfig
  <2> USE <1>7 DEF OnConfig, Dispatch, Return
  <2>1. /\ sys_cfg'.price = evt.price /\ sys_cfg'.enabled = sys_cfg.enabled
        /\ sys_cfg'.pulses_per_credit = evt.pulses_per_credit
    BY <1>1 DEF system_config_t
  <2>2. Device!ServeConfig(evt)
    <3>1. UNCHANGED paid /\ evt.type = "event_type_config_e"
      OBVIOUS
    <3>2. QED
      BY ONLY <2>1, <3>1 DEF Device!ServeConfig
  <2>3. QED
    BY <1>2, <2>2 DEF Device!Serve
<1>8. CASE OnMqtt \/ OnCard
  BY <1>2, <1>8 DEF OnMqtt, OnCard, Dispatch, Return, Device!Serve,
                    Device!ServeOther
<1>9. CASE OnCreditRefused
  BY <1>2, <1>9 DEF OnCreditRefused, Dispatch, Return, Device!Serve,
                    Device!ServeCredit
<1>10. CASE OnCredit
  BY <1>10 DEF OnCredit, Dispatch, Device!vars, Backlog, InCredit, queueVars
<1>11. CASE AddCredit \/ PulseLow \/ PulseDelay \/ PulseEnd \/ CreditThanks
  BY <1>11 DEF AddCredit, PulseLow, PulseDelay, PulseEnd, CreditThanks,
               Device!vars, Backlog, InCredit, queueVars
<1>12. CASE CreditDone
  <2>1. evt.type = "event_type_credit_e" /\ sys_cfg.enabled # 0
        /\ i = evt.count
    BY <1>12 DEF CreditDone, IInv, AppPcInv, InCredit, credit_evt_t
  <2>2. QED
    BY <1>2, <1>12, <2>1 DEF CreditDone, Return, Device!Serve,
                             Device!ServeCredit
<1>13. QED
  BY <1>3, <1>4, <1>5, <1>6, <1>7, <1>8, <1>9, <1>10, <1>11, <1>12
     DEF AppThread, AppStep, AppHandle, AppCredit

(* The events accepted are served in order, once each and completely.      *)
THEOREM ImplementsDevice == Spec => DeviceSpec
<1>1. Init => Device!Init
  BY DEF Init, QueueInit, AppInit, Device!Init, Backlog, InCredit
<1>2. IInv /\ IInv' /\ [Next]_vars => [Device!Next]_(Device!vars)
  <2> SUFFICES ASSUME IInv, IInv', [Next]_vars
               PROVE  Device!Next \/ UNCHANGED Device!vars
    OBVIOUS
  <2>1. CASE UNCHANGED deviceVars
    BY <2>1, SenderInvisible DEF deviceVars, queueVars
  <2>2. QED
    BY <2>1, SendersRefine, AppRefines, NextSteps DEF Device!Next
<1>3. QED
  BY <1>1, <1>2, Invariance, PTL DEF Spec, DeviceSpec, Device!Spec

(***************************************************************************)
(* The last accepted message decides.                                      *)
(***************************************************************************)

(* Accepting an event at the end of the backlog.                           *)
LEMMA LastAfterAppend ==
    ASSUME NEW q \in Seq(event_t), NEW f \in event_t, NEW e, NEW t
    PROVE  /\ IsLast(Append(q, f), f)
           /\ IsLast(q, e) /\ f.type # e.type => IsLast(Append(q, f), e)
           /\ NoneOf(q, t) /\ f.type # t => NoneOf(Append(q, f), t)
<1>1. /\ DOMAIN q = 1 .. Len(q) /\ Len(q) \in Nat
      /\ DOMAIN Append(q, f) = 1 .. (Len(q) + 1)
      /\ \A k \in 1 .. Len(q) : Append(q, f)[k] = q[k]
      /\ Append(q, f)[Len(q) + 1] = f
  OBVIOUS
<1>2. IsLast(Append(q, f), f)
  <2>1. Len(q) + 1 \in DOMAIN Append(q, f)
    BY <1>1
  <2>2. \A m \in DOMAIN Append(q, f) : ~(m > Len(q) + 1)
    BY <1>1
  <2>3. QED
    BY <1>1, <2>1, <2>2 DEF IsLast
<1>3. ASSUME IsLast(q, e), f.type # e.type PROVE IsLast(Append(q, f), e)
  <2>1. PICK k \in DOMAIN q :
            q[k] = e /\ \A m \in DOMAIN q : m > k => q[m].type # e.type
    BY <1>3 DEF IsLast
  <2>2. \A m \in DOMAIN Append(q, f) : m > k => Append(q, f)[m].type # e.type
    BY <1>1, <1>3, <2>1
  <2>3. QED
    BY <1>1, <2>1, <2>2 DEF IsLast
<1>4. ASSUME NoneOf(q, t), f.type # t PROVE NoneOf(Append(q, f), t)
  BY <1>1, <1>4 DEF NoneOf
<1>5. QED
  BY <1>2, <1>3, <1>4

(* Serving the first event of the backlog.                                 *)
LEMMA LastAfterTail ==
    ASSUME NEW q \in Seq(event_t), q # <<>>, NEW e, NEW t
    PROVE  /\ IsLast(q, e) =>
                (IsLast(Tail(q), e) \/ (Head(q) = e /\ NoneOf(Tail(q), e.type)))
           /\ NoneOf(q, t) => NoneOf(Tail(q), t) /\ Head(q).type # t
<1>1. /\ DOMAIN q = 1 .. Len(q) /\ Len(q) \in Nat /\ Len(q) > 0
      /\ DOMAIN Tail(q) = 1 .. (Len(q) - 1) /\ Head(q) = q[1]
      /\ \A k \in 1 .. (Len(q) - 1) : Tail(q)[k] = q[k + 1]
  OBVIOUS
<1>2. ASSUME IsLast(q, e)
      PROVE  IsLast(Tail(q), e) \/ (Head(q) = e /\ NoneOf(Tail(q), e.type))
  <2>1. PICK k \in DOMAIN q :
            q[k] = e /\ \A m \in DOMAIN q : m > k => q[m].type # e.type
    BY <1>2 DEF IsLast
  <2>2. CASE k = 1
    BY <1>1, <2>1, <2>2 DEF NoneOf
  <2>3. CASE k # 1
    <3>1. k - 1 \in DOMAIN Tail(q) /\ Tail(q)[k - 1] = e
      BY <1>1, <2>1, <2>3
    <3>2. \A m \in DOMAIN Tail(q) : m > k - 1 => Tail(q)[m].type # e.type
      BY <1>1, <2>1
    <3>3. QED
      BY <3>1, <3>2 DEF IsLast
  <2>4. QED
    BY <2>2, <2>3
<1>3. NoneOf(q, t) => NoneOf(Tail(q), t) /\ Head(q).type # t
  BY <1>1 DEF NoneOf
<1>4. QED
  BY <1>2, <1>3, Zenon

(* The history variables follow the messages linked to the queue.          *)
LEMMA SendersHistory ==
    ASSUME IInv, MainThread \/ UmqttThread \/ CardThread
    PROVE  \/ UNCHANGED <<evt_queue, lastEnable, lastConfig>>
           \/ \E e \in event_t :
                /\ evt_queue' = Append(evt_queue, e)
                /\ lastEnable' = IF e.type = "event_type_enable_e"
                                 THEN e ELSE lastEnable
                /\ lastConfig' = IF e.type = "event_type_config_e"
                                 THEN e ELSE lastConfig
<1> USE DEF MqTakeNode, MqFull, MqLink, MqSend, queueVars
<1>1. CASE MainThread
  <2>1. UNCHANGED <<lastEnable, lastConfig>>
    BY <1>1
       DEF MainThread, MainStep, MainConnect, MainPushConnecting, MainStarted,
           MainStartFailed, MainSubscribe, MainReport, MainPushResult
  <2>2. CASE MainPushConnecting \/ MainPushResult
    <3>1. MqttEvent(status) \in event_t
      BY <2>2, EventsTyped, EventUnion
         DEF IInv, ClientInv, MainPushConnecting, MainPushResult
    <3>2. MqttEvent(status).type = "event_type_mqtt_e"
      BY DEF MqttEvent
    <3>3. evt_queue' = Append(evt_queue, MqttEvent(status))
      BY <2>2 DEF MainPushConnecting, MainPushResult
    <3>4. QED
      BY <2>1, <3>1, <3>2, <3>3
  <2>3. QED
    BY <1>1, <2>1, <2>2
       DEF MainThread, MainStep, MainConnect, MainStarted, MainStartFailed,
           MainSubscribe, MainReport
<1>2. CASE UmqttThread
  <2>1. CASE mqtt_config_callback
    <3>1. PICK e \in config_evt_t :
              \/ MqSend(e) /\ lastConfig' = e
              \/ MqFull(e) /\ UNCHANGED lastConfig
      BY <2>1, EventsTyped DEF mqtt_config_callback
    <3>2. e \in event_t /\ e.type = "event_type_config_e"
      BY EventUnion DEF config_evt_t
    <3>3. UNCHANGED lastEnable
      BY <2>1 DEF mqtt_config_callback
    <3>4. QED
      BY <3>1, <3>2, <3>3
  <2>2. CASE mqtt_enable_callback
    <3>1. PICK e \in enable_evt_t :
              \/ MqSend(e) /\ lastEnable' = e
              \/ MqFull(e) /\ UNCHANGED lastEnable
      BY <2>2, EventsTyped DEF mqtt_enable_callback, rt_bool_t
    <3>2. e \in event_t /\ e.type = "event_type_enable_e"
      BY EventUnion DEF enable_evt_t
    <3>3. UNCHANGED lastConfig
      BY <2>2 DEF mqtt_enable_callback
    <3>4. QED
      BY <3>1, <3>2, <3>3
  <2>3. CASE mqtt_add_coins_callback
    <3>1. PICK e \in credit_evt_t : MqSend(e) \/ MqFull(e)
      BY <2>3, EventsTyped DEF mqtt_add_coins_callback
    <3>2. e \in event_t /\ e.type = "event_type_credit_e"
      BY EventUnion DEF credit_evt_t
    <3>3. UNCHANGED <<lastEnable, lastConfig>>
      BY <2>3 DEF mqtt_add_coins_callback, linkVars
    <3>4. QED
      BY <3>1, <3>2, <3>3
  <2>4. QED
    BY <1>2, <2>1, <2>2, <2>3 DEF UmqttThread, UmqttStep, LinkLost, LinkBack
<1>3. CASE CardThread
  <2>1. UNCHANGED <<lastEnable, lastConfig>>
    BY <1>3 DEF CardThread, linkVars
  <2>2. CASE CardPush
    <3>1. CardEvent(card_evt) \in event_t
      BY <2>2, EventsTyped, EventUnion DEF CardPush, IInv, CardInv
    <3>2. CardEvent(card_evt).type = "event_type_card_e"
      BY DEF CardEvent
    <3>3. QED
      BY <2>1, <2>2, <3>1, <3>2 DEF CardPush
  <2>3. QED
    BY <1>3, <2>1, <2>2
       DEF CardThread, CardStep, CardSwipe, mqtt_link_send, CardPublished
<1>4. QED
  BY <1>1, <1>2, <1>3

(* What a step can do to the backlog: accept an event, serve one, or       *)
(* nothing.                                                                *)
LEMMA BacklogStep ==
    ASSUME IInv, [Next]_vars
    PROVE  \/ /\ UNCHANGED <<Backlog, lastEnable, lastConfig>>
              /\ UNCHANGED <<sys_cfg.price, sys_cfg.pulses_per_credit,
                             sys_cfg.enabled>>
           \/ /\ UNCHANGED sys_cfg
              /\ \E e \in event_t :
                   /\ Backlog' = Append(Backlog, e)
                   /\ lastEnable' = IF e.type = "event_type_enable_e"
                                    THEN e ELSE lastEnable
                   /\ lastConfig' = IF e.type = "event_type_config_e"
                                    THEN e ELSE lastConfig
           \/ Device!Serve /\ UNCHANGED <<lastEnable, lastConfig>>
<1>1. CASE UNCHANGED deviceVars
  BY <1>1 DEF deviceVars, queueVars, appVars, linkVars, Backlog, InCredit
<1>2. CASE AppThread
  <2>1. UNCHANGED <<lastEnable, lastConfig>>
    BY <1>2 DEF AppThread, linkVars
  <2>2. CASE UNCHANGED Device!vars
    <3>1. UNCHANGED Backlog
      BY <2>2 DEF Device!vars
    <3>2. [price |-> sys_cfg.price,
           pulses_per_credit |-> sys_cfg.pulses_per_credit,
           enabled |-> sys_cfg.enabled]' =
          [price |-> sys_cfg.price,
           pulses_per_credit |-> sys_cfg.pulses_per_credit,
           enabled |-> sys_cfg.enabled]
      BY <2>2 DEF Device!vars
    <3>3. UNCHANGED <<sys_cfg.price, sys_cfg.pulses_per_credit,
                      sys_cfg.enabled>>
      BY <3>2
    <3>4. QED
      BY <2>1, <3>1, <3>3
  <2>3. QED
    BY <1>2, <2>1, <2>2, AppRefines
<1>3. CASE MainThread \/ UmqttThread \/ CardThread
  <2>1. UNCHANGED appVars
    BY <1>3 DEF MainThread, UmqttThread, CardThread
  <2>2. CASE UNCHANGED <<evt_queue, lastEnable, lastConfig>>
    BY <2>1, <2>2 DEF appVars, Backlog, InCredit
  <2>3. CASE \E e \in event_t :
                /\ evt_queue' = Append(evt_queue, e)
                /\ lastEnable' = IF e.type = "event_type_enable_e"
                                 THEN e ELSE lastEnable
                /\ lastConfig' = IF e.type = "event_type_config_e"
                                 THEN e ELSE lastConfig
    <3>1. UNCHANGED sys_cfg
      BY <2>1 DEF appVars
    <3>2. QED
      BY <2>1, <2>3, <3>1, LinkAppends
  <2>4. QED
    BY <1>3, <2>2, <2>3, SendersHistory
<1>4. QED
  BY <1>1, <1>2, <1>3, NextSteps

(* What serving an event does to the settings.                             *)
LEMMA ServeSettings ==
    ASSUME Device!Serve
    PROVE  /\ Backlog # <<>> /\ Backlog' = Tail(Backlog)
           /\ IF Head(Backlog).type = "event_type_enable_e"
              THEN sys_cfg.enabled' = Head(Backlog).enable
              ELSE sys_cfg.enabled' = sys_cfg.enabled
           /\ IF Head(Backlog).type = "event_type_config_e"
              THEN /\ sys_cfg.price' = Head(Backlog).price
                   /\ sys_cfg.pulses_per_credit' =
                          Head(Backlog).pulses_per_credit
              ELSE UNCHANGED <<sys_cfg.price, sys_cfg.pulses_per_credit>>
BY DEF Device!Serve, Device!ServeEnable, Device!ServeConfig,
       Device!ServeCredit, Device!ServeOther

(* The backlog holds events.                                               *)
LEMMA BacklogTyped ==
    ASSUME IInv PROVE Backlog \in Seq(event_t)
<1>1. CASE apc \in {"boot", "recv"}
  BY <1>1, BacklogShape
<1>2. CASE apc \notin {"boot", "recv"}
  <2>1. Backlog = <<evt>> \o evt_queue /\ evt \in event_t
        /\ evt_queue \in Seq(event_t)
    BY <1>2, BacklogShape
  <2>2. QED
    BY <2>1, ConsProperties
<1>3. QED
  BY <1>1, <1>2

(* The last enable message accepted decides whether the device is enabled. *)
THEOREM LastEnableDecides == Spec => []EnableSettles
<1>1. Init => EnableSettles
  BY DEF Init, QueueInit, AppInit, LinkInit, EnableSettles, NoneOf, Backlog,
         InCredit, EnableEvent
<1>2. IInv /\ EnableSettles /\ [Next]_vars => EnableSettles'
  <2> SUFFICES ASSUME IInv, EnableSettles, [Next]_vars PROVE EnableSettles'
    OBVIOUS
  <2>1. lastEnable \in enable_evt_t /\ lastEnable.type = "event_type_enable_e"
    BY DEF IInv, DeviceTypeOK, LinkTypeOK, enable_evt_t
  <2>2. CASE UNCHANGED <<Backlog, lastEnable, sys_cfg.enabled>>
    BY <2>2 DEF EnableSettles, IsLast, NoneOf
  <2>3. CASE /\ UNCHANGED sys_cfg
             /\ \E e \in event_t :
                   /\ Backlog' = Append(Backlog, e)
                   /\ lastEnable' = IF e.type = "event_type_enable_e"
                                    THEN e ELSE lastEnable
    <3>1. PICK e \in event_t :
              /\ Backlog' = Append(Backlog, e)
              /\ lastEnable' = IF e.type = "event_type_enable_e"
                               THEN e ELSE lastEnable
      BY <2>3
    <3>2. /\ IsLast(Append(Backlog, e), e)
          /\ IsLast(Backlog, lastEnable) /\ e.type # lastEnable.type =>
               IsLast(Append(Backlog, e), lastEnable)
          /\ NoneOf(Backlog, "event_type_enable_e")
             /\ e.type # "event_type_enable_e" =>
               NoneOf(Append(Backlog, e), "event_type_enable_e")
      BY BacklogTyped, LastAfterAppend
    <3>3. QED
      BY <2>1, <2>3, <3>1, <3>2 DEF EnableSettles, IsLast, NoneOf
  <2>4. CASE Device!Serve /\ UNCHANGED <<lastEnable, lastConfig>>
    <3>1. /\ IsLast(Backlog, lastEnable) =>
               (IsLast(Tail(Backlog), lastEnable)
                \/ (Head(Backlog) = lastEnable
                    /\ NoneOf(Tail(Backlog), lastEnable.type)))
          /\ NoneOf(Backlog, "event_type_enable_e") =>
               /\ NoneOf(Tail(Backlog), "event_type_enable_e")
               /\ Head(Backlog).type # "event_type_enable_e"
      BY <2>4, BacklogTyped, ServeSettings, LastAfterTail
    <3>2. /\ Backlog' = Tail(Backlog)
          /\ sys_cfg.enabled' = IF Head(Backlog).type = "event_type_enable_e"
                                THEN Head(Backlog).enable ELSE sys_cfg.enabled
      BY <2>4, ServeSettings
    <3>3. /\ IsLast(Backlog, lastEnable)' <=> IsLast(Tail(Backlog), lastEnable)
          /\ NoneOf(Backlog, "event_type_enable_e")' <=>
               NoneOf(Tail(Backlog), "event_type_enable_e")
      BY <2>4, <3>2 DEF IsLast, NoneOf
    <3>4. QED
      BY <2>1, <2>4, <3>1, <3>2, <3>3 DEF EnableSettles
  <2>5. QED
    BY <2>2, <2>3, <2>4, BacklogStep
<1>3. QED
  BY <1>1, <1>2, Invariance, PTL DEF Spec

(* The last config message accepted decides the price and the pulses.      *)
THEOREM LastConfigDecides == Spec => []ConfigSettles
<1>1. Init => ConfigSettles
  BY DEF Init, QueueInit, AppInit, LinkInit, ConfigSettles, NoneOf, Backlog,
         InCredit
<1>2. IInv /\ ConfigSettles /\ [Next]_vars => ConfigSettles'
  <2> SUFFICES ASSUME IInv, ConfigSettles, [Next]_vars PROVE ConfigSettles'
    OBVIOUS
  <2>1. lastConfig # NoConfig => lastConfig.type = "event_type_config_e"
    BY DEF IInv, DeviceTypeOK, LinkTypeOK, config_evt_t
  <2>2. CASE UNCHANGED <<Backlog, lastConfig, sys_cfg.price,
                         sys_cfg.pulses_per_credit>>
    BY <2>2 DEF ConfigSettles, IsLast, NoneOf
  <2>3. CASE /\ UNCHANGED sys_cfg
             /\ \E e \in event_t :
                   /\ Backlog' = Append(Backlog, e)
                   /\ lastConfig' = IF e.type = "event_type_config_e"
                                    THEN e ELSE lastConfig
    <3>1. PICK e \in event_t :
              /\ Backlog' = Append(Backlog, e)
              /\ lastConfig' = IF e.type = "event_type_config_e"
                               THEN e ELSE lastConfig
      BY <2>3
    <3>2. /\ IsLast(Append(Backlog, e), e)
          /\ IsLast(Backlog, lastConfig) /\ e.type # lastConfig.type =>
               IsLast(Append(Backlog, e), lastConfig)
          /\ NoneOf(Backlog, "event_type_config_e")
             /\ e.type # "event_type_config_e" =>
               NoneOf(Append(Backlog, e), "event_type_config_e")
      BY BacklogTyped, LastAfterAppend
    <3>3. ~IsLast(Backlog, NoConfig)
      <4>1. \A k \in DOMAIN Backlog : Backlog[k] \in event_t
        BY BacklogTyped
      <4>2. NoConfig \notin event_t
        BY DEF NoConfig, event_t, config_evt_t, credit_evt_t, enable_evt_t,
               mqtt_evt_t, card_event_t
      <4>3. QED
        BY <4>1, <4>2 DEF IsLast
    <3>4. QED
      BY <2>1, <2>3, <3>1, <3>2, <3>3 DEF ConfigSettles, IsLast, NoneOf
  <2>4. CASE Device!Serve /\ UNCHANGED <<lastEnable, lastConfig>>
    <3>1. /\ IsLast(Backlog, lastConfig) =>
               (IsLast(Tail(Backlog), lastConfig)
                \/ (Head(Backlog) = lastConfig
                    /\ NoneOf(Tail(Backlog), lastConfig.type)))
          /\ NoneOf(Backlog, "event_type_config_e") =>
               /\ NoneOf(Tail(Backlog), "event_type_config_e")
               /\ Head(Backlog).type # "event_type_config_e"
      BY <2>4, BacklogTyped, ServeSettings, LastAfterTail
    <3>2. Head(Backlog) # NoConfig
      <4>1. Head(Backlog) \in event_t
        BY <2>4, BacklogTyped, ServeSettings
      <4>2. QED
        BY <4>1 DEF NoConfig, event_t, config_evt_t, credit_evt_t,
                    enable_evt_t, mqtt_evt_t, card_event_t
    <3>3. QED
      BY <2>1, <2>4, <3>1, <3>2, ServeSettings
         DEF ConfigSettles, IsLast, NoneOf
  <2>5. QED
    BY <2>2, <2>3, <2>4, BacklogStep
<1>3. QED
  BY <1>1, <1>2, Invariance, PTL DEF Spec

(***************************************************************************)
(* The success of the connection is the last thing main reports.           *)
(***************************************************************************)

(* The event with which mqtt_link_connect() reports a client.              *)
IsSuccess(e) ==
    e.type = "event_type_mqtt_e" /\ e.mqtt = "mqtt_event_conn_success_e"

NoSuccess(q) == \A k \in DOMAIN q : ~IsSuccess(q[k])

SuccessIsLast(q) ==
    \A k \in DOMAIN q : IsSuccess(q[k]) =>
        \A m \in DOMAIN q : m > k => q[m].type # "event_type_mqtt_e"

(* Main reports a success only when it has a client, and the report makes  *)
(* mqtt_link_connected true: until then no success is in the queue or on   *)
(* the screen, and from then on main reports nothing behind it.            *)
FinalInv ==
    /\ mpc = "push1" => status # "mqtt_event_conn_success_e"
    /\ mpc \in {"subscribe", "report", "push2"}
       /\ status = "mqtt_event_conn_success_e" => client
    /\ ~mqtt_link_connected => NoSuccess(Backlog)
    /\ SuccessIsLast(Backlog)
    /\ shown = "mqtt_event_conn_success_e" =>
         mqtt_link_connected /\ NoneOf(Backlog, "event_type_mqtt_e")

(* Accepting an event behind a success, or a success.                      *)
LEMMA SuccessAfterAppend ==
    ASSUME NEW q \in Seq(event_t), NEW f \in event_t
    PROVE  /\ NoSuccess(q) => SuccessIsLast(Append(q, f))
           /\ NoSuccess(q) /\ ~IsSuccess(f) => NoSuccess(Append(q, f))
           /\ SuccessIsLast(q) /\ f.type # "event_type_mqtt_e" =>
                SuccessIsLast(Append(q, f))
<1>1. /\ DOMAIN q = 1 .. Len(q) /\ Len(q) \in Nat
      /\ DOMAIN Append(q, f) = 1 .. (Len(q) + 1)
      /\ \A k \in 1 .. Len(q) : Append(q, f)[k] = q[k]
      /\ Append(q, f)[Len(q) + 1] = f
  OBVIOUS
<1>2. ASSUME NoSuccess(q) PROVE SuccessIsLast(Append(q, f))
  BY <1>1, <1>2 DEF NoSuccess, SuccessIsLast
<1>3. ASSUME NoSuccess(q), ~IsSuccess(f) PROVE NoSuccess(Append(q, f))
  BY <1>1, <1>3 DEF NoSuccess
<1>4. ASSUME SuccessIsLast(q), f.type # "event_type_mqtt_e"
      PROVE  SuccessIsLast(Append(q, f))
  <2>1. ~IsSuccess(f)
    BY <1>4 DEF IsSuccess
  <2>2. QED
    BY <1>1, <1>4, <2>1 DEF SuccessIsLast
<1>5. QED
  BY <1>2, <1>3, <1>4

(* Serving the first event.                                                *)
LEMMA SuccessAfterTail ==
    ASSUME NEW q \in Seq(event_t), q # <<>>
    PROVE  /\ NoSuccess(q) => NoSuccess(Tail(q)) /\ ~IsSuccess(Head(q))
           /\ SuccessIsLast(q) => SuccessIsLast(Tail(q))
           /\ SuccessIsLast(q) /\ IsSuccess(Head(q)) =>
                NoneOf(Tail(q), "event_type_mqtt_e")
<1>1. /\ DOMAIN q = 1 .. Len(q) /\ Len(q) \in Nat /\ Len(q) > 0
      /\ DOMAIN Tail(q) = 1 .. (Len(q) - 1) /\ Head(q) = q[1]
      /\ \A k \in 1 .. (Len(q) - 1) : Tail(q)[k] = q[k + 1]
  OBVIOUS
<1>2. NoSuccess(q) => NoSuccess(Tail(q)) /\ ~IsSuccess(Head(q))
  BY <1>1 DEF NoSuccess
<1>3. SuccessIsLast(q) => SuccessIsLast(Tail(q))
  BY <1>1 DEF SuccessIsLast
<1>4. SuccessIsLast(q) /\ IsSuccess(Head(q)) =>
        NoneOf(Tail(q), "event_type_mqtt_e")
  BY <1>1 DEF SuccessIsLast, NoneOf
<1>5. QED
  BY <1>2, <1>3, <1>4

(* on_mqtt_event() shows the event it serves; no other handler does.       *)
LEMMA ShownStep ==
    ASSUME IInv, AppThread
    PROVE  \/ UNCHANGED <<Backlog, shown>>
           \/ /\ Backlog # <<>> /\ Backlog' = Tail(Backlog)
              /\ shown' = IF Head(Backlog).type = "event_type_mqtt_e"
                          THEN Head(Backlog).mqtt ELSE shown
<1>1. evt_queue \in Seq(event_t)
  BY DEF IInv, DeviceTypeOK, QueueTypeOK
<1>2. ASSUME apc \notin {"boot", "recv"}, apc' = "recv", UNCHANGED queueVars
      PROVE  /\ Backlog # <<>> /\ Head(Backlog) = evt
             /\ Backlog' = Tail(Backlog)
  BY <1>1, <1>2, BacklogShape, ConsProperties DEF Backlog, InCredit, queueVars
<1>3. CASE AppBoot \/ AppRelease
  BY <1>3 DEF AppBoot, AppRelease, MqFreeNode, Backlog, InCredit, queueVars
<1>4. CASE AppRecv
  <2>1. Backlog = evt_queue /\ evt_queue # <<>>
    BY <1>4, BacklogShape DEF AppRecv, MqUnlink
  <2>2. Backlog' = <<Head(evt_queue)>> \o Tail(evt_queue)
    BY <1>4 DEF AppRecv, MqUnlink, Backlog
  <2>3. QED
    BY <1>1, <1>4, <2>1, <2>2, HeadTail DEF AppRecv
<1>5. CASE OnMqtt
  BY <1>2, <1>5 DEF OnMqtt, Dispatch, Return
<1>6. CASE OnEnable \/ OnConfig \/ OnCard \/ OnCreditRefused
  BY <1>2, <1>6 DEF OnEnable, OnConfig, OnCard, OnCreditRefused, Dispatch,
                    Return
<1>7. CASE OnCredit \/ AddCredit \/ PulseLow \/ PulseDelay \/ PulseEnd
           \/ CreditThanks
  BY <1>7 DEF OnCredit, Dispatch, AddCredit, PulseLow, PulseDelay, PulseEnd,
              CreditThanks, Backlog, InCredit, queueVars
<1>8. CASE CreditDone
  <2>1. evt.type = "event_type_credit_e"
    BY <1>8 DEF CreditDone, IInv, AppPcInv, InCredit, credit_evt_t
  <2>2. QED
    BY <1>2, <1>8, <2>1 DEF CreditDone, Return
<1>9. QED
  BY <1>3, <1>4, <1>5, <1>6, <1>7, <1>8
     DEF AppThread, AppStep, AppHandle, AppCredit

(* Main links only its own reports, the other senders no report.           *)
LEMMA ReportStep ==
    ASSUME IInv, MainThread \/ UmqttThread \/ CardThread
    PROVE  \/ UNCHANGED Backlog
           \/ /\ MainPushConnecting \/ MainPushResult
              /\ MqttEvent(status) \in event_t
              /\ Backlog' = Append(Backlog, MqttEvent(status))
           \/ /\ UNCHANGED <<mpc, status, client, mqtt_link_connected>>
              /\ \E e \in event_t : /\ Backlog' = Append(Backlog, e)
                                    /\ e.type # "event_type_mqtt_e"
<1> USE DEF MqTakeNode, MqFull, MqLink, MqSend, queueVars
<1>1. UNCHANGED appVars
  BY DEF MainThread, UmqttThread, CardThread
<1>2. CASE UNCHANGED evt_queue
  BY <1>1, <1>2 DEF appVars, Backlog, InCredit
<1>3. CASE MainPushConnecting \/ MainPushResult
  <2>1. MqttEvent(status) \in event_t
    BY <1>3, EventsTyped, EventUnion
       DEF IInv, ClientInv, MainPushConnecting, MainPushResult
  <2>2. evt_queue' = Append(evt_queue, MqttEvent(status))
    BY <1>3 DEF MainPushConnecting, MainPushResult
  <2>3. QED
    BY <1>1, <1>3, <2>1, <2>2, LinkAppends
<1>4. ASSUME NEW e \in event_t, evt_queue' = Append(evt_queue, e),
             e.type # "event_type_mqtt_e",
             UNCHANGED <<mpc, status, client, mqtt_link_connected>>
      PROVE  /\ UNCHANGED <<mpc, status, client, mqtt_link_connected>>
             /\ \E f \in event_t : /\ Backlog' = Append(Backlog, f)
                                   /\ f.type # "event_type_mqtt_e"
  BY <1>1, <1>4, LinkAppends
<1>5. CASE MainThread
  <2>1. UNCHANGED evt_queue \/ MainPushConnecting \/ MainPushResult
    BY <1>5 DEF MainThread, MainStep, MainConnect, MainStarted,
                MainStartFailed, MainSubscribe, MainReport
  <2>2. QED
    BY <1>2, <1>3, <2>1
<1>6. CASE UmqttThread
  <2>1. CASE mqtt_config_callback
    <3>1. PICK e \in config_evt_t : MqSend(e) \/ MqFull(e)
      BY <2>1, EventsTyped DEF mqtt_config_callback
    <3>2. e \in event_t /\ e.type # "event_type_mqtt_e"
      BY EventUnion DEF config_evt_t
    <3>3. UNCHANGED <<mpc, status, client, mqtt_link_connected>>
      BY <2>1 DEF mqtt_config_callback
    <3>4. QED
      BY <1>2, <1>4, <3>1, <3>2, <3>3
  <2>2. CASE mqtt_enable_callback
    <3>1. PICK e \in enable_evt_t : MqSend(e) \/ MqFull(e)
      BY <2>2, EventsTyped DEF mqtt_enable_callback, rt_bool_t
    <3>2. e \in event_t /\ e.type # "event_type_mqtt_e"
      BY EventUnion DEF enable_evt_t
    <3>3. UNCHANGED <<mpc, status, client, mqtt_link_connected>>
      BY <2>2 DEF mqtt_enable_callback
    <3>4. QED
      BY <1>2, <1>4, <3>1, <3>2, <3>3
  <2>3. CASE mqtt_add_coins_callback
    <3>1. PICK e \in credit_evt_t : MqSend(e) \/ MqFull(e)
      BY <2>3, EventsTyped DEF mqtt_add_coins_callback
    <3>2. e \in event_t /\ e.type # "event_type_mqtt_e"
      BY EventUnion DEF credit_evt_t
    <3>3. UNCHANGED <<mpc, status, client, mqtt_link_connected>>
      BY <2>3 DEF mqtt_add_coins_callback, linkVars
    <3>4. QED
      BY <1>2, <1>4, <3>1, <3>2, <3>3
  <2>4. CASE LinkLost \/ LinkBack
    BY <1>2, <2>4 DEF LinkLost, LinkBack
  <2>5. QED
    BY <1>6, <2>1, <2>2, <2>3, <2>4 DEF UmqttThread, UmqttStep
<1>7. CASE CardThread
  <2>1. UNCHANGED <<mpc, status, client, mqtt_link_connected>>
    BY <1>7 DEF CardThread, linkVars
  <2>2. CASE CardPush
    <3>1. CardEvent(card_evt) \in event_t
      BY <2>2, EventsTyped, EventUnion DEF CardPush, IInv, CardInv
    <3>2. CardEvent(card_evt).type # "event_type_mqtt_e"
      BY DEF CardEvent
    <3>3. QED
      BY <1>4, <2>1, <2>2, <3>1, <3>2 DEF CardPush
  <2>3. CASE ~CardPush
    <3>1. UNCHANGED evt_queue
      BY <1>7, <2>3 DEF CardThread, CardStep, CardSwipe, mqtt_link_send,
                        CardPublished
    <3>2. QED
      BY <1>2, <3>1
  <2>4. QED
    BY <2>2, <2>3
<1>8. QED
  BY <1>5, <1>6, <1>7

(* Main moves on: what it knows of its status and its client.              *)
LEMMA MainFinal ==
    ASSUME IInv, FinalInv, MainThread
    PROVE  /\ mpc' = "push1" => status' # "mqtt_event_conn_success_e"
           /\ mpc' \in {"subscribe", "report", "push2"}
              /\ status' = "mqtt_event_conn_success_e" => client'
           /\ mqtt_link_connected => mqtt_link_connected'
<1>1. ClientInv /\ LinkTypeOK
  BY DEF IInv, DeviceTypeOK
<1>2. QED
  BY <1>1 DEF FinalInv, ClientInv, MainThread, MainStep, MainConnect,
              MainPushConnecting, MainStarted, MainStartFailed, MainSubscribe,
              MainReport, MainPushResult

(* No step of any thread takes back or overtakes the success.              *)
LEMMA FinalStep ==
    ASSUME IInv, FinalInv, [Next]_vars
    PROVE  FinalInv' /\ (shown = "mqtt_event_conn_success_e" => shown' = shown)
<1>1. Backlog \in Seq(event_t)
  BY BacklogTyped
<1>2. CASE AppThread
  <2>1. UNCHANGED <<mpc, status, client, mqtt_link_connected>>
    BY <1>2 DEF AppThread, linkVars
  <2>2. CASE UNCHANGED <<Backlog, shown>>
    BY <2>1, <2>2 DEF FinalInv, NoSuccess, SuccessIsLast, NoneOf
  <2>3. CASE /\ Backlog # <<>> /\ Backlog' = Tail(Backlog)
             /\ shown' = IF Head(Backlog).type = "event_type_mqtt_e"
                         THEN Head(Backlog).mqtt ELSE shown
    <3>1. /\ NoSuccess(Backlog) => NoSuccess(Backlog)' /\ ~IsSuccess(Head(Backlog))
          /\ SuccessIsLast(Backlog) => SuccessIsLast(Backlog)'
          /\ SuccessIsLast(Backlog) /\ IsSuccess(Head(Backlog)) =>
               NoneOf(Backlog, "event_type_mqtt_e")'
      BY <1>1, <2>3, SuccessAfterTail DEF NoSuccess, SuccessIsLast, NoneOf
    <3>2. NoneOf(Backlog, "event_type_mqtt_e") =>
            /\ NoneOf(Backlog, "event_type_mqtt_e")'
            /\ Head(Backlog).type # "event_type_mqtt_e"
      BY <1>1, <2>3, LastAfterTail DEF NoneOf
    <3>3. shown = "mqtt_event_conn_success_e" => shown' = shown
      BY <2>3, <3>2 DEF FinalInv
    <3>4. shown' = "mqtt_event_conn_success_e" =>
            mqtt_link_connected' /\ NoneOf(Backlog, "event_type_mqtt_e")'
      <4>1. CASE Head(Backlog).type = "event_type_mqtt_e"
        BY <2>1, <2>3, <3>1, <4>1 DEF FinalInv, IsSuccess
      <4>2. CASE Head(Backlog).type # "event_type_mqtt_e"
        BY <2>1, <2>3, <3>2, <4>2 DEF FinalInv
      <4>3. QED
        BY <4>1, <4>2
    <3>5. QED
      BY <2>1, <3>1, <3>3, <3>4 DEF FinalInv
  <2>4. QED
    BY <1>2, <2>2, <2>3, ShownStep
<1>3. CASE MainThread \/ UmqttThread \/ CardThread
  <2>1. UNCHANGED shown
    BY <1>3 DEF MainThread, UmqttThread, CardThread, appVars
  <2>2. /\ mpc' = "push1" => status' # "mqtt_event_conn_success_e"
        /\ mpc' \in {"subscribe", "report", "push2"}
           /\ status' = "mqtt_event_conn_success_e" => client'
        /\ mqtt_link_connected => mqtt_link_connected'
    <3>1. CASE MainThread
      BY <3>1, MainFinal
    <3>2. CASE UmqttThread \/ CardThread
      <4>1. UNCHANGED <<mpc, status, client, mqtt_link_connected>>
        BY <3>2 DEF UmqttThread, UmqttStep, mqtt_config_callback,
                    mqtt_enable_callback, mqtt_add_coins_callback, LinkLost,
                    LinkBack, CardThread, linkVars
      <4>2. QED
        BY <4>1 DEF FinalInv
    <3>3. QED
      BY <1>3, <3>1, <3>2
  <2>3. CASE UNCHANGED Backlog
    BY <2>1, <2>2, <2>3 DEF FinalInv, NoSuccess, SuccessIsLast, NoneOf
  <2>4. CASE /\ MainPushConnecting \/ MainPushResult
             /\ MqttEvent(status) \in event_t
             /\ Backlog' = Append(Backlog, MqttEvent(status))
    <3>1. ~mqtt_link_connected
      BY <2>4 DEF IInv, ClientInv, MainPushConnecting, MainPushResult
    <3>2. NoSuccess(Backlog) /\ shown # "mqtt_event_conn_success_e"
      BY <3>1 DEF FinalInv
    <3>3. SuccessIsLast(Backlog)'
      BY <1>1, <2>4, <3>2, SuccessAfterAppend DEF SuccessIsLast
    <3>4. ~mqtt_link_connected' => ~IsSuccess(MqttEvent(status))
      <4>1. MqttEvent(status).mqtt = status
        BY DEF MqttEvent
      <4>2. QED
        BY <2>4, <4>1 DEF FinalInv, IsSuccess, MainPushConnecting, MainPushResult
    <3>5. ~mqtt_link_connected' => NoSuccess(Backlog)'
      BY <1>1, <2>4, <3>2, <3>4, SuccessAfterAppend DEF NoSuccess
    <3>6. QED
      BY <2>1, <2>2, <3>2, <3>3, <3>5 DEF FinalInv
  <2>5. CASE /\ UNCHANGED <<mpc, status, client, mqtt_link_connected>>
             /\ \E e \in event_t : /\ Backlog' = Append(Backlog, e)
                                   /\ e.type # "event_type_mqtt_e"
    <3>1. PICK e \in event_t : /\ Backlog' = Append(Backlog, e)
                               /\ e.type # "event_type_mqtt_e"
      BY <2>5
    <3>2. /\ SuccessIsLast(Backlog)'
          /\ NoSuccess(Backlog) => NoSuccess(Backlog)'
      BY <1>1, <3>1, SuccessAfterAppend
         DEF FinalInv, NoSuccess, SuccessIsLast, IsSuccess
    <3>3. NoneOf(Backlog, "event_type_mqtt_e") =>
            NoneOf(Backlog, "event_type_mqtt_e")'
      BY <1>1, <3>1, LastAfterAppend DEF NoneOf
    <3>4. QED
      BY <2>1, <2>2, <2>5, <3>2, <3>3 DEF FinalInv
  <2>6. QED
    BY <1>3, <2>3, <2>4, <2>5, ReportStep
<1>4. CASE UNCHANGED deviceVars
  <2>1. UNCHANGED <<Backlog, shown, mpc, status, client, mqtt_link_connected>>
    BY <1>4 DEF deviceVars, queueVars, appVars, linkVars, Backlog, InCredit
  <2>2. QED
    BY <2>1 DEF FinalInv, NoSuccess, SuccessIsLast, NoneOf
<1>5. QED
  BY <1>2, <1>3, <1>4, NextSteps

(* Once on_mqtt_event() has shown the success of the connection, the       *)
(* screen never goes back to "connecting" or "connection error", for every *)
(* length of the queue and however the four threads preempt each other.    *)
THEOREM SuccessIsFinal == Spec => ServiceIsFinal
<1>1. Init => FinalInv
  <2> SUFFICES ASSUME Init PROVE FinalInv
    OBVIOUS
  <2>1. Backlog = <<>> /\ mpc = "boot" /\ shown # "mqtt_event_conn_success_e"
    BY DEF Init, QueueInit, AppInit, LinkInit, Backlog, InCredit
  <2>2. QED
    BY <2>1 DEF FinalInv, NoSuccess, SuccessIsLast
<1>2. IInv /\ FinalInv /\ [Next]_vars => FinalInv'
  BY FinalStep
<1>3. IInv /\ FinalInv /\ [Next]_vars =>
        [shown = "mqtt_event_conn_success_e" => shown' = shown]_shown
  BY FinalStep
<1>4. QED
  BY <1>1, <1>2, <1>3, Invariance, PTL DEF Spec, ServiceIsFinal
=============================================================================
