-------------------------------- MODULE App --------------------------------
(***************************************************************************)
(* The application thread (applications/app.c): reads one event at a time  *)
(* from the queue and handles it to its end, the delays of the coin pulses *)
(* and of the "Thank you" screen included.                                 *)
(*                                                                         *)
(* apc is where the thread is:                                             *)
(*   boot      app_loop() entered, start_message() not shown yet           *)
(*   recv      in event_handler_read_event()                               *)
(*   release   event copied, its node not back on the free list yet        *)
(*   dispatch  in the if-chain of app_loop()                               *)
(*   credit    at the test of the loop of on_credit_event()                *)
(*   high      at the test of the loop of add_credit(), or in its first    *)
(*             rt_thread_mdelay()                                          *)
(*   low       in the second rt_thread_mdelay() of that loop               *)
(*   thanks    in rt_thread_mdelay(1500)                                   *)
(***************************************************************************)
EXTENDS EventHandler

CONSTANTS DEFAULT_PRICE, DEFAULT_PULSES_PER_CREDIT

ASSUME DefaultAssumption ==
    DEFAULT_PRICE \in rt_uint32_t /\ DEFAULT_PULSES_PER_CREDIT \in rt_uint32_t

VARIABLES
    sys_cfg,         \* the static configuration of app.c
    evt,             \* the static event while it is handled, else NoEvent
    apc,
    i,               \* loop counter of on_credit_event(); 0 outside of it
    j,               \* loop counter of add_credit(); 0 outside of it
    pin,             \* the last level given to rt_pin_write()
    gpio,            \* the level of the output port itself
    edges,           \* history: HIGH to LOW changes of pin in this add_credit();
                     \* 0 outside of it
    screen,          \* the message on the LCD and the amount in it
    shown,           \* history: the last mqtt_event_t handled
    paid             \* history: credits inserted for the last credit event

appVars == <<sys_cfg, evt, apc, i, j, pin, gpio, edges, screen, shown, paid>>

system_config_t == [name : Names \cup {DefaultName},
                    price : rt_uint32_t,
                    pulses_per_credit : rt_uint32_t,
                    enabled : rt_bool_t]

NoEvent == [type |-> "event_type_undefined_e"]

AppPc == {"boot", "recv", "release", "dispatch", "credit", "high", "low",
          "thanks"}

Level == {"UNSET", "PIN_LOW", "PIN_HIGH"}

Screen == [msg : {"blank", "booting", "idle", "thank_you", "connecting",
                  "disabled by ownr", "connection error"},
           amount : rt_uint32_t]

Message(msg) == [msg |-> msg, amount |-> 0]

idle_message(cfg) == [msg |-> "idle", amount |-> cfg.price]

credit_message(balance) == [msg |-> "thank_you", amount |-> balance]

out_of_service_message(reason) == Message(reason)

(***************************************************************************)
(* The output pin.  rt_pin_get() and ch32_pin_get() under it accept names  *)
(* like "PB.0": a P, the letter of the port, a dot, the number.  The name  *)
(* the application gives, "RB0", has neither the P nor the dot.            *)
(* ch32_pin_write() ignores a pin whose port is not one of the             *)
(* PIN_STPORT_MAX ports.                                                   *)
(***************************************************************************)
RT_EINVAL == 10

PIN_STPORT_MAX == 5

OUTPUT_PULSE_PIN == [letter |-> "R", port |-> 1, dot |-> FALSE, no |-> 0]

rt_pin_get(name) ==
    IF name.letter = "P" /\ name.dot THEN 16 * name.port + name.no
                                     ELSE -RT_EINVAL

PIN_PORT(p) == (p \div 16) % 16

rt_pin_write(level) ==
    /\ pin' = level
    /\ gpio' = IF PIN_PORT(rt_pin_get(OUTPUT_PULSE_PIN)) < PIN_STPORT_MAX
               THEN level ELSE gpio

AppInit ==
    /\ sys_cfg = [name |-> DefaultName, price |-> DEFAULT_PRICE,
                  pulses_per_credit |-> DEFAULT_PULSES_PER_CREDIT,
                  enabled |-> 0]
    /\ evt = NoEvent
    /\ apc = "boot"
    /\ i = 0 /\ j = 0
    /\ pin = "UNSET" /\ gpio = "UNSET"
    /\ edges = 0
    /\ screen = Message("blank")
    /\ shown = "mqtt_event_undefined_e"
    /\ paid = 0

(* app_loop() shows start_message() before it reads the first event.       *)
AppBoot ==
    /\ apc = "boot"
    /\ screen' = Message("booting")
    /\ apc' = "recv"
    /\ UNCHANGED <<queueVars, sys_cfg, evt, i, j, pin, gpio, edges, shown,
                   paid>>

(* event_handler_read_event(): the head of the queue is copied into evt.   *)
AppRecv ==
    /\ apc = "recv"
    /\ MqUnlink
    /\ evt' = Head(evt_queue)
    /\ apc' = "release"
    /\ UNCHANGED <<sys_cfg, i, j, pin, gpio, edges, screen, shown, paid>>

(* ... and its node goes back to the free list.                            *)
AppRelease ==
    /\ apc = "release"
    /\ MqFreeNode
    /\ apc' = "dispatch"
    /\ UNCHANGED <<sys_cfg, evt, i, j, pin, gpio, edges, screen, shown, paid>>

(* The if-chain of app_loop(): the handler for the events of a type.       *)
Dispatch(type) ==
    /\ apc = "dispatch"
    /\ evt.type = type
    /\ UNCHANGED queueVars

(* The handler returns to app_loop(), which reads the next event over the  *)
(* old one.                                                                *)
Return ==
    /\ evt' = NoEvent
    /\ apc' = "recv"

\* Mutant: the device can be enabled, never disabled again.
OnEnableMutant ==
    /\ Dispatch("event_type_enable_e")
    /\ IF evt.enable > sys_cfg.enabled
       THEN /\ sys_cfg' = [sys_cfg EXCEPT !.enabled = evt.enable]
            /\ screen' = IF evt.enable # 0
                         THEN idle_message(sys_cfg)
                         ELSE out_of_service_message("disabled by ownr")
       ELSE UNCHANGED <<sys_cfg, screen>>
    /\ Return
    /\ UNCHANGED <<i, j, pin, gpio, edges, shown, paid>>

(* on_enable_event(): nothing happens unless the value differs.            *)
OnEnable ==
    /\ Dispatch("event_type_enable_e")
    /\ IF evt.enable # sys_cfg.enabled
       THEN /\ sys_cfg' = [sys_cfg EXCEPT !.enabled = evt.enable]
            /\ screen' = IF evt.enable # 0
                         THEN idle_message(sys_cfg)
                         ELSE out_of_service_message("disabled by ownr")
       ELSE UNCHANGED <<sys_cfg, screen>>
    /\ Return
    /\ UNCHANGED <<i, j, pin, gpio, edges, shown, paid>>

\* Mutant: the idle screen keeps the old price.
OnConfigMutant ==
    /\ Dispatch("event_type_config_e")
    /\ sys_cfg' = [sys_cfg EXCEPT !.price = evt.price,
                                  !.pulses_per_credit = evt.pulses_per_credit]
    /\ Return
    /\ UNCHANGED <<i, j, pin, gpio, edges, screen, shown, paid>>

(* on_config_event().  Its condition "evt->name[0] =! '\n'" assigns 0 to   *)
(* the first character of the name in evt and is false: the name in        *)
(* sys_cfg is never replaced.                                              *)
OnConfig ==
    /\ Dispatch("event_type_config_e")
    /\ sys_cfg' = [sys_cfg EXCEPT !.price = evt.price,
                                  !.pulses_per_credit = evt.pulses_per_credit]
    /\ screen' = IF sys_cfg.enabled # 0 THEN idle_message(sys_cfg') ELSE screen
    /\ Return
    /\ UNCHANGED <<i, j, pin, gpio, edges, shown, paid>>

(* on_mqtt_event()                                                         *)
OnMqtt ==
    /\ Dispatch("event_type_mqtt_e")
    /\ screen' =
         CASE evt.mqtt = "mqtt_event_connecting_e" -> Message("connecting")
           [] evt.mqtt = "mqtt_event_conn_failed_e" ->
                out_of_service_message("connection error")
           [] evt.mqtt = "mqtt_event_conn_success_e" ->
                IF sys_cfg.enabled # 0
                THEN idle_message(sys_cfg)
                ELSE out_of_service_message("disabled by ownr")
    /\ shown' = evt.mqtt
    /\ Return
    /\ UNCHANGED <<sys_cfg, i, j, pin, gpio, edges, paid>>

(* app_loop() has no branch for a card event.                              *)
OnCard ==
    /\ Dispatch("event_type_card_e")
    /\ Return
    /\ UNCHANGED <<sys_cfg, i, j, pin, gpio, edges, screen, shown, paid>>

(* on_credit_event() returns at once when the device is not enabled.       *)
OnCreditRefused ==
    /\ Dispatch("event_type_credit_e")
    /\ sys_cfg.enabled = 0
    /\ paid' = 0
    /\ Return
    /\ UNCHANGED <<sys_cfg, i, j, pin, gpio, edges, screen, shown>>

\* Mutant: the test of sys_cfg.enabled is gone.
OnCreditMutant ==
    /\ Dispatch("event_type_credit_e")
    /\ apc' = "credit"
    /\ UNCHANGED <<sys_cfg, evt, i, j, pin, gpio, edges, screen, shown, paid>>

OnCredit ==
    /\ Dispatch("event_type_credit_e")
    /\ sys_cfg.enabled # 0
    /\ apc' = "credit"
    /\ UNCHANGED <<sys_cfg, evt, i, j, pin, gpio, edges, screen, shown, paid>>

\* Mutant: <= instead of < in the loop of on_credit_event().
AddCreditMutant ==
    /\ apc = "credit"
    /\ i <= evt.count
    /\ rt_pin_write("PIN_HIGH")
    /\ apc' = "high"
    /\ UNCHANGED <<queueVars, sys_cfg, evt, i, j, edges, screen, shown, paid>>

(* Next iteration of the loop of on_credit_event(): add_credit() begins.   *)
AddCredit ==
    /\ apc = "credit"
    /\ i < evt.count
    /\ rt_pin_write("PIN_HIGH")
    /\ apc' = "high"
    /\ UNCHANGED <<queueVars, sys_cfg, evt, i, j, edges, screen, shown, paid>>

(* Body of the loop of add_credit(): after the first delay the pin goes    *)
(* low, ...                                                                *)
PulseLow ==
    /\ apc = "high"
    /\ j < sys_cfg.pulses_per_credit
    /\ rt_pin_write("PIN_LOW")
    /\ edges' = IF pin = "PIN_HIGH" THEN edges + 1 ELSE edges
    /\ apc' = "low"
    /\ UNCHANGED <<queueVars, sys_cfg, evt, i, j, screen, shown, paid>>

\* Mutant: the loop counter of add_credit() is not advanced.
PulseDelayMutant ==
    /\ apc = "low"
    /\ apc' = "high"
    /\ UNCHANGED <<queueVars, sys_cfg, evt, i, j, pin, gpio, edges, screen,
                   shown, paid>>

(* ... and stays low during the second one.                                *)
PulseDelay ==
    /\ apc = "low"
    /\ j' = j + 1
    /\ apc' = "high"
    /\ UNCHANGED <<queueVars, sys_cfg, evt, i, pin, gpio, edges, screen, shown,
                   paid>>

\* Mutant: the last rt_pin_write() of add_credit() is gone.
PulseEndMutant ==
    /\ apc = "high"
    /\ j >= sys_cfg.pulses_per_credit
    /\ i' = i + 1
    /\ j' = 0
    /\ edges' = 0
    /\ apc' = "credit"
    /\ UNCHANGED <<queueVars, sys_cfg, evt, pin, gpio, screen, shown, paid>>

(* add_credit() returns: the pin goes high again.                          *)
PulseEnd ==
    /\ apc = "high"
    /\ j >= sys_cfg.pulses_per_credit
    /\ rt_pin_write("PIN_HIGH")
    /\ i' = i + 1
    /\ j' = 0
    /\ edges' = 0
    /\ apc' = "credit"
    /\ UNCHANGED <<queueVars, sys_cfg, evt, screen, shown, paid>>

\* Mutant: the loop of on_credit_event() ends one credit early.
CreditThanksMutant ==
    /\ apc = "credit"
    /\ i + 1 >= evt.count
    /\ screen' = credit_message(evt.balance)
    /\ apc' = "thanks"
    /\ UNCHANGED <<queueVars, sys_cfg, evt, i, j, pin, gpio, edges, shown, paid>>

(* The loop of on_credit_event() is over: the balance is shown ...         *)
CreditThanks ==
    /\ apc = "credit"
    /\ i >= evt.count
    /\ screen' = credit_message(evt.balance)
    /\ apc' = "thanks"
    /\ UNCHANGED <<queueVars, sys_cfg, evt, i, j, pin, gpio, edges, shown, paid>>

(* ... for 1500 ms, and the handler returns.                               *)
CreditDone ==
    /\ apc = "thanks"
    /\ screen' = idle_message(sys_cfg)
    /\ paid' = i
    /\ i' = 0
    /\ Return
    /\ UNCHANGED <<queueVars, sys_cfg, j, pin, gpio, edges, shown>>

AppHandle ==
    \/ OnEnable \/ OnConfig \/ OnMqtt \/ OnCard
    \/ OnCreditRefused \/ OnCredit

AppCredit ==
    \/ AddCredit \/ PulseLow \/ PulseDelay \/ PulseEnd
    \/ CreditThanks \/ CreditDone

AppStep == AppBoot \/ AppRecv \/ AppRelease \/ AppHandle \/ AppCredit

(* The thread is ready to run: it is neither waiting for an event nor in a *)
(* delay.                                                                  *)
AppReady ==
    \/ apc \in {"boot", "release", "dispatch", "credit"}
    \/ apc = "recv" /\ evt_queue # <<>>
    \/ apc = "high" /\ j >= sys_cfg.pulses_per_credit

InCredit == apc \in {"credit", "high", "low", "thanks"}

AppTypeOK ==
    /\ sys_cfg \in system_config_t
    /\ evt \in event_t \cup {NoEvent}
    /\ apc \in AppPc
    /\ i \in rt_uint16_t /\ j \in rt_uint32_t
    /\ pin \in Level /\ gpio \in Level
    /\ edges \in rt_uint32_t
    /\ screen \in Screen
    /\ shown \in mqtt_event_t \cup {"mqtt_event_undefined_e"}
    /\ paid \in rt_uint16_t
=============================================================================
