----------------------------- MODULE PayDevice -----------------------------
(***************************************************************************)
(* What the device promises for the events it has accepted, without        *)
(* threads, queue nodes, pulses or delays: they are served one at a time,  *)
(* in the order of their acceptance, each exactly once and each completely *)
(* - a configuration or an enable message replaces the settings as a       *)
(* whole, a credit message is worth exactly its count if the device is     *)
(* enabled when its turn comes and nothing otherwise.                      *)
(***************************************************************************)
EXTENDS Events

CONSTANTS CAPACITY,        \* most events accepted and not served
          InitialPrice, InitialPulses

VARIABLES inbox,           \* accepted and not completely served
          settings,        \* what the served messages have set
          paid             \* credits inserted for the last credit message

vars == <<inbox, settings, paid>>

Init ==
    /\ inbox = <<>>
    /\ settings = [price |-> InitialPrice, pulses_per_credit |-> InitialPulses,
                   enabled |-> 0]
    /\ paid = 0

Accept ==
    /\ Len(inbox) < CAPACITY
    /\ \E e \in event_t : inbox' = Append(inbox, e)
    /\ UNCHANGED <<settings, paid>>

ServeEnable(e) ==
    /\ e.type = "event_type_enable_e"
    /\ settings' = [settings EXCEPT !.enabled = e.enable]
    /\ UNCHANGED paid

ServeConfig(e) ==
    /\ e.type = "event_type_config_e"
    /\ settings' = [price |-> e.price,
                    pulses_per_credit |-> e.pulses_per_credit,
                    enabled |-> settings.enabled]
    /\ UNCHANGED paid

ServeCredit(e) ==
    /\ e.type = "event_type_credit_e"
    /\ paid' = IF settings.enabled # 0 THEN e.count ELSE 0
    /\ UNCHANGED settings

ServeOther(e) ==
    /\ e.type \in {"event_type_mqtt_e", "event_type_card_e"}
    /\ UNCHANGED <<settings, paid>>

Serve ==
    /\ inbox # <<>>
    /\ inbox' = Tail(inbox)
    /\ LET e == Head(inbox)
       IN  \/ ServeEnable(e) \/ ServeConfig(e) \/ ServeCredit(e)
           \/ ServeOther(e)

Next == Accept \/ Serve

Spec == Init /\ [][Next]_vars

(* Every accepted event is served in the end.                              *)
Liveness == WF_vars(Serve)
=============================================================================
