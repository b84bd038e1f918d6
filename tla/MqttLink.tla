------------------------------ MODULE MqttLink ------------------------------
(***************************************************************************)
(* The main thread (applications/main.c), which connects to the broker,    *)
(* and the callbacks of applications/mqtt_link.c, which the thread of the  *)
(* umqtt package runs for each message of the broker.                      *)
(*                                                                         *)
(* mpc is where the main thread is:                                        *)
(*   boot       main() has started the other threads                       *)
(*   push1      in the first event_handler_push_event() of                 *)
(*              mqtt_link_connect(), holding a node of the queue           *)
(*   start      in mqtt_start_client()                                     *)
(*   subscribe  in mqtt_subscribe_topics()                                 *)
(*   report     before the second event_handler_push_event()               *)
(*   push2      inside it, holding a node                                  *)
(*   sleep      in the rt_thread_mdelay() of main()                        *)
(*                                                                         *)
(* Of the umqtt package this module keeps what mqtt_link.c depends on:     *)
(* whether the session is up, and for which topics the broker has a        *)
(* subscription and the client a callback.                                 *)
(***************************************************************************)
EXTENDS EventHandler

VARIABLES
    mpc,
    status,               \* the local evt of mqtt_link_connect()
    mqtt_link_connected,  \* the local of main()
    client,               \* TRUE iff the static client is not RT_NULL
    topic,                \* index of the topic being subscribed
    subs,                 \* topics whose messages reach their callback
    online,               \* the MQTT session is up
    lastEnable,           \* history: the last enable event accepted
    lastConfig            \* history: the last config event accepted

linkVars == <<mpc, status, mqtt_link_connected, client, topic, subs, online,
              lastEnable, lastConfig>>

(* The order of the umqtt_subscribe() calls of mqtt_subscribe_topics().    *)
Topics == <<"config", "enable", "add-credit">>

MainPc == {"boot", "push1", "start", "subscribe", "report", "push2", "sleep"}

NoConfig == [type |-> "event_type_undefined_e"]

LinkInit ==
    /\ mpc = "boot"
    /\ status = "mqtt_event_undefined_e"
    /\ mqtt_link_connected = FALSE
    /\ client = FALSE
    /\ topic = 1
    /\ subs = {}
    /\ online = FALSE
    /\ lastEnable = EnableEvent(0)
    /\ lastConfig = NoConfig

\* Mutant: the client is started again although one is connected.
MainConnectMutant ==
    /\ mpc \in {"boot", "sleep"}
    /\ status' = "mqtt_event_connecting_e"
    /\ \/ MqTakeNode /\ mpc' = "push1"
       \/ MqFull(MqttEvent(status')) /\ mpc' = "start"
    /\ UNCHANGED <<mqtt_link_connected, client, topic, subs, online,
                   lastEnable, lastConfig>>

\* Mutant: mqtt_link_connect() is called before the loop of main() only.
MainConnectOnceMutant ==
    /\ mpc = "boot"
    /\ status' = "mqtt_event_connecting_e"
    /\ \/ MqTakeNode /\ mpc' = "push1"
       \/ MqFull(MqttEvent(status')) /\ mpc' = "start"
    /\ UNCHANGED <<mqtt_link_connected, client, topic, subs, online,
                   lastEnable, lastConfig>>

(* The loop of main() calls mqtt_link_connect(), which first tells the     *)
(* application that a connection attempt begins.                           *)
MainConnect ==
    /\ mpc \in {"boot", "sleep"}
    /\ ~mqtt_link_connected
    /\ status' = "mqtt_event_connecting_e"
    /\ \/ MqTakeNode /\ mpc' = "push1"
       \/ MqFull(MqttEvent(status')) /\ mpc' = "start"
    /\ UNCHANGED <<mqtt_link_connected, client, topic, subs, online,
                   lastEnable, lastConfig>>

MainPushConnecting ==
    /\ mpc = "push1"
    /\ MqLink(MqttEvent(status))
    /\ mpc' = "start"
    /\ UNCHANGED <<status, mqtt_link_connected, client, topic, subs, online,
                   lastEnable, lastConfig>>

(* mqtt_start_client() returns a client whose session is up ...            *)
MainStarted ==
    /\ mpc = "start"
    /\ client' = TRUE
    /\ online' = TRUE
    /\ status' = "mqtt_event_conn_success_e"
    /\ topic' = 1
    /\ mpc' = "subscribe"
    /\ UNCHANGED <<queueVars, mqtt_link_connected, subs, lastEnable, lastConfig>>

(* ... or RT_NULL: umqtt_create() or umqtt_start() failed.                 *)
MainStartFailed ==
    /\ mpc = "start"
    /\ client' = FALSE
    /\ status' = "mqtt_event_conn_failed_e"
    /\ mpc' = "report"
    /\ UNCHANGED <<queueVars, mqtt_link_connected, topic, subs, online,
                   lastEnable, lastConfig>>

(* One umqtt_subscribe() of mqtt_subscribe_topics() returns.  It registers *)
(* the callback only if the SUBACK arrives; the caller ignores its result. *)
MainSubscribe ==
    /\ mpc = "subscribe"
    /\ \/ online /\ subs' = subs \cup {Topics[topic]}
       \/ UNCHANGED subs
    /\ topic' = IF topic < Len(Topics) THEN topic + 1 ELSE 1
    /\ mpc' = IF topic < Len(Topics) THEN "subscribe" ELSE "report"
    /\ UNCHANGED <<queueVars, status, mqtt_link_connected, client, online,
                   lastEnable, lastConfig>>

(* The second event_handler_push_event() of mqtt_link_connect().           *)
MainReport ==
    /\ mpc = "report"
    /\ \/ MqTakeNode /\ mpc' = "push2" /\ UNCHANGED mqtt_link_connected
       \/ /\ MqFull(MqttEvent(status))
          /\ mqtt_link_connected' = client
          /\ mpc' = "sleep"
    /\ UNCHANGED <<status, client, topic, subs, online, lastEnable, lastConfig>>

MainPushResult ==
    /\ mpc = "push2"
    /\ MqLink(MqttEvent(status))
    /\ mqtt_link_connected' = client
    /\ mpc' = "sleep"
    /\ UNCHANGED <<status, client, topic, subs, online, lastEnable, lastConfig>>

MainStep ==
    \/ MainConnect \/ MainPushConnecting \/ MainStarted \/ MainStartFailed
    \/ MainSubscribe \/ MainReport \/ MainPushResult

(* The main thread is ready to run: neither sleeping nor waiting for the   *)
(* network.                                                                *)
MainReady == mpc \in {"boot", "push1", "report", "push2"}

(***************************************************************************)
(* The umqtt thread: a message whose payload parses reaches the callback   *)
(* of its topic, which pushes one event.  A field the payload does not     *)
(* have is the zero the memset() left, as one that atoi() reads as zero;   *)
(* a payload that does not parse changes nothing.                          *)
(***************************************************************************)
mqtt_config_callback ==
    /\ online /\ "config" \in subs
    /\ \E name \in Names \cup {NoName}, price \in Prices, pulses \in Pulses :
         LET e == ConfigEvent(name, price, pulses)
         IN  \/ MqSend(e) /\ lastConfig' = e
             \/ MqFull(e) /\ UNCHANGED lastConfig
    /\ UNCHANGED <<mpc, status, mqtt_link_connected, client, topic, subs,
                   online, lastEnable>>

mqtt_enable_callback ==
    /\ online /\ "enable" \in subs
    /\ \E enable \in Enables :
         LET e == EnableEvent(enable)
         IN  \/ MqSend(e) /\ lastEnable' = e
             \/ MqFull(e) /\ UNCHANGED lastEnable
    /\ UNCHANGED <<mpc, status, mqtt_link_connected, client, topic, subs,
                   online, lastConfig>>

mqtt_add_coins_callback ==
    /\ online /\ "add-credit" \in subs
    /\ \E count \in Counts, balance \in Balances :
         LET e == CreditEvent(count, balance)
         IN  MqSend(e) \/ MqFull(e)
    /\ UNCHANGED linkVars

(* The umqtt thread sees the end of the connection.  Sessions are clean:   *)
(* the broker forgets the subscriptions.  mqtt_event_callback() only logs. *)
LinkLost ==
    /\ online
    /\ online' = FALSE
    /\ subs' = {}
    /\ UNCHANGED <<queueVars, mpc, status, mqtt_link_connected, client, topic,
                   lastEnable, lastConfig>>

(* The umqtt thread connects again; it does not subscribe again.           *)
LinkBack ==
    /\ client /\ ~online
    /\ online' = TRUE
    /\ UNCHANGED <<queueVars, mpc, status, mqtt_link_connected, client, topic,
                   subs, lastEnable, lastConfig>>

UmqttStep ==
    \/ mqtt_config_callback \/ mqtt_enable_callback \/ mqtt_add_coins_callback
    \/ LinkLost \/ LinkBack

LinkTypeOK ==
    /\ mpc \in MainPc
    /\ status \in mqtt_event_t \cup {"mqtt_event_undefined_e"}
    /\ mqtt_link_connected \in BOOLEAN
    /\ client \in BOOLEAN
    /\ topic \in 1 .. 3
    /\ subs \subseteq {"config", "enable", "add-credit"}
    /\ online \in BOOLEAN
    /\ lastEnable \in enable_evt_t
    /\ lastConfig \in config_evt_t \cup {NoConfig}
=============================================================================
