------------------------------- MODULE Events -------------------------------
(***************************************************************************)
(* The events the threads of rt-pay exchange (applications/event.h) and    *)
(* the numbers a broker message can put into them.                         *)
(*                                                                         *)
(* The MQTT callbacks read every field with atoi() and store it in an      *)
(* unsigned field, so a field holds the value modulo the width of the      *)
(* field.  The two widths are parameters: the code has 2^16 and 2^32, a    *)
(* model checking run uses small ones so that the wrap-around happens.     *)
(***************************************************************************)
EXTENDS Integers, Sequences

CONSTANTS
    U16,             \* number of values of a rt_uint16_t
    U32,             \* number of values of a rt_uint32_t
    Names,           \* the device names a config message can carry
    DefaultName,     \* "rt-pay"
    NoName,          \* the empty name
    Prices,          \* values of atoi() on the "price" of a config message
    Pulses,          \* ... on its "pulses"
    Enables,         \* ... on the "enable" of an enable message
    Counts,          \* ... on the "count" of an add-credit message
    Balances,        \* ... on its "balance"
    Uids             \* the cards

ASSUME WidthAssumption ==
    /\ U16 \in Nat /\ U16 > 1
    /\ U32 \in Nat /\ U32 >= U16

ASSUME FieldAssumption ==
    /\ Prices \subseteq Int /\ Pulses \subseteq Int /\ Enables \subseteq Int
    /\ Counts \subseteq Int /\ Balances \subseteq Int

ASSUME NameAssumption == DefaultName # NoName /\ NoName \notin Names

rt_uint16_t == 0 .. (U16 - 1)
rt_uint32_t == 0 .. (U32 - 1)

(* The implicit conversion of the int atoi() returns to the field it is    *)
(* assigned to.                                                            *)
ToU16(n) == n % U16
ToU32(n) == n % U32

mqtt_event_t ==
    {"mqtt_event_connecting_e", "mqtt_event_conn_failed_e",
     "mqtt_event_conn_success_e"}

config_evt_t == [type : {"event_type_config_e"},
                 name : Names \cup {NoName},
                 price : rt_uint32_t,
                 pulses_per_credit : rt_uint16_t]

credit_evt_t == [type : {"event_type_credit_e"},
                 count : rt_uint16_t, balance : rt_uint32_t]

(* An int in this build: whatever atoi() returned, not only 0 and 1.       *)
rt_bool_t == Enables \cup {0}

enable_evt_t == [type : {"event_type_enable_e"}, enable : rt_bool_t]

mqtt_evt_t == [type : {"event_type_mqtt_e"}, mqtt : mqtt_event_t]

card_event_t == [type : {"event_type_card_e"}, uid : Uids]

event_t == config_evt_t \cup credit_evt_t \cup enable_evt_t \cup mqtt_evt_t
             \cup card_event_t

(* Constructors: the event_t that event_handler_push_event() builds from   *)
(* its type and data arguments.                                            *)
ConfigEvent(name, price, pulses) ==
    [type |-> "event_type_config_e", name |-> name,
     price |-> ToU32(price), pulses_per_credit |-> ToU16(pulses)]

CreditEvent(count, balance) ==
    [type |-> "event_type_credit_e",
     count |-> ToU16(count), balance |-> ToU32(balance)]

EnableEvent(enable) ==
    [type |-> "event_type_enable_e", enable |-> enable]

MqttEvent(status) ==
    [type |-> "event_type_mqtt_e", mqtt |-> status]

CardEvent(uid) ==
    [type |-> "event_type_card_e", uid |-> uid]
=============================================================================
