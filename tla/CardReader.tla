----------------------------- MODULE CardReader -----------------------------
(***************************************************************************)
(* The card reader thread (applications/card_reader.c), which tells the    *)
(* application and the broker of every card it reads, the latter with      *)
(* mqtt_link_send().                                                       *)
(*                                                                         *)
(* cpc is where the thread is:                                             *)
(*   sleep    in rt_thread_mdelay(500) or polling the reader               *)
(*   push     in event_handler_push_event(), holding a node of the queue   *)
(*   send     before the test of client in mqtt_link_send()                *)
(*   publish  in umqtt_publish()                                           *)
(***************************************************************************)
EXTENDS MqttLink

VARIABLES
    cpc,
    card_evt         \* the uid in the global of card_reader.c

cardVars == <<cpc, card_evt>>

CONSTANT NoUid
ASSUME UidAssumption == NoUid \notin Uids

CardPc == {"sleep", "push", "send", "publish"}

CardInit ==
    /\ cpc = "sleep"
    /\ card_evt = NoUid

(* A card is present and its serial number is read.                        *)
CardSwipe ==
    /\ cpc = "sleep"
    /\ \E uid \in Uids :
         /\ card_evt' = uid
         /\ \/ MqTakeNode /\ cpc' = "push"
            \/ MqFull(CardEvent(uid)) /\ cpc' = "send"

CardPush ==
    /\ cpc = "push"
    /\ MqLink(CardEvent(card_evt))
    /\ cpc' = "send"
    /\ UNCHANGED card_evt

(* mqtt_link_send() does nothing before a client has been started.         *)
mqtt_link_send ==
    /\ cpc = "send"
    /\ cpc' = IF client THEN "publish" ELSE "sleep"
    /\ UNCHANGED <<queueVars, card_evt>>

(* umqtt_publish() returns, whatever its result.                           *)
CardPublished ==
    /\ cpc = "publish"
    /\ cpc' = "sleep"
    /\ UNCHANGED <<queueVars, card_evt>>

CardStep == CardSwipe \/ CardPush \/ mqtt_link_send \/ CardPublished

CardTypeOK ==
    /\ cpc \in CardPc
    /\ card_evt \in Uids \cup {NoUid}
=============================================================================
