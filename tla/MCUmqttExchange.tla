-------------------------- MODULE MCUmqttExchange --------------------------
(* Values for the constants of UmqttExchange.                              *)
EXTENDS UmqttExchange

\* The add-credit topic, whose messages may have any QoS.
MCSubQos == <<2>>

\* main has done its subscriptions.
MCSubscribed == <<>>
=============================================================================
