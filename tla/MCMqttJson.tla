----------------------------- MODULE MCMqttJson -----------------------------
(* The config message with short names for "name", "price" and "pulses",   *)
(* of which the last two begin alike.                                      *)
EXTENDS MqttJson

MCFields == << <<"n">>, <<"p", "r">>, <<"p", "u">> >>
MCCopied == {<<"n">>}
MCKeys == {<<"p">>}
MCValues == {<<"1">>}
MCDocKeys == ToSet(MCFields) \cup {<<"x">>}
MCDocValues == {<<"1">>, <<"1", "2">>}
=============================================================================
