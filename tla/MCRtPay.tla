------------------------------ MODULE MCRtPay ------------------------------
(* Instances of RtPay for TLC.                                             *)
EXTENDS RtPay

CONSTANTS n1, n0, rtpay, c1, nocard

\* The negative values are what atoi() makes of "-1".
MCMinus1And1 == {-1, 1}
MC0And1 == {0, 1}
MC2 == {2}
MC1 == {1}
MC0To2 == {0, 1, 2}
MCNames == {n1}
MCUids == {c1}
=============================================================================
