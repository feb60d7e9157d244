---------------------------- MODULE MCMqttAsync ----------------------------
(* Instances of MqttAsync for TLC.                                         *)
EXTENDS MqttAsync

CONSTANTS u1, u2, c1, c2, c3

OneUser    == {u1}
TwoUsers   == {u1, u2}
OneCall    == {c1}
TwoCalls   == {c1, c2}
ThreeCalls == {c1, c2, c3}
Third      == {c3}
=============================================================================
