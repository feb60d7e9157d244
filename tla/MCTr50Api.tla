----------------------------- MODULE MCTr50Api -----------------------------
(* Instances of Tr50Api for TLC: the kinds of the messages m1, m2 and m3.  *)
EXTENDS Tr50Api

CONSTANTS a1, a2, m1, m2, m3

TwoApps   == {a1, a2}
OneApp    == {a1}
TwoMsgs   == {m1, m2}
ThreeMsgs == {m1, m2, m3}
First     == {m1}
Second    == {m2}
Third     == {m3}
=============================================================================
