---------------------------- MODULE Tr50Requests ----------------------------
(***************************************************************************)
(* What tr50_api_call_async and tr50_api_raw_async promise their caller,   *)
(* with no threads, locks, identifiers or lists:                           *)
(*                                                                         *)
(*   - a call is either refused (an error is returned) or it stays open;   *)
(*   - an open request is completed, and its callback runs exactly once;   *)
(*   - a refused request is the caller's again and is never completed;     *)
(*   - a request answered with a reply that is no reply message may be     *)
(*     dropped: its callback then never runs.                              *)
(*                                                                         *)
(* Tr50Api implements this specification.                                  *)
(***************************************************************************)
EXTENDS Naturals

CONSTANT Msgs       \* the requests, one per call

VARIABLES status,   \* what became of each request
          callbacks \* how many times the callback of each request ran

vars == <<status, callbacks>>

Statuses == {"idle", "open", "refused", "done", "dropped"}

Init ==
    /\ status = [m \in Msgs |-> "idle"]
    /\ callbacks = [m \in Msgs |-> 0]

(* m moves from one of the statuses in from to the status to. *)
Become(m, from, to) ==
    /\ status[m] \in from
    /\ status' = [status EXCEPT ![m] = to]

Open(m)   == Become(m, {"idle"}, "open")    /\ UNCHANGED callbacks
Refuse(m) == Become(m, {"open"}, "refused") /\ UNCHANGED callbacks
Drop(m)   == Become(m, {"open"}, "dropped") /\ UNCHANGED callbacks

Complete(m) ==
    /\ Become(m, {"open"}, "done")
    /\ callbacks' = [callbacks EXCEPT ![m] = @ + 1]

Next == \E m \in Msgs : Open(m) \/ Refuse(m) \/ Complete(m) \/ Drop(m)

Spec == Init /\ [][Next]_vars
=============================================================================
