----------------------------- MODULE Tr50Event -----------------------------
(***************************************************************************)
(* The synchronous calls and linux.event.c: thread W makes an event, calls *)
(* the api and waits; the callback of the request signals on thread S,     *)
(* maybe before the call has returned; W then frees the event.  A wait may *)
(* end for no reason.  What pthread calls return is not: none fails with   *)
(* the arguments that this code passes.                                    *)
(***************************************************************************)
EXTENDS Naturals

VARIABLES
    wpc,        \* W: "create", "call", "calling", "wait", "asleep", "waking", "returned", "done"
    spc,        \* S: "idle", "taken", "locked", "signalled", "done"
    isLocked,   \* evt->is_locked
    alive,      \* the event is there
    abandoned   \* W has freed it with its request still in the list, or in a callback

eventVars == <<wpc, spc, isLocked, alive, abandoned>>

EventInit ==
    /\ wpc = "create" /\ spc = "idle"
    /\ isLocked = TRUE /\ alive = FALSE /\ abandoned = FALSE

EventCreate ==
    /\ wpc = "create"
    /\ wpc' = "call" /\ alive' = TRUE /\ isLocked' = TRUE
    /\ UNCHANGED <<spc, abandoned>>

(* tr50_api_call_async puts the request in the list, *)
SyncCalls == wpc = "call" /\ wpc' = "calling" /\ UNCHANGED <<spc, isLocked, alive, abandoned>>

(* and returns 0, or an error if it could take the request out again. *)
SyncCalled == wpc = "calling" /\ wpc' = "wait" /\ UNCHANGED <<spc, isLocked, alive, abandoned>>

SyncFails ==
    /\ wpc = "calling" /\ spc = "idle"
    /\ wpc' = "done" /\ alive' = FALSE
    /\ UNCHANGED <<spc, isLocked, abandoned>>

(* tr50_api_raw_async cannot compress the text: the error is returned, and *)
(* the event freed, with the request in the list or already taken from it. *)
(* Then S signals an event that is gone.                                   *)
SyncDeflateFails ==
    /\ wpc = "calling"
    /\ wpc' = "done" /\ alive' = FALSE /\ abandoned' = TRUE
    /\ UNCHANGED <<spc, isLocked>>

(* The mutex of the event is free for W. *)
EventFree == spc \notin {"locked", "signalled"}

(* _tr50_event_wait, from the lock or from pthread_cond_wait. *)
EventWait ==
    /\ wpc \in {"wait", "waking"} /\ EventFree
    /\ wpc' = IF isLocked THEN "asleep" ELSE "returned"
    /\ UNCHANGED <<spc, isLocked, alive, abandoned>>

Wakes == wpc = "asleep" /\ wpc' = "waking" /\ UNCHANGED <<spc, isLocked, alive, abandoned>>

EventDelete ==
    /\ wpc = "returned"
    /\ wpc' = "done" /\ alive' = FALSE
    /\ UNCHANGED <<spc, isLocked, abandoned>>

(* The request is answered or expires: S takes it from the list. *)
Taken ==
    /\ spc = "idle" /\ (abandoned \/ wpc \in {"calling", "wait", "asleep", "waking"})
    /\ spc' = "taken"
    /\ UNCHANGED <<wpc, isLocked, alive, abandoned>>

(* _tr50_event_signal, from its callback. *)
SignalLocks == spc = "taken" /\ spc' = "locked" /\ UNCHANGED <<wpc, isLocked, alive, abandoned>>

(* is_locked and pthread_cond_broadcast *)
Signals ==
    /\ spc = "locked"
    /\ spc' = "signalled" /\ isLocked' = FALSE
    /\ wpc' = IF wpc = "asleep" THEN "waking" ELSE wpc
    /\ UNCHANGED <<alive, abandoned>>

SignalUnlocks == spc = "signalled" /\ spc' = "done" /\ UNCHANGED <<wpc, isLocked, alive, abandoned>>

EventNext ==
    \/ EventCreate \/ SyncCalls \/ SyncCalled \/ SyncFails \/ SyncDeflateFails
    \/ EventWait \/ Wakes \/ EventDelete
    \/ Taken \/ SignalLocks \/ Signals \/ SignalUnlocks

(* Nobody is in an event that was freed, unless a raw call has left its    *)
(* request behind; and W does not sleep on one that was signalled: there   *)
(* is no second signal.                                                    *)
EventSound ==
    /\ \/ abandoned
       \/ wpc \notin {"create", "done"} \/ spc \in {"taken", "locked", "signalled"} => alive
    /\ spc \in {"signalled", "done"} => wpc # "asleep"
=============================================================================
