------------------------------ MODULE MqttQos ------------------------------
(***************************************************************************)
(* The table of unacknowledged messages, mqtt.qos.c: a fixed number of     *)
(* records, each with the identifier of a publish, subscribe or            *)
(* unsubscribe and the callback to run when it is acknowledged or given up. *)
(*                                                                         *)
(* Every function of mqtt.qos.c holds mq->mux while it looks at the table  *)
(* and releases it before it runs a callback, so that each definition here *)
(* is one step of a thread.  A callback is named by its call.              *)
(*                                                                         *)
(* WaitingAny, QosReleaseUncounted and QosReleaseKeeps are no part of it:  *)
(* they are plausible mistakes that the properties of MqttAsync rule out.  *)
(***************************************************************************)
EXTENDS Naturals, FiniteSets

CONSTANTS
    Calls,      \* the calls that may wait for an acknowledgement
    Free,       \* a record with is_used = FALSE
    QosSize,    \* max_size
    IdSpace     \* identifiers are numbers modulo IdSpace (unsigned short)

ASSUME QosAssumption ==
    /\ QosSize \in Nat \ {0} /\ IdSpace \in Nat \ {0}

VARIABLES
    records,    \* the records, in the order they are searched
    size        \* current_size

qosVars == <<records, size>>

Slots   == 1..QosSize
MsgIds  == 0..(IdSpace - 1)
Record  == [call : Calls, id : MsgIds, due : BOOLEAN]

QosTypeOK ==
    /\ records \in [Slots -> Record \cup {Free}]
    /\ size = Cardinality({i \in Slots : records[i] # Free})

QosInit == records = [i \in Slots |-> Free] /\ size = 0

Used == {i \in Slots : records[i] # Free}

(* i is the lowest of the records in S. *)
Lowest(S, i) == i \in S /\ \A j \in S : i <= j

WaitingAny(id) == Used

Waiting(id) == {i \in Used : records[i].id = id}

Full == Used = Slots

(* mqtt_qos_add: the lowest free record is taken. *)
QosAdd(c, msgId) ==
    /\ \E i \in Slots :
         /\ Lowest(Slots \ Used, i)
         /\ records' = [records EXCEPT ![i] = [call |-> c, id |-> msgId, due |-> FALSE]]
    /\ size' = size + 1

QosReleaseUncounted(i) ==
    /\ records' = [records EXCEPT ![i] = Free]
    /\ size' = size

QosReleaseKeeps(i) ==
    /\ UNCHANGED records
    /\ size' = size - 1

(* The record i is released; its callback runs afterwards. *)
QosRelease(i) ==
    /\ records' = [records EXCEPT ![i] = Free]
    /\ size' = size - 1

(* expiration_timestamp of record i passes. *)
QosTick(i) ==
    /\ i \in Used /\ ~records[i].due
    /\ records' = [records EXCEPT ![i].due = TRUE]
    /\ UNCHANGED size

(* mqtt_qos_any_expired: the search ends at current_size, not at max_size. *)
AnyExpired == \E i \in 1..size : i \in Used /\ records[i].due
=============================================================================
