----------------------------- MODULE AtStorage -----------------------------
(***************************************************************************)
(* at.parser.c and at.storage.c: the parameters of an AT command, and the  *)
(* table in which answers and method calls wait until an AT command        *)
(* fetches them.  Two threads of the library put, the thread of the AT     *)
(* commands gets, and there is no mutex: a put and a get are some steps    *)
(* each, and ++ and -- of the count are a read and a write.                *)
(*                                                                         *)
(* FreeSlotsAll and StorageGetKeeps are no part of it: see AtCommands.     *)
(***************************************************************************)
EXTENDS Integers, Sequences, FiniteSets, FiniteSetsExt

CONSTANTS
    Putters,        \* the threads that put
    StorageSize,    \* TR50_AT_STORAGE_SIZE, 20
    ParamMax        \* AT_TOKEN_PARAM_MAX

ASSUME StorageAssumption == StorageSize \in Nat \ {0} /\ ParamMax \in Nat \ {0}
-----------------------------------------------------------------------------
(* Parameters.  A field is the number of its double quotes. *)

(* _at_token_parse_parameters: a field with one quote takes the fields     *)
(* after it along, up to the next one with a quote.  What comes after      *)
(* ParamMax parameters is ignored: the error is not passed on.             *)
ParseParameters(fields) ==
    LET Step[i \in 0..Len(fields)] ==
          IF i = 0 THEN [count |-> 0, open |-> FALSE]
          ELSE LET s == Step[i - 1] IN
               CASE s.count >= ParamMax -> s
                 [] s.open              -> [s EXCEPT !.open = fields[i] = 0]
                 [] OTHER               -> [count |-> s.count + 1, open |-> fields[i] = 1]
    IN  Step[Len(fields)].count

(* at_token_continue_with, on a name that is a sequence of its parts. *)
ContinueWith(input, str) == Len(str) <= Len(input) /\ SubSeq(input, 1, Len(str)) = str
-----------------------------------------------------------------------------
VARIABLES
    slots,      \* the table
    count,      \* g_tr50_at_storage_count
    put,        \* what each of Putters is putting
    got,        \* how far the thread of the AT commands is with a get
    raced,      \* two threads were in one slot
    overlapped, \* two threads were between reading the count and writing it
    fetched     \* every get gave what was put under its identifier

storageVars == <<slots, count, put, got, raced, overlapped, fetched>>

Slots    == 1..StorageSize
NoPut    == [stage |-> "none", slot |-> 0, mode |-> "reply", id |-> 0, seen |-> 0]
NoSlot   == [used |-> FALSE, id |-> 0, mode |-> "reply", msg |-> 0]
NoGet    == [stage |-> "none", seen |-> 0]

StorageInit ==
    /\ slots = [i \in Slots |-> NoSlot] /\ count = 0
    /\ put = [t \in Putters |-> NoPut] /\ got = NoGet
    /\ raced = FALSE /\ overlapped = FALSE /\ fetched = TRUE

(* Putter t fills in slot i: from status and output to id. *)
Fills(t, i) == put[t].stage \in {"filled", "used"} /\ put[t].slot = i

(* A thread has read the count and not yet written it. *)
Counting == got.stage = "counting" \/ \E t \in Putters : put[t].stage = "counting"

FreeSlotsAll == Slots

FreeSlots == {i \in Slots : ~slots[i].used}

Full == count > StorageSize \/ FreeSlots = {}

(* _tr50_at_storage_put finds the first slot that is not used and fills in *)
(* status and output.  The modes that are not "method" are one: only that  *)
(* is tested by a get.                                                     *)
StoragePut(t, mode, id) ==
    LET i == Min(FreeSlots) IN
    /\ put[t].stage = "none" /\ ~Full
    /\ put' = [put EXCEPT ![t] = [stage |-> "filled", slot |-> i, mode |-> mode,
                                  id |-> id, seen |-> 0]]
    /\ slots' = [slots EXCEPT ![i].msg = id]
    /\ raced' = (raced \/ \E o \in Putters : Fills(o, i))
    /\ UNCHANGED <<count, got, overlapped, fetched>>

(* mode and is_used, before id. *)
StoragePutUsed(t) ==
    /\ put[t].stage = "filled"
    /\ slots' = [slots EXCEPT ![put[t].slot].mode = put[t].mode, ![put[t].slot].used = TRUE]
    /\ put' = [put EXCEPT ![t].stage = "used"]
    /\ UNCHANGED <<count, got, raced, overlapped, fetched>>

StoragePutId(t) ==
    /\ put[t].stage = "used"
    /\ slots' = [slots EXCEPT ![put[t].slot].id = put[t].id]
    /\ put' = [put EXCEPT ![t].stage = "named"]
    /\ UNCHANGED <<count, got, raced, overlapped, fetched>>

(* ++ of the count, after which the answer can be announced. *)
StoragePutReads(t) ==
    /\ put[t].stage = "named"
    /\ put' = [put EXCEPT ![t].stage = "counting", ![t].seen = count]
    /\ overlapped' = (overlapped \/ Counting)
    /\ UNCHANGED <<slots, count, got, raced, fetched>>

StoragePutEnds(t) ==
    /\ put[t].stage = "counting"
    /\ count' = put[t].seen + 1
    /\ put' = [put EXCEPT ![t].stage = "rings"]
    /\ UNCHANGED <<slots, got, raced, overlapped, fetched>>

(* A method call is not read as raw; all else is read as either. *)
Matches(i, id, mode) ==
    /\ slots[i].used /\ slots[i].id = id
    /\ ~(slots[i].mode = "method" /\ mode = "raw")

(* _tr50_at_storage_get, of the first slot that matches; the output is     *)
(* handed over, the identifier stays.                                      *)
StorageGet(id, mode) ==
    LET i == Min({j \in Slots : Matches(j, id, mode)}) IN
    /\ got.stage = "none" /\ \E j \in Slots : Matches(j, id, mode)
    /\ slots' = [slots EXCEPT ![i].used = FALSE, ![i].msg = 0]
    /\ got' = [got EXCEPT !.stage = "cleared"]
    /\ fetched' = (fetched /\ slots[i].msg = id)
    /\ raced' = (raced \/ \E t \in Putters : Fills(t, i))
    /\ UNCHANGED <<count, put, overlapped>>

(* -- of the count. *)
StorageGetReads ==
    /\ got.stage = "cleared"
    /\ got' = [stage |-> "counting", seen |-> count]
    /\ overlapped' = (overlapped \/ Counting)
    /\ UNCHANGED <<slots, count, put, raced, fetched>>

StorageGetKeeps == got.stage = "counting" /\ got' = NoGet
                   /\ UNCHANGED <<slots, count, put, raced, overlapped, fetched>>

StorageGetEnds ==
    /\ got.stage = "counting"
    /\ count' = got.seen - 1
    /\ got' = NoGet
    /\ UNCHANGED <<slots, put, raced, overlapped, fetched>>

(* _tr50_at_storage_list *)
StorageList == [n |-> count, ids |-> {slots[i].id : i \in Slots \ FreeSlots}]
=============================================================================
