----------------------------- MODULE AtCommands -----------------------------
(***************************************************************************)
(* The AT commands of the HE910 port: at.main.c, at.cmd.c and              *)
(* at.processor.c over AtStorage.  One thread runs AT commands; the        *)
(* receive thread R of the library delivers replies, method calls and      *)
(* commands of the server; the expiration thread P delivers time-outs; the *)
(* modem runs the commands that module.exec passes to it.                  *)
(*                                                                         *)
(* ExecStartKeeps and those of AtStorage are no part of the specification: *)
(* they are plausible mistakes, each in place of a definition after it,    *)
(* that the properties rule out.                                           *)
(***************************************************************************)
EXTENDS AtStorage

CONSTANTS
    R, P,           \* see above
    Execs,          \* the module.exec commands of the server
    Inputs,         \* the AT commands that are given
    MaxId           \* bound: identifiers that are handed out

NoMail == "none"

ASSUME AtAssumption ==
    /\ Putters = {R, P} /\ R # P /\ MaxId \in Nat
    /\ NoMail \notin Execs

(* The AT commands that set give a parameter: the handlers dereference the *)
(* first one without looking whether there is one (at.cmd.c:145, 522, 543, *)
(* 563).  Without it, what they do is not defined.                         *)
ASSUME ParameterAssumption ==
    \A input \in Inputs : input.op = "=" => ParseParameters(input.fields) > 0

VARIABLES
    running,    \* the client is started
    once,       \* at_connected_once
    lastId,     \* the last identifier handed out
    calls,      \* the number of calls that wait for a reply
    latency,    \* recv_timestamp: "none", "waits", or "set"
    rung,       \* of each identifier, the announcements less the gets
    overfull,   \* an answer was announced that had found no room
    mail,       \* g_tr50_at_wrapper_mail_id
    recent,     \* it is younger than TR50_AT_EXEC_TTL
    engine,     \* the commands the modem has still to run
    buffer,     \* at_run_buffer: the commands whose output it holds
    acks,       \* the acknowledgements of each of Execs: what they hold
    overtaken   \* a module.exec was given up for another one

execVars == <<mail, recent, engine, buffer, acks, overtaken>>
cmdVars  == <<running, once, lastId, calls, latency, rung, overfull>>
vars     == <<storageVars, cmdVars, execVars>>

Ids == 1..MaxId

Init ==
    /\ StorageInit
    /\ running = FALSE /\ once = FALSE /\ lastId = 0
    /\ calls = 0 /\ latency = "none" /\ rung = [i \in Ids |-> 0] /\ overfull = FALSE
    /\ mail = NoMail /\ recent = FALSE /\ engine = <<>> /\ buffer = {}
    /\ acks = [e \in Execs |-> <<>>] /\ overtaken = FALSE
-----------------------------------------------------------------------------
(* tr50_at_process: an input is a name in parts, an operator, and fields.  *)
(* DWSENDR and DWRCVR are tried before DWSEND and DWRCV.                   *)
Names ==
    <<[name |-> <<"DWCONN">>, ops |-> {"?", "="}], [name |-> <<"DWSEND", "R">>, ops |-> {"="}],
      [name |-> <<"DWSEND">>, ops |-> {"="}], [name |-> <<"DWLRCV">>, ops |-> {""}],
      [name |-> <<"DWRCV", "R">>, ops |-> {"="}], [name |-> <<"DWRCV">>, ops |-> {"="}],
      [name |-> <<"DWSTATUS">>, ops |-> {""}]>>

(* The command an input is for, 0 when none: the first name it begins      *)
(* with, if what follows is one of its operators.                          *)
Dispatch(input) ==
    LET Begins == {k \in 1..Len(Names) : ContinueWith(input.name, Names[k].name)}
        k == Min(Begins)
    IN  IF Begins # {} /\ Names[k].name = input.name /\ input.op \in Names[k].ops THEN k ELSE 0

IsFor(input, name) == Dispatch(input) # 0 /\ Names[Dispatch(input)].name = name

(* tr50_api_call_async, with the callback that stores the answer. *)
ApiCall ==
    /\ running /\ lastId < MaxId
    /\ lastId' = lastId + 1
    /\ calls' = calls + 1

(* The command prints "Failed" or what else needs no state. *)
Prints == UNCHANGED vars

(* _tr50_at_cmd_dwconn_set: the parameters are read and the client is      *)
(* started, which may fail; or it is stopped.                              *)
DwconnStart ==
    /\ running' \in {running, TRUE}
    /\ UNCHANGED <<storageVars, once, lastId, calls, latency, rung, overfull, execVars>>

DwconnStop ==
    /\ running' = FALSE
    /\ UNCHANGED <<storageVars, once, lastId, calls, latency, rung, overfull, execVars>>

DwconnSet(input) ==
    \/ input.arg = 0 /\ DwconnStop
    \/ input.arg = 1 /\ DwconnStart
    \/ input.arg \notin {0, 1} /\ Prints

(* _tr50_at_cmd_dwsendr_set: the text may be no JSON, or be refused. *)
DwsendrSet ==
    \/ ApiCall /\ UNCHANGED <<storageVars, running, once, latency, rung, overfull, execVars>>
    \/ Prints

Sends == ApiCall /\ UNCHANGED <<storageVars, running, once, latency, rung, overfull, execVars>>

(* _tr50_at_cmd_dwsend_set_normal: the type, the command and pairs. *)
DwsendNormal(n) == IF n % 2 = 1 THEN Prints ELSE Sends \/ Prints

(* _tr50_at_cmd_dwsend_set_method: five and pairs. *)
DwsendMethod(n) == IF n < 5 \/ n % 2 = 0 THEN Prints ELSE Sends \/ Prints

(* The update and the acknowledgement of a method call by the application  *)
(* are calls without a callback.  Each prints "Failed" when it succeeds.   *)
DwsendMethodUpdate(n) == Prints
DwsendMethodAck(n)    == Prints

DwsendSet(input) ==
    LET n == ParseParameters(input.fields) IN
    \/ input.arg = 0 /\ DwsendNormal(n)
    \/ input.arg = 1 /\ DwsendMethod(n)
    \/ input.arg = 2 /\ DwsendMethodUpdate(n)
    \/ input.arg = 3 /\ DwsendMethodAck(n)

(* A get: the count follows it. *)
Fetch(id, mode) ==
    \/ /\ StorageGet(id, mode)
       /\ rung' = [rung EXCEPT ![id] = @ - 1]
       /\ UNCHANGED <<running, once, lastId, calls, latency, overfull, execVars>>
    \/ ~(\E i \in Slots : Matches(i, id, mode)) /\ Prints

FetchStep ==
    /\ StorageGetReads \/ StorageGetEnds
    /\ UNCHANGED <<cmdVars, execVars>>

DwrcvrSet(input) == Fetch(input.arg, "raw")
DwrcvSet(input)  == Fetch(input.arg, "delimited")
DwlrcvGet        == StorageList.n \in Int /\ Prints

(* _tr50_at_latency: the thread sends a ping and waits for its answer. *)
DwstatusGet ==
    \/ /\ running /\ latency' = "waits"
       /\ UNCHANGED <<storageVars, running, once, lastId, calls, rung, overfull, execVars>>
    \/ Prints

LatencyReturns ==
    /\ latency = "set" /\ latency' = "none"
    /\ UNCHANGED <<storageVars, running, once, lastId, calls, rung, overfull, execVars>>

(* One AT command after the other. *)
Process(input) ==
    /\ latency = "none" /\ got.stage = "none"
    /\ \/ IsFor(input, <<"DWCONN">>) /\ input.op = "=" /\ DwconnSet(input)
       \/ IsFor(input, <<"DWSEND", "R">>) /\ DwsendrSet
       \/ IsFor(input, <<"DWSEND">>) /\ DwsendSet(input)
       \/ IsFor(input, <<"DWRCV", "R">>) /\ DwrcvrSet(input)
       \/ IsFor(input, <<"DWRCV">>) /\ DwrcvSet(input)
       \/ IsFor(input, <<"DWLRCV">>) /\ DwlrcvGet
       \/ IsFor(input, <<"DWSTATUS">>) /\ DwstatusGet
       \/ (Dispatch(input) = 0 \/ input.op = "?") /\ Prints
-----------------------------------------------------------------------------
(* The threads of the library. *)

(* _tr50_at_state_change_handler: the module is registered once, whether   *)
(* the call for it succeeds or not.                                        *)
ModuleRegister ==
    /\ running /\ ~once /\ once' = TRUE
    /\ UNCHANGED <<storageVars, running, lastId, calls, latency, rung, overfull, execVars>>

Quiet == UNCHANGED <<running, once, lastId, latency, rung, execVars>>

(* _tr50_at_send_reply: the answer is stored under the identifier 1.       *)
SendReply ==
    /\ put[R].stage = "none" /\ calls > 0 /\ calls' = calls - 1
    /\ \/ StoragePut(R, "reply", 1)
       \/ Full /\ UNCHANGED storageVars
    /\ Quiet /\ UNCHANGED overfull

(* A time-out is announced even if there was no room for it. *)
SendTimeout ==
    /\ put[P].stage = "none" /\ calls > 0 /\ calls' = calls - 1
    /\ \/ StoragePut(P, "reply", 1) /\ UNCHANGED overfull
       \/ Full /\ UNCHANGED storageVars /\ overfull' = TRUE
    /\ Quiet

(* _tr50_method_event_execute: the identifier is taken first.  Without a   *)
(* part of the method, or without room, nothing is put.                    *)
MethodEvent ==
    /\ put[R].stage = "none" /\ running /\ lastId < MaxId
    /\ lastId' = lastId + 1
    /\ \/ StoragePut(R, "method", lastId + 1)
       \/ UNCHANGED storageVars
    /\ UNCHANGED <<running, once, calls, latency, rung, overfull, execVars>>

PutStep(t) ==
    /\ \/ StoragePutUsed(t) \/ StoragePutId(t)
       \/ StoragePutReads(t) \/ StoragePutEnds(t)
    /\ UNCHANGED <<cmdVars, execVars>>

(* The put has returned and unsol_callback is called: the thread of the AT *)
(* commands may have fetched the answer in between.                        *)
Announce(t) ==
    /\ put[t].stage = "rings"
    /\ put' = [put EXCEPT ![t] = NoPut]
    /\ rung' = [rung EXCEPT ![put[t].id] = @ + 1]
    /\ UNCHANGED <<slots, count, got, raced, overlapped, fetched,
                   running, once, lastId, calls, latency, overfull, execVars>>

(* _tr50_at_latency_callback, on either thread. *)
LatencyCallback ==
    /\ latency = "waits" /\ latency' = "set"
    /\ UNCHANGED <<storageVars, running, once, lastId, calls, rung, overfull, execVars>>
-----------------------------------------------------------------------------
(* module.exec, with at_run_mux. *)

Ack(e, what) == acks' = [acks EXCEPT ![e] = Append(@, what)]

ExecStartKeeps(e) == buffer' = buffer /\ engine' = Append(engine, e)

(* The buffer is cleared and the input handed to the modem. *)
ExecStart(e) == buffer' = {} /\ engine' = Append(engine, e)

(* _tr50_at_process_run_exec: one command at a time, until it is too old. *)
ProcessRunExec(e) ==
    /\ put[R].stage = "none" /\ running /\ acks[e] = <<>> /\ mail # e
    /\ e \notin {engine[i] : i \in 1..Len(engine)}
    /\ \/ /\ mail # NoMail /\ recent
          /\ Ack(e, {"busy"})
          /\ UNCHANGED <<mail, recent, engine, buffer, overtaken>>
       \/ /\ mail = NoMail \/ ~recent
          /\ overtaken' = (overtaken \/ mail # NoMail)
          /\ \/ /\ mail' = NoMail /\ recent' = FALSE
                /\ Ack(e, {"attach failed"})
                /\ UNCHANGED <<engine, buffer>>
             \/ /\ mail' = e /\ recent' = TRUE
                /\ ExecStart(e)
                /\ UNCHANGED acks
    /\ UNCHANGED <<storageVars, cmdVars>>

ExecGrowsOld ==
    /\ recent /\ recent' = FALSE
    /\ UNCHANGED <<storageVars, cmdVars, mail, engine, buffer, acks, overtaken>>

(* tr50_at_run_recv: output of the command the modem is running. *)
RunRecv ==
    /\ engine # <<>> /\ Head(engine) \notin buffer
    /\ buffer' = buffer \cup {Head(engine)}
    /\ UNCHANGED <<storageVars, cmdVars, mail, recent, engine, acks, overtaken>>

(* tr50_at_run_send_back: it has ended. *)
RunSendBack ==
    /\ engine # <<>> /\ engine' = Tail(engine)
    /\ \/ mail = NoMail /\ UNCHANGED <<mail, recent, acks>>
       \/ mail # NoMail /\ Ack(mail, buffer) /\ mail' = NoMail /\ recent' = FALSE
    /\ UNCHANGED <<storageVars, cmdVars, buffer, overtaken>>
-----------------------------------------------------------------------------
CallsNext == SendReply \/ SendTimeout \/ MethodEvent

TableNext == FetchStep \/ \E t \in Putters : PutStep(t) \/ Announce(t)

StatusNext == LatencyReturns \/ LatencyCallback \/ ModuleRegister

CommandsNext ==
    \/ \E input \in Inputs : Process(input)
    \/ StatusNext \/ CallsNext \/ TableNext

ExecNext ==
    \/ \E e \in Execs : ProcessRunExec(e)
    \/ ExecGrowsOld \/ RunRecv \/ RunSendBack

Next == CommandsNext \/ ExecNext

Spec == Init /\ [][Next]_vars
-----------------------------------------------------------------------------
(* Properties. *)

(* at.storage.c has no mutex, and is_used is set before id.  As long as no *)
(* two threads were in one slot, a get gives the message that was put      *)
(* under its identifier; and as long as no two threads were in ++ or -- at *)
(* once either, the count is the number of used slots, but for the puts    *)
(* and the get that have still to count.                                   *)
StorageSound ==
    ~raced =>
      /\ fetched
      /\ ~overlapped =>
           count = Cardinality(Slots \ FreeSlots)
                     - Cardinality({t \in Putters : put[t].stage \in {"used", "named", "counting"}})
                     + (IF got.stage = "none" THEN 0 ELSE 1)

(* An announcement is not made for nothing.  A get may come before the     *)
(* announcement of what it fetches, so that names an answer that is gone;  *)
(* but of each identifier there are never more announcements than messages *)
(* that were fetched or are in the table, however replies, time-outs,      *)
(* method calls and gets interleave, if no two threads were in one slot    *)
(* and none found the table full.                                          *)
RungIsThere ==
    ~raced /\ ~overfull =>
      \A id \in Ids : rung[id] <= Cardinality({i \in Slots : slots[i].used /\ slots[i].id = id})

(* The server gets one acknowledgement of a module.exec at most, and with  *)
(* the output of that command and of no other one, if none was given up    *)
(* for a newer one after TR50_AT_EXEC_TTL.                                 *)
ExecAnswered ==
    \A e \in Execs :
      /\ Len(acks[e]) <= 1
      /\ ~overtaken /\ acks[e] # <<>> => acks[e][1] \subseteq {e, "busy", "attach failed"}
=============================================================================
