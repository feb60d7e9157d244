------------------------------ MODULE Tr50Api ------------------------------
(***************************************************************************)
(* The request engine of the TR50 client: the api calls of                 *)
(* tr50.api.async.c, the list of pending requests of tr50.pending.c, the   *)
(* delivery of replies of tr50.c, and the start and stop of the client     *)
(* that race with them.                                                    *)
(*                                                                         *)
(* Threads: the application's threads (Apps), the MQTT receive thread      *)
(* "TR50:Recv" (Recv), which delivers replies, and the expiration thread   *)
(* "TR50:Pending" (Pend).  Mutexes: client->mux (clientMux) and            *)
(* pending->mux (pendingMux), both recursive.  One step is the code        *)
(* between two points where another thread can act.                        *)
(*                                                                         *)
(* The data of requests and replies is left out.  A message object stands  *)
(* for one call; a call without a callback (tr50_api_call) is counted as   *)
(* completed where its callback would have run.                            *)
(*                                                                         *)
(* NextIdNoWrap, RunningIgnoresStop, SendFailsReturns, UndoLeavesListed,   *)
(* UndoReturnsOk, UndoExpiredFails, WaitTimesOut, RunCallbackNoSignal,     *)
(* RecvReplyKeeps, PendLockNot and StopBeginHolds are not part of Next:    *)
(* they are plausible mistakes, each in place of the definition after it,  *)
(* that the properties at the end of the module rule out.                  *)
(***************************************************************************)
EXTENDS Naturals, Sequences

CONSTANTS
    Apps,           \* application threads
    Recv, Pend,     \* the two threads of the library
    Nobody,         \* no thread: the owner of a free mutex
    Msgs,           \* message objects, one per call
    NoMsg,          \* NULL
    Raw,            \* the messages of tr50_api_raw_async; the others are objects
    Sync,           \* the calls whose caller waits for the callback
    MaxId,          \* TR50_MAX_ID
    ReplyCalls,     \* messages whose callback makes a call when the reply comes
    TimeoutCalls,   \* messages whose callback makes a call when they expire
    BadReplies,     \* the server may answer with something that is no reply
    DeflateFails    \* _compress_deflate may fail in tr50_api_raw_async

Threads == Apps \cup {Recv, Pend}
Ids     == 1..MaxId

ASSUME ConstantsAssumption ==
    /\ Recv \notin Apps /\ Pend \notin Apps /\ Nobody \notin Apps
    /\ Recv # Pend /\ Recv # Nobody /\ Pend # Nobody
    /\ NoMsg \notin Msgs
    /\ Raw \subseteq Msgs /\ Sync \subseteq Msgs
    /\ ReplyCalls \subseteq Msgs /\ TimeoutCalls \subseteq Msgs
    /\ MaxId \in Nat \ {0}
    /\ BadReplies \in BOOLEAN /\ DeflateFails \in BOOLEAN

VARIABLES
    started,    \* client->state = TR50_STATE_STARTED
    stopping,   \* client->is_stopping
    mqtt,       \* client->mqtt: "none", "live", "closing" (DELETING), "freed"
    clientMux,  \* the owner of client->mux
    pendingMux, \* the owner of pending->mux
    seqId,      \* client->seq_id
    clashed,    \* an identifier was given out while a pending request had it
                \* (history: TR50_MAX_ID calls later with one still pending)
    pending,    \* the linked list of pending requests, oldest first
    due,        \* messages whose pending_expiration_timestamp has passed
    published,  \* identifiers of the requests the server has seen
    pc,         \* where each thread is in a call of the library
    cur,        \* the message that call is about
    life,       \* who has each message object
    sid,        \* msg->seq_id, 0 before it has one
    cbs,        \* how many times the callback of each message ran
    result,     \* what the call returned
    evt,        \* the event of a synchronous call
    recvPc, recvMsg,        \* _tr50_publish_handle_publish: place and request
    pendPc, pendMsg, next   \* _tr50_pending_expiration_handler: place, message
                            \* being expired, and the saved next message

clientVars == <<started, stopping, mqtt>>
idVars     == <<seqId, clashed, sid>>
callVars   == <<pc, cur, result>>
recvVars   == <<recvPc, recvMsg>>
pendVars   == <<pendPc, pendMsg, next>>
vars == <<clientVars, clientMux, pendingMux, idVars, pending, due, published,
          callVars, life, cbs, evt, recvVars, pendVars>>

-----------------------------------------------------------------------------
(* The list of pending requests. *)

Listed == {pending[i] : i \in 1..Len(pending)}

(* The list without its i-th element (_tr50_pending_linklist_remove). *)
Without(s, i) ==
    [j \in 1..(Len(s) - 1) |-> IF j < i THEN s[j] ELSE s[j + 1]]

(* The place tr50_pending_find_and_remove stops at: the first message with *)
(* the identifier id, from the head.                                       *)
FoundAt(id, i) ==
    /\ i \in 1..Len(pending)
    /\ sid[pending[i]] = id
    /\ \A j \in 1..(i - 1) : sid[pending[j]] # id

Found(id) == \E i \in 1..Len(pending) : sid[pending[i]] = id

(* message->pending_next of the i-th message. *)
NextOf(i) == IF i < Len(pending) THEN pending[i + 1] ELSE NoMsg
ListHead  == IF pending = <<>> THEN NoMsg ELSE pending[1]

(* No message was freed that the library still refers to.  Once one was,   *)
(* the program follows links in freed memory and may do anything: the      *)
(* model ends there, and nothing is claimed of what comes after.           *)
Intact == \A m \in Msgs : life[m] # "freed"

(* The mutexes are recursive: a thread passes one it owns. *)
CanLockClient(t)  == clientMux \in {Nobody, t}
CanLockPending(t) == pendingMux \in {Nobody, t}

RunningIgnoresStop == started
Running == started /\ ~stopping

NextIdNoWrap == seqId + 1

(* The identifier after seqId, wrapping at TR50_MAX_ID. *)
NextId == IF seqId = MaxId THEN 1 ELSE seqId + 1

Init ==
    /\ started = FALSE /\ stopping = FALSE /\ mqtt = "none"
    /\ clientMux = Nobody /\ pendingMux = Nobody
    /\ seqId = 0 /\ clashed = FALSE
    /\ pending = <<>> /\ due = {} /\ published = {}
    /\ pc = [t \in Threads |-> "idle"]
    /\ cur = [t \in Threads |-> NoMsg]
    /\ life = [m \in Msgs |-> "new"]
    /\ sid = [m \in Msgs |-> 0]
    /\ cbs = [m \in Msgs |-> 0]
    /\ result = [m \in Msgs |-> "none"]
    /\ evt = [m \in Msgs |-> "none"]
    /\ recvPc = "idle" /\ recvMsg = NoMsg
    /\ pendPc = "sleep" /\ pendMsg = NoMsg /\ next = NoMsg

-----------------------------------------------------------------------------
(* Calls of the api.  Each is run by an application thread, or by Recv or  *)
(* Pend inside a callback.                                                 *)

(* Thread t hands m to the library; a synchronous call creates its event. *)
BeginCall(t, m) ==
    /\ life[m] = "new"
    /\ pc' = [pc EXCEPT ![t] = "enter"]
    /\ cur' = [cur EXCEPT ![t] = m]
    /\ life' = [life EXCEPT ![m] = "lib"]

Call(t, m) ==
    /\ t \in Apps /\ pc[t] = "idle"
    /\ BeginCall(t, m)
    /\ evt' = [evt EXCEPT ![m] = IF m \in Sync THEN "armed" ELSE "none"]
    /\ UNCHANGED <<clientVars, clientMux, pendingMux, idVars, pending, due,
                   published, result, cbs, recvVars, pendVars>>

(* The call of t returns an error: an object message is the caller's again, *)
(* the message f of a raw call is deleted, a synchronous call deletes its   *)
(* event.                                                                   *)
Fail(t, f) ==
    LET m == cur[t] IN
    /\ pc' = [pc EXCEPT ![t] = "idle"]
    /\ result' = [result EXCEPT ![m] = "error"]
    /\ evt' = [evt EXCEPT ![m] = IF m \in Sync THEN "deleted" ELSE @]
    /\ IF m \in Raw
       THEN life' = [life EXCEPT ![f] = "gone"]
       ELSE life' = [n \in Msgs |->
                       CASE n = m -> "caller"
                         [] n = f /\ n # m -> "lost"
                         [] OTHER -> life[n]]
    /\ UNCHANGED <<clientVars, pendingMux, due, published, cur, cbs,
                   recvVars, pendVars>>

(* client->mux is taken but the client is stopped or stopping. *)
EnterRefused(t) ==
    /\ pc[t] = "enter" /\ CanLockClient(t)
    /\ ~Running
    /\ Fail(t, cur[t])
    /\ UNCHANGED <<clientMux, idVars, pending>>

(* client->mux is taken and the message gets the next identifier. *)
TakeId(t) ==
    /\ pc[t] = "enter" /\ CanLockClient(t)
    /\ Running
    /\ seqId' = NextId
    /\ clashed' = (clashed \/ Found(NextId))
    /\ sid' = [sid EXCEPT ![cur[t]] = NextId]

(* The payload is built, and the call goes on with client->mux held. *)
Enter(t) ==
    /\ TakeId(t)
    /\ clientMux' = t
    /\ pc' = [pc EXCEPT ![t] = "add"]
    /\ UNCHANGED <<clientVars, pendingMux, pending, due, published, cur,
                   life, cbs, result, evt, recvVars, pendVars>>

(* _tr50_build_payload fails: only an object message is printed. *)
EnterNoPayload(t) ==
    /\ TakeId(t)
    /\ cur[t] \notin Raw
    /\ Fail(t, cur[t])
    /\ UNCHANGED <<clientMux, pending>>

(* tr50_pending_add: from here a reply or the expiration can complete m. *)
Add(t) ==
    /\ pc[t] = "add" /\ CanLockPending(t)
    /\ pending' = Append(pending, cur[t])
    /\ pc' = [pc EXCEPT ![t] = "send"]
    /\ UNCHANGED <<clientVars, clientMux, pendingMux, idVars, due, published,
                   cur, life, cbs, result, evt, recvVars, pendVars>>

(* The identifier put in the topic.  An object call wrote the topic before *)
(* it added m; a raw call reads msg->seq_id now, from whatever the memory  *)
(* holds once m was completed and freed.                                   *)
TopicIds(m) ==
    IF m \in Raw /\ life[m] = "gone" THEN Ids ELSE {sid[m]}

(* mqtt_async_publish succeeds. *)
Send(t) ==
    /\ pc[t] = "send"
    /\ \E id \in TopicIds(cur[t]) : published' = published \cup {id}
    /\ pc' = [pc EXCEPT ![t] = "leave"]
    /\ UNCHANGED <<clientVars, clientMux, pendingMux, idVars, pending, due,
                   cur, life, cbs, result, evt, recvVars, pendVars>>

SendFailsReturns(t) ==
    /\ pc[t] = "send"
    /\ Fail(t, cur[t])
    /\ clientMux' = Nobody
    /\ UNCHANGED <<idVars, pending>>

(* mqtt_async_publish fails (not connected, a broken connection). *)
SendFails(t) ==
    /\ pc[t] = "send"
    /\ pc' = [pc EXCEPT ![t] = "undo"]
    /\ UNCHANGED <<clientVars, clientMux, pendingMux, idVars, pending, due,
                   published, cur, life, cbs, result, evt, recvVars, pendVars>>

(* _compress_deflate fails in a raw call: the message is deleted while it  *)
(* is still in the list, or was completed meanwhile and is deleted again.  *)
DeflateFailure(t) ==
    /\ DeflateFails
    /\ pc[t] = "send" /\ cur[t] \in Raw
    /\ pc' = [pc EXCEPT ![t] = "idle"]
    /\ result' = [result EXCEPT ![cur[t]] = "error"]
    /\ evt' = [evt EXCEPT ![cur[t]] = IF cur[t] \in Sync THEN "deleted" ELSE @]
    /\ life' = [life EXCEPT ![cur[t]] = "freed"]
    /\ clientMux' = Nobody
    /\ UNCHANGED <<clientVars, pendingMux, idVars, pending, due, published, cur,
                   cbs, recvVars, pendVars>>

UndoLeavesListed(t) ==
    /\ pc[t] = "undo" /\ CanLockPending(t)
    /\ \E i \in 1..Len(pending) :
         FoundAt(sid[cur[t]], i) /\ Fail(t, pending[i])
    /\ clientMux' = Nobody
    /\ UNCHANGED <<idVars, pending>>

UndoReturnsOk(t) ==
    /\ pc[t] = "undo" /\ CanLockPending(t)
    /\ \E i \in 1..Len(pending) :
         FoundAt(sid[cur[t]], i) /\ pending' = Without(pending, i)
    /\ pc' = [pc EXCEPT ![t] = "leave"]
    /\ UNCHANGED <<clientVars, clientMux, pendingMux, idVars, due, published,
                   cur, life, cbs, result, evt, recvVars, pendVars>>

(* After a failed publish the message is taken back, if it is still there. *)
Undo(t) ==
    /\ pc[t] = "undo" /\ CanLockPending(t)
    /\ \E i \in 1..Len(pending) :
         /\ FoundAt(sid[cur[t]], i)
         /\ pending' = Without(pending, i)
         /\ Fail(t, pending[i])
    /\ clientMux' = Nobody
    /\ UNCHANGED idVars

UndoExpiredFails(t) ==
    /\ pc[t] = "undo" /\ CanLockPending(t)
    /\ ~Found(sid[cur[t]])
    /\ Fail(t, cur[t])
    /\ clientMux' = Nobody
    /\ UNCHANGED <<idVars, pending>>

(* It expired meanwhile ("already expirated, return okay"). *)
UndoExpired(t) ==
    /\ pc[t] = "undo" /\ CanLockPending(t)
    /\ ~Found(sid[cur[t]])
    /\ pc' = [pc EXCEPT ![t] = "leave"]
    /\ UNCHANGED <<clientVars, clientMux, pendingMux, idVars, pending, due,
                   published, cur, life, cbs, result, evt, recvVars, pendVars>>

(* client->mux is released and the call returns 0; a synchronous call goes *)
(* on to wait for its event.                                               *)
Leave(t) ==
    /\ pc[t] = "leave"
    /\ clientMux' = Nobody
    /\ result' = [result EXCEPT ![cur[t]] = "ok"]
    /\ pc' = [pc EXCEPT ![t] = IF cur[t] \in Sync THEN "wait" ELSE "idle"]
    /\ UNCHANGED <<clientVars, pendingMux, idVars, pending, due, published,
                   cur, life, cbs, evt, recvVars, pendVars>>

WaitTimesOut(t) ==
    /\ pc[t] = "wait"
    /\ pc' = [pc EXCEPT ![t] = "idle"]
    /\ evt' = [evt EXCEPT ![cur[t]] = "deleted"]
    /\ UNCHANGED <<clientVars, clientMux, pendingMux, idVars, pending, due,
                   published, cur, life, cbs, result, recvVars, pendVars>>

(* _tr50_event_wait returns and the event is deleted. *)
WaitReturns(t) ==
    /\ pc[t] = "wait" /\ evt[cur[t]] = "set"
    /\ pc' = [pc EXCEPT ![t] = "idle"]
    /\ evt' = [evt EXCEPT ![cur[t]] = "deleted"]
    /\ UNCHANGED <<clientVars, clientMux, pendingMux, idVars, pending, due,
                   published, cur, life, cbs, result, recvVars, pendVars>>

-----------------------------------------------------------------------------
(* Completing a request. *)

RunCallbackNoSignal(m) ==
    /\ cbs' = [cbs EXCEPT ![m] = @ + 1]
    /\ UNCHANGED evt

(* The callback of m runs: that of a synchronous call signals the event. *)
RunCallback(m) ==
    /\ cbs' = [cbs EXCEPT ![m] = @ + 1]
    /\ evt' = [evt EXCEPT ![m] = IF m \in Sync THEN "set" ELSE @]

(* The callback that thread t is in makes an asynchronous call of its own. *)
CallbackCalls(t) ==
    /\ pc[t] = "idle"
    /\ \/ t = Recv /\ recvPc = "free" /\ recvMsg \in ReplyCalls
       \/ t = Pend /\ pendPc = "free" /\ pendMsg \in TimeoutCalls
    /\ \E m \in Msgs \ Sync : BeginCall(t, m)
    /\ UNCHANGED <<clientVars, clientMux, pendingMux, idVars, pending, due,
                   published, result, cbs, evt, recvVars, pendVars>>

(* The receive thread is in mqtt_recv.  It tests for DELETING only after   *)
(* it, so that a message may still come while mqtt_async_disconnect waits. *)
Receiving == recvPc = "idle" /\ mqtt \in {"live", "closing"}

(* Where the thread is when the handler has returned: in mqtt_recv again,  *)
(* or at its end.                                                          *)
HandlerReturns == recvPc' = IF mqtt = "live" THEN "idle" ELSE "ended"

RecvReplyKeeps ==
    /\ Receiving /\ CanLockPending(Recv)
    /\ \E id \in published : \E i \in 1..Len(pending) :
         FoundAt(id, i) /\ recvMsg' = pending[i]
    /\ recvPc' = "callback"
    /\ UNCHANGED <<clientVars, clientMux, pendingMux, idVars, pending, due,
                   published, callVars, life, cbs, evt, pendVars>>

(* A reply arrives and its request is taken out of the list.  A reply whose *)
(* request is not there is logged and changes nothing.                      *)
RecvReply ==
    /\ Receiving /\ CanLockPending(Recv)
    /\ \E id \in published : \E i \in 1..Len(pending) :
         /\ FoundAt(id, i)
         /\ pending' = Without(pending, i)
         /\ recvMsg' = pending[i]
    /\ recvPc' = "callback"
    /\ UNCHANGED <<clientVars, clientMux, pendingMux, idVars, due, published,
                   callVars, life, cbs, evt, pendVars>>

(* The callback gets the reply. *)
RecvCallback ==
    /\ recvPc = "callback"
    /\ RunCallback(recvMsg)
    /\ recvPc' = "free"
    /\ UNCHANGED <<clientVars, clientMux, pendingMux, idVars, pending, due,
                   published, callVars, life, recvMsg, pendVars>>

(* The payload is no JSON, or it is a request: the handler returns and     *)
(* nothing refers to the request any more.                                 *)
RecvBadReply ==
    /\ BadReplies
    /\ recvPc = "callback" /\ recvMsg \notin Raw
    /\ life' = [life EXCEPT ![recvMsg] = "lost"]
    /\ HandlerReturns /\ recvMsg' = NoMsg
    /\ UNCHANGED <<clientVars, clientMux, pendingMux, idVars, pending, due,
                   published, callVars, cbs, evt, pendVars>>

(* The request is deleted once the callback has returned. *)
RecvFree ==
    /\ recvPc = "free" /\ pc[Recv] = "idle"
    /\ life' = [life EXCEPT ![recvMsg] = "gone"]
    /\ HandlerReturns /\ recvMsg' = NoMsg
    /\ UNCHANGED <<clientVars, clientMux, pendingMux, idVars, pending, due,
                   published, callVars, cbs, evt, pendVars>>

(* Time passes the pending_expiration_timestamp of m. *)
Tick(m) ==
    /\ m \in Listed \ due
    /\ due' = due \cup {m}
    /\ UNCHANGED <<clientVars, clientMux, pendingMux, idVars, pending, published,
                   callVars, life, cbs, evt, recvVars, pendVars>>

PendLockNot ==
    /\ pendPc = "sleep"
    /\ pendPc' = "scan"
    /\ next' = ListHead
    /\ UNCHANGED <<clientVars, clientMux, pendingMux, idVars, pending, due,
                   published, callVars, life, cbs, evt, recvVars, pendMsg>>

(* The expiration thread takes pending->mux for a walk over the list. *)
PendLock ==
    /\ pendPc = "sleep" /\ CanLockPending(Pend)
    /\ pendingMux' = Pend
    /\ pendPc' = "scan"
    /\ next' = ListHead
    /\ UNCHANGED <<clientVars, clientMux, idVars, pending, due, published,
                   callVars, life, cbs, evt, recvVars, pendMsg>>

(* The message the walk is at is not due, and is passed. *)
PendKeep ==
    /\ pendPc = "scan" /\ next # NoMsg /\ next \notin due
    /\ \E i \in 1..Len(pending) : pending[i] = next /\ next' = NextOf(i)
    /\ UNCHANGED <<clientVars, clientMux, pendingMux, idVars, pending, due,
                   published, callVars, life, cbs, evt, recvVars, pendPc, pendMsg>>

(* It is due, and is unlinked; the walk goes on from the saved next. *)
PendExpire ==
    /\ pendPc = "scan" /\ next # NoMsg /\ next \in due
    /\ \E i \in 1..Len(pending) :
         /\ pending[i] = next
         /\ next' = NextOf(i)
         /\ pending' = Without(pending, i)
    /\ pendMsg' = next
    /\ pendPc' = "callback"
    /\ UNCHANGED <<clientVars, clientMux, pendingMux, idVars, due, published,
                   callVars, life, cbs, evt, recvVars>>

(* Its callback gets ERR_TR50_REQ_TIMEOUT, with pending->mux held. *)
PendCallback ==
    /\ pendPc = "callback"
    /\ RunCallback(pendMsg)
    /\ pendPc' = "free"
    /\ UNCHANGED <<clientVars, clientMux, pendingMux, idVars, pending, due,
                   published, callVars, life, recvVars, pendMsg, next>>

PendFree ==
    /\ pendPc = "free" /\ pc[Pend] = "idle"
    /\ life' = [life EXCEPT ![pendMsg] = "gone"]
    /\ pendPc' = "scan" /\ pendMsg' = NoMsg
    /\ UNCHANGED <<clientVars, clientMux, pendingMux, idVars, pending, due,
                   published, callVars, cbs, evt, recvVars, next>>

(* The end of the list: pending->mux is released and the thread sleeps. *)
PendUnlock ==
    /\ pendPc = "scan" /\ next = NoMsg
    /\ pendingMux' = Nobody
    /\ pendPc' = "sleep"
    /\ UNCHANGED <<clientVars, clientMux, idVars, pending, due, published,
                   callVars, life, cbs, evt, recvVars, pendMsg, next>>

-----------------------------------------------------------------------------
(* Starting and stopping the client, by an application thread. *)

otherVars == <<pendingMux, idVars, pending, due, published, cur, life, cbs,
               result, evt, recvVars, pendVars>>

(* tr50_start2: the connection is made with client->mux held. *)
Start(t) ==
    /\ t \in Apps /\ pc[t] = "idle" /\ CanLockClient(t)
    /\ ~started
    /\ started' = TRUE /\ mqtt' = "live"
    /\ UNCHANGED <<otherVars, pc, stopping, clientMux>>

StopBeginHolds(t) ==
    /\ t \in Apps /\ pc[t] = "idle" /\ CanLockClient(t)
    /\ Running
    /\ stopping' = TRUE
    /\ clientMux' = t
    /\ pc' = [pc EXCEPT ![t] = "disconnect"]
    /\ UNCHANGED <<otherVars, started, mqtt>>

(* tr50_stop marks the client and releases client->mux. *)
StopBegin(t) ==
    /\ t \in Apps /\ pc[t] = "idle" /\ CanLockClient(t)
    /\ Running
    /\ stopping' = TRUE
    /\ pc' = [pc EXCEPT ![t] = "disconnect"]
    /\ UNCHANGED <<otherVars, started, mqtt, clientMux>>

(* mqtt_async_disconnect tells the receive thread to return ... *)
StopDisconnect(t) ==
    /\ pc[t] = "disconnect"
    /\ mqtt' = "closing"
    /\ pc' = [pc EXCEPT ![t] = "join"]
    /\ UNCHANGED <<otherVars, started, stopping, clientMux>>

(* ... waits until it has, and frees the connection. *)
StopJoin(t) ==
    /\ pc[t] = "join" /\ recvPc \in {"idle", "ended"}
    /\ mqtt' = "freed"
    /\ recvPc' = "idle"
    /\ pc' = [pc EXCEPT ![t] = "stopped"]
    /\ UNCHANGED <<pendingMux, idVars, pending, due, published, cur, life, cbs,
                   result, evt, recvMsg, pendVars, started, stopping, clientMux>>

(* client->mux is taken again and the client is stopped. *)
StopEnd(t) ==
    /\ pc[t] = "stopped" /\ CanLockClient(t)
    /\ clientMux' = Nobody
    /\ mqtt' = "none" /\ started' = FALSE /\ stopping' = FALSE
    /\ pc' = [pc EXCEPT ![t] = "idle"]
    /\ UNCHANGED otherVars

-----------------------------------------------------------------------------
CallStep(t) ==
    \/ EnterRefused(t) \/ Enter(t) \/ EnterNoPayload(t)
    \/ Add(t)
    \/ Send(t) \/ SendFails(t) \/ DeflateFailure(t)
    \/ Undo(t) \/ UndoExpired(t)
    \/ Leave(t) \/ WaitReturns(t)

RecvStep == RecvReply \/ RecvCallback \/ RecvBadReply \/ RecvFree

PendStep ==
    \/ PendLock \/ PendKeep \/ PendExpire
    \/ PendCallback \/ PendFree \/ PendUnlock

StopStep(t) == StopDisconnect(t) \/ StopJoin(t) \/ StopEnd(t)

Step ==
    \/ \E t \in Apps, m \in Msgs : Call(t, m)
    \/ \E t \in Threads : CallbackCalls(t) \/ CallStep(t)
    \/ \E t \in Apps : Start(t) \/ StopBegin(t) \/ StopStep(t)
    \/ \E m \in Msgs : Tick(m)
    \/ RecvStep
    \/ PendStep

Next ==
    \/ Intact /\ Step
    \/ ~Intact /\ UNCHANGED vars

Spec == Init /\ [][Next]_vars

(***************************************************************************)
(* Fairness.  The operating system runs every thread that can run (WF).  A *)
(* thread waiting for a mutex that is released again and again gets it in  *)
(* the end (SF): the expiration thread sleeps a second between two walks,  *)
(* and a start, a stop or a call holds client->mux for a bounded time.     *)
(* Time passes.  Nothing is assumed of the answers of the server, nor that *)
(* an application ever calls.  StopJoin assumes that mqtt_recv returns, as *)
(* it does unless the server stalls in the middle of a packet (MqttAsync). *)
(***************************************************************************)

(* Steps that need a mutex another thread may have, and steps that do not. *)
LockingStep(t) ==
    \/ EnterRefused(t) \/ Enter(t) \/ EnterNoPayload(t)
    \/ Add(t) \/ Undo(t) \/ UndoExpired(t)
    \/ t \in Apps /\ StopEnd(t)

FreeStep(t) ==
    \/ Send(t) \/ SendFails(t) \/ DeflateFailure(t)
    \/ Leave(t) \/ WaitReturns(t)
    \/ t \in Apps /\ (StopDisconnect(t) \/ StopJoin(t))

Fairness ==
    /\ \A t \in Threads : /\ SF_vars(Intact /\ LockingStep(t))
                          /\ WF_vars(Intact /\ FreeStep(t))
    /\ WF_vars(Intact /\ (RecvCallback \/ RecvBadReply \/ RecvFree))
    /\ WF_vars(Intact /\ PendStep)
    /\ WF_vars(Intact /\ \E m \in Msgs : Tick(m))

FairSpec == Spec /\ Fairness
-----------------------------------------------------------------------------
(* Properties. *)

TypeOK ==
    /\ started \in BOOLEAN /\ stopping \in BOOLEAN
    /\ mqtt \in {"none", "live", "closing", "freed"}
    /\ clientMux \in Threads \cup {Nobody}
    /\ pendingMux \in {Pend, Nobody}
    /\ seqId \in 0..MaxId /\ clashed \in BOOLEAN
    /\ pending \in Seq(Msgs)
    /\ due \subseteq Msgs /\ published \subseteq Ids
    /\ pc \in [Threads -> {"idle", "enter", "add", "send", "undo", "leave",
                           "wait", "disconnect", "join", "stopped"}]
    /\ cur \in [Threads -> Msgs \cup {NoMsg}]
    /\ life \in [Msgs -> {"new", "lib", "caller", "lost", "gone",
                             "freed"}]
    /\ sid \in [Msgs -> 0..MaxId]
    /\ cbs \in [Msgs -> Nat]
    /\ result \in [Msgs -> {"none", "ok", "error"}]
    /\ evt \in [Msgs -> {"none", "armed", "set", "deleted"}]
    /\ recvPc \in {"idle", "callback", "free", "ended"}
    /\ recvMsg \in Msgs \cup {NoMsg}
    /\ pendPc \in {"sleep", "scan", "callback", "free"}
    /\ pendMsg \in Msgs \cup {NoMsg} /\ next \in Msgs \cup {NoMsg}

(* A reply, the expiration and a failed publish race for a request, and    *)
(* find_and_remove gives it to one of them: its callback runs at most once. *)
CompletedOnce == \A m \in Msgs : cbs[m] <= 1

(* A message is freed only when nothing in the library refers to it: the   *)
(* list and the two threads that complete requests hold live messages, and *)
(* no message is held twice.                                               *)
HeldOnce ==
    ~clashed =>
      /\ \A i, j \in 1..Len(pending) : pending[i] = pending[j] => i = j
      /\ \A m \in Msgs :
           /\ m \in Listed => /\ life[m] = "lib"
                           /\ m # recvMsg /\ m # pendMsg
           /\ m \in {recvMsg, pendMsg} => life[m] = "lib" /\ result[m] # "error"
      /\ recvMsg = pendMsg => recvMsg = NoMsg

(* A call that returned an error leaves the caller its message: the        *)
(* callback never runs, and the message is not in the list, so that the    *)
(* caller may delete it.                                                   *)
RefusedIsCallers ==
    \A m \in Msgs : result[m] = "error" /\ ~clashed => cbs[m] = 0 /\ m \notin Listed

(* The message the walk saved before a callback is still in the list after *)
(* it, though other calls add and take back messages meanwhile.            *)
CursorLive ==
    ~clashed /\ pendPc # "sleep" => next = NoMsg \/ next \in Listed

(* The callback of a synchronous call finds the event of a caller that has *)
(* not returned: the event is on the stack of tr50_api_call_sync.          *)
EventAlive ==
    /\ recvPc = "callback" /\ recvMsg \in Sync /\ ~clashed => evt[recvMsg] = "armed"
    /\ pendPc = "callback" /\ pendMsg \in Sync /\ ~clashed => evt[pendMsg] = "armed"

(* tr50_stop releases client->mux while it disconnects: no call is inside  *)
(* mqtt_async_publish when the connection is told to end and is freed.     *)
SendOnLive ==
    \A t \in Threads : pc[t] \in {"add", "send", "undo"} => mqtt = "live"

(* The callback of a publish may take client->mux (tr50.c, in tr50_stop):  *)
(* no thread that runs a callback waits for client->mux while its owner    *)
(* waits for the thread.                                                   *)
NoLockCycle ==
    ~ /\ pendingMux = Pend /\ pc[Pend] = "enter"
      /\ clientMux \in Threads \ {Pend}
      /\ pc[clientMux] \in {"add", "undo"}

(* "if compression failed, send without compression": such a failure does  *)
(* not end a call that has put its message in the list.                    *)
DeflateFailureSends ==
    [][\A t \in Threads : pc[t] = "send" => pc'[t] \in {"send", "leave", "undo"}]_pc

(* tr50_api_call_sync and tr50_api_raw_sync return: "the message will      *)
(* expire".  (Unless a failing compression has damaged the list.)          *)
SyncReturns == \A t \in Threads : pc[t] = "wait" ~> pc[t] = "idle" \/ ~Intact

(* A call that returned 0 is completed, by its reply or by its expiration. *)
(* (Unless the list is damaged.)                                           *)
Completes == \A m \in Msgs : result[m] = "ok" ~> cbs[m] = 1 \/ ~Intact

(* tr50_stop returns, also when a reply still comes and its callback makes *)
(* calls while it waits.  (Unless the list is damaged.)                    *)
StopReturns == \A t \in Apps : pc[t] = "disconnect" ~> pc[t] = "idle" \/ ~Intact

(* The engine implements Tr50Requests.  A message left to nobody is        *)
(* dropped.  Once an identifier was given out twice nothing is promised.   *)
StatusOf(m) ==
    IF cbs[m] > 0 THEN "done"
    ELSE IF result[m] = "error" THEN "refused"
    ELSE IF life[m] = "lost" THEN "dropped"
    ELSE IF life[m] = "new" THEN "idle"
    ELSE "open"

Requests == INSTANCE Tr50Requests WITH
                status    <- [m \in Msgs |-> StatusOf(m)],
                callbacks <- cbs

ImplementsRequests ==
    Requests!Init /\ [][Requests!Next \/ clashed']_(Requests!vars)
=============================================================================
