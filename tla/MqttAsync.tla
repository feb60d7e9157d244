----------------------------- MODULE MqttAsync -----------------------------
(***************************************************************************)
(* The MQTT connection of a client, mqtt.async.c: the states of the        *)
(* connection, the thread "TR50:Recv" that receives, detects errors, keeps *)
(* the connection alive and reconnects, the calls of other threads that    *)
(* send, and mqtt_async_disconnect.                                        *)
(*                                                                         *)
(* client->mux (mux) is recursive; the receive thread reads client->state  *)
(* without it and takes it to change the state.  One step is the code      *)
(* between two points where another thread can act.                        *)
(*                                                                         *)
(* mqtt_send returns 0 whatever _tcp_send returned, so that a call that    *)
(* sends fails only when its message cannot be allocated (AllocFails).     *)
(* A packet arrives whole, or the receive thread is caught in the middle   *)
(* of it by a wait without a limit (hpc = "midway").                       *)
(*                                                                         *)
(* RegisterUnlocked, DisconnectHolds, LoopTestNoClear, BreakUnchecked,     *)
(* AckBreakStays and KeepalivePingUncounted are not part of Next: they are *)
(* plausible mistakes, each in place of the definition after it, that the  *)
(* properties at the end of the module rule out.                           *)
(***************************************************************************)
EXTENDS MqttQos

CONSTANTS
    Users,      \* the threads that publish, subscribe and disconnect
    Handler,    \* the thread "TR50:Recv"
    Nobody,     \* no thread: the owner of a free mutex
    NoCall,     \* no call
    Keepalive,  \* whether a keepalive time is configured
    Refused,    \* subscriptions that the server answers with a failure
    AllocFails  \* the allocation of a message may fail

Threads == Users \cup {Handler}

ASSUME AsyncAssumption ==
    /\ Handler \notin Users /\ Nobody \notin Threads
    /\ NoCall \notin Calls /\ Free \notin Record
    /\ Refused \subseteq Calls
    /\ Keepalive \in BOOLEAN /\ AllocFails \in BOOLEAN

VARIABLES
    state,      \* client->state
    conn,       \* client->mqtt is a connection
    mux,        \* the owner of client->mux
    seq,        \* client->msg_id_seq as an unsigned short
    pings,      \* client->outstanding_ping
    hpc,        \* where the receive thread is
    hnext,      \* where it goes after mqtt_qos_clear
    hslot,      \* the last record mqtt_qos_clear has looked at
    upc,        \* where each thread is in a call
    ucall,      \* the call it is in
    usent,      \* the identifier of that call
    result,     \* what each call returned
    outcome,    \* the status its callback got, "none" before it ran
    cbs,        \* how many times its callback ran
    link,       \* the network: "up", "silent" (nothing arrives), "closed"
    wire,       \* what was sent on this connection and not answered: the calls
                \* and their identifiers
    acked,      \* calls the server has acknowledged
    unanswered, \* pings sent on this connection and not answered, up to 2
    quiet,      \* nothing was received for almost the keepalive time
    clashed     \* an identifier was given out while a record had it (history)

netVars     == <<link, wire, acked, unanswered, quiet>>
handlerVars == <<hpc, hnext, hslot>>
callVars    == <<upc, ucall, usent, result>>
doneVars    == <<outcome, cbs>>
vars == <<qosVars, state, conn, mux, seq, pings, handlerVars, callVars, doneVars,
          netVars, clashed>>

CanLock(t) == mux \in {Nobody, t}

Connected == state = "connected"

(* A connection was made: nothing is under way on it. *)
FreshLink ==
    /\ link' = "up" /\ wire' = {} /\ unanswered' = 0 /\ quiet' = FALSE
    /\ UNCHANGED acked

(* mqtt_async_connect: the receive thread starts whether or not the first  *)
(* connection was made.                                                    *)
Init ==
    /\ QosInit
    /\ conn \in BOOLEAN
    /\ state = IF conn THEN "connected" ELSE "broken"
    /\ mux = Nobody /\ seq = 0 /\ pings = 0
    /\ hpc = "loop" /\ hnext = "keepalive" /\ hslot = 0
    /\ upc = [t \in Threads |-> "idle"]
    /\ ucall = [t \in Threads |-> NoCall] /\ usent = [t \in Threads |-> 0]
    /\ result = [c \in Calls |-> "none"]
    /\ outcome = [c \in Calls |-> "none"]
    /\ cbs = [c \in Calls |-> 0]
    /\ link = "up" /\ wire = {} /\ acked = {} /\ unanswered = 0 /\ quiet = FALSE
    /\ clashed = FALSE

-----------------------------------------------------------------------------
(* Calls that send: mqtt_async_publish_qos1, mqtt_async_subscribe and      *)
(* mqtt_async_unsubscribe.  The receive thread makes them in a callback.   *)

(* tr50_mqtt_subscribe, tr50_mqtt_unsubscribe and tr50_mqtt_publish_base   *)
(* do not go on to a client that was stopped, and is freed.  One that is   *)
(* stopping refuses here and there.                                        *)
Callable == state # "deleted"

InApi(t) ==
    /\ upc[t] = "idle"
    /\ t = Handler => hpc \in {"callback", "clearcallback"}

(* client->mux is taken; there is no connection to send on. *)
NotConnected(t, c) ==
    /\ InApi(t) /\ result[c] = "none" /\ CanLock(t) /\ Callable
    /\ ~(Connected /\ conn)
    /\ result' = [result EXCEPT ![c] = "error"]
    /\ UNCHANGED <<qosVars, state, conn, mux, seq, pings, handlerVars, upc, ucall, usent,
                   doneVars, netVars, clashed>>

(* client->check_thread_id is set while a thread is in the callback of a   *)
(* change of state: calls of the receive thread are refused then.          *)
SameThread(t, c) ==
    /\ t = Handler /\ InApi(t) /\ result[c] = "none" /\ Callable
    /\ result' = [result EXCEPT ![c] = "error"]
    /\ UNCHANGED <<qosVars, state, conn, mux, seq, pings, handlerVars, upc, ucall, usent,
                   doneVars, netVars, clashed>>

(* The next identifier, taken by every message that is sent. *)
TakeMsgId ==
    /\ seq' = (seq + 1) % IdSpace
    /\ clashed' = (clashed \/ \E i \in Used : records[i].id = seq)

(* Every record is in use. *)
TableFull(t, c) ==
    /\ InApi(t) /\ result[c] = "none" /\ CanLock(t) /\ Connected /\ conn
    /\ Full
    /\ seq' = (seq + 1) % IdSpace
    /\ result' = [result EXCEPT ![c] = "error"]
    /\ UNCHANGED <<qosVars, state, conn, mux, pings, handlerVars, upc, ucall, usent,
                   doneVars, netVars, clashed>>

RegisterUnlocked(t, c) ==
    /\ InApi(t) /\ result[c] = "none" /\ CanLock(t) /\ Connected /\ conn
    /\ TakeMsgId
    /\ QosAdd(c, seq)
    /\ upc' = [upc EXCEPT ![t] = "send"] /\ ucall' = [ucall EXCEPT ![t] = c]
    /\ usent' = [usent EXCEPT ![t] = seq]
    /\ result' = [result EXCEPT ![c] = "sending"]
    /\ UNCHANGED <<state, conn, mux, pings, handlerVars, doneVars, netVars>>

(* The call waits for its acknowledgement before it is sent. *)
Register(t, c) ==
    /\ InApi(t) /\ result[c] = "none" /\ CanLock(t) /\ Connected /\ conn
    /\ TakeMsgId
    /\ QosAdd(c, seq)
    /\ mux' = t
    /\ upc' = [upc EXCEPT ![t] = "send"] /\ ucall' = [ucall EXCEPT ![t] = c]
    /\ usent' = [usent EXCEPT ![t] = seq]
    /\ result' = [result EXCEPT ![c] = "sending"]
    /\ UNCHANGED <<state, conn, pings, handlerVars, doneVars, netVars>>

(* mqtt_publish, mqtt_subscribe, mqtt_unsubscribe: the bytes reach the     *)
(* server if the connection still works.                                   *)
SendCall(t) ==
    /\ upc[t] = "send"
    /\ \/ /\ link = "up"
          /\ wire' = wire \cup {[call |-> ucall[t], id |-> usent[t]]}
       \/ link # "up" /\ UNCHANGED wire
    /\ result' = [result EXCEPT ![ucall[t]] = "ok"]
    /\ upc' = [upc EXCEPT ![t] = "idle"] /\ mux' = Nobody
    /\ ucall' = [ucall EXCEPT ![t] = NoCall] /\ usent' = [usent EXCEPT ![t] = 0]
    /\ UNCHANGED <<qosVars, state, conn, seq, pings, handlerVars,
                   doneVars, link, acked, unanswered, quiet, clashed>>

(* The message cannot be built; its record stays. *)
SendCallFails(t) ==
    /\ AllocFails
    /\ upc[t] = "send"
    /\ state' = "broken"
    /\ result' = [result EXCEPT ![ucall[t]] = "error"]
    /\ upc' = [upc EXCEPT ![t] = "idle"] /\ mux' = Nobody
    /\ ucall' = [ucall EXCEPT ![t] = NoCall] /\ usent' = [usent EXCEPT ![t] = 0]
    /\ UNCHANGED <<qosVars, conn, seq, pings, handlerVars, doneVars, netVars,
                   clashed>>

(* mqtt_async_publish: no acknowledgement, but an identifier is used up. *)
PublishQos0(t) ==
    /\ t \in Users /\ upc[t] = "idle" /\ CanLock(t) /\ Connected /\ conn
    /\ seq' = (seq + 1) % IdSpace
    /\ UNCHANGED <<qosVars, state, conn, mux, pings, handlerVars, callVars, doneVars,
                   netVars, clashed>>

(* Its message cannot be built. *)
PublishQos0Fails(t) ==
    /\ AllocFails
    /\ t \in Users /\ upc[t] = "idle" /\ CanLock(t) /\ Connected /\ conn
    /\ seq' = (seq + 1) % IdSpace
    /\ state' = "broken"
    /\ UNCHANGED <<qosVars, conn, mux, pings, handlerVars, callVars, doneVars,
                   netVars, clashed>>

-----------------------------------------------------------------------------
(* mqtt_async_disconnect. *)

DisconnectHolds(t) ==
    /\ t \in Users /\ upc[t] = "idle" /\ CanLock(t)
    /\ state \notin {"deleting", "deleted"}
    /\ state' = "deleting"
    /\ upc' = [upc EXCEPT ![t] = "join"]
    /\ mux' = t
    /\ UNCHANGED <<qosVars, conn, seq, pings, handlerVars, ucall, usent, result,
                   doneVars, netVars, clashed>>

(* The state tells the receive thread to return. *)
Disconnect(t) ==
    /\ t \in Users /\ upc[t] = "idle" /\ CanLock(t)
    /\ state \notin {"deleting", "deleted"}
    /\ state' = "deleting"
    /\ upc' = [upc EXCEPT ![t] = "join"]
    /\ UNCHANGED <<qosVars, conn, mux, seq, pings, handlerVars, ucall, usent, result,
                   doneVars, netVars, clashed>>

(* Once it has, the connection is closed. *)
Join(t) ==
    /\ upc[t] = "join" /\ hpc = "done"
    /\ state' = "deleted" /\ conn' = FALSE
    /\ upc' = [upc EXCEPT ![t] = "idle"]
    /\ UNCHANGED <<qosVars, mux, seq, pings, handlerVars, ucall, usent, result, doneVars,
                   netVars, clashed>>

-----------------------------------------------------------------------------
(* The receive thread: _mqtt_async_handler. *)

(* What a step of the thread always leaves alone, and most steps do. *)
callsKept == <<seq, callVars, clashed>>
linkKept  == <<state, conn, mux, pings, netVars>>

Goto(p) == hpc' = p /\ UNCHANGED <<hnext, hslot>>

LoopTestNoClear ==
    /\ hpc = "loop"
    /\ \/ state = "deleting" /\ Goto("done")
       \/ Connected /\ Goto("recv")
       \/ state \notin {"deleting", "connected"} /\ Goto("check")
    /\ UNCHANGED <<callsKept, linkKept, qosVars, doneVars>>

(* The head of the loop. *)
LoopTest ==
    /\ hpc = "loop"
    /\ \/ state = "deleting" /\ Goto("exit")
       \/ Connected /\ Goto("recv")
       \/ state \notin {"deleting", "connected"} /\ Goto("check")
    /\ UNCHANGED <<callsKept, linkKept, qosVars, doneVars>>

(* The callback of call c gets status s. *)
RunCallback(c, s) ==
    /\ outcome' = [outcome EXCEPT ![c] = s]
    /\ cbs' = [cbs EXCEPT ![c] = @ + 1]

(* The thread is in mqtt_recv. *)
Receiving == hpc \in {"recv", "midway"}

(* A packet has begun to arrive, and the time that remains for it is 0:    *)
(* _tcp_recv does not call select then, and recv waits until the rest      *)
(* comes, the connection is closed, or for ever.                           *)
RecvMidway ==
    /\ hpc = "recv" /\ link # "closed"
    /\ Goto("midway")
    /\ UNCHANGED <<callsKept, linkKept, qosVars, doneVars>>

(* mqtt_recv returns an acknowledgement, and mqtt_qos_signal releases the  *)
(* first record with its identifier.                                       *)
RecvAck ==
    /\ Receiving /\ link = "up"
    /\ \E w \in wire :
         /\ w.call \notin Refused
         /\ wire' = wire \ {w} /\ acked' = acked \cup {w.call}
         /\ \/ \E i \in Slots :
                 /\ Lowest(Waiting(w.id), i)
                 /\ QosRelease(i)
                 /\ RunCallback(records[i].call, "acked")
                 /\ Goto("callback")
            \/ /\ Waiting(w.id) = {}
               /\ Goto("check")
               /\ UNCHANGED <<qosVars, doneVars>>
    /\ quiet' = FALSE
    /\ UNCHANGED <<callsKept, state, conn, mux, pings, link, unanswered>>

(* The server refuses a subscription: mqtt_msg_process_suback fails, and   *)
(* the record stays.                                                       *)
RecvRefusal ==
    /\ Receiving /\ link = "up"
    /\ \E w \in wire : w.call \in Refused /\ wire' = wire \ {w}
    /\ quiet' = FALSE
    /\ Goto("check")
    /\ UNCHANGED <<callsKept, qosVars, doneVars, state, conn, mux, pings, link,
                   acked, unanswered>>

RecvPingResp ==
    /\ Receiving /\ link = "up" /\ unanswered > 0
    /\ unanswered' = unanswered - 1 /\ pings' = 0 /\ quiet' = FALSE
    /\ Goto("check")
    /\ UNCHANGED <<callsKept, qosVars, doneVars, state, conn, mux, link, wire, acked>>

(* A message arrives; one with a quality of service is acknowledged with   *)
(* client->mux held, before publish_callback runs.                         *)
RecvPublish ==
    /\ Receiving /\ link = "up"
    /\ quiet' = FALSE
    /\ \E qos \in 0..1 : Goto(IF qos > 0 THEN "puback" ELSE "callback")
    /\ UNCHANGED <<callsKept, qosVars, doneVars, state, conn, mux, pings, link, wire,
                   acked, unanswered>>

PubAck ==
    /\ hpc = "puback" /\ CanLock(Handler)
    /\ Goto("callback")
    /\ UNCHANGED <<callsKept, linkKept, qosVars, doneVars>>

(* Nothing arrives for timeout_in_ms, or no more while time remains. *)
RecvTimeout ==
    /\ hpc = "recv"
    /\ Goto("check")
    /\ UNCHANGED <<callsKept, linkKept, qosVars, doneVars>>

(* The connection was closed, or what arrived is no packet. *)
RecvFails ==
    /\ Receiving /\ link # "silent"
    /\ Goto("recvbreak")
    /\ UNCHANGED <<callsKept, linkKept, qosVars, doneVars>>

(* The callback returns. *)
CallbackReturns ==
    /\ hpc = "callback" /\ upc[Handler] = "idle"
    /\ Goto("check")
    /\ UNCHANGED <<callsKept, linkKept, qosVars, doneVars>>

BreakUnchecked ==
    /\ CanLock(Handler)
    /\ state' = "broken"

(* With client->mux held, a connected client becomes broken. *)
Break ==
    /\ CanLock(Handler)
    /\ state' = IF Connected THEN "broken" ELSE state

RecvBreak ==
    /\ hpc = "recvbreak"
    /\ Break
    /\ Goto("check")
    /\ UNCHANGED <<callsKept, qosVars, doneVars, conn, mux, pings, netVars>>

(* mqtt_qos_any_expired. *)
Check ==
    /\ hpc = "check"
    /\ Goto(IF AnyExpired THEN "ackbreak" ELSE "keepalive")
    /\ UNCHANGED <<callsKept, linkKept, qosVars, doneVars>>

AckBreakStays ==
    /\ hpc = "ackbreak" /\ CanLock(Handler)
    /\ hpc' = "clear" /\ hnext' = "keepalive" /\ hslot' = 0
    /\ UNCHANGED <<callsKept, linkKept, qosVars, doneVars>>

(* An acknowledgement is missing: the connection is broken, and then       *)
(* mqtt_qos_clear gives up every record.                                   *)
AckBreak ==
    /\ hpc = "ackbreak"
    /\ Break
    /\ hpc' = "clear" /\ hnext' = "keepalive" /\ hslot' = 0
    /\ UNCHANGED <<callsKept, qosVars, doneVars, conn, mux, pings, netVars>>

(* The same when the thread is about to return. *)
Exit ==
    /\ hpc = "exit"
    /\ hpc' = "clear" /\ hnext' = "done" /\ hslot' = 0
    /\ UNCHANGED <<callsKept, linkKept, qosVars, doneVars>>

(* mqtt_qos_clear goes over the table once; between two records its        *)
(* callback runs without any mutex.                                        *)
Ahead == {i \in Used : i > hslot}

ClearRecord ==
    /\ hpc = "clear" /\ size # 0
    /\ \E i \in Slots :
         /\ Lowest(Ahead, i)
         /\ QosRelease(i)
         /\ hslot' = i
         /\ RunCallback(records[i].call, "failed")
    /\ hpc' = "clearcallback" /\ UNCHANGED hnext
    /\ UNCHANGED <<callsKept, linkKept>>

ClearReturns ==
    /\ hpc = "clearcallback" /\ upc[Handler] = "idle"
    /\ Goto("clear")
    /\ UNCHANGED <<callsKept, linkKept, qosVars, doneVars>>

ClearEnd ==
    /\ hpc = "clear" /\ Ahead = {}
    /\ hpc' = hnext /\ hnext' = "keepalive" /\ hslot' = 0
    /\ UNCHANGED <<callsKept, linkKept, qosVars, doneVars>>

(* _mqtt_async_handler_keepalive: nothing to do. *)
KeepaliveIdle ==
    /\ hpc = "keepalive"
    /\ ~Connected \/ ~Keepalive \/ (pings <= 1 /\ ~quiet)
    /\ Goto("reconnect")
    /\ UNCHANGED <<callsKept, linkKept, qosVars, doneVars>>

KeepalivePingUncounted ==
    /\ hpc = "keepalive" /\ Connected /\ Keepalive /\ pings <= 1 /\ quiet
    /\ unanswered' = IF unanswered < 2 THEN unanswered + 1 ELSE 2
    /\ Goto("reconnect")
    /\ UNCHANGED <<callsKept, qosVars, doneVars, state, conn, mux, pings, link, wire,
                   acked, quiet>>

(* A ping is sent. *)
KeepalivePing ==
    /\ hpc = "keepalive" /\ Connected /\ Keepalive /\ pings <= 1 /\ quiet
    /\ pings' = pings + 1
    /\ unanswered' = IF unanswered < 2 THEN unanswered + 1 ELSE 2
    /\ Goto("reconnect")
    /\ UNCHANGED <<callsKept, qosVars, doneVars, state, conn, mux, link, wire, acked,
                   quiet>>

(* The ping cannot be built. *)
KeepalivePingFails ==
    /\ AllocFails
    /\ hpc = "keepalive" /\ Connected /\ Keepalive /\ pings <= 1 /\ quiet
    /\ Break
    /\ Goto("reconnect")
    /\ UNCHANGED <<callsKept, qosVars, doneVars, conn, mux, pings, netVars>>

(* Two pings are outstanding: the connection is given up. *)
Heartbeat ==
    /\ hpc = "keepalive" /\ Connected /\ Keepalive /\ pings > 1
    /\ Goto("heartbeat")
    /\ UNCHANGED <<callsKept, linkKept, qosVars, doneVars>>

HeartbeatBreak ==
    /\ hpc = "heartbeat"
    /\ Break
    /\ pings' = 0
    /\ Goto("reconnect")
    /\ UNCHANGED <<callsKept, qosVars, doneVars, conn, mux, netVars>>

(* _mqtt_async_handler_reconnect: the client is not broken (any more). *)
ReconnectNot ==
    /\ hpc = "reconnect" /\ state # "broken"
    /\ Goto("loop")
    /\ UNCHANGED <<callsKept, linkKept, qosVars, doneVars>>

(* With client->mux held the old connection is closed ... *)
Reconnect ==
    /\ hpc = "reconnect" /\ state = "broken" /\ CanLock(Handler)
    /\ mux' = Handler
    /\ state' = "reconnecting" /\ conn' = FALSE
    /\ Goto("connect")
    /\ UNCHANGED <<callsKept, qosVars, doneVars, pings, netVars>>

(* ... and a new one made, *)
Reconnected ==
    /\ hpc = "connect"
    /\ state' = "connected" /\ conn' = TRUE
    /\ FreshLink
    /\ mux' = Nobody
    /\ Goto("loop")
    /\ UNCHANGED <<callsKept, qosVars, doneVars, pings>>

(* or not: the thread waits until the application wants to try again. *)
ReconnectFails ==
    /\ hpc = "connect"
    /\ state' = "broken"
    /\ mux' = Nobody
    /\ Goto("backoff")
    /\ UNCHANGED <<callsKept, qosVars, doneVars, conn, pings, netVars>>

Backoff ==
    /\ hpc = "backoff"
    /\ Goto("reconnect")
    /\ UNCHANGED <<callsKept, linkKept, qosVars, doneVars>>

-----------------------------------------------------------------------------
(* The world: the network and the clocks. *)

worldKept == <<state, conn, mux, pings, handlerVars, callVars, doneVars, seq, clashed>>

LinkBreaks(l) ==
    /\ conn /\ link = "up"
    /\ link' = l
    /\ UNCHANGED <<worldKept, qosVars, wire, acked, unanswered, quiet>>

TimePasses ==
    /\ Keepalive /\ Connected /\ ~quiet
    /\ quiet' = TRUE
    /\ UNCHANGED <<worldKept, qosVars, link, wire, acked, unanswered>>

AckTimeout(i) == QosTick(i) /\ UNCHANGED <<worldKept, netVars>>

-----------------------------------------------------------------------------
CallStep(t) == SendCall(t) \/ SendCallFails(t)

HandlerStep ==
    \/ LoopTest
    \/ RecvAck \/ RecvRefusal \/ RecvPingResp \/ RecvPublish \/ RecvTimeout
    \/ RecvMidway \/ RecvFails \/ RecvBreak
    \/ PubAck \/ CallbackReturns
    \/ Check \/ AckBreak \/ Exit
    \/ ClearRecord \/ ClearReturns \/ ClearEnd
    \/ KeepaliveIdle \/ KeepalivePing \/ KeepalivePingFails
    \/ Heartbeat \/ HeartbeatBreak
    \/ ReconnectNot \/ Reconnect \/ Reconnected \/ ReconnectFails \/ Backoff

Next ==
    \/ \E t \in Threads, c \in Calls :
         \/ NotConnected(t, c) \/ SameThread(t, c)
         \/ TableFull(t, c) \/ Register(t, c)
    \/ \E t \in Threads : CallStep(t)
    \/ \E t \in Users : \/ PublishQos0(t) \/ PublishQos0Fails(t)
                        \/ Disconnect(t) \/ Join(t)
    \/ HandlerStep
    \/ \E l \in {"silent", "closed"} : LinkBreaks(l)
    \/ TimePasses
    \/ \E i \in Slots : AckTimeout(i)

Spec == Init /\ [][Next]_vars

(***************************************************************************)
(* Fairness.  Every thread that can run does (WF): the receive thread waits *)
(* for client->mux only while another thread sends, which is done for each *)
(* call once.  In the middle of a packet it waits for the network, which   *)
(* owes it nothing.  Time passes.  Nothing is assumed of the server, nor   *)
(* that a reconnection succeeds.                                           *)
(***************************************************************************)
Fairness ==
    /\ \A t \in Threads : WF_vars(CallStep(t))
    /\ \A t \in Users : WF_vars(Join(t))
    /\ WF_vars(hpc # "midway" /\ HandlerStep)
    /\ WF_vars(TimePasses)
    /\ \A i \in Slots : WF_vars(AckTimeout(i))

FairSpec == Spec /\ Fairness
-----------------------------------------------------------------------------
(* Properties. *)

AsyncTypeOK ==
    /\ QosTypeOK
    /\ state \in {"connected", "broken", "reconnecting", "deleting", "deleted"}
    /\ conn \in BOOLEAN /\ mux \in Threads \cup {Nobody}
    /\ seq \in MsgIds /\ pings \in 0..2 /\ unanswered \in 0..2
    /\ hpc \in {"loop", "recv", "midway", "recvbreak", "puback", "callback", "check",
                "ackbreak", "exit", "clear", "clearcallback", "keepalive",
                "heartbeat", "reconnect", "connect", "backoff", "done"}
    /\ hnext \in {"keepalive", "done"} /\ hslot \in 0..QosSize
    /\ upc \in [Threads -> {"idle", "send", "join"}]
    /\ ucall \in [Threads -> Calls \cup {NoCall}]
    /\ usent \in [Threads -> MsgIds]
    /\ result \in [Calls -> {"none", "sending", "ok", "error"}]
    /\ outcome \in [Calls -> {"none", "acked", "failed"}]
    /\ cbs \in [Calls -> Nat]
    /\ link \in {"up", "silent", "closed"}
    /\ wire \subseteq [call : Calls, id : MsgIds] /\ acked \subseteq Calls
    /\ quiet \in BOOLEAN /\ clashed \in BOOLEAN

(* An acknowledgement, the expiration of another record and the end of the *)
(* thread all release records: the callback of a call runs at most once,   *)
(* and never for a call that returned an error.  (A call whose message     *)
(* cannot be allocated returns an error and leaves its record, whose       *)
(* callback runs later: this holds while AllocFails is FALSE.)             *)
CalledOnce ==
    \A c \in Calls : cbs[c] <= (IF result[c] = "error" THEN 0 ELSE 1)

(* A callback is told of success only when the server has acknowledged the *)
(* call, also over reconnections, with records of older connections in the *)
(* table and identifiers that wrap.                                        *)
AckedByServer == \A c \in Calls : outcome[c] = "acked" /\ ~clashed => c \in acked

(* A thread that sends has a connection nobody replaces or closes: the     *)
(* receive thread reconnects, and disconnect closes, only without it.      *)
SendsOnConnection ==
    \A t \in Threads : upc[t] = "send" => Connected /\ conn /\ hpc # "done"

(* The receive thread tests the state without client->mux in four places   *)
(* before it changes it: it never undoes a disconnect.                     *)
Ended == state \in {"deleting", "deleted"}
DeletingStays == [][Ended => Ended']_state

(* When the records are given up, callbacks that call again and other      *)
(* threads add none: the next connection starts with an empty table.       *)
ClearedAll == [][hpc = "clear" /\ hpc' \in {"keepalive", "done"} => Used = {}]_hpc

(* When mqtt_async_disconnect frees the client, every call it accepted has *)
(* been told what became of it.                                            *)
NothingLost == state = "deleted" => \A c \in Calls : result[c] = "ok" => cbs[c] = 1

(* The network does not leave the thread in the middle of a packet for     *)
(* ever: the rest comes, or the connection is seen to be closed.           *)
PacketsEnd == []<>(hpc # "midway")

(* mqtt_async_disconnect returns, whatever the receive thread is doing, as *)
(* long as no packet stays unfinished.                                     *)
DisconnectReturns ==
    PacketsEnd => \A t \in Users : upc[t] = "join" ~> upc[t] = "idle"

(* A connection on which nothing arrives any more is found out, though     *)
(* nothing that is sent ever fails, unless it fell silent in the middle of *)
(* a packet that was waited for without a limit.                           *)
SilenceIsNoticed ==
    PacketsEnd => (Connected /\ link = "silent" ~> ~Connected)

(* "error detection": a call that is not acknowledged in time is given up, *)
(* and the connection with it.                                             *)
OverdueIsNoticed ==
    PacketsEnd =>
      \A c \in Calls : Connected /\ result[c] = "ok" ~> ~Connected \/ cbs[c] = 1
=============================================================================
