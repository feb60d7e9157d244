-------------------------- MODULE MqttAsync_proofs --------------------------
(***************************************************************************)
(* Proofs about MqttAsync, for any number of threads, calls, records and   *)
(* identifiers.                                                            *)
(*                                                                         *)
(* The inductive invariant has, besides the types, five parts, proved one  *)
(* after the other: LinkInv (who has client->mux, and what the state of    *)
(* the connection is at each place), ClearInv (what mqtt_qos_clear leaves  *)
(* behind), CallInv (each accepted call has one record or was told),       *)
(* FailInv (a call that failed has none), and WireInv (each message under  *)
(* way has its record).                                                    *)
(***************************************************************************)
EXTENDS MqttAsync, FiniteSetTheorems, TLAPS

LinkInv ==
    /\ \A t \in Threads : upc[t] = "send" => mux = t /\ Connected /\ conn /\ hpc # "done"
    /\ \A t \in Threads : mux = t => upc[t] = "send" \/ (t = Handler /\ hpc = "connect")
    /\ upc[Handler] # "join"
    /\ upc[Handler] = "send" => hpc \in {"callback", "clearcallback"}
    /\ hpc = "connect" => mux = Handler /\ state = "reconnecting"
    /\ hpc \in {"exit", "done"} \/ hnext = "done" => Ended
    /\ \A t \in Threads : upc[t] = "join" => Ended

ClearInv ==
    /\ hpc \in {"clear", "clearcallback"} =>
         ~Connected /\ \A i \in Used : i > hslot
    /\ hpc = "done" => Used = {}
    /\ state = "deleted" => hpc = "done"

(* Call c has a record. *)
Listed(c) == \E i \in Used : records[i].call = c

CallInv ==
    /\ \A i \in Used : cbs[records[i].call] = 0 /\ result[records[i].call] # "none"
    /\ \A i, j \in Used : records[i].call = records[j].call => i = j
    /\ \A c \in Calls : result[c] = "none" => cbs[c] = 0
    /\ \A c \in Calls : result[c] \in {"sending", "ok"} => cbs[c] = 1 \/ Listed(c)
    /\ \A c \in Calls : cbs[c] \in {0, 1}
    /\ \A t \in Threads : upc[t] = "send" => ucall[t] \in Calls /\ result[ucall[t]] = "sending"

(* While messages can be allocated. *)
FailInv == \A c \in Calls : result[c] = "error" => cbs[c] = 0 /\ ~Listed(c)

(* Call c has the record with identifier id. *)
Has(c, id) == \E i \in Used : records[i].call = c /\ records[i].id = id

WireInv ==
    /\ \A w \in wire : result[w.call] = "ok"
    /\ ~clashed =>
         /\ \A i, j \in Used : records[i].id = records[j].id => i = j
         /\ Connected \/ Receiving => \A w \in wire : Has(w.call, w.id)
         /\ \A t \in Threads : upc[t] = "send" => Has(ucall[t], usent[t])
         /\ \A c \in Calls : outcome[c] = "acked" => c \in acked

-----------------------------------------------------------------------------
(* The table. *)

(* current_size is a number, and it is 0 only when no record is in use. *)
LEMMA SizeIsCount ==
    ASSUME QosTypeOK
    PROVE  /\ IsFiniteSet(Used) /\ size = Cardinality(Used) /\ size \in Nat
           /\ size = 0 <=> Used = {}
<1>1. IsFiniteSet(Slots) /\ Used \in SUBSET Slots
  BY FS_Interval, QosAssumption DEF Slots, Used
<1>2. IsFiniteSet(Used)
  BY <1>1, FS_Subset
<1>3. size = Cardinality(Used)
  BY DEF QosTypeOK, Used
<1>4. QED BY <1>2, <1>3, FS_CardinalityType, FS_EmptySet

(* mqtt_qos_add takes one record that was free. *)
LEMMA RecordAdded ==
    ASSUME QosTypeOK, NEW c \in Calls, NEW m \in MsgIds, QosAdd(c, m)
    PROVE  /\ QosTypeOK'
           /\ \E i \in Slots \ Used :
                /\ Used' = Used \cup {i}
                /\ records'[i].call = c /\ records'[i].id = m
                /\ \A j \in Used : records'[j] = records[j]
<1> DEFINE new == [call |-> c, id |-> m, due |-> FALSE]
<1>1. PICK i \in Slots : i \notin Used /\ records' = [records EXCEPT ![i] = new]
  BY DEF QosAdd, Lowest
<1>2. new \in Record /\ new # Free
  <2>1. new \in Record
    BY DEF Record
  <2>2. QED BY <2>1, AsyncAssumption
<1>3. records' \in [Slots -> Record \cup {Free}]
  BY <1>1, <1>2 DEF QosTypeOK
<1>4. Used' = Used \cup {i} /\ \A j \in Used : records'[j] = records[j]
  BY <1>1, <1>2 DEF QosTypeOK, Used
<1>5. records'[i].call = c /\ records'[i].id = m
  BY <1>1 DEF QosTypeOK
<1>6. size' = Cardinality(Used')
  BY <1>1, <1>4, SizeIsCount, FS_AddElement DEF QosAdd
<1>7. QosTypeOK'
  BY <1>3, <1>6 DEF QosTypeOK, Used
<1>8. QED BY <1>1, <1>4, <1>5, <1>7

(* A record that is released is free, and the others stay as they are. *)
LEMMA RecordReleased ==
    ASSUME QosTypeOK, NEW i \in Used, QosRelease(i)
    PROVE  /\ QosTypeOK' /\ Used' = Used \ {i}
           /\ \A j \in Used' : records'[j] = records[j]
<1>1. i \in Slots /\ records' = [records EXCEPT ![i] = Free]
  BY DEF QosRelease, Used
<1>2. records' \in [Slots -> Record \cup {Free}]
  BY <1>1 DEF QosTypeOK
<1>3. Used' = Used \ {i} /\ \A j \in Used' : records'[j] = records[j]
  BY <1>1 DEF QosTypeOK, Used
<1>4. size' = Cardinality(Used')
  BY <1>3, SizeIsCount, FS_RemoveElement DEF QosRelease
<1>5. QED BY <1>2, <1>3, <1>4 DEF QosTypeOK, Used

(* A record that expires keeps its call and its identifier. *)
LEMMA RecordDue ==
    ASSUME QosTypeOK, NEW i, QosTick(i)
    PROVE  /\ QosTypeOK' /\ Used' = Used
           /\ \A j \in Used :
                records'[j].call = records[j].call /\ records'[j].id = records[j].id
<1>1. i \in Slots /\ records[i] \in Record
  BY DEF QosTick, Used, QosTypeOK
<1> DEFINE new == [records[i] EXCEPT !.due = TRUE]
<1>2. new \in Record /\ new # Free /\ new.call = records[i].call /\ new.id = records[i].id
  BY <1>1, AsyncAssumption DEF Record
<1>3. records' = [records EXCEPT ![i] = new] /\ size' = size
  BY DEF QosTick
<1>4. records' \in [Slots -> Record \cup {Free}]
  BY <1>1, <1>2, <1>3 DEF QosTypeOK
<1>5. Used' = Used
  BY <1>1, <1>2, <1>3 DEF QosTypeOK, QosTick, Used
<1>6. \A j \in Used :
         records'[j].call = records[j].call /\ records'[j].id = records[j].id
  BY <1>1, <1>2, <1>3 DEF QosTypeOK, Used
<1>7. QED BY <1>3, <1>4, <1>5, <1>6 DEF QosTypeOK, Used

(* A table that is left alone. *)
LEMMA TableKept ==
    ASSUME UNCHANGED qosVars
    PROVE  Used' = Used /\ records' = records /\ (QosTypeOK => QosTypeOK')
BY DEF qosVars, Used, QosTypeOK

(* Each record in use holds a call and an identifier. *)
LEMMA RecordType ==
    ASSUME QosTypeOK, NEW i \in Used
    PROVE  i \in Slots /\ records[i].call \in Calls /\ records[i].id \in MsgIds
BY DEF QosTypeOK, Used, Record

-----------------------------------------------------------------------------
(* Types. *)

USE DEF Receiving, qosVars, netVars, handlerVars, callVars, doneVars, callsKept, linkKept,
        worldKept, Goto, CanLock

(* AsyncTypeOK is not inductive: a thread that sends has a call. *)
TypeInv ==
    /\ AsyncTypeOK
    /\ \A t \in Threads : upc[t] = "send" => ucall[t] \in Calls

(* mqtt_async_connect leaves every variable in its type. *)
LEMMA TypeInit == Init => TypeInv
<1> SUFFICES ASSUME Init PROVE TypeInv
  OBVIOUS
<1>1. QosTypeOK
  <2>1. records \in [Slots -> Record \cup {Free}] /\ size = 0
    BY DEF Init, QosInit
  <2>2. {i \in Slots : records[i] # Free} = {}
    BY DEF Init, QosInit
  <2>3. QED BY <2>1, <2>2, FS_EmptySet DEF QosTypeOK
<1>2. seq \in MsgIds /\ usent \in [Threads -> MsgIds] /\ hslot \in 0..QosSize
  BY QosAssumption DEF Init, MsgIds
<1>3. conn \in BOOLEAN /\ quiet \in BOOLEAN /\ clashed \in BOOLEAN
  BY DEF Init
<1>4. QED BY <1>1, <1>2, <1>3 DEF Init, AsyncTypeOK, TypeInv

(* The next identifier is one, also where the sequence wraps. *)
LEMMA NextMsgId == seq \in MsgIds => (seq + 1) % IdSpace \in MsgIds
BY QosAssumption DEF MsgIds

(* Every step of a thread keeps every variable in its type. *)
LEMMA TypeStep == TypeInv /\ [Next]_vars => TypeInv'
<1> SUFFICES ASSUME TypeInv, [Next]_vars PROVE TypeInv'
  OBVIOUS
<1> USE QosAssumption, TableKept DEF TypeInv, AsyncTypeOK
<1>1. ASSUME NEW t \in Threads, NEW c \in Calls, NotConnected(t, c) \/ SameThread(t, c)
      PROVE  TypeInv'
  BY <1>1 DEF NotConnected, SameThread
<1>2. ASSUME NEW t \in Threads, NEW c \in Calls, TableFull(t, c) PROVE TypeInv'
  BY <1>2, NextMsgId DEF TableFull
<1>3. ASSUME NEW t \in Threads, NEW c \in Calls, Register(t, c) PROVE TypeInv'
  <2>1. QosTypeOK'
    BY <1>3, RecordAdded DEF Register
  <2>2. seq' \in MsgIds
    BY <1>3, NextMsgId DEF Register, TakeMsgId
  <2>3. clashed' \in BOOLEAN
    BY <1>3, Zenon DEF Register, TakeMsgId
  <2>4. QED BY <1>3, <2>1, <2>2, <2>3 DEF Register
<1>4. ASSUME NEW t \in Threads, SendCall(t) PROVE TypeInv'
  <2>1. wire' \subseteq [call : Calls, id : MsgIds]
    BY <1>4 DEF SendCall
  <2>2. 0 \in MsgIds
    BY DEF MsgIds
  <2>3. QED BY <1>4, <2>1, <2>2 DEF SendCall
<1>5. ASSUME NEW t \in Threads, SendCallFails(t) PROVE TypeInv'
  <2>1. 0 \in MsgIds
    BY DEF MsgIds
  <2>2. QED BY <1>5, <2>1 DEF SendCallFails
<1>6. ASSUME NEW t \in Users, PublishQos0(t) \/ PublishQos0Fails(t) PROVE TypeInv'
  BY <1>6, NextMsgId DEF PublishQos0, PublishQos0Fails
<1>7. ASSUME NEW t \in Users, Disconnect(t) \/ Join(t) PROVE TypeInv'
  <2>1. CASE Disconnect(t)
    BY <2>1 DEF Disconnect, Threads
  <2>2. CASE Join(t)
    BY <2>2 DEF Join, Threads
  <2>3. QED BY <1>7, <2>1, <2>2
<1>8. CASE HandlerStep
  <2>1. CASE RecvAck
    <3>1. PICK w \in wire : RecvAck!2!(w)
      BY <2>1 DEF RecvAck
    <3>2. CASE Waiting(w.id) = {} /\ UNCHANGED <<qosVars, doneVars>> /\ Goto("check")
      BY <2>1, <3>1, <3>2 DEF RecvAck
    <3>3. ASSUME NEW i \in Slots, Lowest(Waiting(w.id), i), QosRelease(i),
                 RunCallback(records[i].call, "acked"), Goto("callback")
          PROVE  TypeInv'
      <4>1. i \in Used
        BY <3>3 DEF Lowest, Waiting
      <4>2. QosTypeOK' /\ records[i].call \in Calls
        BY <3>3, <4>1, RecordReleased, RecordType
      <4>3. outcome' \in [Calls -> {"none", "acked", "failed"}] /\ cbs' \in [Calls -> Nat]
        BY <3>3, <4>2 DEF RunCallback
      <4>4. QED BY <2>1, <3>1, <3>3, <4>2, <4>3 DEF RecvAck
    <3>4. QED BY <3>1, <3>2, <3>3
  <2>2. CASE RecvRefusal \/ RecvPublish \/ RecvTimeout \/ RecvMidway \/ RecvFails \/ PubAck
    <3>1. CASE RecvRefusal
      BY <3>1 DEF RecvRefusal
    <3>2. CASE RecvPublish
      BY <3>2 DEF RecvPublish
    <3>3. CASE RecvTimeout \/ RecvMidway \/ RecvFails \/ PubAck
      BY <3>3 DEF RecvTimeout, RecvMidway, RecvFails, PubAck
    <3>4. QED BY <2>2, <3>1, <3>2, <3>3
  <2>3. CASE RecvPingResp
    <3>1. unanswered' \in 0..2 /\ pings' \in 0..2
      BY <2>3 DEF RecvPingResp
    <3>2. QED BY <2>3, <3>1 DEF RecvPingResp
  <2>4. CASE LoopTest \/ CallbackReturns \/ Check \/ Exit \/ ClearReturns \/ ClearEnd
    BY <2>4 DEF LoopTest, CallbackReturns, Check, Exit, ClearReturns, ClearEnd
  <2>5. CASE RecvBreak \/ AckBreak \/ KeepalivePingFails \/ HeartbeatBreak
    BY <2>5 DEF RecvBreak, AckBreak, KeepalivePingFails, HeartbeatBreak, Break
  <2>6. CASE ClearRecord
    <3>1. PICK i \in Slots :
            /\ Lowest(Ahead, i) /\ QosRelease(i) /\ hslot' = i
            /\ RunCallback(records[i].call, "failed")
      BY <2>6 DEF ClearRecord
    <3>2. i \in Used
      BY <3>1 DEF Lowest, Ahead
    <3>3. QosTypeOK' /\ records[i].call \in Calls /\ hslot' \in 0..QosSize
      BY <3>1, <3>2, RecordReleased, RecordType DEF Slots
    <3>4. outcome' \in [Calls -> {"none", "acked", "failed"}] /\ cbs' \in [Calls -> Nat]
      BY <3>1, <3>3 DEF RunCallback
    <3>5. QED BY <2>6, <3>3, <3>4 DEF ClearRecord
  <2>7. CASE KeepalivePing
    BY <2>7 DEF KeepalivePing
  <2>8. CASE KeepaliveIdle \/ Heartbeat \/ ReconnectNot \/ Backoff
    BY <2>8 DEF KeepaliveIdle, Heartbeat, ReconnectNot, Backoff
  <2>9. CASE Reconnect \/ Reconnected \/ ReconnectFails
    <3>1. CASE Reconnect \/ ReconnectFails
      BY <3>1 DEF Reconnect, ReconnectFails, Threads
    <3>2. CASE Reconnected
      <4>1. conn' \in BOOLEAN /\ quiet' \in BOOLEAN
        BY <3>2 DEF Reconnected, FreshLink
      <4>2. QED BY <3>2, <4>1 DEF Reconnected, FreshLink
    <3>3. QED BY <2>9, <3>1, <3>2
  <2>10. QED
    BY <1>8, <2>1, <2>2, <2>3, <2>4, <2>5, <2>6, <2>7, <2>8, <2>9 DEF HandlerStep
<1>9. ASSUME NEW l \in {"silent", "closed"}, LinkBreaks(l) PROVE TypeInv'
  BY <1>9 DEF LinkBreaks
<1>10. CASE TimePasses
  BY <1>10 DEF TimePasses
<1>11. ASSUME NEW i \in Slots, AckTimeout(i) PROVE TypeInv'
  <2>1. QosTypeOK'
    BY <1>11, RecordDue DEF AckTimeout
  <2>2. QED BY <1>11, <2>1 DEF AckTimeout
<1>12. CASE UNCHANGED vars
  BY <1>12 DEF vars
<1>13. QED
  BY <1>1, <1>2, <1>3, <1>4, <1>5, <1>6, <1>7, <1>8, <1>9, <1>10, <1>11, <1>12
     DEF Next, CallStep

(* Every variable of the connection stays in its type; current_size counts *)
(* the records in use and is never below zero.                             *)
THEOREM TypeCorrect == Spec => []AsyncTypeOK
<1>1. TypeInv => AsyncTypeOK
  BY DEF TypeInv
<1>2. QED BY TypeInit, TypeStep, <1>1, PTL DEF Spec

-----------------------------------------------------------------------------
(* The connection and client->mux. *)

(* mqtt_async_connect: nobody sends, nothing has ended. *)
LEMMA LinkInit == Init => LinkInv
BY AsyncAssumption DEF Init, LinkInv, Threads, Ended, Connected

(* client->mux is held from the registration of a call to the end of its    *)
(* send and while the thread connects, and every change of the state is    *)
(* made by a thread that could take it.                                    *)
LEMMA LinkKeeps == TypeInv /\ LinkInv /\ [Next]_vars => LinkInv'
<1> SUFFICES ASSUME TypeInv, LinkInv, [Next]_vars PROVE LinkInv'
  OBVIOUS
<1>t. /\ upc \in [Threads -> {"idle", "send", "join"}] /\ Handler \in Threads
      /\ Nobody \notin Threads /\ Users \subseteq Threads /\ Handler \notin Users
      /\ hnext \in {"keepalive", "done"}
  BY AsyncAssumption DEF TypeInv, AsyncTypeOK, Threads
<1> USE <1>t DEF LinkInv, Connected, Ended, InApi
<1>1. ASSUME NEW t \in Threads, NEW c \in Calls, NotConnected(t, c) \/ SameThread(t, c) \/ TableFull(t, c)
      PROVE  LinkInv'
  BY <1>1 DEF NotConnected, SameThread, TableFull
<1>2. ASSUME NEW t \in Threads, NEW c \in Calls, Register(t, c) PROVE LinkInv'
  BY <1>2 DEF Register
<1>3. ASSUME NEW t \in Threads, CallStep(t) PROVE LinkInv'
  BY <1>3 DEF CallStep, SendCall, SendCallFails
<1>4. ASSUME NEW t \in Users, PublishQos0(t) \/ PublishQos0Fails(t) \/ Disconnect(t) \/ Join(t)
      PROVE  LinkInv'
  BY <1>4 DEF PublishQos0, PublishQos0Fails, Disconnect, Join
<1>5. CASE HandlerStep
  <2>1. CASE LoopTest
    BY <2>1 DEF LoopTest
  <2>2. CASE RecvAck \/ RecvRefusal \/ RecvPingResp \/ RecvPublish
    BY <2>2 DEF RecvAck, RecvRefusal, RecvPingResp, RecvPublish
  <2>3. CASE RecvTimeout \/ RecvMidway \/ RecvFails \/ PubAck \/ CallbackReturns
    BY <2>3 DEF RecvTimeout, RecvMidway, RecvFails, PubAck, CallbackReturns
  <2>4. CASE RecvBreak \/ AckBreak
    BY <2>4 DEF RecvBreak, AckBreak, Break
  <2>5. CASE KeepalivePingFails \/ HeartbeatBreak
    BY <2>5 DEF KeepalivePingFails, HeartbeatBreak, Break
  <2>6. CASE Check \/ Exit \/ ClearRecord \/ ClearReturns \/ ClearEnd
    BY <2>6 DEF Check, Exit, ClearRecord, ClearReturns, ClearEnd
  <2>7. CASE KeepaliveIdle \/ KeepalivePing \/ Heartbeat \/ ReconnectNot \/ Backoff
    BY <2>7 DEF KeepaliveIdle, KeepalivePing, Heartbeat, ReconnectNot, Backoff
  <2>8. CASE Reconnect
    BY <2>8 DEF Reconnect
  <2>9. CASE Reconnected \/ ReconnectFails
    BY <2>9 DEF Reconnected, ReconnectFails
  <2>10. QED
    BY <1>5, <2>1, <2>2, <2>3, <2>4, <2>5, <2>6, <2>7, <2>8, <2>9 DEF HandlerStep
<1>6. ASSUME NEW l \in {"silent", "closed"}, LinkBreaks(l) PROVE LinkInv'
  BY <1>6 DEF LinkBreaks
<1>7. CASE TimePasses
  BY <1>7 DEF TimePasses
<1>8. ASSUME NEW i \in Slots, AckTimeout(i) PROVE LinkInv'
  BY <1>8 DEF AckTimeout
<1>9. CASE UNCHANGED vars
  BY <1>9 DEF vars
<1>10. QED
  BY <1>1, <1>2, <1>3, <1>4, <1>5, <1>6, <1>7, <1>8, <1>9 DEF Next

(* The same for every behaviour. *)
LEMMA LinkInvariant == Spec => [](TypeInv /\ LinkInv)
<1>1. Init => TypeInv /\ LinkInv
  BY TypeInit, LinkInit
<1>2. TypeInv /\ LinkInv /\ [Next]_vars => (TypeInv /\ LinkInv)'
  BY TypeStep, LinkKeeps
<1>3. QED BY <1>1, <1>2, PTL DEF Spec

(* Whoever sends a message has a connection, which nobody closes or        *)
(* replaces, and the receive thread has not returned.                      *)
THEOREM SendsOnConnectionCorrect == Spec => []SendsOnConnection
<1>1. LinkInv => SendsOnConnection
  BY DEF LinkInv, SendsOnConnection
<1>2. QED BY <1>1, LinkInvariant, PTL

(* The receive thread, which reads the state without client->mux, never    *)
(* undoes the disconnect of another thread.                                *)
THEOREM DeletingStaysCorrect == Spec => DeletingStays
<1>1. ASSUME LinkInv, [Next]_vars, Ended PROVE Ended'
  <2> USE <1>1 DEF LinkInv, Connected, Ended
  <2>1. ASSUME NEW t \in Threads, CallStep(t) PROVE Ended'
    BY <2>1 DEF CallStep, SendCall, SendCallFails
  <2>2. ASSUME NEW t \in Users, PublishQos0(t) \/ PublishQos0Fails(t) \/ Disconnect(t) \/ Join(t)
        PROVE  Ended'
    BY <2>2 DEF PublishQos0, PublishQos0Fails, Disconnect, Join
  <2>3. ASSUME NEW t \in Threads, NEW c \in Calls,
               NotConnected(t, c) \/ SameThread(t, c) \/ TableFull(t, c) \/ Register(t, c)
        PROVE  Ended'
    BY <2>3 DEF NotConnected, SameThread, TableFull, Register
  <2>4. CASE HandlerStep
    <3>1. CASE \/ LoopTest \/ RecvAck \/ RecvRefusal \/ RecvPingResp \/ RecvPublish
               \/ RecvTimeout \/ RecvMidway \/ RecvFails \/ PubAck \/ CallbackReturns
               \/ Check \/ Exit \/ ClearRecord \/ ClearReturns \/ ClearEnd
               \/ KeepaliveIdle \/ KeepalivePing \/ Heartbeat \/ ReconnectNot
               \/ Backoff
      BY <3>1 DEF LoopTest, RecvAck, RecvRefusal, RecvPingResp, RecvPublish, RecvTimeout, RecvMidway,
                  RecvFails, PubAck, CallbackReturns, Check, Exit, ClearRecord,
                  ClearReturns, ClearEnd, KeepaliveIdle, KeepalivePing, Heartbeat,
                  ReconnectNot, Backoff
    <3>2. CASE \/ RecvBreak \/ AckBreak \/ KeepalivePingFails \/ HeartbeatBreak
      BY <3>2 DEF RecvBreak, AckBreak, KeepalivePingFails, HeartbeatBreak, Break
    <3>3. CASE Reconnect \/ Reconnected \/ ReconnectFails
      BY <3>3 DEF Reconnect, Reconnected, ReconnectFails
    <3>4. QED BY <2>4, <3>1, <3>2, <3>3 DEF HandlerStep
  <2>5. CASE \/ \E l \in {"silent", "closed"} : LinkBreaks(l)
             \/ TimePasses
             \/ \E i \in Slots : AckTimeout(i)
             \/ UNCHANGED vars
    BY <2>5 DEF LinkBreaks, TimePasses, AckTimeout, vars
  <2>6. QED BY <1>1, <2>1, <2>2, <2>3, <2>4, <2>5 DEF Next
<1>2. LinkInv /\ [Next]_vars => [Ended => Ended']_state
  BY <1>1
<1>3. QED BY <1>2, LinkInvariant, PTL DEF Spec, DeletingStays

-----------------------------------------------------------------------------
(* Giving up the records. *)

(* mqtt_async_connect: the table is empty. *)
LEMMA ClearInit == Init => ClearInv
BY DEF Init, QosInit, ClearInv, Used

(* From the moment the records are given up until the thread is done with  *)
(* them there is no connection, so that no call, of a callback or of       *)
(* another thread, adds one behind its back.                               *)
LEMMA ClearKeeps == TypeInv /\ LinkInv /\ ClearInv /\ [Next]_vars => ClearInv'
<1> SUFFICES ASSUME TypeInv, LinkInv, ClearInv, [Next]_vars PROVE ClearInv'
  OBVIOUS
<1>t. QosTypeOK /\ hnext \in {"keepalive", "done"} /\ hslot \in Nat /\ Used \subseteq Nat
  BY QosAssumption DEF TypeInv, AsyncTypeOK, Used, Slots
<1>u. UNCHANGED qosVars => Used' = Used
  BY TableKept
<1> USE <1>t, <1>u DEF LinkInv, ClearInv, Connected, Ended
<1>1. ASSUME NEW t \in Threads, NEW c \in Calls, NotConnected(t, c) \/ SameThread(t, c) \/ TableFull(t, c)
      PROVE  ClearInv'
  BY <1>1 DEF NotConnected, SameThread, TableFull
<1>2. ASSUME NEW t \in Threads, NEW c \in Calls, Register(t, c) PROVE ClearInv'
  <2>1. Connected /\ UNCHANGED <<state, hpc>>
    BY <1>2 DEF Register
  <2>2. QED BY <2>1
<1>3. ASSUME NEW t \in Threads, CallStep(t) PROVE ClearInv'
  BY <1>3 DEF CallStep, SendCall, SendCallFails
<1>4. ASSUME NEW t \in Users, PublishQos0(t) \/ PublishQos0Fails(t) \/ Disconnect(t) \/ Join(t)
      PROVE  ClearInv'
  BY <1>4 DEF PublishQos0, PublishQos0Fails, Disconnect, Join
<1>5. CASE HandlerStep
  <2>1. CASE LoopTest \/ RecvRefusal \/ RecvPingResp \/ RecvPublish
    BY <2>1 DEF LoopTest, RecvRefusal, RecvPingResp, RecvPublish
  <2>2. CASE RecvAck
    BY <2>2 DEF RecvAck
  <2>3. CASE RecvTimeout \/ RecvMidway \/ RecvFails \/ PubAck \/ CallbackReturns
    BY <2>3 DEF RecvTimeout, RecvMidway, RecvFails, PubAck, CallbackReturns
  <2>4. CASE RecvBreak \/ AckBreak \/ KeepalivePingFails \/ HeartbeatBreak
    <3>1. \A i \in Used : i > 0
      BY QosAssumption DEF Used, Slots
    <3>2. QED
      BY <2>4, <3>1 DEF RecvBreak, AckBreak, KeepalivePingFails, HeartbeatBreak, Break
  <2>5. CASE Exit
    <3>1. \A i \in Used : i > 0
      BY QosAssumption DEF Used, Slots
    <3>2. QED BY <2>5, <3>1 DEF Exit
  <2>6. CASE ClearRecord
    <3>1. PICK i \in Slots : Lowest(Ahead, i) /\ QosRelease(i) /\ hslot' = i
      BY <2>6 DEF ClearRecord
    <3>2. i \in Used /\ Used' = Used \ {i}
      BY <3>1, RecordReleased DEF Lowest, Ahead
    <3>3. \A j \in Used : j >= i
      BY <2>6, <3>1, <3>2 DEF ClearRecord, Lowest, Ahead
    <3>4. \A j \in Used' : j > hslot'
      BY <3>1, <3>2, <3>3
    <3>5. QED BY <2>6, <3>4 DEF ClearRecord
  <2>7. CASE ClearEnd
    BY <2>7 DEF ClearEnd, Ahead
  <2>8. CASE Check \/ ClearReturns \/ KeepaliveIdle \/ KeepalivePing \/ Heartbeat
    BY <2>8 DEF Check, ClearReturns, KeepaliveIdle, KeepalivePing, Heartbeat
  <2>9. CASE ReconnectNot \/ Backoff \/ Reconnect \/ Reconnected \/ ReconnectFails
    BY <2>9 DEF ReconnectNot, Backoff, Reconnect, Reconnected, ReconnectFails
  <2>10. QED
    BY <1>5, <2>1, <2>2, <2>3, <2>4, <2>5, <2>6, <2>7, <2>8, <2>9 DEF HandlerStep
<1>6. ASSUME NEW l \in {"silent", "closed"}, LinkBreaks(l) PROVE ClearInv'
  BY <1>6 DEF LinkBreaks
<1>7. CASE TimePasses
  BY <1>7 DEF TimePasses
<1>8. ASSUME NEW i \in Slots, AckTimeout(i) PROVE ClearInv'
  <2>1. Used' = Used
    BY <1>8, RecordDue DEF AckTimeout
  <2>2. QED BY <1>8, <2>1 DEF AckTimeout
<1>9. CASE UNCHANGED vars
  BY <1>9 DEF vars
<1>10. QED
  BY <1>1, <1>2, <1>3, <1>4, <1>5, <1>6, <1>7, <1>8, <1>9 DEF Next

(* The same for every behaviour. *)
LEMMA ClearInvariant == Spec => [](TypeInv /\ LinkInv /\ ClearInv)
<1>1. Init => ClearInv
  BY ClearInit
<1>2. TypeInv /\ LinkInv /\ ClearInv /\ [Next]_vars => ClearInv'
  BY ClearKeeps
<1>3. QED BY <1>1, <1>2, LinkInvariant, PTL DEF Spec

(* When mqtt_qos_clear is done, no record is in use, whatever its callbacks *)
(* and the other threads called meanwhile.                                 *)
THEOREM ClearedAllCorrect == Spec => ClearedAll
<1>1. ASSUME ClearInv, TypeInv, [Next]_vars, hpc = "clear", hpc' \in {"keepalive", "done"}
      PROVE  Used = {}
  <2>1. CASE ClearEnd
    <3>1. \A i \in Used : i > hslot
      BY <1>1 DEF ClearInv
    <3>2. QED BY <2>1, <3>1 DEF ClearEnd, Ahead
  <2>2. CASE HandlerStep /\ ~ClearEnd
    <3>1. CASE ClearRecord
      BY <1>1, <3>1 DEF ClearRecord
    <3>2. CASE HandlerStep /\ ~ClearEnd /\ ~ClearRecord
      BY <1>1, <3>2
         DEF HandlerStep, LoopTest, RecvAck, RecvRefusal, RecvPingResp, RecvPublish,
             RecvTimeout, RecvMidway, RecvFails, RecvBreak, PubAck,
             CallbackReturns, Check, AckBreak,
             Exit, ClearReturns, KeepaliveIdle, KeepalivePing, KeepalivePingFails,
             Heartbeat, HeartbeatBreak, ReconnectNot, Reconnect, Reconnected,
             ReconnectFails, Backoff
    <3>3. QED BY <2>2, <3>1, <3>2
  <2>3. CASE \/ \E t \in Threads, c \in Calls :
                  NotConnected(t, c) \/ SameThread(t, c) \/ TableFull(t, c) \/ Register(t, c)
             \/ \E t \in Threads : CallStep(t)
             \/ \E t \in Users : PublishQos0(t) \/ PublishQos0Fails(t) \/ Disconnect(t) \/ Join(t)
    BY <1>1, <2>3 DEF NotConnected, SameThread, TableFull, Register, CallStep, SendCall,
                      SendCallFails, PublishQos0, PublishQos0Fails, Disconnect, Join
  <2>4. CASE \/ \E l \in {"silent", "closed"} : LinkBreaks(l)
             \/ TimePasses
             \/ \E i \in Slots : AckTimeout(i)
             \/ UNCHANGED vars
    BY <1>1, <2>4 DEF LinkBreaks, TimePasses, AckTimeout, vars
  <2>5. QED BY <1>1, <2>1, <2>2, <2>3, <2>4 DEF Next
<1>2. TypeInv /\ ClearInv /\ [Next]_vars =>
        [hpc = "clear" /\ hpc' \in {"keepalive", "done"} => Used = {}]_hpc
  BY <1>1
<1>3. QED BY <1>2, ClearInvariant, PTL DEF Spec, ClearedAll

-----------------------------------------------------------------------------
(* Calls and their records. *)

(* mqtt_async_connect: there is no call. *)
LEMMA CallInit == Init => CallInv /\ FailInv
BY DEF Init, QosInit, CallInv, FailInv, Used, Listed

(* A record that is released has its callback run, for the first time. *)
LEMMA CallReleased ==
    ASSUME TypeInv, CallInv, NEW i \in Used, NEW s, QosRelease(i),
           RunCallback(records[i].call, s), UNCHANGED callVars
    PROVE  CallInv' /\ (FailInv => FailInv')
<1> DEFINE d == records[i].call
<1>1. d \in Calls /\ Used' = Used \ {i} /\ \A j \in Used' : records'[j] = records[j]
  BY RecordReleased, RecordType DEF TypeInv, AsyncTypeOK
<1>2. cbs[d] = 0 /\ cbs' = [cbs EXCEPT ![d] = 1] /\ cbs \in [Calls -> Nat]
  <2>1. cbs[d] = 0 /\ cbs \in [Calls -> Nat]
    BY DEF CallInv, TypeInv, AsyncTypeOK
  <2>2. cbs' = [cbs EXCEPT ![d] = cbs[d] + 1]
    BY DEF RunCallback
  <2>3. QED BY <2>1, <2>2
<1>3. \A j \in Used' : records[j].call # d
  BY <1>1 DEF CallInv
<1>4. \A c \in Calls : c # d => (Listed(c)' <=> Listed(c))
  BY <1>1 DEF Listed
<1>5. \A j \in Used' : records[j].call \in Calls
  BY <1>1, RecordType DEF TypeInv, AsyncTypeOK
<1>6. UNCHANGED <<upc, ucall, result>>
  OBVIOUS
<1> HIDE DEF d
<1>7. CallInv'
  <2>1. result[d] # "none"
    BY DEF CallInv, d
  <2>2. \A j \in Used' : cbs'[records'[j].call] = 0 /\ result'[records'[j].call] # "none"
    BY <1>1, <1>2, <1>3, <1>5, <1>6 DEF CallInv
  <2>3. \A j, k \in Used' : records'[j].call = records'[k].call => j = k
    BY <1>1 DEF CallInv
  <2>4. \A c \in Calls : result'[c] = "none" => cbs'[c] = 0
    BY <1>1, <1>2, <1>6, <2>1 DEF CallInv
  <2>5. \A c \in Calls : result'[c] \in {"sending", "ok"} => cbs'[c] = 1 \/ Listed(c)'
    BY <1>1, <1>2, <1>4, <1>6 DEF CallInv
  <2>6. \A c \in Calls : cbs'[c] \in {0, 1}
    BY <1>1, <1>2 DEF CallInv
  <2>7. QED BY <1>6, <2>2, <2>3, <2>4, <2>5, <2>6 DEF CallInv
<1>8. ASSUME FailInv PROVE FailInv'
  <2>1. result[d] # "error"
    BY <1>8, <1>1 DEF FailInv, Listed, d
  <2>2. QED BY <1>1, <1>2, <1>4, <1>6, <1>8, <2>1 DEF FailInv
<1>9. QED BY <1>7, <1>8

(* A step that leaves the table, the calls and the callbacks alone. *)
LEMMA CallsKept ==
    ASSUME UNCHANGED <<qosVars, upc, ucall, result, cbs>>
    PROVE  (CallInv => CallInv') /\ (FailInv => FailInv')
BY DEF CallInv, FailInv, Listed, Used

(* A call that is accepted has a record until its callback runs. *)
LEMMA CallKeeps ==
    TypeInv /\ LinkInv /\ CallInv /\ [Next]_vars =>
      CallInv' /\ (~AllocFails /\ FailInv => FailInv')
<1> DEFINE Goal == CallInv' /\ (~AllocFails /\ FailInv => FailInv')
<1> SUFFICES ASSUME TypeInv, LinkInv, CallInv, [Next]_vars PROVE Goal
  OBVIOUS
<1>t. /\ QosTypeOK /\ upc \in [Threads -> {"idle", "send", "join"}]
      /\ ucall \in [Threads -> Calls \cup {NoCall}]
      /\ result \in [Calls -> {"none", "sending", "ok", "error"}]
      /\ \A i \in Used : records[i].call \in Calls
  BY RecordType DEF TypeInv, AsyncTypeOK
<1>1. ASSUME NEW t \in Threads, NEW c \in Calls, NotConnected(t, c) \/ SameThread(t, c) \/ TableFull(t, c)
      PROVE  Goal
  <2>1. /\ result[c] = "none" /\ result' = [result EXCEPT ![c] = "error"]
        /\ UNCHANGED <<qosVars, upc, ucall, cbs>>
    BY <1>1 DEF NotConnected, SameThread, TableFull
  <2>2. Used' = Used /\ records' = records
    BY <2>1, TableKept
  <2>3. cbs[c] = 0 /\ ~Listed(c)
    BY <2>1 DEF CallInv, Listed
  <2>4. \A d \in Calls : Listed(d)' <=> Listed(d)
    BY <2>2 DEF Listed
  <2>5. CallInv'
    BY <1>t, <2>1, <2>2, <2>4 DEF CallInv
  <2>6. FailInv => FailInv'
    BY <1>t, <2>1, <2>3, <2>4 DEF FailInv
  <2>7. QED BY <2>5, <2>6
<1>2. ASSUME NEW t \in Threads, NEW c \in Calls, Register(t, c) PROVE Goal
  <2>1. /\ result[c] = "none" /\ result' = [result EXCEPT ![c] = "sending"]
        /\ upc' = [upc EXCEPT ![t] = "send"] /\ ucall' = [ucall EXCEPT ![t] = c]
        /\ cbs' = cbs /\ QosAdd(c, seq) /\ seq \in MsgIds
    BY <1>2 DEF Register, TypeInv, AsyncTypeOK
  <2>2. PICK i \in Slots \ Used :
          /\ Used' = Used \cup {i} /\ records'[i].call = c
          /\ \A j \in Used : records'[j] = records[j]
    BY <1>t, <2>1, RecordAdded
  <2>3. cbs[c] = 0 /\ \A j \in Used : records[j].call # c
    BY <2>1 DEF CallInv
  <2>4. Listed(c)' /\ \A d \in Calls : d # c => (Listed(d)' <=> Listed(d))
    BY <2>2 DEF Listed
  <2>5. \A j \in Used' : cbs'[records'[j].call] = 0 /\ result'[records'[j].call] # "none"
    BY <1>t, <2>1, <2>2, <2>3 DEF CallInv
  <2>6. \A j, k \in Used' : records'[j].call = records'[k].call => j = k
    BY <2>2, <2>3 DEF CallInv
  <2>7. \A u \in Threads : upc'[u] = "send" => ucall'[u] \in Calls /\ result'[ucall'[u]] = "sending"
    BY <1>t, <2>1 DEF CallInv
  <2>8. CallInv'
    BY <1>t, <2>1, <2>4, <2>5, <2>6, <2>7 DEF CallInv
  <2>9. FailInv => FailInv'
    BY <1>t, <2>1, <2>4 DEF FailInv
  <2>10. QED BY <2>8, <2>9
<1>3. ASSUME NEW t \in Threads, CallStep(t) PROVE Goal
  <2>1. PICK r \in {"ok", "error"} :
          /\ upc[t] = "send" /\ upc' = [upc EXCEPT ![t] = "idle"]
          /\ result' = [result EXCEPT ![ucall[t]] = r] /\ (~AllocFails => r = "ok")
          /\ ucall' = [ucall EXCEPT ![t] = NoCall] /\ UNCHANGED <<qosVars, cbs>>
    BY <1>3 DEF CallStep, SendCall, SendCallFails
  <2>2. ucall[t] \in Calls /\ result[ucall[t]] = "sending"
    BY <2>1 DEF CallInv
  <2>3. \A u \in Threads : u # t => upc[u] # "send"
    BY <2>1 DEF LinkInv
  <2>4. Used' = Used /\ records' = records /\ \A d \in Calls : Listed(d)' <=> Listed(d)
    BY <2>1, TableKept DEF Listed
  <2>5. \A u \in Threads : upc'[u] # "send"
    BY <1>t, <2>1, <2>3
  <2>6. CallInv'
    BY <1>t, <2>1, <2>2, <2>4, <2>5 DEF CallInv
  <2>7. ~AllocFails /\ FailInv => FailInv'
    BY <1>t, <2>1, <2>2, <2>4 DEF FailInv
  <2>8. QED BY <2>6, <2>7
<1>4. ASSUME NEW t \in Users, PublishQos0(t) \/ PublishQos0Fails(t) \/ Disconnect(t) \/ Join(t)
      PROVE  Goal
  <2>1. CASE PublishQos0(t) \/ PublishQos0Fails(t)
    BY <2>1, CallsKept DEF PublishQos0, PublishQos0Fails
  <2>2. CASE Disconnect(t) \/ Join(t)
    <3>1. /\ UNCHANGED <<qosVars, ucall, result, cbs>>
          /\ \A u \in Threads : upc'[u] = "send" => upc[u] = "send"
      BY <1>t, <2>2 DEF Disconnect, Join, Threads
    <3>2. QED BY <3>1 DEF CallInv, FailInv, Listed, Used
  <2>3. QED BY <1>4, <2>1, <2>2
<1>5. CASE HandlerStep
  <2>1. CASE RecvAck
    <3>1. CASE UNCHANGED <<qosVars, doneVars>>
      BY <2>1, <3>1, CallsKept DEF RecvAck
    <3>2. CASE \E i \in Used : QosRelease(i) /\ RunCallback(records[i].call, "acked")
      BY <2>1, <3>2, CallReleased DEF RecvAck
    <3>3. QED BY <2>1, <3>1, <3>2 DEF RecvAck, Lowest, Waiting
  <2>2. CASE ClearRecord
    <3>1. \E i \in Used : QosRelease(i) /\ RunCallback(records[i].call, "failed")
      BY <2>2 DEF ClearRecord, Lowest, Ahead
    <3>2. QED BY <2>2, <3>1, CallReleased DEF ClearRecord
  <2>3. CASE HandlerStep /\ ~RecvAck /\ ~ClearRecord
    <3>1. UNCHANGED <<qosVars, upc, ucall, result, cbs>>
      BY <2>3
         DEF HandlerStep, LoopTest, RecvRefusal, RecvPingResp, RecvPublish,
             RecvTimeout, RecvMidway, RecvFails, RecvBreak, PubAck,
             CallbackReturns, Check, AckBreak,
             Exit, ClearReturns, ClearEnd, KeepaliveIdle, KeepalivePing,
             KeepalivePingFails, Heartbeat, HeartbeatBreak, ReconnectNot, Reconnect,
             Reconnected, ReconnectFails, Backoff
    <3>2. QED BY <3>1, CallsKept
  <2>4. QED BY <1>5, <2>1, <2>2, <2>3
<1>6. CASE \/ \E l \in {"silent", "closed"} : LinkBreaks(l)
           \/ TimePasses
           \/ UNCHANGED vars
  BY <1>6, CallsKept DEF LinkBreaks, TimePasses, vars
<1>7. ASSUME NEW i \in Slots, AckTimeout(i) PROVE Goal
  <2>1. /\ Used' = Used /\ \A j \in Used : records'[j].call = records[j].call
        /\ UNCHANGED <<upc, ucall, result, cbs>>
    BY <1>t, <1>7, RecordDue DEF AckTimeout
  <2>2. \A d \in Calls : Listed(d)' <=> Listed(d)
    BY <2>1 DEF Listed
  <2>3. QED BY <2>1, <2>2 DEF CallInv, FailInv
<1>8. QED
  BY <1>1, <1>2, <1>3, <1>4, <1>5, <1>6, <1>7 DEF Next

(* The same for every behaviour. *)
LEMMA CallInvariant == Spec => [](TypeInv /\ LinkInv /\ ClearInv /\ CallInv)
<1>1. Init => CallInv
  BY CallInit
<1>2. TypeInv /\ LinkInv /\ CallInv /\ [Next]_vars => CallInv'
  BY CallKeeps
<1>3. QED BY <1>1, <1>2, ClearInvariant, PTL DEF Spec

(* When mqtt_async_disconnect has closed the connection, every call that   *)
(* was accepted has had its callback.                                      *)
THEOREM NothingLostCorrect == Spec => []NothingLost
<1>1. ClearInv /\ CallInv => NothingLost
  BY DEF ClearInv, CallInv, NothingLost, Listed
<1>2. QED BY <1>1, CallInvariant, PTL

(* While messages can be allocated, a callback runs at most once, and never *)
(* for a call that returned an error.                                      *)
THEOREM CalledOnceCorrect ==
    ASSUME ~AllocFails
    PROVE  Spec => []CalledOnce
<1>1. Init => FailInv
  BY CallInit
<1>2. TypeInv /\ LinkInv /\ CallInv /\ FailInv /\ [Next]_vars => FailInv'
  BY CallKeeps
<1>3. CallInv /\ FailInv => CalledOnce
  BY DEF CallInv, FailInv, CalledOnce
<1>4. QED BY <1>1, <1>2, <1>3, CallInvariant, PTL DEF Spec

-----------------------------------------------------------------------------
(* Messages under way and their records. *)

(* mqtt_async_connect: nothing is under way. *)
LEMMA WireInit == Init => WireInv
BY DEF Init, QosInit, WireInv, Used, Has, Connected

(* A step that leaves the table, the calls and the wire alone, and does not *)
(* begin to receive on a connection that is lost.                          *)
LEMMA WireKept ==
    ASSUME WireInv,
           UNCHANGED <<qosVars, ucall, usent, result, outcome, wire, acked, clashed>>,
           \A t \in Threads : upc'[t] = "send" => upc[t] = "send",
           (Connected \/ Receiving)' => Connected \/ Receiving
    PROVE  WireInv'
BY DEF WireInv, Has, Used

(* While no identifier is given out twice, an acknowledgement releases the *)
(* record of the call that it acknowledges: each message under way on the  *)
(* connection has its record, and a reconnection forgets those that were.  *)
LEMMA WireKeeps ==
    TypeInv /\ LinkInv /\ ClearInv /\ CallInv /\ WireInv /\ [Next]_vars => WireInv'
<1> SUFFICES ASSUME TypeInv, LinkInv, ClearInv, CallInv, WireInv, [Next]_vars
             PROVE  WireInv'
  OBVIOUS
<1>t. /\ QosTypeOK /\ upc \in [Threads -> {"idle", "send", "join"}]
      /\ ucall \in [Threads -> Calls \cup {NoCall}] /\ usent \in [Threads -> MsgIds]
      /\ result \in [Calls -> {"none", "sending", "ok", "error"}]
      /\ outcome \in [Calls -> {"none", "acked", "failed"}]
      /\ wire \subseteq [call : Calls, id : MsgIds] /\ seq \in MsgIds
  BY DEF TypeInv, AsyncTypeOK
<1>1. ASSUME NEW t \in Threads, NEW c \in Calls, NotConnected(t, c) \/ SameThread(t, c) \/ TableFull(t, c)
      PROVE  WireInv'
  <2>1. /\ result[c] = "none" /\ result' = [result EXCEPT ![c] = "error"]
        /\ UNCHANGED <<qosVars, state, hpc, upc, ucall, usent, outcome, wire, acked, clashed>>
    BY <1>1 DEF NotConnected, SameThread, TableFull
  <2>2. \A w \in wire : w.call \in Calls /\ result'[w.call] = "ok"
    BY <1>t, <2>1 DEF WireInv
  <2>3. QED BY <2>1, <2>2 DEF WireInv, Has, Used, Connected
<1>2. ASSUME NEW t \in Threads, NEW c \in Calls, Register(t, c) PROVE WireInv'
  <2>1. /\ result[c] = "none" /\ result' = [result EXCEPT ![c] = "sending"]
        /\ upc' = [upc EXCEPT ![t] = "send"] /\ ucall' = [ucall EXCEPT ![t] = c]
        /\ usent' = [usent EXCEPT ![t] = seq]
        /\ QosAdd(c, seq) /\ TakeMsgId /\ UNCHANGED <<state, hpc, outcome, wire, acked>>
    BY <1>2 DEF Register
  <2>2. PICK i \in Slots \ Used :
          /\ Used' = Used \cup {i} /\ records'[i].call = c /\ records'[i].id = seq
          /\ \A j \in Used : records'[j] = records[j]
    BY <1>t, <2>1, RecordAdded
  <2>3. \A w \in wire : result'[w.call] = "ok"
    BY <1>t, <2>1 DEF WireInv
  <2>4. ~clashed' => ~clashed /\ \A j \in Used : records[j].id # seq
    BY <2>1 DEF TakeMsgId
  <2>5. \A d, m : Has(d, m) => Has(d, m)'
    BY <2>2 DEF Has
  <2>6. Has(ucall[t], usent[t])'
    BY <1>t, <2>1, <2>2 DEF Has
  <2>7. ~clashed' => \A j, k \in Used' : records'[j].id = records'[k].id => j = k
    BY <2>2, <2>4 DEF WireInv
  <2>8. ~clashed' => \A u \in Threads : upc'[u] = "send" => Has(ucall[u], usent[u])'
    <3>1. ASSUME NEW u \in Threads, u # t, upc'[u] = "send", ~clashed'
          PROVE  Has(ucall[u], usent[u])'
      <4>1. upc[u] = "send" /\ ucall'[u] = ucall[u] /\ usent'[u] = usent[u]
        BY <1>t, <2>1, <3>1
      <4>2. Has(ucall[u], usent[u])
        BY <2>4, <3>1, <4>1 DEF WireInv
      <4>3. QED BY <4>1, <4>2, <2>5
    <3>2. QED BY <2>6, <3>1
  <2>9. QED BY <2>1, <2>3, <2>4, <2>5, <2>7, <2>8 DEF WireInv, Connected
<1>3. ASSUME NEW t \in Threads, CallStep(t) PROVE WireInv'
  <2>1. /\ upc[t] = "send" /\ ucall[t] \in Calls /\ result[ucall[t]] = "sending"
        /\ \A u \in Threads : u # t => upc[u] # "send"
    BY <1>3 DEF CallStep, SendCall, SendCallFails, CallInv, LinkInv
  <2>2. /\ upc' = [upc EXCEPT ![t] = "idle"]
        /\ UNCHANGED <<qosVars, hpc, outcome, acked, clashed>>
    BY <1>3 DEF CallStep, SendCall, SendCallFails
  <2>3. /\ \A u \in Threads : upc'[u] # "send"
        /\ Used' = Used /\ records' = records /\ \A d, m : Has(d, m)' <=> Has(d, m)
    BY <1>t, <2>1, <2>2, TableKept DEF Has
  <2>4. CASE SendCall(t)
    <3>1. /\ wire' \subseteq wire \cup {[call |-> ucall[t], id |-> usent[t]]}
          /\ result' = [result EXCEPT ![ucall[t]] = "ok"] /\ state' = state
      BY <2>4 DEF SendCall
    <3>2. \A w \in wire' : result'[w.call] = "ok"
      BY <1>t, <2>1, <3>1 DEF WireInv
    <3>3. ~clashed /\ (Connected \/ Receiving) => \A w \in wire' : Has(w.call, w.id)
      BY <2>1, <3>1 DEF WireInv
    <3>4. QED BY <2>2, <2>3, <3>1, <3>2, <3>3 DEF WireInv, Connected
  <2>5. CASE SendCallFails(t)
    <3>1. /\ wire' = wire /\ state' = "broken"
          /\ result' = [result EXCEPT ![ucall[t]] = "error"]
      BY <2>5 DEF SendCallFails
    <3>2. \A w \in wire' : result'[w.call] = "ok"
      BY <1>t, <2>1, <3>1 DEF WireInv
    <3>3. QED BY <2>2, <2>3, <3>1, <3>2 DEF WireInv, Connected
  <2>6. QED BY <1>3, <2>4, <2>5 DEF CallStep
<1>4. ASSUME NEW t \in Users, PublishQos0(t) \/ PublishQos0Fails(t) \/ Disconnect(t) \/ Join(t)
      PROVE  WireInv'
  <2>1. /\ UNCHANGED <<qosVars, ucall, usent, result, outcome, wire, acked, clashed, hpc>>
        /\ \A u \in Threads : upc'[u] = "send" => upc[u] = "send"
        /\ state' \in {state, "broken", "deleting", "deleted"}
    BY <1>t, <1>4 DEF PublishQos0, PublishQos0Fails, Disconnect, Join, Threads
  <2>2. QED BY <2>1, WireKept DEF Connected
<1>5. CASE HandlerStep
  <2>1. CASE RecvAck
    <3>1. PICK w \in wire : RecvAck!2!(w)
      BY <2>1 DEF RecvAck
    <3>2. /\ wire' = wire \ {w} /\ acked' = acked \cup {w.call} /\ Receiving
          /\ UNCHANGED <<state, upc, ucall, usent, result, clashed>>
          /\ hpc' \in {"callback", "check"} /\ w.call \in Calls
      BY <1>t, <2>1, <3>1 DEF RecvAck
    <3>3. \A v \in wire' : result'[v.call] = "ok"
      BY <3>2 DEF WireInv
    <3>4. CASE clashed
      BY <3>2, <3>3, <3>4 DEF WireInv
    <3>5. CASE ~clashed
      <4>1. PICK k \in Used : records[k].call = w.call /\ records[k].id = w.id
        BY <3>2, <3>5 DEF WireInv, Has
      <4>2. Waiting(w.id) = {k}
        BY <3>5, <4>1 DEF WireInv, Waiting
      <4>3. QosRelease(k) /\ RunCallback(w.call, "acked")
        BY <3>1, <4>1, <4>2 DEF Lowest
      <4>4. Used' = Used \ {k} /\ \A j \in Used' : records'[j] = records[j]
        BY <1>t, <4>3, RecordReleased
      <4>5. \A d, m : Has(d, m) /\ ~(d = w.call /\ m = w.id) => Has(d, m)'
        BY <4>1, <4>4 DEF Has
      <4>6. \A v \in wire' : Has(v.call, v.id)'
        <5>1. ASSUME NEW v \in wire' PROVE Has(v.call, v.id)'
          <6>1. v \in wire /\ v # w /\ Has(v.call, v.id)
            BY <3>2, <3>5 DEF WireInv
          <6>2. ~(v.call = w.call /\ v.id = w.id)
            BY <1>t, <6>1
          <6>3. QED BY <4>5, <6>1, <6>2
        <5>2. QED BY <5>1
      <4>7. \A t \in Threads : upc'[t] = "send" => Has(ucall[t], usent[t])'
        <5>1. ASSUME NEW t \in Threads, upc[t] = "send"
              PROVE  Has(ucall[t], usent[t]) /\ ucall[t] # w.call
          BY <3>5, <5>1 DEF WireInv, CallInv
        <5>2. QED BY <3>2, <4>5, <5>1
      <4>8. \A c \in Calls : outcome'[c] = "acked" => c \in acked'
        BY <1>t, <3>2, <3>5, <4>3 DEF WireInv, RunCallback
      <4>9. QED BY <3>2, <3>3, <3>5, <4>4, <4>6, <4>7, <4>8 DEF WireInv
    <3>6. QED BY <3>4, <3>5
  <2>2. CASE RecvRefusal
    <3>1. /\ wire' \subseteq wire /\ hpc' = "check"
          /\ UNCHANGED <<qosVars, state, upc, ucall, usent, result, outcome, acked, clashed>>
      BY <2>2 DEF RecvRefusal
    <3>2. QED BY <3>1 DEF WireInv, Has, Used, Connected
  <2>3. CASE ClearRecord
    <3>1. PICK i \in Slots :
            Lowest(Ahead, i) /\ QosRelease(i) /\ RunCallback(records[i].call, "failed")
      BY <2>3 DEF ClearRecord
    <3>2. Used' = Used \ {i} /\ \A j \in Used' : records'[j] = records[j]
      BY <1>t, <3>1, RecordReleased DEF Lowest, Ahead
    <3>3. /\ hpc' = "clearcallback" /\ ~Connected
          /\ UNCHANGED <<state, upc, ucall, usent, result, wire, acked, clashed>>
          /\ \A t \in Threads : upc[t] # "send"
      BY <2>3 DEF ClearRecord, ClearInv, LinkInv
    <3>4. \A c \in Calls : outcome'[c] = "acked" => outcome[c] = "acked"
      BY <1>t, <3>1 DEF RunCallback
    <3>5. QED BY <3>2, <3>3, <3>4 DEF WireInv, Connected
  <2>4. CASE Reconnected
    <3>1. wire' = {} /\ UNCHANGED <<qosVars, callVars, outcome, acked, clashed>>
      BY <2>4 DEF Reconnected, FreshLink
    <3>2. QED BY <3>1 DEF WireInv, Has, Used
  <2>5. CASE HandlerStep /\ ~RecvAck /\ ~RecvRefusal /\ ~ClearRecord /\ ~Reconnected
    <3>1. UNCHANGED <<qosVars, upc, ucall, usent, result, outcome, wire, acked, clashed>>
      BY <2>5
         DEF HandlerStep, LoopTest, RecvPingResp, RecvPublish,
             RecvTimeout, RecvMidway, RecvFails, RecvBreak, PubAck,
             CallbackReturns, Check, AckBreak,
             Exit, ClearReturns, ClearEnd, KeepaliveIdle, KeepalivePing,
             KeepalivePingFails, Heartbeat, HeartbeatBreak, ReconnectNot, Reconnect,
             ReconnectFails, Backoff
    <3>2. (Receiving' => Connected \/ Receiving) /\ (Connected' => Connected)
      <4>1. hnext \notin {"recv", "midway"}
        BY DEF TypeInv, AsyncTypeOK
      <4>2. QED
        BY <2>5, <4>1
           DEF HandlerStep, LoopTest, RecvPingResp, RecvPublish,
               RecvTimeout, RecvMidway, RecvFails, RecvBreak, PubAck,
               CallbackReturns, Check, AckBreak,
               Exit, ClearReturns, ClearEnd, KeepaliveIdle, KeepalivePing,
               KeepalivePingFails, Heartbeat, HeartbeatBreak, ReconnectNot, Reconnect,
               ReconnectFails, Backoff, Break, Connected
    <3>3. QED BY <3>1, <3>2, WireKept
  <2>6. QED BY <1>5, <2>1, <2>2, <2>3, <2>4, <2>5
<1>6. CASE \/ \E l \in {"silent", "closed"} : LinkBreaks(l)
           \/ TimePasses
           \/ UNCHANGED vars
  BY <1>6, WireKept DEF LinkBreaks, TimePasses, vars, Connected
<1>7. ASSUME NEW i \in Slots, AckTimeout(i) PROVE WireInv'
  <2>1. /\ Used' = Used
        /\ \A j \in Used :
             records'[j].call = records[j].call /\ records'[j].id = records[j].id
        /\ UNCHANGED <<state, hpc, upc, ucall, usent, result, outcome, wire, acked, clashed>>
    BY <1>t, <1>7, RecordDue DEF AckTimeout
  <2>2. \A d, m : Has(d, m)' <=> Has(d, m)
    BY <2>1 DEF Has
  <2>3. QED BY <2>1, <2>2 DEF WireInv, Connected
<1>8. QED
  BY <1>1, <1>2, <1>3, <1>4, <1>5, <1>6, <1>7 DEF Next

(* A callback is told of success only for a call that the server has       *)
(* acknowledged, over reconnections, as long as no identifier is given out *)
(* while a record has it.                                                  *)
THEOREM AckedByServerCorrect == Spec => []AckedByServer
<1>1. Init => WireInv
  BY WireInit
<1>2. TypeInv /\ LinkInv /\ ClearInv /\ CallInv /\ WireInv /\ [Next]_vars => WireInv'
  BY WireKeeps
<1>3. WireInv => AckedByServer
  BY DEF WireInv, AckedByServer
<1>4. QED BY <1>1, <1>2, <1>3, CallInvariant, PTL DEF Spec
=============================================================================
