-------------------------- MODULE Tr50Api_proofs --------------------------
(***************************************************************************)
(* Proofs about Tr50Api, for any number of threads, messages and           *)
(* identifiers.                                                            *)
(*                                                                         *)
(* The inductive invariant has four parts, proved one after the other:     *)
(* LockInv (who has which mutex, at which place), StopInv (what tr50_stop  *)
(* keeps), ListInv (a message is in one place at a time) and OwnInv (who   *)
(* may complete, free or take back a message).  Only OwnInv needs that no  *)
(* identifier was given out twice and that _compress_deflate does not fail *)
(* in a raw call.                                                          *)
(***************************************************************************)
EXTENDS Tr50Api, TLAPS

InCall  == {"add", "send", "undo", "leave"}     \* places with client->mux
Fresh   == {"enter", "add"}                     \* not yet in the list
Busy    == {"enter"} \cup InCall                \* in a call of the api
StopPcs == {"disconnect", "join", "stopped"}    \* inside tr50_stop

LockInv ==
    /\ \A t \in Threads : clientMux = t <=> pc[t] \in InCall
    /\ pendingMux = Pend <=> pendPc # "sleep"
    /\ recvPc \in {"idle", "ended"} <=> recvMsg = NoMsg
    /\ pendPc \in {"callback", "free"} <=> pendMsg # NoMsg
    /\ pc[Recv] # "idle" => recvPc = "free"
    /\ pc[Pend] # "idle" => pendPc = "free"

StopInv ==
    /\ \A t \in Threads : pc[t] \in InCall => Running
    /\ Running => mqtt = "live"
    /\ \A t \in Threads : pc[t] \in StopPcs => stopping
    /\ \A t, u \in Threads : pc[t] \in StopPcs /\ pc[u] \in StopPcs => t = u

NoTwice == \A i, j \in 1..Len(pending) : pending[i] = pending[j] => i = j

ListInv ==
    /\ NoTwice
    /\ \A m \in Listed : cbs[m] = 0 /\ m # recvMsg /\ m # pendMsg
    /\ recvPc = "callback" => cbs[recvMsg] = 0
    /\ pendPc = "callback" => cbs[pendMsg] = 0
    /\ recvMsg = pendMsg => recvMsg = NoMsg
    /\ \A m \in Msgs : cbs[m] <= 1
    /\ \A m \in Msgs : life[m] = "new" =>
         cbs[m] = 0 /\ m \notin Listed /\ m # recvMsg /\ m # pendMsg
    /\ \A t \in Threads : pc[t] \in Busy => cur[t] \in Msgs /\ life[cur[t]] # "new"
    /\ \A t \in Threads : pc[t] \in Fresh =>
         /\ cbs[cur[t]] = 0 /\ cur[t] \notin Listed
         /\ cur[t] # recvMsg /\ cur[t] # pendMsg
    /\ \A t, u \in Threads :
         pc[t] \in Busy /\ pc[u] \in Busy /\ cur[t] = cur[u] => t = u

(* Without a clash of identifiers. *)
OwnInv ==
    /\ \A m \in Listed : life[m] = "lib"
    /\ recvMsg # NoMsg => life[recvMsg] = "lib" /\ result[recvMsg] # "error"
    /\ pendMsg # NoMsg => life[pendMsg] = "lib" /\ result[pendMsg] # "error"
    /\ \A m \in Msgs : result[m] = "error" => cbs[m] = 0 /\ m \notin Listed
    /\ \A m \in Msgs : life[m] = "new" => result[m] = "none"
    /\ \A t \in Threads : pc[t] \in Busy => result[cur[t]] = "none"
    /\ \A t \in Threads : pc[t] \in Fresh => life[cur[t]] = "lib"
    /\ \A m, n \in Listed : sid[m] = sid[n] => m = n
    /\ \A t \in Threads, m \in Listed :
         pc[t] \in {"add", "send", "undo"} /\ sid[cur[t]] = sid[m] => m = cur[t]
    /\ \A m \in Sync \cap Listed : evt[m] = "armed"
    /\ recvPc = "callback" /\ recvMsg \in Sync => evt[recvMsg] = "armed"
    /\ pendPc = "callback" /\ pendMsg \in Sync => evt[pendMsg] = "armed"
    /\ \A t \in Threads : pc[t] \in Fresh /\ cur[t] \in Sync => evt[cur[t]] = "armed"
    /\ pendPc # "sleep" => next = NoMsg \/ next \in Listed
    /\ pc[Pend] \in {"enter", "add", "send", "undo"} => cur[Pend] # next

-----------------------------------------------------------------------------
(* The list. *)

(* _tr50_pending_linklist_remove takes out one message. *)
LEMMA WithoutType ==
    ASSUME NEW S, NEW s \in Seq(S), NEW i \in 1..Len(s)
    PROVE  Without(s, i) \in Seq(S) /\ Len(Without(s, i)) = Len(s) - 1
<1>1. Len(s) \in Nat /\ Len(s) - 1 \in Nat /\ \A j \in 1..Len(s) : s[j] \in S
  OBVIOUS
<1>2. Without(s, i) \in [1..(Len(s) - 1) -> S]
  BY <1>1 DEF Without
<1>3. QED BY <1>1, <1>2

(* The steps that change the list, and those that do not.  What is left     *)
(* after an unlink is the rest of the list, and no message is in it twice.  *)
LEMMA RemoveStep ==
    ASSUME TypeOK, NoTwice, NEW i \in 1..Len(pending),
           pending' = Without(pending, i)
    PROVE  /\ pending' \in Seq(Msgs) /\ NoTwice'
           /\ pending[i] \in Msgs /\ pending[i] \in Listed
           /\ Listed' = Listed \ {pending[i]}
<1> DEFINE old(j) == IF j < i THEN j ELSE j + 1
<1>1. pending \in Seq(Msgs) /\ Len(pending) \in Nat
  BY DEF TypeOK
<1>2. pending' \in Seq(Msgs) /\ Len(pending') = Len(pending) - 1
  BY <1>1, WithoutType
<1>3. \A j \in 1..Len(pending') :
         old(j) \in 1..Len(pending) /\ old(j) # i /\ pending'[j] = pending[old(j)]
  BY <1>1, <1>2 DEF Without
<1>4. NoTwice'
  BY SMTT(30), <1>1, <1>2, <1>3 DEF NoTwice
<1>5. ASSUME NEW x \in Listed' PROVE x \in Listed /\ x # pending[i]
  <2>1. PICK j \in 1..Len(pending') : x = pending'[j]
    BY DEF Listed
  <2>2. x = pending[old(j)] /\ old(j) \in 1..Len(pending) /\ old(j) # i
    BY <1>3, <2>1
  <2>3. QED BY <2>2 DEF NoTwice, Listed
<1>6. ASSUME NEW x \in Listed, x # pending[i] PROVE x \in Listed'
  <2>1. PICK k \in 1..Len(pending) : x = pending[k]
    BY DEF Listed
  <2> DEFINE j == IF k < i THEN k ELSE k - 1
  <2>2. k # i
    BY <1>6, <2>1
  <2>3. j \in 1..Len(pending') /\ old(j) = k
    BY <1>1, <1>2, <2>2
  <2>4. x = pending'[j]
    BY <1>3, <2>1, <2>3
  <2>5. QED BY <2>3, <2>4 DEF Listed
<1>7. Listed' = Listed \ {pending[i]}
  BY <1>5, <1>6
<1>8. pending[i] \in Msgs /\ pending[i] \in Listed
  BY <1>1 DEF Listed
<1>9. QED BY <1>2, <1>4, <1>7, <1>8

(* tr50_pending_add appends a message that was not in the list. *)
LEMMA AddStep ==
    ASSUME TypeOK, NoTwice, NEW m \in Msgs, m \notin Listed,
           pending' = Append(pending, m)
    PROVE  /\ pending' \in Seq(Msgs) /\ NoTwice'
           /\ Listed' = Listed \cup {m}
<1>1. Len(pending) \in Nat /\ \A i \in 1..Len(pending) : pending[i] \in Msgs
  BY DEF TypeOK
<1>2. /\ pending' \in Seq(Msgs) /\ Len(pending') = Len(pending) + 1
      /\ \A i \in 1..Len(pending) : pending'[i] = pending[i]
      /\ pending'[Len(pending) + 1] = m
  BY <1>1 DEF TypeOK
<1>3. NoTwice'
  BY <1>1, <1>2 DEF NoTwice, Listed
<1>4. Listed' = Listed \cup {m}
  BY <1>1, <1>2 DEF Listed
<1>5. QED BY <1>2, <1>3, <1>4

(* A step that leaves the list alone leaves what is in it alone. *)
LEMMA SameList ==
    ASSUME UNCHANGED pending
    PROVE  Listed' = Listed /\ NoTwice' = NoTwice
BY DEF Listed, NoTwice

(* What tr50_pending_find_and_remove finds. *)
LEMMA FoundIsListed ==
    ASSUME TypeOK, NEW id
    PROVE  /\ \A i : FoundAt(id, i) =>
                i \in 1..Len(pending) /\ pending[i] \in Listed /\ sid[pending[i]] = id
           /\ ~Found(id) => \A m \in Listed : sid[m] # id
BY DEF FoundAt, Found, Listed, TypeOK

(* The list holds messages. *)
LEMMA ListedIsMsgs == TypeOK => Listed \subseteq Msgs
BY DEF Listed, TypeOK

-----------------------------------------------------------------------------
(* Types. *)

(* The next identifier is one, also where the sequence wraps. *)
LEMMA NextIdInIds == TypeOK => NextId \in Ids
BY ConstantsAssumption DEF TypeOK, NextId, Ids

(* TypeOK is not inductive: a thread inside a call has a message, which has *)
(* an identifier once client->mux is held, and a thread that completes a    *)
(* request has that request.                                                *)
TypeInv ==
    /\ TypeOK
    /\ \A t \in Threads :
         /\ pc[t] \in Busy \cup {"wait"} => cur[t] \in Msgs
         /\ pc[t] \in InCall => sid[cur[t]] \in Ids
    /\ recvPc \in {"callback", "free"} => recvMsg \in Msgs
    /\ pendPc \in {"callback", "free"} => pendMsg \in Msgs

(* tr50_create leaves every variable in its type. *)
LEMMA TypeInit == Init => TypeInv
<1> SUFFICES ASSUME Init PROVE TypeInv
  OBVIOUS
<1>1. TypeOK
  <2>1. <<>> \in Seq(Msgs)
    OBVIOUS
  <2>2. /\ seqId \in 0..MaxId /\ sid \in [Msgs -> 0..MaxId]
        /\ cbs \in [Msgs -> Nat] /\ pending \in Seq(Msgs)
    BY <2>1, ConstantsAssumption DEF Init
  <2>3. /\ started \in BOOLEAN /\ stopping \in BOOLEAN /\ clashed \in BOOLEAN
        /\ due \subseteq Msgs /\ published \subseteq Ids
    BY DEF Init
  <2>4. QED BY <2>2, <2>3 DEF Init, TypeOK
<1>2. QED BY <1>1 DEF Init, TypeInv, Busy, InCall

(* Every step of a thread keeps every variable in its type. *)
LEMMA TypeStep == TypeInv /\ [Next]_vars => TypeInv'
<1> SUFFICES ASSUME TypeInv, [Next]_vars PROVE TypeInv'
  OBVIOUS
<1> USE ConstantsAssumption
    DEF TypeInv, TypeOK, CanLockClient, clientVars, idVars, callVars, recvVars, pendVars, Receiving,
        HandlerReturns,
        Busy, InCall
<1>1. ASSUME NEW t \in Apps, NEW m \in Msgs, Call(t, m) PROVE TypeInv'
  BY <1>1 DEF Call, BeginCall, Threads
<1>2. ASSUME NEW t \in Threads, CallbackCalls(t) PROVE TypeInv'
  BY <1>2 DEF CallbackCalls, BeginCall
<1>3. ASSUME NEW t \in Threads, CallStep(t) PROVE TypeInv'
  <2>1. ASSUME NEW f, Fail(t, f), cur[t] \in Msgs,
               clientMux' \in {clientMux, Nobody},
               seqId' \in 0..MaxId, clashed' \in BOOLEAN,
               sid' \in [Msgs -> 0..MaxId],
               \A m \in Msgs : sid[m] \in Ids => sid'[m] \in Ids,
               pending' \in Seq(Msgs)
        PROVE  TypeInv'
    <3>1. /\ started' = started /\ stopping' = stopping /\ mqtt' = mqtt
          /\ pendingMux' = pendingMux /\ due' = due /\ published' = published
          /\ cur' = cur /\ cbs' = cbs /\ recvPc' = recvPc /\ recvMsg' = recvMsg
          /\ pendPc' = pendPc /\ pendMsg' = pendMsg /\ next' = next
      BY <2>1 DEF Fail
    <3>2. /\ life' \in [Msgs -> {"new", "lib", "caller", "lost", "gone",
                           "freed"}]
          /\ result' \in [Msgs -> {"none", "ok", "error"}]
          /\ evt' \in [Msgs -> {"none", "armed", "set", "deleted"}]
      BY <2>1 DEF Fail
    <3>3. pc' = [pc EXCEPT ![t] = "idle"]
      BY <2>1 DEF Fail
    <3>4. pc' \in [Threads -> {"idle", "enter", "add", "send", "undo", "leave",
                               "wait", "disconnect", "join", "stopped"}]
      BY <3>3
    <3>5. started' \in BOOLEAN /\ stopping' \in BOOLEAN
      BY <3>1
    <3>6. mqtt' \in {"none", "live", "closing", "freed"}
          /\ clientMux' \in Threads \cup {Nobody} /\ pendingMux' \in {Pend, Nobody}
      BY <3>1, <2>1
    <3>7. TypeOK'
      BY <3>1, <3>2, <3>4, <3>5, <3>6, <2>1
    <3>8. QED BY <2>1, <3>1, <3>3, <3>7
  <2>2. CASE EnterRefused(t)
    <3>1. cur[t] \in Msgs /\ Fail(t, cur[t]) /\ UNCHANGED <<clientMux, idVars, pending>>
      BY <2>2 DEF EnterRefused
    <3>2. clashed' \in BOOLEAN
      BY <3>1
    <3>3. QED BY <2>1, <3>1, <3>2
  <2>3. ASSUME TakeId(t)
        PROVE  /\ cur[t] \in Msgs
               /\ seqId' \in 0..MaxId /\ clashed' \in BOOLEAN
               /\ sid' \in [Msgs -> 0..MaxId]
               /\ sid'[cur[t]] \in Ids
               /\ \A m \in Msgs : sid[m] \in Ids => sid'[m] \in Ids
    BY <2>3, NextIdInIds DEF TakeId, Ids
  <2>4. CASE Enter(t)
    BY SMTT(30), <2>3, <2>4 DEF Enter
  <2>5. CASE EnterNoPayload(t)
    <3>1. cur[t] \in Msgs /\ Fail(t, cur[t]) /\ UNCHANGED <<clientMux, pending>>
      BY <2>3, <2>5 DEF EnterNoPayload
    <3>2. TakeId(t)
      BY <2>5 DEF EnterNoPayload
    <3>3. QED BY <2>1, <2>3, <3>1, <3>2
  <2>6. CASE Add(t)
    BY <2>6 DEF Add
  <2>7. CASE Send(t)
    BY <2>7 DEF Send, TopicIds
  <2>8. CASE SendFails(t)
    BY <2>8 DEF SendFails
  <2>9. CASE DeflateFailure(t)
    BY <2>9 DEF DeflateFailure
  <2>10. CASE Undo(t)
    <3>1. PICK i \in 1..Len(pending) :
            pending' = Without(pending, i) /\ Fail(t, pending[i])
      BY <2>10 DEF Undo
    <3>2. pending' \in Seq(Msgs)
      BY <3>1, WithoutType
    <3>3. cur[t] \in Msgs /\ UNCHANGED idVars /\ clientMux' = Nobody
      BY <2>10 DEF Undo
    <3>4. clashed' \in BOOLEAN
      BY <3>3
    <3>5. QED BY <2>1, <3>1, <3>2, <3>3, <3>4
  <2>11. CASE UndoExpired(t)
    BY <2>11 DEF UndoExpired
  <2>12. CASE Leave(t)
    BY <2>12 DEF Leave
  <2>13. CASE WaitReturns(t)
    BY <2>13 DEF WaitReturns
  <2>14. QED
    BY <1>3, <2>2, <2>4, <2>5, <2>6, <2>7, <2>8, <2>9, <2>10, <2>11, <2>12, <2>13
       DEF CallStep
<1>4. ASSUME NEW t \in Apps, Start(t) \/ StopBegin(t) \/ StopStep(t)
      PROVE  TypeInv'
  <2>1. t \in Threads
    BY DEF Threads
  <2>2. CASE Start(t)
    BY <2>2 DEF Start, otherVars
  <2>3. CASE StopBegin(t)
    BY <2>1, <2>3 DEF StopBegin, otherVars
  <2>4. CASE StopDisconnect(t)
    BY <2>1, <2>4 DEF StopDisconnect, otherVars
  <2>5. CASE StopJoin(t)
    BY <2>1, <2>5 DEF StopJoin, otherVars
  <2>6. CASE StopEnd(t)
    BY <2>1, <2>6 DEF StopEnd, otherVars
  <2>7. QED BY <1>4, <2>2, <2>3, <2>4, <2>5, <2>6 DEF StopStep
<1>5. ASSUME NEW m \in Msgs, Tick(m) PROVE TypeInv'
  BY <1>5 DEF Tick
<1>6. CASE RecvStep
  <2>1. CASE RecvReply
    <3>1. PICK i \in 1..Len(pending) :
            pending' = Without(pending, i) /\ recvMsg' = pending[i]
      BY <2>1 DEF RecvReply
    <3>2. pending' \in Seq(Msgs) /\ recvMsg' \in Msgs
      BY <3>1, WithoutType
    <3>3. QED BY <2>1, <3>2 DEF RecvReply
  <2>2. CASE RecvCallback
    BY <2>2 DEF RecvCallback, RunCallback
  <2>3. CASE RecvBadReply
    BY <2>3 DEF RecvBadReply
  <2>4. CASE RecvFree
    BY <2>4 DEF RecvFree
  <2>5. QED BY <1>6, <2>1, <2>2, <2>3, <2>4 DEF RecvStep
<1>7. CASE PendStep
  <2>1. CASE PendLock
    BY <2>1 DEF PendLock, ListHead
  <2>2. CASE PendKeep
    BY SMTT(30), <2>2 DEF PendKeep, NextOf
  <2>3. CASE PendExpire
    <3>1. PICK i \in 1..Len(pending) :
            pending' = Without(pending, i) /\ next' = NextOf(i)
      BY <2>3 DEF PendExpire
    <3>2. pending' \in Seq(Msgs) /\ next' \in Msgs \cup {NoMsg}
      BY <3>1, WithoutType DEF NextOf
    <3>3. QED BY <2>3, <3>2 DEF PendExpire
  <2>4. CASE PendCallback
    BY <2>4 DEF PendCallback, RunCallback
  <2>5. CASE PendFree
    BY <2>5 DEF PendFree
  <2>6. CASE PendUnlock
    BY <2>6 DEF PendUnlock
  <2>7. QED BY <1>7, <2>1, <2>2, <2>3, <2>4, <2>5, <2>6 DEF PendStep
<1>8. CASE UNCHANGED vars
  BY <1>8 DEF vars
<1>9. QED
  BY <1>1, <1>2, <1>3, <1>4, <1>5, <1>6, <1>7, <1>8 DEF Next, Step

(* Every variable keeps its type, whatever the number of threads, messages  *)
(* and identifiers.                                                         *)
THEOREM TypeCorrect == Spec => []TypeOK
<1>1. TypeInv => TypeOK
  BY DEF TypeInv
<1>2. QED BY <1>1, TypeInit, TypeStep, PTL DEF Spec

-----------------------------------------------------------------------------
(* The invariant. *)

(* A call holds client->mux from its identifier to its end, the walk holds   *)
(* pending->mux, and no one else does.                                       *)
LEMMA LockStep == TypeInv /\ LockInv /\ [Next]_vars => LockInv'
<1> SUFFICES ASSUME TypeInv, LockInv, [Next]_vars PROVE LockInv'
  OBVIOUS
<1> USE ConstantsAssumption
    DEF LockInv, InCall, CanLockClient, clientVars, idVars, callVars, recvVars, pendVars, Receiving,
        HandlerReturns
<1>0. /\ pc \in [Threads -> {"idle", "enter", "add", "send", "undo", "leave",
                           "wait", "disconnect", "join", "stopped"}]
      /\ Apps \subseteq Threads /\ Recv \in Threads /\ Pend \in Threads
      /\ Nobody \notin Threads
      /\ recvPc \in {"callback", "free"} => recvMsg \in Msgs
      /\ pendPc \in {"callback", "free"} => pendMsg \in Msgs
      /\ pending \in Seq(Msgs)
      /\ next \in Msgs \cup {NoMsg}
  BY DEF TypeInv, TypeOK, Threads
<1>1. ASSUME NEW t \in Apps, NEW m \in Msgs, Call(t, m) PROVE LockInv'
  BY <1>0, <1>1 DEF Call, BeginCall
<1>2. ASSUME NEW t \in Threads, CallbackCalls(t) PROVE LockInv'
  BY <1>0, <1>2 DEF CallbackCalls, BeginCall
<1>3. ASSUME NEW t \in Threads, EnterRefused(t) PROVE LockInv'
  BY <1>0, <1>3 DEF EnterRefused, Fail
<1>4. ASSUME NEW t \in Threads, Enter(t) PROVE LockInv'
  BY <1>0, <1>4 DEF Enter, TakeId
<1>5. ASSUME NEW t \in Threads, EnterNoPayload(t) PROVE LockInv'
  BY <1>0, <1>5 DEF EnterNoPayload, TakeId, Fail
<1>6. ASSUME NEW t \in Threads, Add(t) PROVE LockInv'
  BY <1>0, <1>6 DEF Add
<1>7. ASSUME NEW t \in Threads, Send(t) PROVE LockInv'
  BY <1>0, <1>7 DEF Send
<1>8. ASSUME NEW t \in Threads, SendFails(t) PROVE LockInv'
  BY <1>0, <1>8 DEF SendFails
<1>9. ASSUME NEW t \in Threads, DeflateFailure(t) PROVE LockInv'
  BY <1>0, <1>9 DEF DeflateFailure, Fail
<1>10. ASSUME NEW t \in Threads, Undo(t) PROVE LockInv'
  BY <1>0, <1>10 DEF Undo, Fail
<1>11. ASSUME NEW t \in Threads, UndoExpired(t) PROVE LockInv'
  BY <1>0, <1>11 DEF UndoExpired
<1>12. ASSUME NEW t \in Threads, Leave(t) PROVE LockInv'
  BY <1>0, <1>12 DEF Leave
<1>13. ASSUME NEW t \in Threads, WaitReturns(t) PROVE LockInv'
  BY <1>0, <1>13 DEF WaitReturns
<1>14. ASSUME NEW t \in Apps, Start(t) PROVE LockInv'
  BY <1>0, <1>14 DEF Start, otherVars
<1>15. ASSUME NEW t \in Apps, StopBegin(t) PROVE LockInv'
  BY <1>0, <1>15 DEF StopBegin, otherVars
<1>16. ASSUME NEW t \in Apps, StopDisconnect(t) PROVE LockInv'
  BY <1>0, <1>16 DEF StopDisconnect, otherVars
<1>17. ASSUME NEW t \in Apps, StopJoin(t) PROVE LockInv'
  BY <1>0, <1>17 DEF StopJoin, otherVars
<1>18. ASSUME NEW t \in Apps, StopEnd(t) PROVE LockInv'
  BY <1>0, <1>18 DEF StopEnd, otherVars
<1>19. ASSUME NEW m \in Msgs, Tick(m) PROVE LockInv'
  BY <1>0, <1>19 DEF Tick
<1>20. CASE RecvReply
  BY <1>0, <1>20 DEF RecvReply
<1>21. CASE RecvCallback
  BY <1>0, <1>21 DEF RecvCallback, RunCallback
<1>22. CASE RecvBadReply
  BY <1>0, <1>22 DEF RecvBadReply
<1>23. CASE RecvFree
  BY <1>0, <1>23 DEF RecvFree
<1>24. CASE PendLock
  BY <1>0, <1>24 DEF PendLock
<1>25. CASE PendKeep
  BY <1>0, <1>25 DEF PendKeep
<1>26. CASE PendExpire
  BY <1>0, <1>26 DEF PendExpire
<1>27. CASE PendCallback
  BY <1>0, <1>27 DEF PendCallback, RunCallback
<1>28. CASE PendFree
  BY <1>0, <1>28 DEF PendFree
<1>29. CASE PendUnlock
  BY <1>0, <1>29 DEF PendUnlock
<1>30. CASE UNCHANGED vars
  BY <1>30 DEF vars
<1>31. QED
  BY <1>1, <1>2, <1>3, <1>4, <1>5, <1>6, <1>7, <1>8, <1>9, <1>10, <1>11, <1>12, <1>13, <1>14, <1>15, <1>16, <1>17, <1>18, <1>19, <1>20, <1>21, <1>22, <1>23, <1>24, <1>25, <1>26, <1>27, <1>28, <1>29, <1>30
     DEF Next, Step, CallStep, StopStep, RecvStep, PendStep

(* While a call is inside, no tr50_stop has begun; one tr50_stop runs.       *)
LEMMA StopKeeps == TypeInv /\ LockInv /\ StopInv /\ [Next]_vars => StopInv'
<1> SUFFICES ASSUME TypeInv, LockInv, StopInv, [Next]_vars PROVE StopInv'
  OBVIOUS
<1> USE ConstantsAssumption
    DEF StopInv, LockInv, InCall, StopPcs, Running, CanLockClient,
         clientVars, idVars,
        callVars, recvVars, pendVars, Receiving,
        HandlerReturns
<1>0. /\ pc \in [Threads -> {"idle", "enter", "add", "send", "undo", "leave",
                           "wait", "disconnect", "join", "stopped"}]
      /\ Apps \subseteq Threads /\ Nobody \notin Threads
  BY DEF TypeInv, TypeOK, Threads
<1>1. ASSUME NEW t \in Apps, NEW m \in Msgs, Call(t, m) PROVE StopInv'
  BY <1>0, <1>1 DEF Call, BeginCall
<1>2. ASSUME NEW t \in Threads, CallbackCalls(t) PROVE StopInv'
  BY <1>0, <1>2 DEF CallbackCalls, BeginCall
<1>3. ASSUME NEW t \in Threads, EnterRefused(t) PROVE StopInv'
  BY <1>0, <1>3 DEF EnterRefused, Fail
<1>4. ASSUME NEW t \in Threads, Enter(t) PROVE StopInv'
  BY <1>0, <1>4 DEF Enter, TakeId
<1>5. ASSUME NEW t \in Threads, EnterNoPayload(t) PROVE StopInv'
  BY <1>0, <1>5 DEF EnterNoPayload, TakeId, Fail
<1>6. ASSUME NEW t \in Threads, Add(t) PROVE StopInv'
  BY <1>0, <1>6 DEF Add
<1>7. ASSUME NEW t \in Threads, Send(t) PROVE StopInv'
  BY <1>0, <1>7 DEF Send
<1>8. ASSUME NEW t \in Threads, SendFails(t) PROVE StopInv'
  BY <1>0, <1>8 DEF SendFails
<1>9. ASSUME NEW t \in Threads, DeflateFailure(t) PROVE StopInv'
  BY <1>0, <1>9 DEF DeflateFailure, Fail
<1>10. ASSUME NEW t \in Threads, Undo(t) PROVE StopInv'
  BY <1>0, <1>10 DEF Undo, Fail
<1>11. ASSUME NEW t \in Threads, UndoExpired(t) PROVE StopInv'
  BY <1>0, <1>11 DEF UndoExpired
<1>12. ASSUME NEW t \in Threads, Leave(t) PROVE StopInv'
  BY <1>0, <1>12 DEF Leave
<1>13. ASSUME NEW t \in Threads, WaitReturns(t) PROVE StopInv'
  BY <1>0, <1>13 DEF WaitReturns
<1>14. ASSUME NEW t \in Apps, Start(t) PROVE StopInv'
  BY <1>0, <1>14 DEF Start, otherVars
<1>15. ASSUME NEW t \in Apps, StopBegin(t) PROVE StopInv'
  BY <1>0, <1>15 DEF StopBegin, otherVars
<1>16. ASSUME NEW t \in Apps, StopDisconnect(t) PROVE StopInv'
  BY <1>0, <1>16 DEF StopDisconnect, otherVars
<1>17. ASSUME NEW t \in Apps, StopJoin(t) PROVE StopInv'
  BY <1>0, <1>17 DEF StopJoin, otherVars
<1>18. ASSUME NEW t \in Apps, StopEnd(t) PROVE StopInv'
  BY <1>0, <1>18 DEF StopEnd, otherVars
<1>19. ASSUME NEW m \in Msgs, Tick(m) PROVE StopInv'
  BY <1>0, <1>19 DEF Tick
<1>20. CASE RecvReply
  BY <1>0, <1>20 DEF RecvReply
<1>21. CASE RecvCallback
  BY <1>0, <1>21 DEF RecvCallback, RunCallback
<1>22. CASE RecvBadReply
  BY <1>0, <1>22 DEF RecvBadReply
<1>23. CASE RecvFree
  BY <1>0, <1>23 DEF RecvFree
<1>24. CASE PendLock
  BY <1>0, <1>24 DEF PendLock
<1>25. CASE PendKeep
  BY <1>0, <1>25 DEF PendKeep
<1>26. CASE PendExpire
  BY <1>0, <1>26 DEF PendExpire
<1>27. CASE PendCallback
  BY <1>0, <1>27 DEF PendCallback, RunCallback
<1>28. CASE PendFree
  BY <1>0, <1>28 DEF PendFree
<1>29. CASE PendUnlock
  BY <1>0, <1>29 DEF PendUnlock
<1>30. CASE UNCHANGED vars
  BY <1>30 DEF vars
<1>31. QED
  BY <1>1, <1>2, <1>3, <1>4, <1>5, <1>6, <1>7, <1>8, <1>9, <1>10,
     <1>11, <1>12, <1>13, <1>14, <1>15, <1>16, <1>17, <1>18, <1>19, <1>20,
     <1>21, <1>22, <1>23, <1>24, <1>25, <1>26, <1>27, <1>28, <1>29, <1>30
     DEF Next, Step, CallStep, StopStep, RecvStep, PendStep

(* A message is in the list or with one of the two threads that complete     *)
(* it, and has not been completed before.                                    *)
LEMMA ListKeeps == TypeInv /\ LockInv /\ ListInv /\ [Next]_vars => ListInv'
<1> SUFFICES ASSUME TypeInv, LockInv, ListInv, [Next]_vars PROVE ListInv'
  OBVIOUS
<1> USE ConstantsAssumption
    DEF ListInv, LockInv, InCall, CanLockClient, Fresh, Busy, clientVars, idVars, callVars,
        recvVars, pendVars, Receiving,
        HandlerReturns
<1>00. /\ TypeOK /\ NoTwice
       /\ \A t \in Threads : pc[t] \in Busy => cur[t] \in Msgs
       /\ \A t \in Threads : pc[t] = "add" => cur[t] \notin Listed
  BY DEF TypeInv
<1>0. /\ pc \in [Threads -> {"idle", "enter", "add", "send", "undo", "leave",
                           "wait", "disconnect", "join", "stopped"}]
      /\ cur \in [Threads -> Msgs \cup {NoMsg}]
      /\ life \in [Msgs -> {"new", "lib", "caller", "lost", "gone",
                           "freed"}]
      /\ cbs \in [Msgs -> Nat]
      /\ Listed \subseteq Msgs
      /\ Apps \subseteq Threads /\ Recv \in Threads /\ Pend \in Threads
      /\ Nobody \notin Threads
      /\ recvPc \in {"callback", "free"} => recvMsg \in Msgs
      /\ pendPc \in {"callback", "free"} => pendMsg \in Msgs
  BY ListedIsMsgs DEF TypeInv, TypeOK, Threads
<1>1. ASSUME NEW t \in Apps, NEW m \in Msgs, Call(t, m) PROVE ListInv'
  <2>1. UNCHANGED pending
    BY <1>1 DEF Call, BeginCall
  <2>2. QED BY <1>0, <1>1, <2>1, SameList DEF Call, BeginCall
<1>2. ASSUME NEW t \in Threads, CallbackCalls(t) PROVE ListInv'
  <2>1. UNCHANGED pending
    BY <1>2 DEF CallbackCalls, BeginCall
  <2>2. QED BY <1>0, <1>2, <2>1, SameList DEF CallbackCalls, BeginCall
<1>3. ASSUME NEW t \in Threads, EnterRefused(t) PROVE ListInv'
  <2>1. UNCHANGED pending
    BY <1>3 DEF EnterRefused, Fail
  <2>2. QED BY <1>0, <1>3, <2>1, SameList DEF EnterRefused, Fail
<1>4. ASSUME NEW t \in Threads, Enter(t) PROVE ListInv'
  <2>1. UNCHANGED pending
    BY <1>4 DEF Enter, TakeId
  <2>2. QED BY <1>0, <1>4, <2>1, SameList DEF Enter, TakeId
<1>5. ASSUME NEW t \in Threads, EnterNoPayload(t) PROVE ListInv'
  <2>1. UNCHANGED pending
    BY <1>5 DEF EnterNoPayload, TakeId, Fail
  <2>2. QED BY <1>0, <1>5, <2>1, SameList DEF EnterNoPayload, TakeId, Fail
<1>6. ASSUME NEW t \in Threads, Add(t) PROVE ListInv'
  <2>1. NoTwice' /\ Listed' = Listed \cup {cur[t]}
    BY <1>00, <1>6, AddStep DEF Add
  <2>2. QED BY <1>0, <1>6, <2>1 DEF Add
<1>7. ASSUME NEW t \in Threads, Send(t) PROVE ListInv'
  <2>1. UNCHANGED pending
    BY <1>7 DEF Send
  <2>2. QED BY <1>0, <1>7, <2>1, SameList DEF Send
<1>8. ASSUME NEW t \in Threads, SendFails(t) PROVE ListInv'
  <2>1. UNCHANGED pending
    BY <1>8 DEF SendFails
  <2>2. QED BY <1>0, <1>8, <2>1, SameList DEF SendFails
<1>9. ASSUME NEW t \in Threads, DeflateFailure(t) PROVE ListInv'
  <2>1. UNCHANGED pending
    BY <1>9 DEF DeflateFailure, Fail
  <2>2. QED BY <1>0, <1>9, <2>1, SameList DEF DeflateFailure, Fail
<1>10. ASSUME NEW t \in Threads, Undo(t) PROVE ListInv'
  <2>1. PICK i \in 1..Len(pending) : pending' = Without(pending, i)
    BY <1>10 DEF Undo, Fail
  <2>2. NoTwice' /\ Listed' = Listed \ {pending[i]} /\ pending[i] \in Msgs
        /\ pending[i] \in Listed
    BY <1>00, <2>1, RemoveStep
  <2>3. QED BY <1>0, <1>10, <2>1, <2>2 DEF Undo, Fail
<1>11. ASSUME NEW t \in Threads, UndoExpired(t) PROVE ListInv'
  <2>1. UNCHANGED pending
    BY <1>11 DEF UndoExpired
  <2>2. QED BY <1>0, <1>11, <2>1, SameList DEF UndoExpired
<1>12. ASSUME NEW t \in Threads, Leave(t) PROVE ListInv'
  <2>1. UNCHANGED pending
    BY <1>12 DEF Leave
  <2>2. QED BY <1>0, <1>12, <2>1, SameList DEF Leave
<1>13. ASSUME NEW t \in Threads, WaitReturns(t) PROVE ListInv'
  <2>1. UNCHANGED pending
    BY <1>13 DEF WaitReturns
  <2>2. QED BY <1>0, <1>13, <2>1, SameList DEF WaitReturns
<1>14. ASSUME NEW t \in Apps, Start(t) PROVE ListInv'
  <2>1. UNCHANGED pending
    BY <1>14 DEF Start, otherVars
  <2>2. QED BY <1>0, <1>14, <2>1, SameList DEF Start, otherVars
<1>15. ASSUME NEW t \in Apps, StopBegin(t) PROVE ListInv'
  <2>1. UNCHANGED pending
    BY <1>15 DEF StopBegin, otherVars
  <2>2. QED BY <1>0, <1>15, <2>1, SameList DEF StopBegin, otherVars
<1>16. ASSUME NEW t \in Apps, StopDisconnect(t) PROVE ListInv'
  <2>1. UNCHANGED pending
    BY <1>16 DEF StopDisconnect, otherVars
  <2>2. QED BY <1>0, <1>16, <2>1, SameList DEF StopDisconnect, otherVars
<1>17. ASSUME NEW t \in Apps, StopJoin(t) PROVE ListInv'
  <2>1. UNCHANGED pending
    BY <1>17 DEF StopJoin, otherVars
  <2>2. QED BY <1>0, <1>17, <2>1, SameList DEF StopJoin, otherVars
<1>18. ASSUME NEW t \in Apps, StopEnd(t) PROVE ListInv'
  <2>1. UNCHANGED pending
    BY <1>18 DEF StopEnd, otherVars
  <2>2. QED BY <1>0, <1>18, <2>1, SameList DEF StopEnd, otherVars
<1>19. ASSUME NEW m \in Msgs, Tick(m) PROVE ListInv'
  <2>1. UNCHANGED pending
    BY <1>19 DEF Tick
  <2>2. QED BY <1>0, <1>19, <2>1, SameList DEF Tick
<1>20. CASE RecvReply
  <2>1. PICK i \in 1..Len(pending) : pending' = Without(pending, i)
                               /\ recvMsg' = pending[i]
    BY <1>20 DEF RecvReply
  <2>2. NoTwice' /\ Listed' = Listed \ {pending[i]} /\ pending[i] \in Msgs
        /\ pending[i] \in Listed
    BY <1>00, <2>1, RemoveStep
  <2>3. QED BY <1>0, <1>20, <2>1, <2>2 DEF RecvReply
<1>21. CASE RecvCallback
  <2>1. UNCHANGED pending
    BY <1>21 DEF RecvCallback, RunCallback
  <2>2. QED BY <1>0, <1>21, <2>1, SameList DEF RecvCallback, RunCallback
<1>22. CASE RecvBadReply
  <2>1. UNCHANGED pending
    BY <1>22 DEF RecvBadReply
  <2>2. QED BY <1>0, <1>22, <2>1, SameList DEF RecvBadReply
<1>23. CASE RecvFree
  <2>1. UNCHANGED pending
    BY <1>23 DEF RecvFree
  <2>2. QED BY <1>0, <1>23, <2>1, SameList DEF RecvFree
<1>24. CASE PendLock
  <2>1. UNCHANGED pending
    BY <1>24 DEF PendLock
  <2>2. QED BY <1>0, <1>24, <2>1, SameList DEF PendLock
<1>25. CASE PendKeep
  <2>1. UNCHANGED pending
    BY <1>25 DEF PendKeep
  <2>2. QED BY <1>0, <1>25, <2>1, SameList DEF PendKeep
<1>26. CASE PendExpire
  <2>1. PICK i \in 1..Len(pending) : pending' = Without(pending, i)
                               /\ pending[i] = next
    BY <1>26 DEF PendExpire
  <2>2. NoTwice' /\ Listed' = Listed \ {pending[i]} /\ pending[i] \in Msgs
        /\ pending[i] \in Listed
    BY <1>00, <2>1, RemoveStep
  <2>3. QED BY <1>0, <1>26, <2>1, <2>2 DEF PendExpire
<1>27. CASE PendCallback
  <2>1. UNCHANGED pending
    BY <1>27 DEF PendCallback, RunCallback
  <2>2. QED BY <1>0, <1>27, <2>1, SameList DEF PendCallback, RunCallback
<1>28. CASE PendFree
  <2>1. UNCHANGED pending
    BY <1>28 DEF PendFree
  <2>2. QED BY <1>0, <1>28, <2>1, SameList DEF PendFree
<1>29. CASE PendUnlock
  <2>1. UNCHANGED pending
    BY <1>29 DEF PendUnlock
  <2>2. QED BY <1>0, <1>29, <2>1, SameList DEF PendUnlock
<1>30. CASE UNCHANGED vars
  BY <1>30, SameList DEF vars
<1>31. QED
  BY <1>1, <1>2, <1>3, <1>4, <1>5, <1>6, <1>7, <1>8, <1>9, <1>10,
     <1>11, <1>12, <1>13, <1>14, <1>15, <1>16, <1>17, <1>18, <1>19, <1>20,
     <1>21, <1>22, <1>23, <1>24, <1>25, <1>26, <1>27, <1>28, <1>29, <1>30
     DEF Next, Step, CallStep, StopStep, RecvStep, PendStep

(* ~clashed' is needed, not only ~clashed: the step may be the one that     *)
(* gives out an identifier twice.                                           *)
LEMMA OwnKeeps ==
    ASSUME TypeInv, LockInv, ListInv, OwnInv, [Next]_vars,
           DeflateFails = FALSE, clashed' = FALSE
    PROVE  OwnInv'
<1> USE ConstantsAssumption
    DEF OwnInv, ListInv, LockInv, InCall, CanLockClient, Fresh, Busy,
         clientVars, idVars,
        callVars, recvVars, pendVars
<1>00. /\ TypeOK /\ NoTwice
       /\ \A t \in Threads : pc[t] \in Busy => cur[t] \in Msgs
       /\ \A t \in Threads : pc[t] = "add" => cur[t] \notin Listed
       /\ \A t \in Threads, m \in Listed :
            pc[t] = "undo" /\ sid[cur[t]] = sid[m] => m = cur[t]
  BY DEF TypeInv
<1>0. /\ pc \in [Threads -> {"idle", "enter", "add", "send", "undo", "leave",
                           "wait", "disconnect", "join", "stopped"}]
      /\ cur \in [Threads -> Msgs \cup {NoMsg}]
      /\ life \in [Msgs -> {"new", "lib", "caller", "lost", "gone",
                           "freed"}]
      /\ sid \in [Msgs -> 0..MaxId]
      /\ cbs \in [Msgs -> Nat]
      /\ result \in [Msgs -> {"none", "ok", "error"}]
      /\ evt \in [Msgs -> {"none", "armed", "set", "deleted"}]
      /\ pendingMux \in {Pend, Nobody}
      /\ Listed \subseteq Msgs
      /\ Apps \subseteq Threads /\ Recv \in Threads /\ Pend \in Threads
      /\ Nobody \notin Threads
      /\ recvMsg # NoMsg => recvMsg \in Msgs
      /\ pendPc \in {"callback", "free"} => pendMsg \in Msgs
      /\ \A t \in Threads : pc[t] \in Busy \cup {"wait"} => cur[t] \in Msgs
  BY ListedIsMsgs DEF TypeInv, TypeOK, Threads
<1>1. ASSUME NEW t \in Apps, NEW m \in Msgs, Call(t, m) PROVE OwnInv'
  <2>1. UNCHANGED pending
    BY <1>1 DEF Call, BeginCall
  <2>2. QED BY <1>0, <1>1, <2>1, SameList DEF Call, BeginCall
<1>2. ASSUME NEW t \in Threads, CallbackCalls(t) PROVE OwnInv'
  <2>1. UNCHANGED pending
    BY <1>2 DEF CallbackCalls, BeginCall
  <2>2. QED BY <1>0, <1>2, <2>1, SameList DEF CallbackCalls, BeginCall
<1>3. ASSUME NEW t \in Threads, EnterRefused(t) PROVE OwnInv'
  <2>1. UNCHANGED pending
    BY <1>3 DEF EnterRefused, Fail
  <2>2. QED BY <1>0, <1>3, <2>1, SameList DEF EnterRefused, Fail
<1>4. ASSUME NEW t \in Threads, Enter(t) PROVE OwnInv'
  <2>1. UNCHANGED pending
    BY <1>4 DEF Enter
  <2>2. \A m \in Listed : sid[m] # NextId
    BY <1>00, <1>4, FoundIsListed DEF Enter, TakeId
  <2>3. QED BY <1>0, <1>4, <2>1, <2>2, SameList DEF Enter, TakeId
<1>5. ASSUME NEW t \in Threads, EnterNoPayload(t) PROVE OwnInv'
  <2>1. UNCHANGED pending
    BY <1>5 DEF EnterNoPayload, Fail
  <2>2. \A m \in Listed : sid[m] # NextId
    BY <1>00, <1>5, FoundIsListed DEF EnterNoPayload, TakeId
  <2>3. QED BY <1>0, <1>5, <2>1, <2>2, SameList DEF EnterNoPayload, Fail, TakeId
<1>6. ASSUME NEW t \in Threads, Add(t) PROVE OwnInv'
  <2>1. Listed' = Listed \cup {cur[t]}
    BY <1>00, <1>6, AddStep DEF Add
  <2>2. QED BY <1>0, <1>6, <2>1 DEF Add
<1>7. ASSUME NEW t \in Threads, Send(t) PROVE OwnInv'
  <2>1. UNCHANGED pending
    BY <1>7 DEF Send
  <2>2. QED BY <1>0, <1>7, <2>1, SameList DEF Send
<1>8. ASSUME NEW t \in Threads, SendFails(t) PROVE OwnInv'
  <2>1. UNCHANGED pending
    BY <1>8 DEF SendFails
  <2>2. QED BY <1>0, <1>8, <2>1, SameList DEF SendFails
<1>9. ASSUME NEW t \in Threads, DeflateFailure(t) PROVE OwnInv'
  BY <1>9 DEF DeflateFailure
<1>10. ASSUME NEW t \in Threads, Undo(t) PROVE OwnInv'
  <2>1. PICK i \in 1..Len(pending) : pending' = Without(pending, i)
                               /\ FoundAt(sid[cur[t]], i) /\ Fail(t, pending[i])
    BY <1>10 DEF Undo, Fail
  <2>2. Listed' = Listed \ {pending[i]} /\ pending[i] \in Msgs /\ pending[i] \in Listed
    BY <1>00, <2>1, RemoveStep
  <2>3. pending[i] = cur[t]
    <3>1. sid[pending[i]] = sid[cur[t]]
      BY <2>1 DEF FoundAt
    <3>2. pc[t] = "undo"
      BY <1>10 DEF Undo
    <3>3. QED BY <1>00, <2>2, <3>1, <3>2
  <2>4. t # Pend => pendPc = "sleep"
    BY <1>0, <1>10 DEF Undo, CanLockPending
  <2>9. QED BY <1>0, <1>10, <2>1, <2>2, <2>3, <2>4 DEF Undo, Fail
<1>11. ASSUME NEW t \in Threads, UndoExpired(t) PROVE OwnInv'
  <2>1. UNCHANGED pending
    BY <1>11 DEF UndoExpired
  <2>2. QED BY <1>0, <1>11, <2>1, SameList DEF UndoExpired
<1>12. ASSUME NEW t \in Threads, Leave(t) PROVE OwnInv'
  <2>1. UNCHANGED pending
    BY <1>12 DEF Leave
  <2>2. QED BY <1>0, <1>12, <2>1, SameList DEF Leave
<1>13. ASSUME NEW t \in Threads, WaitReturns(t) PROVE OwnInv'
  <2>1. UNCHANGED pending
    BY <1>13 DEF WaitReturns
  <2>2. QED BY <1>0, <1>13, <2>1, SameList DEF WaitReturns
<1>14. ASSUME NEW t \in Apps, Start(t) PROVE OwnInv'
  <2>1. UNCHANGED pending
    BY <1>14 DEF Start, otherVars
  <2>2. QED BY <1>0, <1>14, <2>1, SameList DEF Start, otherVars
<1>15. ASSUME NEW t \in Apps, StopBegin(t) PROVE OwnInv'
  <2>1. UNCHANGED pending
    BY <1>15 DEF StopBegin, otherVars
  <2>2. QED BY <1>0, <1>15, <2>1, SameList DEF StopBegin, otherVars
<1>16. ASSUME NEW t \in Apps, StopDisconnect(t) PROVE OwnInv'
  <2>1. UNCHANGED pending
    BY <1>16 DEF StopDisconnect, otherVars
  <2>2. QED BY <1>0, <1>16, <2>1, SameList DEF StopDisconnect, otherVars
<1>17. ASSUME NEW t \in Apps, StopJoin(t) PROVE OwnInv'
  <2>1. UNCHANGED pending
    BY <1>17 DEF StopJoin, otherVars
  <2>2. QED BY <1>0, <1>17, <2>1, SameList DEF StopJoin, otherVars
<1>18. ASSUME NEW t \in Apps, StopEnd(t) PROVE OwnInv'
  <2>1. UNCHANGED pending
    BY <1>18 DEF StopEnd, otherVars
  <2>2. QED BY <1>0, <1>18, <2>1, SameList DEF StopEnd, otherVars
<1>19. ASSUME NEW m \in Msgs, Tick(m) PROVE OwnInv'
  <2>1. UNCHANGED pending
    BY <1>19 DEF Tick
  <2>2. QED BY <1>0, <1>19, <2>1, SameList DEF Tick
<1>20. CASE RecvReply
  <2>1. PICK i \in 1..Len(pending) : pending' = Without(pending, i)
                               /\ recvMsg' = pending[i]
    BY <1>20 DEF RecvReply, Receiving, CanLockPending
  <2>2. Listed' = Listed \ {pending[i]} /\ pending[i] \in Msgs /\ pending[i] \in Listed
    BY <1>00, <2>1, RemoveStep
  <2>9. QED BY <1>0, <1>20, <2>1, <2>2 DEF RecvReply, Receiving, CanLockPending
<1>21. CASE RecvCallback
  <2>1. UNCHANGED pending
    BY <1>21 DEF RecvCallback, RunCallback
  <2>2. QED BY <1>0, <1>21, <2>1, SameList DEF RecvCallback, RunCallback
<1>22. CASE RecvBadReply
  <2>1. UNCHANGED pending
    BY <1>22 DEF RecvBadReply, HandlerReturns
  <2>2. QED BY <1>0, <1>22, <2>1, SameList DEF RecvBadReply, HandlerReturns
<1>23. CASE RecvFree
  <2>1. UNCHANGED pending
    BY <1>23 DEF RecvFree, HandlerReturns
  <2>2. QED BY <1>0, <1>23, <2>1, SameList DEF RecvFree, HandlerReturns
<1>24. CASE PendLock
  <2>1. UNCHANGED pending
    BY <1>24 DEF PendLock
  <2>2. next' = NoMsg \/ next' \in Listed
    BY <1>00, <1>24 DEF PendLock, ListHead, Listed, TypeOK
  <2>3. QED BY <1>0, <1>24, <2>1, <2>2, SameList DEF PendLock
<1>25. CASE PendKeep
  <2>1. UNCHANGED pending
    BY <1>25 DEF PendKeep
  <2>2. next' = NoMsg \/ next' \in Listed
    BY <1>00, <1>25 DEF PendKeep, NextOf, Listed, TypeOK
  <2>3. QED BY <1>0, <1>25, <2>1, <2>2, SameList DEF PendKeep
<1>26. CASE PendExpire
  <2>1. PICK i \in 1..Len(pending) : pending' = Without(pending, i)
                               /\ pending[i] = next /\ next' = NextOf(i)
    BY <1>26 DEF PendExpire
  <2>2. Listed' = Listed \ {pending[i]} /\ pending[i] \in Msgs /\ pending[i] \in Listed
    BY <1>00, <2>1, RemoveStep
  <2>3. next' = NoMsg \/ next' \in Listed'
    <3>1. Len(pending) \in Nat
      BY <1>00 DEF TypeOK
    <3>2. CASE i < Len(pending)
      <4>1. i + 1 \in 1..Len(pending) /\ next' = pending[i + 1]
        BY <2>1, <3>1, <3>2 DEF NextOf
      <4>2. pending[i + 1] \in Listed /\ pending[i + 1] # pending[i]
        BY <1>00, <3>1, <4>1 DEF NoTwice, Listed
      <4>3. QED BY <2>2, <4>1, <4>2
    <3>3. CASE ~(i < Len(pending))
      BY <2>1, <3>3 DEF NextOf
    <3>4. QED BY <3>2, <3>3
  <2>9. QED BY <1>0, <1>26, <2>1, <2>2, <2>3 DEF PendExpire
<1>27. CASE PendCallback
  <2>1. UNCHANGED pending
    BY <1>27 DEF PendCallback, RunCallback
  <2>2. QED BY <1>0, <1>27, <2>1, SameList DEF PendCallback, RunCallback
<1>28. CASE PendFree
  <2>1. UNCHANGED pending
    BY <1>28 DEF PendFree
  <2>2. QED BY <1>0, <1>28, <2>1, SameList DEF PendFree
<1>29. CASE PendUnlock
  <2>1. UNCHANGED pending
    BY <1>29 DEF PendUnlock
  <2>2. QED BY <1>0, <1>29, <2>1, SameList DEF PendUnlock
<1>30. CASE UNCHANGED vars
  BY <1>30, SameList DEF vars
<1>31. QED
  BY <1>1, <1>2, <1>3, <1>4, <1>5, <1>6, <1>7, <1>8, <1>9, <1>10,
     <1>11, <1>12, <1>13, <1>14, <1>15, <1>16, <1>17, <1>18, <1>19, <1>20,
     <1>21, <1>22, <1>23, <1>24, <1>25, <1>26, <1>27, <1>28, <1>29, <1>30
     DEF Next, Step, CallStep, StopStep, RecvStep, PendStep

-----------------------------------------------------------------------------
(* The theorems. *)

IInv ==
    /\ TypeInv /\ LockInv /\ StopInv /\ ListInv
    /\ DeflateFails = FALSE /\ clashed = FALSE => OwnInv

(* The invariant holds once tr50_create has returned. *)
LEMMA InvInit == Init => IInv
<1> SUFFICES ASSUME Init PROVE IInv
  OBVIOUS
<1>1. Listed = {} /\ NoTwice
  BY DEF Init, Listed, NoTwice
<1>2. LockInv
  BY ConstantsAssumption DEF Init, LockInv, InCall, Threads
<1>3. StopInv
  BY DEF Init, StopInv, InCall, StopPcs, Running
<1>4. ListInv
  BY <1>1, ConstantsAssumption DEF Init, ListInv, Fresh, Busy, InCall
<1>5. OwnInv
  BY <1>1, ConstantsAssumption DEF Init, OwnInv, Fresh, Busy, InCall, Threads
<1>6. QED BY TypeInit, <1>2, <1>3, <1>4, <1>5 DEF IInv

(* Once an identifier was given out twice, clashed stays true. *)
LEMMA ClashedStays ==
    ASSUME [Next]_vars, clashed' = FALSE, clashed \in BOOLEAN
    PROVE  clashed = FALSE
<1>1. \/ clashed' = (clashed \/ Found(NextId))
      \/ clashed' = clashed
  BY DEF Next, Step, vars, CallStep, StopStep, RecvStep, PendStep, Call, CallbackCalls,
         EnterRefused, Enter, EnterNoPayload, TakeId, Add, Send, SendFails,
         DeflateFailure, Undo, UndoExpired, Leave, WaitReturns, Start,
         StopBegin, StopDisconnect, StopJoin, StopEnd, Tick, RecvReply,
         RecvCallback, RecvBadReply, RecvFree, PendLock, PendKeep, PendExpire,
         PendCallback, PendFree, PendUnlock, idVars, otherVars
<1>2. QED BY <1>1

(* Every step keeps the invariant: the four parts together. *)
LEMMA InvStep == IInv /\ [Next]_vars => IInv'
<1> SUFFICES ASSUME IInv, [Next]_vars PROVE IInv'
  OBVIOUS
<1>1. TypeInv' /\ LockInv' /\ StopInv' /\ ListInv'
  BY TypeStep, LockStep, StopKeeps, ListKeeps DEF IInv
<1>2. ASSUME DeflateFails = FALSE, clashed' = FALSE PROVE OwnInv'
  <2>1. clashed = FALSE
    BY <1>2, ClashedStays DEF IInv, TypeInv, TypeOK
  <2>2. QED BY <1>2, <2>1, OwnKeeps DEF IInv
<1>3. QED BY <1>1, <1>2 DEF IInv

(* The inductive invariant holds in every state: which thread has which     *)
(* mutex, what tr50_stop waits for, where each message is and who may        *)
(* complete it.                                                              *)
THEOREM Invariant == Spec => []IInv
BY InvInit, InvStep, PTL DEF Spec

(* No call is inside mqtt_async_publish when tr50_stop frees the            *)
(* connection, though tr50_stop releases client->mux to disconnect.         *)
THEOREM SendOnLiveCorrect == Spec => []SendOnLive
<1>1. IInv => SendOnLive
  BY DEF IInv, StopInv, SendOnLive, InCall
<1>2. QED BY <1>1, Invariant, PTL

(* A callback runs at most once, whatever fails.                            *)
THEOREM CompletedOnceCorrect == Spec => []CompletedOnce
<1>1. IInv => CompletedOnce
  BY DEF IInv, ListInv, CompletedOnce
<1>2. QED BY <1>1, Invariant, PTL

(* The list, the receive thread and the expiration thread hold each message *)
(* at most once, and none that was freed.                                   *)
THEOREM HeldOnceCorrect ==
    ASSUME DeflateFails = FALSE
    PROVE  Spec => []HeldOnce
<1>1. IInv => HeldOnce
  <2> SUFFICES ASSUME IInv, ~clashed PROVE HeldOnce
    BY DEF HeldOnce
  <2>1. clashed = FALSE
    BY DEF IInv, TypeInv, TypeOK
  <2>2. NoTwice /\ ListInv /\ OwnInv
    BY <2>1 DEF IInv, ListInv
  <2>3. NoMsg \notin Msgs
    BY ConstantsAssumption
  <2>4. QED BY <2>2, <2>3 DEF HeldOnce, ListInv, OwnInv, NoTwice
<1>2. QED BY <1>1, Invariant, PTL

(* After an error the message is the caller's: the library neither lists    *)
(* nor completes it.                                                        *)
THEOREM RefusedIsCallersCorrect ==
    ASSUME DeflateFails = FALSE
    PROVE  Spec => []RefusedIsCallers
<1>1. IInv => RefusedIsCallers
  <2>1. IInv => clashed \in BOOLEAN
    BY DEF IInv, TypeInv, TypeOK
  <2>2. QED BY <2>1 DEF IInv, OwnInv, RefusedIsCallers
<1>2. QED BY <1>1, Invariant, PTL

(* The walk of the expiration thread goes on from a message in the list,    *)
(* whatever the callback it just ran did.                                   *)
THEOREM CursorLiveCorrect ==
    ASSUME DeflateFails = FALSE
    PROVE  Spec => []CursorLive
<1>1. IInv => CursorLive
  <2>1. IInv => clashed \in BOOLEAN
    BY DEF IInv, TypeInv, TypeOK
  <2>2. QED BY <2>1 DEF IInv, OwnInv, CursorLive
<1>2. QED BY <1>1, Invariant, PTL

(* The callback of a synchronous call signals an event that exists.         *)
THEOREM EventAliveCorrect ==
    ASSUME DeflateFails = FALSE
    PROVE  Spec => []EventAlive
<1>1. IInv => EventAlive
  <2>1. IInv => clashed \in BOOLEAN
    BY DEF IInv, TypeInv, TypeOK
  <2>2. QED BY <2>1 DEF IInv, OwnInv, EventAlive
<1>2. QED BY <1>1, Invariant, PTL

-----------------------------------------------------------------------------
(* The refinement: a step of the engine changes the status of at most one   *)
(* request, as Tr50Requests allows.                                         *)

SameStatus == \A m \in Msgs : StatusOf(m)' = StatusOf(m)

(* The status of m goes to s, and no other changes. *)
StatusMoves(m, s) ==
    /\ StatusOf(m)' = s
    /\ \A n \in Msgs \ {m} : StatusOf(n)' = StatusOf(n)

(* How a change of the status of one message is a step of Tr50Requests.     *)
LEMMA Stutters ==
    ASSUME SameStatus, UNCHANGED cbs
    PROVE  UNCHANGED Requests!vars
BY DEF SameStatus, Requests!vars

(* A call that takes a message opens a request. *)
LEMMA Opens ==
    ASSUME NEW m \in Msgs, StatusOf(m) = "idle", StatusMoves(m, "open"),
           UNCHANGED cbs
    PROVE  Requests!Next
BY DEF StatusMoves, Requests!Next, Requests!Open, Requests!Become

(* A call that returns an error refuses it. *)
LEMMA Refuses ==
    ASSUME NEW m \in Msgs, StatusOf(m) = "open", StatusMoves(m, "refused"),
           UNCHANGED cbs
    PROVE  Requests!Next
BY DEF StatusMoves, Requests!Next, Requests!Refuse, Requests!Become

(* A reply that is no reply message drops it. *)
LEMMA Drops ==
    ASSUME NEW m \in Msgs, StatusOf(m) = "open", StatusMoves(m, "dropped"),
           UNCHANGED cbs
    PROVE  Requests!Next
BY DEF StatusMoves, Requests!Next, Requests!Drop, Requests!Become

(* A callback completes it. *)
LEMMA Completed ==
    ASSUME NEW m \in Msgs, StatusOf(m) = "open", StatusMoves(m, "done"),
           cbs' = [cbs EXCEPT ![m] = @ + 1]
    PROVE  Requests!Next
BY DEF StatusMoves, Requests!Next, Requests!Complete, Requests!Become

(* Every step of the engine is a step of Tr50Requests or changes nothing of  *)
(* it, unless it gives out an identifier that a pending request has.         *)
LEMMA RefinementStep ==
    ASSUME IInv, IInv', [Next]_vars, DeflateFails = FALSE, clashed' = FALSE
    PROVE  [Requests!Next]_(Requests!vars)
<1> DEFINE Goal == [Requests!Next]_(Requests!vars)
<1> USE DEF clientVars, idVars, callVars, recvVars, pendVars, Receiving,
        HandlerReturns
<1>0. /\ clashed = FALSE /\ TypeOK /\ LockInv /\ ListInv /\ OwnInv
      /\ \A t \in Threads : pc[t] \in Busy \cup {"wait"} => cur[t] \in Msgs
      /\ recvPc \in {"callback", "free"} => recvMsg \in Msgs
      /\ pendPc \in {"callback", "free"} => pendMsg \in Msgs
  BY ClashedStays DEF IInv, TypeInv, TypeOK
<1>t. /\ life \in [Msgs -> {"new", "lib", "caller", "lost", "gone",
                           "freed"}]
      /\ cbs \in [Msgs -> Nat]
      /\ result \in [Msgs -> {"none", "ok", "error"}]
  BY <1>0 DEF TypeOK
<1>s. ASSUME UNCHANGED <<life, cbs, result>> PROVE Goal
  BY <1>s, Stutters DEF SameStatus, StatusOf
<1>a. ASSUME NEW t \in Threads, NEW m \in Msgs, BeginCall(t, m),
             UNCHANGED <<cbs, result>>
      PROVE  Goal
  <2>1. life[m] = "new" /\ cbs[m] = 0 /\ result[m] = "none"
    BY <1>a, <1>0 DEF BeginCall, ListInv, OwnInv
  <2>2. StatusOf(m) = "idle" /\ StatusMoves(m, "open")
    BY <2>1, <1>a, <1>t DEF BeginCall, StatusMoves, StatusOf
  <2>3. QED BY <1>a, <2>2, Opens
<1>f. ASSUME NEW t \in Threads, NEW m \in Msgs, m = cur[t], Fail(t, m),
             pc[t] \in Fresh \cup {"undo"}, cbs[m] = 0, life[m] = "lib"
      PROVE  Goal
  <2>1. result[m] = "none"
    BY <1>f, <1>0 DEF OwnInv, Fresh, Busy, InCall
  <2>2. StatusOf(m) = "open"
    BY <1>f, <2>1 DEF StatusOf
  <2>3. /\ result' = [result EXCEPT ![m] = "error"] /\ cbs' = cbs
        /\ \A n \in Msgs \ {m} : life'[n] = life[n]
    BY <1>f, <1>t DEF Fail
  <2>4. StatusMoves(m, "refused")
    <3>1. cbs'[m] = 0 /\ result'[m] = "error"
      BY <1>f, <1>t, <2>3
    <3>2. StatusOf(m)' = "refused"
      BY <3>1 DEF StatusOf
    <3>3. \A n \in Msgs \ {m} :
            cbs'[n] = cbs[n] /\ result'[n] = result[n] /\ life'[n] = life[n]
      BY <1>t, <2>3
    <3>4. QED BY <3>2, <3>3 DEF StatusMoves, StatusOf
  <2>5. QED BY <1>f, <2>2, <2>3, <2>4, Refuses
<1>d. ASSUME NEW m \in Msgs, life[m] = "lib", result[m] # "error", cbs[m] = 0,
             life' = [life EXCEPT ![m] = "lost"], UNCHANGED <<cbs, result>>
      PROVE  Goal
  <2>1. StatusOf(m) = "open" /\ StatusMoves(m, "dropped")
    BY <1>d, <1>t DEF StatusMoves, StatusOf
  <2>2. QED BY <1>d, <2>1, Drops
<1>c. ASSUME NEW m \in Msgs, RunCallback(m), cbs[m] = 0, life[m] = "lib",
             result[m] # "error", UNCHANGED <<life, result>>
      PROVE  Goal
  <2>1. StatusOf(m) = "open"
    BY <1>c DEF StatusOf
  <2>2. StatusMoves(m, "done")
    BY <1>c, <1>t DEF RunCallback, StatusMoves, StatusOf
  <2>3. QED BY <1>c, <2>1, <2>2, Completed DEF RunCallback
(* A message is freed after its callback. *)
<1>g. ASSUME NEW m \in Msgs, life[m] = "lib", life' = [life EXCEPT ![m] = "gone"],
             UNCHANGED <<cbs, result>>
      PROVE  Goal
  <2>1. SameStatus
    BY <1>g, <1>t DEF SameStatus, StatusOf
  <2>2. QED BY <1>g, <2>1, Stutters
<1>1. ASSUME NEW t \in Apps, NEW m \in Msgs, Call(t, m) PROVE Goal
  BY <1>1, <1>a DEF Call, Threads
<1>2. ASSUME NEW t \in Threads, CallbackCalls(t) PROVE Goal
  BY <1>2, <1>a DEF CallbackCalls
<1>3. ASSUME NEW t \in Threads, EnterRefused(t) PROVE Goal
  BY <1>3, <1>0, <1>f DEF EnterRefused, Fresh, Busy, ListInv, OwnInv
<1>4. ASSUME NEW t \in Threads, Enter(t) PROVE Goal
  BY <1>4, <1>s DEF Enter, TakeId
<1>5. ASSUME NEW t \in Threads, EnterNoPayload(t) PROVE Goal
  BY <1>5, <1>0, <1>f DEF EnterNoPayload, TakeId, Fresh, Busy, ListInv, OwnInv
<1>6. ASSUME NEW t \in Threads, Add(t) PROVE Goal
  BY <1>6, <1>s DEF Add
<1>7. ASSUME NEW t \in Threads, Send(t) PROVE Goal
  BY <1>7, <1>s DEF Send
<1>8. ASSUME NEW t \in Threads, SendFails(t) PROVE Goal
  BY <1>8, <1>s DEF SendFails
<1>9. ASSUME NEW t \in Threads, DeflateFailure(t) PROVE Goal
  BY <1>9 DEF DeflateFailure
<1>10. ASSUME NEW t \in Threads, Undo(t) PROVE Goal
  <2>1. PICK i \in 1..Len(pending) : FoundAt(sid[cur[t]], i) /\ Fail(t, pending[i])
    BY <1>10 DEF Undo
  <2>2. pc[t] = "undo" /\ pending[i] \in Listed /\ sid[pending[i]] = sid[cur[t]]
    BY <1>10, <2>1 DEF Undo, FoundAt, Listed
  <2>3. pending[i] = cur[t]
    BY <1>0, <2>2 DEF OwnInv
  <2>4. cur[t] \in Msgs /\ cbs[cur[t]] = 0 /\ life[cur[t]] = "lib"
    BY <1>0, <2>2, <2>3 DEF Busy, InCall, ListInv, OwnInv
  <2>5. QED BY <1>f, <2>1, <2>2, <2>3, <2>4
<1>11. ASSUME NEW t \in Threads, UndoExpired(t) PROVE Goal
  BY <1>11, <1>s DEF UndoExpired
<1>12. ASSUME NEW t \in Threads, Leave(t) PROVE Goal
  <2>1. cur[t] \in Msgs /\ result[cur[t]] = "none"
    BY <1>12, <1>0 DEF Leave, Busy, InCall, OwnInv
  <2>2. SameStatus
    BY <1>12, <1>t, <2>1 DEF Leave, SameStatus, StatusOf
  <2>3. QED BY <1>12, <2>2, Stutters DEF Leave
<1>13. ASSUME NEW t \in Threads, WaitReturns(t) PROVE Goal
  BY <1>13, <1>s DEF WaitReturns
<1>14. ASSUME NEW t \in Apps, Start(t) PROVE Goal
  BY <1>14, <1>s DEF Start, otherVars
<1>15. ASSUME NEW t \in Apps, StopBegin(t) PROVE Goal
  BY <1>15, <1>s DEF StopBegin, otherVars
<1>16. ASSUME NEW t \in Apps, StopDisconnect(t) PROVE Goal
  BY <1>16, <1>s DEF StopDisconnect, otherVars
<1>17. ASSUME NEW t \in Apps, StopJoin(t) PROVE Goal
  BY <1>17, <1>s DEF StopJoin, otherVars
<1>18. ASSUME NEW t \in Apps, StopEnd(t) PROVE Goal
  BY <1>18, <1>s DEF StopEnd, otherVars
<1>19. ASSUME NEW m \in Msgs, Tick(m) PROVE Goal
  BY <1>19, <1>s DEF Tick
<1>20. CASE RecvReply
  BY <1>20, <1>s DEF RecvReply
<1>21. CASE RecvCallback
  BY <1>21, <1>0, <1>c, ConstantsAssumption DEF RecvCallback, ListInv, OwnInv
<1>22. CASE RecvBadReply
  <2>1. /\ recvMsg \in Msgs /\ cbs[recvMsg] = 0
        /\ life[recvMsg] = "lib" /\ result[recvMsg] # "error"
    BY <1>22, <1>0, ConstantsAssumption DEF RecvBadReply, ListInv, OwnInv
  <2>2. QED BY <1>22, <1>d, <2>1 DEF RecvBadReply
<1>23. CASE RecvFree
  BY <1>23, <1>0, <1>g, ConstantsAssumption DEF RecvFree, OwnInv
<1>24. CASE PendLock
  BY <1>24, <1>s DEF PendLock
<1>25. CASE PendKeep
  BY <1>25, <1>s DEF PendKeep
<1>26. CASE PendExpire
  BY <1>26, <1>s DEF PendExpire
<1>27. CASE PendCallback
  BY <1>27, <1>0, <1>c, ConstantsAssumption DEF PendCallback, ListInv, OwnInv
<1>28. CASE PendFree
  BY <1>28, <1>0, <1>g, ConstantsAssumption DEF PendFree, OwnInv
<1>29. CASE PendUnlock
  BY <1>29, <1>s DEF PendUnlock
<1>30. CASE UNCHANGED vars
  BY <1>30, <1>s DEF vars
<1>31. QED
  BY <1>1, <1>2, <1>3, <1>4, <1>5, <1>6, <1>7, <1>8, <1>9, <1>10,
     <1>11, <1>12, <1>13, <1>14, <1>15, <1>16, <1>17, <1>18, <1>19, <1>20,
     <1>21, <1>22, <1>23, <1>24, <1>25, <1>26, <1>27, <1>28, <1>29, <1>30
     DEF Next, Step, CallStep, StopStep, RecvStep, PendStep

(* The engine implements its specification: as long as no identifier is     *)
(* given out twice, every request is refused, dropped or completed once.    *)
THEOREM Refinement ==
    ASSUME DeflateFails = FALSE
    PROVE  Spec => ImplementsRequests
<1>1. Init => Requests!Init
  BY DEF Init, Requests!Init, StatusOf
<1>2. IInv /\ IInv' /\ [Next]_vars
        => [Requests!Next \/ clashed']_(Requests!vars)
  <2> SUFFICES ASSUME IInv, IInv', [Next]_vars, ~clashed'
               PROVE  [Requests!Next]_(Requests!vars)
    OBVIOUS
  <2>1. clashed' = FALSE
    BY DEF IInv, TypeInv, TypeOK
  <2>2. QED BY <2>1, RefinementStep
<1>3. QED BY <1>1, <1>2, Invariant, PTL DEF Spec, ImplementsRequests

=============================================================================
