----------------------------- MODULE Tr50Pending -----------------------------
(***************************************************************************)
(* tr50.pending.c: the doubly linked list of the requests that wait for a  *)
(* reply, the expiration thread E that walks it, and its end in            *)
(* tr50_delete.  Tr50Api has the same requests as a set, with their        *)
(* identifiers, callbacks and locks; here are the links.                   *)
(*                                                                         *)
(* pending->mux is recursive and held by E for a whole walk, callbacks     *)
(* included; everybody else holds it for one action.  client->mux lets one *)
(* caller of the api in at a time.  The thread that delivers replies calls *)
(* the api as App does.                                                    *)
(*                                                                         *)
(* LinklistRemoveForward and DeleteJoinsNot are no part of it: they are    *)
(* plausible mistakes, each in place of the definition after it, that the  *)
(* properties rule out.                                                    *)
(***************************************************************************)
EXTENDS Tr50Event, Integers, Sequences, FiniteSets, SequencesExt

CONSTANTS
    Msgs,       \* the messages, one per tr50_message_create
    App, E,     \* the threads that call the api
    None        \* NULL

ASSUME PendingAssumption == IsFiniteSet(Msgs) /\ None \notin Msgs /\ App # E

VARIABLES
    head, tail, next, prev, count,  \* the list
    queue,      \* the requests in it, in order: what the links stand for
    owner,      \* who has each message: "app", "list", "expiry", or nobody: "gone"
    calling,    \* the api call that has client->mux: its thread and message, or None
    epc,        \* where E is: "created", "check", "lock", "walk", "callback", "asleep",
                \* "ended"
    cur,        \* the message that E expires
    enext,      \* the message that E looks at next
    stopped,    \* tr50_stop has returned
    holds,      \* the mutex of the client that a callback of E has outside of such a call:
                \* "mailbox", "client", or "none"
    dpc,        \* where tr50_delete is: "no", "mailbox", "client", "flag", "joined", "done"
    stale       \* the links are damaged: a message was put in the list with those of its
                \* last time there, or was freed in it

pendingVars ==
    <<head, tail, next, prev, count, queue, owner, calling, epc, cur, enext, stopped, holds, dpc,
      stale>>
links == <<head, tail, next, prev, count, queue>>
walk  == <<epc, cur, enext, holds>>

PendingInit ==
    /\ head = None /\ tail = None /\ count = 0 /\ queue = <<>>
    /\ next = [m \in Msgs |-> None] /\ prev = next
    /\ owner = [m \in Msgs |-> "app"]
    /\ calling = None
    /\ epc = "created" /\ cur = None /\ enext = None
    /\ stopped = FALSE /\ holds = "none" /\ dpc = "no" /\ stale = FALSE
-----------------------------------------------------------------------------
(* tr50_pending_add; the links that m brings along are not reset. *)
PendingAdd(m) ==
    /\ IF tail = None
       THEN head' = m /\ UNCHANGED <<next, prev>>
       ELSE /\ next' = [next EXCEPT ![tail] = m]
            /\ prev' = [prev EXCEPT ![m] = tail]
            /\ UNCHANGED head
    /\ tail' = m
    /\ count' = count + 1
    /\ queue' = Append(queue, m)

(* The queue without m. *)
QueueWithout(m) == RemoveAt(queue, CHOOSE i \in 1..Len(queue) : queue[i] = m)

LinklistRemoveForward(m) ==
    /\ IF prev[m] # None
       THEN next' = [next EXCEPT ![prev[m]] = next[m]] /\ UNCHANGED head
       ELSE head' = next[m] /\ UNCHANGED next
    /\ tail' = IF next[m] # None THEN tail ELSE prev[m]
    /\ count' = count - 1
    /\ queue' = QueueWithout(m)
    /\ UNCHANGED prev

LinklistRemove(m) ==
    /\ IF prev[m] # None
       THEN next' = [next EXCEPT ![prev[m]] = next[m]] /\ UNCHANGED head
       ELSE head' = next[m] /\ UNCHANGED next
    /\ IF next[m] # None
       THEN prev' = [prev EXCEPT ![next[m]] = prev[m]] /\ UNCHANGED tail
       ELSE tail' = prev[m] /\ UNCHANGED prev
    /\ count' = count - 1
    /\ queue' = QueueWithout(m)

(* tr50_pending_find_and_remove comes to m from the head of the list. *)
Found(m) ==
    \E n \in 1..Cardinality(Msgs) : \E at \in [1..n -> Msgs] :
      at[1] = head /\ at[n] = m /\ \A i \in 1..(n - 1) : next[at[i]] = at[i + 1]

(* pending->mux is free for thread t. *)
Lockable(t) == t = E \/ epc \notin {"walk", "callback"}

(* t can call the api: E does from a callback. *)
CanCall(t) == t = E => epc = "callback" /\ holds = "none"
-----------------------------------------------------------------------------
(* tr50_api_call_async puts m in the list before it publishes it. *)
CallAdds(t, m) ==
    /\ ~stopped /\ calling = None /\ CanCall(t) /\ Lockable(t)
    /\ owner[m] = "app"
    /\ PendingAdd(m)
    /\ owner' = [owner EXCEPT ![m] = "list"]
    /\ calling' = <<t, m>>
    /\ stale' = (stale \/ next[m] # None \/ prev[m] # None)
    /\ UNCHANGED <<walk, stopped, dpc>>

Published(t) ==
    /\ calling # None /\ calling[1] = t
    /\ calling' = None
    /\ UNCHANGED <<links, owner, walk, stopped, dpc, stale>>

(* The publish fails: the message goes back to the caller, unless it was   *)
(* answered or has expired.                                                *)
PublishFails(t) ==
    /\ calling # None /\ calling[1] = t /\ Lockable(t)
    /\ calling' = None
    /\ IF Found(calling[2])
       THEN /\ LinklistRemove(calling[2])
            /\ owner' = [owner EXCEPT ![calling[2]] = "app"]
       ELSE UNCHANGED <<links, owner>>
    /\ UNCHANGED <<walk, stopped, dpc, stale>>

(* tr50_api_raw_async cannot compress its text: it frees the message that  *)
(* it has made and put in the list, where it stays.                        *)
DeflateFails(t) ==
    /\ calling # None /\ calling[1] = t
    /\ calling' = None
    /\ owner' = [owner EXCEPT ![calling[2]] = "gone"]
    /\ stale' = TRUE
    /\ UNCHANGED <<links, walk, stopped, dpc>>

(* tr50_message_delete by the caller. *)
AppDeletes(m) ==
    /\ owner[m] = "app"
    /\ owner' = [owner EXCEPT ![m] = "gone"]
    /\ UNCHANGED <<links, calling, walk, stopped, dpc, stale>>

(* A reply is delivered, and the request freed. *)
Reply(m) ==
    /\ ~stopped /\ Lockable(App) /\ Found(m)
    /\ LinklistRemove(m)
    /\ owner' = [owner EXCEPT ![m] = "gone"]
    /\ UNCHANGED <<calling, walk, stopped, dpc, stale>>
-----------------------------------------------------------------------------
(* _tr50_pending_expiration_handler. *)

(* The thread that tr50_pending_create made runs. *)
ThreadStarts ==
    /\ epc = "created"
    /\ epc' = "check"
    /\ UNCHANGED <<links, owner, calling, cur, enext, holds, stopped, dpc, stale>>

WalkChecks ==
    /\ epc = "check"
    /\ epc' = IF dpc \in {"no", "mailbox", "client"} THEN "lock" ELSE "ended"
    /\ UNCHANGED <<links, owner, calling, cur, enext, holds, stopped, dpc, stale>>

WalkBegins ==
    /\ epc = "lock"
    /\ epc' = "walk" /\ enext' = head
    /\ UNCHANGED <<links, owner, calling, cur, holds, stopped, dpc, stale>>

WalkKeeps ==
    /\ epc = "walk" /\ enext # None
    /\ enext' = next[enext]
    /\ UNCHANGED <<links, owner, calling, epc, cur, holds, stopped, dpc, stale>>

WalkExpires ==
    /\ epc = "walk" /\ enext # None
    /\ cur' = enext /\ enext' = next[enext]
    /\ LinklistRemove(enext)
    /\ owner' = [owner EXCEPT ![enext] = "expiry"]
    /\ epc' = "callback"
    /\ UNCHANGED <<calling, holds, stopped, dpc, stale>>

(* A callback of E, as that of the library for the mailbox, locks          *)
(* mailbox_check_mux, or calls the api to learn, with client->mux, that    *)
(* the client is stopped.                                                  *)
CallbackLocks(x) ==
    /\ epc = "callback" /\ holds = "none" /\ (calling # None => calling[1] # E)
    /\ x = "client" => stopped
    /\ holds' = x
    /\ UNCHANGED <<links, owner, calling, epc, cur, enext, stopped, dpc, stale>>

CallbackUnlocks ==
    /\ holds # "none" /\ holds' = "none"
    /\ UNCHANGED <<links, owner, calling, epc, cur, enext, stopped, dpc, stale>>

(* The callback has returned. *)
WalkFrees ==
    /\ epc = "callback" /\ holds = "none" /\ (calling # None => calling[1] # E)
    /\ owner' = [owner EXCEPT ![cur] = "gone"]
    /\ epc' = "walk"
    /\ UNCHANGED <<links, calling, cur, enext, holds, stopped, dpc, stale>>

WalkEnds ==
    /\ epc = "walk" /\ enext = None
    /\ epc' = "asleep" /\ cur' = None
    /\ UNCHANGED <<links, owner, calling, enext, holds, stopped, dpc, stale>>

(* _thread_sleep returns; it does not look at is_deleting. *)
ThreadSleep ==
    /\ epc = "asleep"
    /\ epc' = "check"
    /\ UNCHANGED <<links, owner, calling, cur, enext, holds, stopped, dpc, stale>>
-----------------------------------------------------------------------------
(* tr50_stop ends the thread that delivers replies; nobody else calls. *)
Stop ==
    /\ ~stopped /\ calling = None
    /\ stopped' = TRUE
    /\ UNCHANGED <<links, owner, calling, walk, dpc, stale>>

(* tr50_delete: the end of mailbox_check_mux and of client->mux, which     *)
(* nobody has told E of; is_deleting, the join, and the end of             *)
(* pending->mux.  stats.mux is never locked.                               *)
DeleteMutexes ==
    /\ \/ stopped /\ dpc = "no" /\ dpc' = "mailbox"
       \/ dpc = "mailbox" /\ dpc' = "client"
    /\ UNCHANGED <<links, owner, calling, walk, stopped, stale>>

DeleteFlags ==
    /\ dpc = "client"
    /\ dpc' = "flag"
    /\ UNCHANGED <<links, owner, calling, walk, stopped, stale>>

DeleteJoinsNot ==
    /\ dpc = "flag"
    /\ dpc' = "joined"
    /\ UNCHANGED <<links, owner, calling, walk, stopped, stale>>

DeleteJoins ==
    /\ dpc = "flag" /\ epc = "ended"
    /\ dpc' = "joined"
    /\ UNCHANGED <<links, owner, calling, walk, stopped, stale>>

DeleteMutex ==
    /\ dpc = "joined"
    /\ dpc' = "done"
    /\ UNCHANGED <<links, owner, calling, walk, stopped, stale>>

(* tr50_pending_delete *)
PendingDelete == DeleteMutexes \/ DeleteFlags \/ DeleteJoins \/ DeleteMutex

(* What becomes of a list whose links are damaged is not followed up: the  *)
(* walk may never end, and freed messages are read and written.            *)
PendingNext ==
    /\ ~stale
    /\ \/ \E t \in {App, E} : (\E m \in Msgs : CallAdds(t, m)) \/ Published(t)
                             \/ PublishFails(t) \/ DeflateFails(t)
       \/ \E m \in Msgs : AppDeletes(m) \/ Reply(m)
       \/ ThreadStarts \/ ThreadSleep
       \/ WalkChecks \/ WalkBegins \/ WalkKeeps \/ WalkExpires \/ WalkFrees \/ WalkEnds
       \/ (\E x \in {"mailbox", "client"} : CallbackLocks(x)) \/ CallbackUnlocks
       \/ Stop \/ PendingDelete

(* The list, and the event of a call; they share no variable. *)
PendingSpec ==
    /\ PendingInit /\ EventInit
    /\ [][\/ PendingNext /\ UNCHANGED eventVars
          \/ EventNext /\ UNCHANGED pendingVars]_<<pendingVars, eventVars>>
-----------------------------------------------------------------------------
(* The links in both directions, the ends and the count stand for one      *)
(* queue, of the messages that are the list's; E keeps no pointer to a     *)
(* message that was taken out while it walks, its callbacks included.      *)
(* A message that is sent again after a failed publish may still have the  *)
(* links of its last time in the list; nothing is stated from then on.     *)
LinksSound ==
    ~stale =>
      LET n == Len(queue) IN
      /\ count = n
      /\ head = IF n = 0 THEN None ELSE queue[1]
      /\ tail = IF n = 0 THEN None ELSE queue[n]
      /\ \A i \in 1..n : /\ next[queue[i]] = IF i = n THEN None ELSE queue[i + 1]
                         /\ prev[queue[i]] = IF i = 1 THEN None ELSE queue[i - 1]
      /\ ToSet(queue) = {m \in Msgs : owner[m] = "list"}
      /\ epc \in {"walk", "callback"} /\ enext # None => owner[enext] = "list"

(* The mutexes that tr50_delete has destroyed, and those that are held. *)
Freed == {x \in {"mailbox", "client", "pending"} :
            \/ x = "mailbox" /\ dpc # "no"
            \/ x = "client" /\ dpc \notin {"no", "mailbox"}
            \/ x = "pending" /\ dpc = "done"}

Held == {x \in {"mailbox", "client", "pending"} :
           \/ x = holds
           \/ x = "client" /\ calling # None
           \/ x = "pending" /\ epc \in {"walk", "callback"}}

(* Of the mutexes that tr50_delete destroys, a callback of E that is still *)
(* to return may have one of the client, as it is joined after the end of  *)
(* these; no call of the application has one, and nobody has pending->mux, *)
(* which E has left for good.  The event of a synchronous call is freed    *)
(* when nobody is in it, and no signal is missed.                          *)
NothingAfterDelete ==
    /\ Freed \cap Held # {} => epc = "callback" /\ Freed \cap Held = {holds}
    /\ dpc = "done" => epc = "ended"
    /\ EventSound
=============================================================================
