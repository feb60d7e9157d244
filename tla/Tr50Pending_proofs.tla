------------------------- MODULE Tr50Pending_proofs -------------------------
(***************************************************************************)
(* Proofs about Tr50Pending, for any messages: that the links of the list  *)
(* stand for one queue as long as no message is sent again with links from *)
(* its last time there, and that nothing that was freed is used.           *)
(*                                                                         *)
(* LinksSound is not inductive.  A message can be taken out of a list only *)
(* if it is there once (NoTwice); the walk's pointer survives a callback   *)
(* because the one message that a callback takes out again is the one that *)
(* it added, which is not the next of the walk (WalkInv).                  *)
(***************************************************************************)
EXTENDS Tr50Pending, Basics, TLAPS

(* The links of a message, and what a call that has client->mux is. *)
TypeInv ==
    /\ next \in [Msgs -> Msgs \cup {None}] /\ prev \in [Msgs -> Msgs \cup {None}]
    /\ queue \in Seq(Msgs)
    /\ owner \in [Msgs -> {"app", "list", "expiry", "gone"}]
    /\ enext \in Msgs \cup {None}
    /\ calling # None => calling \in {App, E} \X Msgs
    /\ stale \in BOOLEAN

(* The queue that the links stand for. *)
ListEnds ==
    /\ count = Len(queue)
    /\ head = IF Len(queue) = 0 THEN None ELSE queue[1]
    /\ tail = IF Len(queue) = 0 THEN None ELSE queue[Len(queue)]
Chained ==
    \A i \in 1..Len(queue) :
      /\ next[queue[i]] = IF i = Len(queue) THEN None ELSE queue[i + 1]
      /\ prev[queue[i]] = IF i = 1 THEN None ELSE queue[i - 1]
NoTwice == \A i, j \in 1..Len(queue) : queue[i] = queue[j] => i = j
Listed  == \A m \in Msgs : owner[m] = "list" <=> \E i \in 1..Len(queue) : queue[i] = m

(* What E holds on to while it walks. *)
WalkInv ==
    /\ epc \in {"walk", "callback"} /\ enext # None => owner[enext] = "list"
    /\ epc = "callback" => cur \in Msgs /\ owner[cur] = "expiry"
    /\ calling # None /\ calling[1] = E => epc = "callback" /\ calling[2] # enext

ListInv == ~stale => ListEnds /\ Chained /\ NoTwice /\ Listed /\ WalkInv

(* The order in which tr50_stop and tr50_delete end things, and where E is *)
(* when it has a mutex of the client.                                      *)
EndInv ==
    /\ dpc # "no" => stopped
    /\ stopped => calling = None
    /\ dpc \in {"joined", "done"} => epc = "ended"
    /\ holds # "none" => epc = "callback"

(* How far the waiter and the signaller of an event are. *)
EventInv ==
    /\ wpc \in {"create", "call", "calling", "wait", "asleep", "waking", "returned", "done"}
    /\ spc \in {"idle", "taken", "locked", "signalled", "done"}
    /\ alive \in BOOLEAN /\ isLocked \in BOOLEAN /\ abandoned \in BOOLEAN
    /\ alive <=> wpc \notin {"create", "done"}
    /\ isLocked <=> spc \notin {"signalled", "done"}
    /\ wpc \in {"create", "call"} => spc = "idle"
    /\ wpc = "returned" => spc = "done"
    /\ wpc = "done" /\ ~abandoned => spc \in {"idle", "done"}
    /\ wpc = "asleep" => spc \notin {"signalled", "done"}
    /\ abandoned => wpc = "done"

-----------------------------------------------------------------------------
(* The queue. *)

(* The queue without m is the queue with what is behind m one place nearer *)
(* to the head.                                                            *)
LEMMA QueueWithoutIs ==
    ASSUME queue \in Seq(Msgs), NEW m, NEW k \in 1..Len(queue), queue[k] = m, NoTwice
    PROVE  /\ QueueWithout(m) \in Seq(Msgs)
           /\ Len(QueueWithout(m)) = Len(queue) - 1
           /\ \A j \in 1..(Len(queue) - 1) :
                QueueWithout(m)[j] = IF j < k THEN queue[j] ELSE queue[j + 1]
<1> DEFINE n == Len(queue)
           a == SubSeq(queue, 1, k - 1)
           b == SubSeq(queue, k + 1, n)
<1>1. (CHOOSE i \in 1..Len(queue) : queue[i] = m) = k
  BY DEF NoTwice
<1>2. QueueWithout(m) = a \o b
  BY <1>1 DEF QueueWithout, RemoveAt
<1>3. n \in Nat /\ k \in Nat /\ 1 <= k /\ k <= n
  BY LenProperties
<1>4. a \in Seq(Msgs) /\ Len(a) = k - 1 /\ \A j \in 1..(k - 1) : a[j] = queue[j]
  BY <1>3, SubSeqProperties
<1>5. b \in Seq(Msgs) /\ Len(b) = n - k /\ \A j \in 1..(n - k) : b[j] = queue[k + j]
  BY <1>3, SubSeqProperties
<1> HIDE DEF a, b
<1>6. /\ a \o b \in Seq(Msgs) /\ Len(a \o b) = n - 1
      /\ \A j \in 1..(n - 1) : (a \o b)[j] = IF j <= k - 1 THEN a[j] ELSE b[j - (k - 1)]
  <2>1. /\ a \o b \in Seq(Msgs) /\ Len(a \o b) = Len(a) + Len(b)
        /\ \A j \in 1..(Len(a) + Len(b)) :
             (a \o b)[j] = IF j <= Len(a) THEN a[j] ELSE b[j - Len(a)]
    BY <1>4, <1>5, ConcatProperties, Zenon
  <2>2. Len(a) + Len(b) = n - 1
    BY <1>3, <1>4, <1>5
  <2>3. QED BY <1>4, <2>1, <2>2
<1>7. ASSUME NEW j \in 1..(n - 1)
      PROVE (a \o b)[j] = IF j < k THEN queue[j] ELSE queue[j + 1]
  <2>1. CASE j < k
    BY <1>3, <1>4, <1>6, <2>1
  <2>2. CASE ~(j < k)
    <3>1. j - (k - 1) \in 1..(n - k) /\ k + (j - (k - 1)) = j + 1
      BY <1>3, <2>2
    <3>2. QED BY <1>3, <1>5, <1>6, <2>2, <3>1
  <2>3. QED BY <2>1, <2>2
<1>8. QED BY <1>2, <1>6, <1>7

(* The search of tr50_pending_find_and_remove finds what is in the queue:  *)
(* the first message on its way that is not the one at the same place of   *)
(* the queue would follow one that is.                                     *)
LEMMA FoundIsQueued ==
    ASSUME TypeInv, ListEnds, Chained, NEW m \in Msgs, Found(m)
    PROVE  \E k \in 1..Len(queue) : queue[k] = m
<1> DEFINE c == Cardinality(Msgs)
<1>1. c \in Nat
  BY PendingAssumption, FS_CardinalityType
<1>2. PICK n \in 1..c : \E at \in [1..n -> Msgs] :
        at[1] = head /\ at[n] = m /\ \A i \in 1..(n - 1) : next[at[i]] = at[i + 1]
  BY DEF Found
<1>3. PICK at \in [1..n -> Msgs] :
        at[1] = head /\ at[n] = m /\ \A i \in 1..(n - 1) : next[at[i]] = at[i + 1]
  BY <1>2
<1>4. n \in Nat /\ 1 <= n
  BY <1>1
<1>5. Len(queue) \in Nat /\ \A i \in 1..Len(queue) : queue[i] \in Msgs
  BY LenProperties, ElementOfSeq DEF TypeInv
<1> DEFINE Off == {i \in 1..n : i > Len(queue) \/ at[i] # queue[i]}
<1>6. Off = {}
  <2> SUFFICES ASSUME Off # {} PROVE FALSE
    OBVIOUS
  <2>1. Off \in SUBSET Nat /\ IsFiniteSet(Off)
    <3>1. IsFiniteSet(1..n) /\ Off \subseteq 1..n
      BY <1>4, FS_Interval
    <3>2. QED BY <1>4, <3>1, FS_Subset
  <2>2. PICK j \in Off : \A y \in Off : j <= y
    BY <2>1, LeastElement
  <2>3. j \in 1..n /\ at[j] \in Msgs /\ at[j] # None
    BY <1>3, PendingAssumption
  <2>4. CASE j = 1
    BY <1>3, <1>5, <2>3, <2>4 DEF ListEnds
  <2>5. CASE j # 1
    <3>1. j - 1 \in 1..(n - 1) /\ (j - 1) + 1 = j /\ j - 1 \in 1..n /\ ~(j <= j - 1)
      BY <1>4, <2>3, <2>5
    <3>2. j - 1 \notin Off
      BY <2>2, <3>1
    <3>3. j - 1 \in 1..Len(queue) /\ at[j - 1] = queue[j - 1]
      BY <1>4, <1>5, <3>1, <3>2
    <3>4. next[queue[j - 1]] = at[j]
      BY <1>3, <3>1, <3>3
    <3>5. j - 1 # Len(queue) /\ at[j] = queue[j]
      BY <2>3, <3>1, <3>3, <3>4 DEF Chained
    <3>6. QED BY <1>5, <3>1, <3>3, <3>5
  <2>6. QED BY <2>4, <2>5
<1>7. n \in 1..Len(queue) /\ at[n] = queue[n]
  BY <1>4, <1>5, <1>6
<1>8. QED BY <1>3, <1>7
(* _tr50_pending_linklist_remove takes m out of the queue and leaves the   *)
(* rest as it was.                                                         *)
LEMMA RemoveKeeps ==
    ASSUME TypeInv, ListEnds, Chained, NoTwice,
           NEW m \in Msgs, NEW k \in 1..Len(queue), queue[k] = m, LinklistRemove(m)
    PROVE  /\ ListEnds' /\ Chained' /\ NoTwice'
           /\ next' \in [Msgs -> Msgs \cup {None}] /\ prev' \in [Msgs -> Msgs \cup {None}]
           /\ queue' \in Seq(Msgs)
           /\ \A x \in Msgs : (\E i \in 1..Len(queue') : queue'[i] = x)
                                <=> x # m /\ \E i \in 1..Len(queue) : queue[i] = x
<1> DEFINE n == Len(queue)
<1>1. /\ queue' \in Seq(Msgs) /\ Len(queue') = n - 1
      /\ \A j \in 1..(n - 1) : queue'[j] = IF j < k THEN queue[j] ELSE queue[j + 1]
  <2>1. queue' = QueueWithout(m)
    BY DEF LinklistRemove
  <2>2. queue \in Seq(Msgs)
    BY DEF TypeInv
  <2>3. QED BY <2>1, <2>2, QueueWithoutIs
<1>2. /\ n \in Nat /\ k \in Nat /\ 1 <= k /\ k <= n
      /\ \A i \in 1..n : queue[i] \in Msgs /\ queue[i] # None
  BY LenProperties, ElementOfSeq, PendingAssumption DEF TypeInv
<1>3. /\ next[m] = IF k = n THEN None ELSE queue[k + 1]
      /\ prev[m] = IF k = 1 THEN None ELSE queue[k - 1]
  BY DEF Chained
<1>4. (next[m] = None <=> k = n) /\ (prev[m] = None <=> k = 1)
  BY <1>2, <1>3
<1>5. next \in [Msgs -> Msgs \cup {None}] /\ prev \in [Msgs -> Msgs \cup {None}]
  BY DEF TypeInv
<1>6. /\ next' = IF k = 1 THEN next ELSE [next EXCEPT ![queue[k - 1]] = next[m]]
      /\ prev' = IF k = n THEN prev ELSE [prev EXCEPT ![queue[k + 1]] = prev[m]]
  BY <1>3, <1>4 DEF LinklistRemove
<1>7. next' \in [Msgs -> Msgs \cup {None}] /\ prev' \in [Msgs -> Msgs \cup {None}]
  BY <1>5, <1>6
<1>8. \A i \in 1..n : i # k - 1 /\ k # 1 => queue[i] # queue[k - 1]
  BY <1>2 DEF NoTwice
<1>9. \A i \in 1..n : i # k + 1 /\ k # n => queue[i] # queue[k + 1]
  BY <1>2 DEF NoTwice
<1>10. \A i \in 1..n : /\ next'[queue[i]] = IF i = k - 1 THEN next[m] ELSE next[queue[i]]
                       /\ prev'[queue[i]] = IF i = k + 1 THEN prev[m] ELSE prev[queue[i]]
  BY <1>2, <1>5, <1>6, <1>8, <1>9
<1>11. ListEnds'
  <2>1. count' = n - 1
    BY DEF LinklistRemove, ListEnds
  <2>2. /\ head' = IF k = 1 THEN next[m] ELSE head
        /\ tail' = IF k = n THEN prev[m] ELSE tail
    BY <1>4 DEF LinklistRemove
  <2>3. head' = IF n - 1 = 0 THEN None ELSE queue'[1]
    BY <1>1, <1>2, <1>3, <2>2 DEF ListEnds
  <2>4. tail' = IF n - 1 = 0 THEN None ELSE queue'[n - 1]
    BY <1>1, <1>2, <1>3, <2>2 DEF ListEnds
  <2>5. QED BY <1>1, <2>1, <2>3, <2>4 DEF ListEnds
<1>12. Chained'
  <2>1. ASSUME NEW j \in 1..(n - 1)
        PROVE  /\ next'[queue'[j]] = IF j = n - 1 THEN None ELSE queue'[j + 1]
               /\ prev'[queue'[j]] = IF j = 1 THEN None ELSE queue'[j - 1]
    <3>1. \A i \in 1..n : /\ next[queue[i]] = IF i = n THEN None ELSE queue[i + 1]
                          /\ prev[queue[i]] = IF i = 1 THEN None ELSE queue[i - 1]
      BY DEF Chained
    <3>2. CASE j < k
      <4>1. j \in 1..n /\ queue'[j] = queue[j]
        BY <1>1, <1>2, <3>2
      <4>2. next'[queue[j]] = IF j = n - 1 THEN None ELSE queue'[j + 1]
        <5>1. CASE j = k - 1
          <6>1. next'[queue[j]] = next[m]
            BY <1>10, <4>1, <5>1
          <6>2. j # n - 1 => j + 1 \in 1..(n - 1) /\ ~(j + 1 < k) /\ (j + 1) + 1 = k + 1 /\ k # n
            BY <1>2, <5>1
          <6>3. j # n - 1 => queue'[j + 1] = queue[k + 1]
            BY <1>1, <6>2
          <6>4. QED BY <1>2, <1>3, <5>1, <6>1, <6>2, <6>3
        <5>2. CASE j # k - 1
          <6>1. next'[queue[j]] = queue[j + 1]
            BY <1>2, <1>10, <3>1, <3>2, <4>1, <5>2
          <6>2. j # n - 1 /\ j + 1 \in 1..(n - 1) /\ j + 1 < k
            BY <1>2, <3>2, <5>2
          <6>3. QED BY <1>1, <6>1, <6>2
        <5>3. QED BY <5>1, <5>2
      <4>3. prev'[queue[j]] = IF j = 1 THEN None ELSE queue'[j - 1]
        BY <1>1, <1>2, <1>10, <3>1, <3>2, <4>1
      <4>4. QED BY <4>1, <4>2, <4>3
    <3>3. CASE ~(j < k)
      <4>1. j + 1 \in 1..n /\ queue'[j] = queue[j + 1]
        BY <1>1, <1>2, <3>3
      <4>2. next'[queue[j + 1]] = IF j = n - 1 THEN None ELSE queue'[j + 1]
        <5>1. next'[queue[j + 1]] = IF j + 1 = n THEN None ELSE queue[(j + 1) + 1]
          <6>1. j + 1 # k - 1
            BY <1>2, <3>3
          <6>2. QED BY <1>10, <3>1, <4>1, <6>1
        <5>2. j # n - 1 => j + 1 \in 1..(n - 1) /\ ~(j + 1 < k)
          BY <1>2, <3>3
        <5>3. j # n - 1 => queue'[j + 1] = queue[(j + 1) + 1]
          BY <1>1, <5>2
        <5>4. j = n - 1 <=> j + 1 = n
          BY <1>2
        <5>5. QED BY <5>1, <5>3, <5>4
      <4>3. prev'[queue[j + 1]] = IF j = 1 THEN None ELSE queue'[j - 1]
        <5>1. CASE j = k
          BY <1>1, <1>2, <1>3, <1>10, <4>1, <5>1
        <5>2. CASE j # k
          BY <1>1, <1>2, <1>10, <3>1, <3>3, <4>1, <5>2
        <5>3. QED BY <5>1, <5>2
      <4>4. QED BY <4>1, <4>2, <4>3
    <3>4. QED BY <3>2, <3>3
  <2>2. QED BY <1>1, <2>1 DEF Chained
<1>13. NoTwice'
  <2>1. ASSUME NEW i \in 1..(n - 1), NEW j \in 1..(n - 1), queue'[i] = queue'[j]
        PROVE  i = j
    BY <1>1, <1>2, <2>1 DEF NoTwice
  <2>2. QED BY <1>1, <2>1 DEF NoTwice
<1>14. \A x \in Msgs : (\E i \in 1..(n - 1) : queue'[i] = x)
                         <=> x # m /\ \E i \in 1..n : queue[i] = x
  <2> SUFFICES ASSUME NEW x \in Msgs
               PROVE  (\E i \in 1..(n - 1) : queue'[i] = x)
                        <=> x # m /\ \E i \in 1..n : queue[i] = x
    OBVIOUS
  <2>1. ASSUME NEW i \in 1..(n - 1), queue'[i] = x
        PROVE  x # m /\ \E l \in 1..n : queue[l] = x
    BY <1>1, <1>2, <2>1 DEF NoTwice
  <2>2. ASSUME x # m, NEW i \in 1..n, queue[i] = x
        PROVE  \E l \in 1..(n - 1) : queue'[l] = x
    <3>1. CASE i < k
      BY <1>1, <1>2, <2>2, <3>1
    <3>2. CASE i > k
      <4>1. i - 1 \in 1..(n - 1) /\ ~(i - 1 < k) /\ (i - 1) + 1 = i
        BY <1>2, <3>2
      <4>2. queue'[i - 1] = x
        BY <1>1, <2>2, <4>1
      <4>3. QED BY <4>1, <4>2
    <3>3. QED BY <1>2, <2>2, <3>1, <3>2
  <2>3. QED BY <2>1, <2>2
<1>15. QED BY <1>1, <1>7, <1>11, <1>12, <1>13, <1>14

(* tr50_pending_add puts m at the tail, if m brings no links along and is  *)
(* not there yet.                                                          *)
LEMMA AddKeeps ==
    ASSUME TypeInv, ListEnds, Chained, NoTwice,
           NEW m \in Msgs, \A i \in 1..Len(queue) : queue[i] # m,
           next[m] = None, prev[m] = None, PendingAdd(m)
    PROVE  /\ ListEnds' /\ Chained' /\ NoTwice'
           /\ \A x \in Msgs : (\E i \in 1..Len(queue') : queue'[i] = x)
                                <=> x = m \/ \E i \in 1..Len(queue) : queue[i] = x
<1> DEFINE n == Len(queue)
<1>1. /\ n \in Nat /\ \A i \in 1..n : queue[i] \in Msgs /\ queue[i] # None
      /\ next \in [Msgs -> Msgs \cup {None}] /\ prev \in [Msgs -> Msgs \cup {None}]
      /\ queue \in Seq(Msgs)
  BY LenProperties, ElementOfSeq, PendingAssumption DEF TypeInv
<1>2. /\ Len(queue') = n + 1 /\ queue'[n + 1] = m
      /\ \A i \in 1..n : queue'[i] = queue[i]
  BY <1>1, AppendProperties DEF PendingAdd
<1>3. tail = None <=> n = 0
  BY <1>1 DEF ListEnds
<1>4. /\ next' = IF n = 0 THEN next ELSE [next EXCEPT ![queue[n]] = m]
      /\ prev' = IF n = 0 THEN prev ELSE [prev EXCEPT ![m] = queue[n]]
  BY <1>3 DEF PendingAdd, ListEnds
<1>5. /\ \A i \in 1..n : next'[queue[i]] = IF i = n THEN m ELSE next[queue[i]]
      /\ \A i \in 1..n : prev'[queue[i]] = prev[queue[i]]
      /\ next'[m] = None /\ prev'[m] = IF n = 0 THEN None ELSE queue[n]
  BY <1>1, <1>4 DEF NoTwice
<1>6. ListEnds'
  <2>1. count' = n + 1 /\ head' = queue'[1] /\ tail' = queue'[n + 1]
    BY <1>1, <1>2, <1>3 DEF PendingAdd, ListEnds
  <2>2. QED BY <1>1, <1>2, <2>1 DEF ListEnds
<1>7. Chained'
  <2>1. ASSUME NEW j \in 1..(n + 1)
        PROVE  /\ next'[queue'[j]] = IF j = n + 1 THEN None ELSE queue'[j + 1]
               /\ prev'[queue'[j]] = IF j = 1 THEN None ELSE queue'[j - 1]
    <3>1. CASE j = n + 1
      BY <1>1, <1>2, <1>5, <3>1
    <3>2. CASE j # n + 1
      <4>1. j \in 1..n /\ queue'[j] = queue[j]
        BY <1>1, <1>2, <3>2
      <4>2. next'[queue[j]] = queue'[j + 1]
        <5>1. CASE j = n
          BY <1>2, <1>5, <4>1, <5>1
        <5>2. CASE j # n
          <6>1. j + 1 \in 1..n
            BY <1>1, <4>1, <5>2
          <6>2. QED BY <1>2, <1>5, <4>1, <5>2, <6>1 DEF Chained
        <5>3. QED BY <5>1, <5>2
      <4>3. prev'[queue[j]] = IF j = 1 THEN None ELSE queue'[j - 1]
        <5>1. j # 1 => j - 1 \in 1..n
          BY <1>1, <4>1
        <5>2. QED BY <1>2, <1>5, <4>1, <5>1 DEF Chained
      <4>4. QED BY <3>2, <4>1, <4>2, <4>3
    <3>3. QED BY <3>1, <3>2
  <2>2. QED BY <1>2, <2>1 DEF Chained
<1>8. NoTwice'
  <2>1. ASSUME NEW i \in 1..(n + 1), NEW j \in 1..(n + 1), queue'[i] = queue'[j]
        PROVE  i = j
    BY <1>1, <1>2, <2>1 DEF NoTwice
  <2>2. QED BY <1>2, <2>1 DEF NoTwice
<1>9. \A x \in Msgs : (\E i \in 1..(n + 1) : queue'[i] = x)
                        <=> x = m \/ \E i \in 1..n : queue[i] = x
  BY <1>1, <1>2
<1>10. QED BY <1>2, <1>6, <1>7, <1>8, <1>9
-----------------------------------------------------------------------------
(* The list. *)

(* A message that is taken out and given to somebody else is no longer     *)
(* listed, and every other one is as before.                               *)
LEMMA TakenOut ==
    ASSUME TypeInv, ListEnds, Chained, NoTwice, Listed,
           NEW m \in Msgs, owner[m] = "list", LinklistRemove(m),
           NEW v \in {"app", "expiry", "gone"}, owner' = [owner EXCEPT ![m] = v]
    PROVE  /\ ListEnds' /\ Chained' /\ NoTwice' /\ Listed'
           /\ next' \in [Msgs -> Msgs \cup {None}] /\ prev' \in [Msgs -> Msgs \cup {None}]
           /\ queue' \in Seq(Msgs)
           /\ owner' \in [Msgs -> {"app", "list", "expiry", "gone"}]
<1>1. PICK k \in 1..Len(queue) : queue[k] = m
  BY DEF Listed
<1>2. /\ ListEnds' /\ Chained' /\ NoTwice'
      /\ next' \in [Msgs -> Msgs \cup {None}] /\ prev' \in [Msgs -> Msgs \cup {None}]
      /\ queue' \in Seq(Msgs)
      /\ \A x \in Msgs : (\E i \in 1..Len(queue') : queue'[i] = x)
                           <=> x # m /\ \E i \in 1..Len(queue) : queue[i] = x
  BY <1>1, RemoveKeeps
<1>3. owner \in [Msgs -> {"app", "list", "expiry", "gone"}]
  BY DEF TypeInv
<1>4. \A x \in Msgs : owner'[x] = IF x = m THEN v ELSE owner[x]
  BY <1>3
<1>5. Listed'
  <2>1. ASSUME NEW x \in Msgs
        PROVE  owner'[x] = "list" <=> \E i \in 1..Len(queue') : queue'[i] = x
    <3>1. owner'[x] = "list" <=> x # m /\ owner[x] = "list"
      BY <1>4
    <3>2. QED BY <1>2, <3>1 DEF Listed
  <2>2. QED BY <2>1 DEF Listed
<1>6. owner' \in [Msgs -> {"app", "list", "expiry", "gone"}]
  BY <1>3
<1>7. QED BY <1>2, <1>5, <1>6

(* The next of a listed message is listed. *)
LEMMA NextListed ==
    ASSUME TypeInv, Chained, NoTwice, Listed, NEW m \in Msgs, owner[m] = "list",
           next[m] # None
    PROVE  next[m] \in Msgs /\ owner[next[m]] = "list" /\ next[m] # m
<1>1. PICK k \in 1..Len(queue) : queue[k] = m
  BY DEF Listed
<1>2. Len(queue) \in Nat /\ next[m] \in Msgs
  BY LenProperties DEF TypeInv
<1>3. k # Len(queue) /\ next[m] = queue[k + 1]
  BY <1>1 DEF Chained
<1>4. k + 1 \in 1..Len(queue) /\ k + 1 # k
  BY <1>2, <1>3
<1>5. QED BY <1>1, <1>2, <1>3, <1>4 DEF Listed, NoTwice

(* The caller of the api adds a message. *)
LEMMA CallAddsKeeps ==
    ASSUME TypeInv, ListInv, ~stale, NEW t \in {App, E}, NEW m \in Msgs, CallAdds(t, m)
    PROVE  TypeInv' /\ ListInv'
<1>1. ListEnds /\ Chained /\ NoTwice /\ Listed /\ WalkInv
  BY DEF ListInv
<1>2. /\ owner[m] = "app" /\ PendingAdd(m) /\ owner' = [owner EXCEPT ![m] = "list"]
      /\ calling' = <<t, m>> /\ stale' = (stale \/ next[m] # None \/ prev[m] # None)
      /\ UNCHANGED <<epc, cur, enext>> /\ CanCall(t)
  BY DEF CallAdds, walk
<1>3. owner \in [Msgs -> {"app", "list", "expiry", "gone"}]
  BY DEF TypeInv
<1>4. \A x \in Msgs : owner'[x] = IF x = m THEN "list" ELSE owner[x]
  BY <1>2, <1>3
<1>5. TypeInv'
  <2>1. next' \in [Msgs -> Msgs \cup {None}] /\ prev' \in [Msgs -> Msgs \cup {None}]
    <3>1. tail # None => tail \in Msgs
      BY <1>1, LenProperties, ElementOfSeq DEF ListEnds, TypeInv
    <3>2. QED BY <1>2, <3>1 DEF TypeInv, PendingAdd
  <2>2. queue' \in Seq(Msgs)
    BY <1>2, AppendProperties DEF TypeInv, PendingAdd
  <2>3. owner' \in [Msgs -> {"app", "list", "expiry", "gone"}]
    BY <1>2, <1>3
  <2>4. calling' \in {App, E} \X Msgs /\ stale' \in BOOLEAN /\ enext' \in Msgs \cup {None}
    BY <1>2 DEF TypeInv
  <2>5. QED BY <2>1, <2>2, <2>3, <2>4 DEF TypeInv
<1>6. ASSUME ~stale' PROVE ListEnds' /\ Chained' /\ NoTwice' /\ Listed' /\ WalkInv'
  <2>1. next[m] = None /\ prev[m] = None
    BY <1>2, <1>6
  <2>2. \A i \in 1..Len(queue) : queue[i] # m
    BY <1>1, <1>2 DEF Listed
  <2>3. /\ ListEnds' /\ Chained' /\ NoTwice'
        /\ \A x \in Msgs : (\E i \in 1..Len(queue') : queue'[i] = x)
                             <=> x = m \/ \E i \in 1..Len(queue) : queue[i] = x
    BY <1>1, <1>2, <2>1, <2>2, AddKeeps
  <2>4. Listed'
    <3>1. ASSUME NEW x \in Msgs
          PROVE  owner'[x] = "list" <=> \E i \in 1..Len(queue') : queue'[i] = x
      <4>1. owner'[x] = "list" <=> x = m \/ owner[x] = "list"
        BY <1>4
      <4>2. QED BY <1>1, <2>3, <4>1 DEF Listed
    <3>2. QED BY <3>1 DEF Listed
  <2>5. WalkInv'
    <3>1. epc \in {"walk", "callback"} /\ enext # None => owner'[enext] = "list"
      BY <1>1, <1>4 DEF WalkInv, TypeInv
    <3>2. epc = "callback" => cur \in Msgs /\ owner'[cur] = "expiry"
      BY <1>1, <1>2, <1>4 DEF WalkInv
    <3>3. t = E => epc = "callback" /\ m # enext
      <4>1. t = E => epc = "callback"
        BY <1>2 DEF CanCall
      <4>2. epc = "callback" => m # enext
        BY <1>1, <1>2, PendingAssumption DEF WalkInv
      <4>3. QED BY <4>1, <4>2
    <3>4. calling'[1] = t /\ calling'[2] = m
      BY <1>2
    <3>5. QED BY <1>2, <3>1, <3>2, <3>3, <3>4 DEF WalkInv
  <2>6. QED BY <2>3, <2>4, <2>5
<1>7. QED BY <1>5, <1>6 DEF ListInv

(* A publish fails: its message, if it is still there, is not the next of  *)
(* a walk that is under way.                                               *)
LEMMA PublishFailsKeeps ==
    ASSUME TypeInv, ListInv, ~stale, NEW t \in {App, E}, PublishFails(t)
    PROVE  TypeInv' /\ ListInv'
<1> DEFINE m == calling[2]
<1>1. ListEnds /\ Chained /\ NoTwice /\ Listed /\ WalkInv
  BY DEF ListInv
<1>2. /\ calling # None /\ calling[1] = t /\ Lockable(t) /\ calling' = None
      /\ UNCHANGED <<epc, cur, enext, stale>>
  BY DEF PublishFails, walk
<1>3. m \in Msgs
  BY <1>2 DEF TypeInv
<1>4. CASE ~Found(m)
  <2>1. UNCHANGED <<head, tail, next, prev, count, queue, owner>>
    BY <1>4 DEF PublishFails, links
  <2>2. TypeInv'
    BY <1>2, <2>1 DEF TypeInv
  <2>3. ListEnds' /\ Chained' /\ NoTwice' /\ Listed'
    BY <1>1, <2>1 DEF ListEnds, Chained, NoTwice, Listed
  <2>4. WalkInv'
    BY <1>1, <1>2, <2>1 DEF WalkInv
  <2>5. QED BY <2>2, <2>3, <2>4 DEF ListInv
<1>5. CASE Found(m)
  <2>1. LinklistRemove(m) /\ owner' = [owner EXCEPT ![m] = "app"]
    BY <1>5 DEF PublishFails
  <2>2. owner[m] = "list"
    BY <1>1, <1>3, <1>5, FoundIsQueued DEF Listed
  <2>3. /\ ListEnds' /\ Chained' /\ NoTwice' /\ Listed'
        /\ next' \in [Msgs -> Msgs \cup {None}] /\ prev' \in [Msgs -> Msgs \cup {None}]
        /\ queue' \in Seq(Msgs)
        /\ owner' \in [Msgs -> {"app", "list", "expiry", "gone"}]
    BY <1>1, <1>3, <2>1, <2>2, TakenOut
  <2>4. TypeInv'
    BY <1>2, <2>3 DEF TypeInv
  <2>5. WalkInv'
    <3>1. epc \in {"walk", "callback"} => t = E /\ epc = "callback" /\ m # enext
      BY <1>1, <1>2 DEF WalkInv, Lockable
    <3>2. \A x \in Msgs : x # m => owner'[x] = owner[x]
      BY <2>1 DEF TypeInv
    <3>3. epc \in {"walk", "callback"} /\ enext # None => owner'[enext] = "list"
      BY <1>1, <3>1, <3>2 DEF WalkInv, TypeInv
    <3>4. epc = "callback" => cur \in Msgs /\ owner'[cur] = "expiry"
      BY <1>1, <2>2, <3>2 DEF WalkInv
    <3>5. QED BY <1>2, <3>3, <3>4 DEF WalkInv
  <2>6. QED BY <2>3, <2>4, <2>5 DEF ListInv
<1>6. QED BY <1>4, <1>5
(* A reply comes when E is not walking. *)
LEMMA ReplyKeeps ==
    ASSUME TypeInv, ListInv, ~stale, NEW m \in Msgs, Reply(m)
    PROVE  TypeInv' /\ ListInv'
<1>1. ListEnds /\ Chained /\ NoTwice /\ Listed /\ WalkInv
  BY DEF ListInv
<1>2. /\ Lockable(App) /\ Found(m) /\ LinklistRemove(m)
      /\ owner' = [owner EXCEPT ![m] = "gone"]
      /\ UNCHANGED <<calling, epc, cur, enext, stale>>
  BY DEF Reply, walk
<1>3. owner[m] = "list"
  BY <1>1, <1>2, FoundIsQueued DEF Listed
<1>4. /\ ListEnds' /\ Chained' /\ NoTwice' /\ Listed'
      /\ next' \in [Msgs -> Msgs \cup {None}] /\ prev' \in [Msgs -> Msgs \cup {None}]
      /\ queue' \in Seq(Msgs)
      /\ owner' \in [Msgs -> {"app", "list", "expiry", "gone"}]
  BY <1>1, <1>2, <1>3, TakenOut
<1>5. TypeInv'
  BY <1>2, <1>4 DEF TypeInv
<1>6. epc \notin {"walk", "callback"}
  BY <1>2, PendingAssumption DEF Lockable
<1>7. WalkInv'
  BY <1>1, <1>2, <1>6 DEF WalkInv
<1>8. QED BY <1>4, <1>5, <1>7 DEF ListInv

(* E takes a message out and remembers the one after it. *)
LEMMA WalkExpiresKeeps ==
    ASSUME TypeInv, ListInv, ~stale, WalkExpires
    PROVE  TypeInv' /\ ListInv'
<1>1. ListEnds /\ Chained /\ NoTwice /\ Listed /\ WalkInv
  BY DEF ListInv
<1>2. /\ epc = "walk" /\ enext # None /\ cur' = enext /\ enext' = next[enext]
      /\ LinklistRemove(enext) /\ owner' = [owner EXCEPT ![enext] = "expiry"]
      /\ epc' = "callback" /\ UNCHANGED <<calling, stale>>
  BY DEF WalkExpires
<1>3. enext \in Msgs /\ owner[enext] = "list"
  BY <1>1, <1>2 DEF WalkInv, TypeInv
<1>4. /\ ListEnds' /\ Chained' /\ NoTwice' /\ Listed'
      /\ next' \in [Msgs -> Msgs \cup {None}] /\ prev' \in [Msgs -> Msgs \cup {None}]
      /\ queue' \in Seq(Msgs)
      /\ owner' \in [Msgs -> {"app", "list", "expiry", "gone"}]
  BY <1>1, <1>2, <1>3, TakenOut
<1>5. TypeInv'
  <2>1. enext' \in Msgs \cup {None}
    BY <1>2, <1>3 DEF TypeInv
  <2>2. QED BY <1>2, <1>4, <2>1 DEF TypeInv
<1>6. WalkInv'
  <2>1. \A x \in Msgs : owner'[x] = IF x = enext THEN "expiry" ELSE owner[x]
    BY <1>2 DEF TypeInv
  <2>2. enext' # None => owner'[enext'] = "list"
    BY <1>1, <1>2, <1>3, <2>1, NextListed
  <2>3. cur' \in Msgs /\ owner'[cur'] = "expiry"
    BY <1>2, <1>3, <2>1
  <2>4. ~(calling' # None /\ calling'[1] = E)
    BY <1>1, <1>2 DEF WalkInv
  <2>5. QED BY <1>2, <2>2, <2>3, <2>4 DEF WalkInv
<1>7. QED BY <1>4, <1>5, <1>6 DEF ListInv

(* The steps that change no link keep the list; a message changes hands    *)
(* outside it, or the walk moves to the next one.                          *)
LEMMA OtherStepsKeep ==
    ASSUME TypeInv, ListInv, ~stale,
           \/ \E t \in {App, E} : Published(t)
           \/ \E m \in Msgs : AppDeletes(m)
           \/ ThreadStarts \/ ThreadSleep
           \/ WalkChecks \/ WalkBegins \/ WalkKeeps \/ WalkFrees \/ WalkEnds
           \/ (\E x \in {"mailbox", "client"} : CallbackLocks(x)) \/ CallbackUnlocks
           \/ Stop \/ PendingDelete
    PROVE  TypeInv' /\ ListInv'
<1>1. ListEnds /\ Chained /\ NoTwice /\ Listed /\ WalkInv
  BY DEF ListInv
<1>2. UNCHANGED <<head, tail, next, prev, count, queue, stale>>
  BY DEF Published, AppDeletes, ThreadStarts, ThreadSleep, WalkChecks, WalkBegins, WalkKeeps,
         WalkFrees, WalkEnds, CallbackLocks, CallbackUnlocks, Stop, PendingDelete,
         DeleteMutexes, DeleteFlags, DeleteJoins, DeleteMutex, links
<1>3. ListEnds' /\ Chained' /\ NoTwice'
  BY <1>1, <1>2 DEF ListEnds, Chained, NoTwice
<1>4. CASE \E m \in Msgs : AppDeletes(m)
  <2>1. PICK m \in Msgs : AppDeletes(m)
    BY <1>4
  <2>2. /\ owner[m] = "app" /\ owner' = [owner EXCEPT ![m] = "gone"]
        /\ UNCHANGED <<calling, epc, cur, enext>>
    BY <2>1 DEF AppDeletes, walk
  <2>3. /\ owner' \in [Msgs -> {"app", "list", "expiry", "gone"}]
        /\ \A x \in Msgs : owner'[x] = IF x = m THEN "gone" ELSE owner[x]
    BY <2>2 DEF TypeInv
  <2>4. TypeInv'
    BY <1>2, <2>2, <2>3 DEF TypeInv
  <2>5. Listed'
    <3>1. \A x \in Msgs : owner'[x] = "list" <=> owner[x] = "list"
      BY <2>2, <2>3
    <3>2. QED BY <1>1, <1>2, <3>1 DEF Listed
  <2>6. WalkInv'
    BY <1>1, <2>2, <2>3 DEF WalkInv, TypeInv
  <2>7. QED BY <1>3, <2>4, <2>5, <2>6 DEF ListInv
<1>5. CASE WalkFrees
  <2>1. /\ epc = "callback" /\ (calling # None => calling[1] # E)
        /\ owner' = [owner EXCEPT ![cur] = "gone"] /\ epc' = "walk"
        /\ UNCHANGED <<calling, cur, enext>>
    BY <1>5 DEF WalkFrees
  <2>2. cur \in Msgs /\ owner[cur] = "expiry"
    BY <1>1, <2>1 DEF WalkInv
  <2>3. /\ owner' \in [Msgs -> {"app", "list", "expiry", "gone"}]
        /\ \A x \in Msgs : owner'[x] = IF x = cur THEN "gone" ELSE owner[x]
    BY <2>1, <2>2 DEF TypeInv
  <2>4. TypeInv'
    BY <1>2, <2>1, <2>3 DEF TypeInv
  <2>5. Listed'
    <3>1. \A x \in Msgs : owner'[x] = "list" <=> owner[x] = "list"
      BY <2>2, <2>3
    <3>2. QED BY <1>1, <1>2, <3>1 DEF Listed
  <2>6. WalkInv'
    BY <1>1, <2>1, <2>2, <2>3 DEF WalkInv, TypeInv
  <2>7. QED BY <1>3, <2>4, <2>5, <2>6 DEF ListInv
<1>6. CASE WalkBegins
  <2>1. epc = "lock" /\ epc' = "walk" /\ enext' = head /\ UNCHANGED <<owner, calling, cur>>
    BY <1>6 DEF WalkBegins
  <2>2. head # None => head \in Msgs /\ owner[head] = "list"
    <3>1. Len(queue) \in Nat
      BY LenProperties DEF TypeInv
    <3>2. head # None => 1 \in 1..Len(queue) /\ head = queue[1] /\ queue[1] \in Msgs
      BY <1>1, <3>1, ElementOfSeq DEF ListEnds, TypeInv
    <3>3. QED BY <1>1, <3>2 DEF Listed
  <2>3. TypeInv' /\ Listed'
    BY <1>1, <1>2, <2>1, <2>2 DEF TypeInv, Listed
  <2>4. WalkInv'
    BY <1>1, <2>1, <2>2 DEF WalkInv
  <2>5. QED BY <1>3, <2>3, <2>4 DEF ListInv
<1>7. CASE WalkKeeps
  <2>1. epc = "walk" /\ enext # None /\ enext' = next[enext] /\ UNCHANGED <<owner, calling, epc, cur>>
    BY <1>7 DEF WalkKeeps
  <2>2. enext \in Msgs /\ owner[enext] = "list"
    BY <1>1, <2>1 DEF WalkInv, TypeInv
  <2>3. next[enext] # None => owner[next[enext]] = "list"
    BY <1>1, <2>2, NextListed
  <2>4. TypeInv' /\ Listed'
    BY <1>1, <1>2, <2>1, <2>2 DEF TypeInv, Listed
  <2>5. WalkInv'
    BY <1>1, <2>1, <2>3 DEF WalkInv
  <2>6. QED BY <1>3, <2>4, <2>5 DEF ListInv
<1>8. CASE \E t \in {App, E} : Published(t)
  <2>1. calling' = None /\ UNCHANGED <<owner, epc, cur, enext>>
    BY <1>8 DEF Published, walk
  <2>2. TypeInv' /\ Listed'
    BY <1>1, <1>2, <2>1 DEF TypeInv, Listed
  <2>3. WalkInv'
    BY <1>1, <2>1 DEF WalkInv
  <2>4. QED BY <1>3, <2>2, <2>3 DEF ListInv
<1>9. CASE ThreadStarts \/ ThreadSleep \/ WalkChecks \/ WalkEnds
  <2>1. /\ epc' \notin {"walk", "callback"} /\ epc # "callback"
        /\ UNCHANGED <<owner, calling, enext>>
    BY <1>9 DEF ThreadStarts, ThreadSleep, WalkChecks, WalkEnds
  <2>2. TypeInv' /\ Listed'
    BY <1>1, <1>2, <2>1 DEF TypeInv, Listed
  <2>3. WalkInv'
    BY <1>1, <2>1 DEF WalkInv
  <2>4. QED BY <1>3, <2>2, <2>3 DEF ListInv
<1>10. CASE \/ (\E x \in {"mailbox", "client"} : CallbackLocks(x)) \/ CallbackUnlocks
            \/ Stop \/ PendingDelete
  <2>1. UNCHANGED <<owner, calling, epc, cur, enext>>
    BY <1>10 DEF CallbackLocks, CallbackUnlocks, Stop, PendingDelete, DeleteMutexes,
                 DeleteFlags, DeleteJoins, DeleteMutex, walk
  <2>2. TypeInv' /\ Listed'
    BY <1>1, <1>2, <2>1 DEF TypeInv, Listed
  <2>3. WalkInv'
    BY <1>1, <2>1 DEF WalkInv
  <2>4. QED BY <1>3, <2>2, <2>3 DEF ListInv
<1>11. QED BY <1>4, <1>5, <1>6, <1>7, <1>8, <1>9, <1>10

(* A message that is freed in the list damages it. *)
LEMMA DeflateFailsKeeps ==
    ASSUME TypeInv, NEW t \in {App, E}, DeflateFails(t)
    PROVE  TypeInv' /\ ListInv'
<1>1. /\ calling' = None /\ stale' = TRUE
      /\ owner' = [owner EXCEPT ![calling[2]] = "gone"]
      /\ UNCHANGED <<next, prev, queue, enext>>
  BY DEF DeflateFails, links, walk
<1>2. owner' \in [Msgs -> {"app", "list", "expiry", "gone"}]
  BY <1>1 DEF TypeInv
<1>3. TypeInv'
  BY <1>1, <1>2 DEF TypeInv
<1>4. QED BY <1>1, <1>3 DEF ListInv

(* Every step of the list keeps it. *)
LEMMA ListStep ==
    ASSUME TypeInv, ListInv, PendingNext
    PROVE  TypeInv' /\ ListInv'
<1>1. ~stale
  BY DEF PendingNext
<1>2. ASSUME NEW t \in {App, E}, NEW m \in Msgs, CallAdds(t, m) PROVE TypeInv' /\ ListInv'
  BY <1>1, <1>2, CallAddsKeeps
<1>3. ASSUME NEW t \in {App, E}, PublishFails(t) PROVE TypeInv' /\ ListInv'
  BY <1>1, <1>3, PublishFailsKeeps
<1>4. ASSUME NEW m \in Msgs, Reply(m) PROVE TypeInv' /\ ListInv'
  BY <1>1, <1>4, ReplyKeeps
<1>5. CASE WalkExpires
  BY <1>1, <1>5, WalkExpiresKeeps
<1>6. CASE \/ \E t \in {App, E} : Published(t)
           \/ \E m \in Msgs : AppDeletes(m)
           \/ ThreadStarts \/ ThreadSleep
           \/ WalkChecks \/ WalkBegins \/ WalkKeeps \/ WalkFrees \/ WalkEnds
           \/ (\E x \in {"mailbox", "client"} : CallbackLocks(x)) \/ CallbackUnlocks
           \/ Stop \/ PendingDelete
  BY <1>1, <1>6, OtherStepsKeep
<1>7. ASSUME NEW t \in {App, E}, DeflateFails(t) PROVE TypeInv' /\ ListInv'
  BY <1>7, DeflateFailsKeeps
<1>8. QED BY <1>2, <1>3, <1>4, <1>5, <1>6, <1>7 DEF PendingNext

-----------------------------------------------------------------------------
(* The ends of the thread and of the event. *)

(* Every step of the list keeps what is known of its end. *)
LEMMA EndStep ==
    ASSUME TypeInv, EndInv, PendingNext
    PROVE  EndInv'
<1>1. ASSUME NEW t \in {App, E}, NEW m \in Msgs, CallAdds(t, m) PROVE EndInv'
  BY <1>1 DEF EndInv, CallAdds, walk
<1>2. ASSUME NEW t \in {App, E}, Published(t) \/ PublishFails(t) \/ DeflateFails(t) PROVE EndInv'
  BY <1>2 DEF EndInv, Published, PublishFails, DeflateFails, walk
<1>3. ASSUME NEW m \in Msgs, AppDeletes(m) \/ Reply(m) PROVE EndInv'
  BY <1>3 DEF EndInv, AppDeletes, Reply, walk
<1>4. CASE \/ ThreadStarts \/ ThreadSleep
           \/ WalkChecks \/ WalkBegins \/ WalkKeeps \/ WalkExpires \/ WalkFrees \/ WalkEnds
  BY <1>4 DEF EndInv, ThreadStarts, ThreadSleep, WalkChecks, WalkBegins, WalkKeeps,
              WalkExpires, WalkFrees, WalkEnds
<1>5. CASE \/ (\E x \in {"mailbox", "client"} : CallbackLocks(x)) \/ CallbackUnlocks
           \/ Stop \/ PendingDelete
  BY <1>5 DEF EndInv, CallbackLocks, CallbackUnlocks, Stop, PendingDelete, DeleteMutexes,
              DeleteFlags, DeleteJoins, DeleteMutex, walk
<1>6. QED BY <1>1, <1>2, <1>3, <1>4, <1>5 DEF PendingNext

(* Every step of a synchronous call keeps what is known of its event. *)
LEMMA EventStep ==
    ASSUME EventInv, EventNext
    PROVE  EventInv'
<1>1. CASE EventCreate
  BY <1>1 DEF EventInv, EventCreate
<1>2. CASE SyncCalls
  BY <1>2 DEF EventInv, SyncCalls
<1>3. CASE SyncCalled
  BY <1>3 DEF EventInv, SyncCalled
<1>4. CASE SyncFails
  BY <1>4 DEF EventInv, SyncFails
<1>5. CASE SyncDeflateFails
  BY <1>5 DEF EventInv, SyncDeflateFails
<1>6. CASE EventWait
  BY <1>6 DEF EventInv, EventWait, EventFree
<1>7. CASE Wakes
  BY <1>7 DEF EventInv, Wakes
<1>8. CASE EventDelete
  BY <1>8 DEF EventInv, EventDelete
<1>9. CASE Taken
  BY <1>9 DEF EventInv, Taken
<1>10. CASE SignalLocks
  BY <1>10 DEF EventInv, SignalLocks
<1>11. CASE Signals
  BY <1>11 DEF EventInv, Signals
<1>12. CASE SignalUnlocks
  BY <1>12 DEF EventInv, SignalUnlocks
<1>13. QED BY <1>1, <1>2, <1>3, <1>4, <1>5, <1>6, <1>7, <1>8, <1>9, <1>10, <1>11, <1>12 DEF EventNext

(* The invariant of the two parts. *)
IndInv == TypeInv /\ ListInv /\ EndInv /\ EventInv

(* Nothing is pending at first. *)
LEMMA IndInvInit == PendingInit /\ EventInit => IndInv
<1> SUFFICES ASSUME PendingInit, EventInit PROVE IndInv
  OBVIOUS
<1>1. queue = <<>> /\ queue \in Seq(Msgs) /\ Len(queue) = 0
  BY DEF PendingInit
<1>2. TypeInv
  BY <1>1 DEF PendingInit, TypeInv
<1>3. ListEnds /\ Chained /\ NoTwice /\ Listed
  BY <1>1 DEF PendingInit, ListEnds, Chained, NoTwice, Listed
<1>4. WalkInv /\ EndInv
  BY DEF PendingInit, WalkInv, EndInv
<1>5. EventInv
  BY DEF EventInit, EventInv
<1>6. QED BY <1>2, <1>3, <1>4, <1>5 DEF IndInv, ListInv

(* The list and the event keep the invariant together. *)
LEMMA IndInvStep ==
    ASSUME IndInv,
           [\/ PendingNext /\ UNCHANGED eventVars
            \/ EventNext /\ UNCHANGED pendingVars]_<<pendingVars, eventVars>>
    PROVE  IndInv'
<1>1. UNCHANGED eventVars => EventInv'
  BY DEF IndInv, EventInv, eventVars
<1>2. UNCHANGED pendingVars => TypeInv' /\ ListInv' /\ EndInv'
  <2> SUFFICES ASSUME UNCHANGED pendingVars PROVE TypeInv' /\ ListInv' /\ EndInv'
    OBVIOUS
  <2>1. UNCHANGED <<head, tail, next, prev, count, queue, owner, calling, epc, cur, enext,
                    stopped, holds, dpc, stale>>
    BY DEF pendingVars
  <2>2. TypeInv' /\ EndInv' /\ WalkInv' = WalkInv
    BY <2>1 DEF IndInv, TypeInv, EndInv, WalkInv
  <2>3. ListEnds' = ListEnds /\ Chained' = Chained /\ NoTwice' = NoTwice /\ Listed' = Listed
    BY <2>1 DEF ListEnds, Chained, NoTwice, Listed
  <2>4. QED BY <2>1, <2>2, <2>3 DEF IndInv, ListInv
<1>3. CASE PendingNext /\ UNCHANGED eventVars
  BY <1>1, <1>3, ListStep, EndStep DEF IndInv
<1>4. CASE EventNext /\ UNCHANGED pendingVars
  BY <1>2, <1>4, EventStep DEF IndInv
<1>5. CASE UNCHANGED <<pendingVars, eventVars>>
  BY <1>1, <1>2, <1>5 DEF IndInv
<1>6. QED BY <1>3, <1>4, <1>5

(* As long as no message is sent again with links from its last time in    *)
(* the list, next, prev, the ends and the count of the pending list stand  *)
(* for one queue of the messages that are the list's, whoever adds,        *)
(* answers, expires and fails them, and E's next message is in it.         *)
THEOREM LinksSoundCorrect == PendingSpec => []LinksSound
<1>1. IndInv => LinksSound
  <2> SUFFICES ASSUME IndInv, ~stale PROVE LinksSound
    BY DEF LinksSound
  <2>1. ListEnds /\ Chained /\ Listed /\ WalkInv /\ queue \in Seq(Msgs)
    BY DEF IndInv, ListInv, TypeInv
  <2>2. ToSet(queue) = {m \in Msgs : owner[m] = "list"}
    <3>1. ToSet(queue) = {queue[i] : i \in 1..Len(queue)}
      BY <2>1, LenProperties DEF ToSet
    <3>2. \A i \in 1..Len(queue) : queue[i] \in Msgs
      BY <2>1, ElementOfSeq
    <3>3. QED BY <2>1, <3>1, <3>2 DEF Listed
  <2>3. QED BY <2>1, <2>2 DEF LinksSound, ListEnds, Chained, WalkInv
<1>2. QED BY <1>1, IndInvInit, IndInvStep, PTL DEF PendingSpec

(* A mutex that tr50_delete has destroyed is held by nobody but, if it is   *)
(* one of the client, a callback of the expiration thread that has not yet  *)
(* returned; pending->mux is destroyed after that thread has ended.  The    *)
(* event of a synchronous call is freed when nobody is in it, unless a raw  *)
(* call has left its request behind, and a signal is not missed.            *)
THEOREM NothingAfterDeleteCorrect == PendingSpec => []NothingAfterDelete
<1>1. IndInv => EventSound
  BY DEF IndInv, EventInv, EventSound
<1>2. EndInv => /\ Freed \cap Held # {} => epc = "callback" /\ Freed \cap Held = {holds}
                /\ dpc = "done" => epc = "ended"
  <2> SUFFICES ASSUME EndInv, NEW x \in Freed \cap Held
               PROVE  x = holds /\ epc = "callback"
    BY DEF EndInv
  <2>1. dpc # "no" /\ calling = None
    BY DEF EndInv, Freed
  <2>2. x # "pending"
    BY DEF EndInv, Freed, Held
  <2>3. x = holds /\ holds # "none"
    BY <2>1, <2>2 DEF Held
  <2>4. QED BY <2>3 DEF EndInv
<1>3. IndInv => NothingAfterDelete
  BY <1>1, <1>2 DEF IndInv, NothingAfterDelete
<1>4. QED BY <1>3, IndInvInit, IndInvStep, PTL DEF PendingSpec
=============================================================================
