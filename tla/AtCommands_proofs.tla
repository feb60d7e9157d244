------------------------- MODULE AtCommands_proofs -------------------------
(***************************************************************************)
(* Proofs about AtCommands, for a table of any size and any AT commands.   *)
(*                                                                         *)
(* Of the table, RungIsThere and what a get gives follow from SlotInv,     *)
(* which says what a slot holds at each stage of a put, and sets the slots *)
(* that no put fills against the announcements made and due.  The count is *)
(* that of CountInv: each put in some stages owes it 1, a get -1, and what *)
(* a thread has read of it is still true.  Of module.exec, ExecAnswered    *)
(* follows from ExecInv: the modem has no other command than the one that  *)
(* is waited for.                                                          *)
(***************************************************************************)
EXTENDS AtCommands, Basics, FiniteSetTheorems, TLAPS

Modes == {"reply", "method"}

(* What a thread that puts can be at. *)
PutRecords == [stage : {"none", "filled", "used", "named", "counting", "rings"},
               slot : 0..StorageSize, mode : Modes, id : Nat, seen : Int]

Filling(t) == put[t].stage \in {"filled", "used"}

(* The slots in use, the puts that have still to count them, and those     *)
(* whose answer has its identifier and is not announced.                   *)
Taken   == {i \in Slots : slots[i].used}
Owed    == {t \in Putters : put[t].stage \in {"used", "named", "counting"}}
Due(id) == {t \in Putters : put[t].stage \in {"named", "counting", "rings"} /\ put[t].id = id}

(* The slots with identifier id that no put fills. *)
Settled(id) == {i \in Taken : slots[i].id = id /\ \A t \in Putters : ~Fills(t, i)}

TypeInv ==
    /\ slots \in [Slots -> [used : BOOLEAN, id : Nat, mode : Modes, msg : Nat]]
    /\ put \in [Putters -> PutRecords]
    /\ got \in [stage : {"none", "cleared", "counting"}, seen : Int]
    /\ \A t \in Putters : Filling(t) => put[t].slot \in Slots
    /\ count \in Int /\ lastId \in Nat
    /\ rung \in [Ids -> Int]

(* What a slot holds that a put fills. *)
FillsRight(t) ==
    /\ put[t].stage = "filled" => put[t].slot \notin Taken /\ slots[put[t].slot].msg = put[t].id
    /\ put[t].stage = "used" => put[t].slot \in Taken /\ slots[put[t].slot].msg = put[t].id

(* What holds as long as no two threads are in one slot. *)
SlotInv ==
    /\ \A t \in Putters : FillsRight(t)
    /\ \A t, u \in Putters : Filling(t) /\ Filling(u) /\ put[t].slot = put[u].slot => t = u
    /\ \A i \in Taken : (\A t \in Putters : ~Fills(t, i)) => slots[i].msg = slots[i].id
    /\ fetched
    /\ \A id \in Ids : rung[id] + Cardinality(Due(id)) <= Cardinality(Settled(id))

Getting == IF got.stage = "none" THEN 0 ELSE 1

(* What holds if no two threads are in ++ or -- either. *)
CountInv ==
    /\ count = Cardinality(Taken) - Cardinality(Owed) + Getting
    /\ \A t \in Putters : put[t].stage = "counting" => put[t].seen = count /\ got.stage # "counting"
    /\ got.stage = "counting" => got.seen = count
    /\ \A t, u \in Putters : put[t].stage = "counting" /\ put[u].stage = "counting" => t = u

(* Both, of a step. *)
TableSound ==
    /\ ~raced => SlotInv
    /\ ~raced /\ ~overlapped => CountInv

StorageInv == TypeInv /\ TableSound

(* What an acknowledgement may hold: outputs, or one of two errors. *)
Answers == SUBSET (Execs \cup {"busy", "attach failed"})

(* The acknowledgements of e, as ExecAnswered wants them. *)
AtMostOne(e) == Len(acks[e]) <= 1
OwnOutput(e) == acks[e] # <<>> => acks[e][1] \subseteq {e, "busy", "attach failed"}

ExecInv ==
    /\ mail \in Execs \cup {NoMail} /\ acks \in [Execs -> Seq(Answers)]
    /\ engine \in Seq(Execs) /\ buffer \subseteq Execs
    /\ mail # NoMail => acks[mail] = <<>>
    /\ \A e \in Execs : AtMostOne(e)
    /\ ~overtaken =>
         /\ mail = NoMail => engine = <<>>
         /\ mail # NoMail => engine = <<mail>> /\ buffer \subseteq {mail}
         /\ \A e \in Execs : OwnOutput(e)

-----------------------------------------------------------------------------
(* Sets of slots. *)

(* Min chooses the least element of a set of numbers. *)
LEMMA MinIsLeast ==
    ASSUME NEW S \in SUBSET Nat, IsFiniteSet(S), S # {}
    PROVE  Min(S) \in S /\ \A y \in S : Min(S) <= y
BY LeastElement DEF Min

(* The slots are finitely many, and each search finds the first of them. *)
LEMMA SlotSets ==
    ASSUME NEW S \in SUBSET Slots
    PROVE  IsFiniteSet(S) /\ (S # {} => Min(S) \in S)
<1>1. IsFiniteSet(Slots) /\ Slots \subseteq Nat
  BY FS_Interval, StorageAssumption DEF Slots
<1>2. IsFiniteSet(S) /\ S \in SUBSET Nat
  BY <1>1, FS_Subset
<1>3. QED BY <1>2, MinIsLeast

(* The sets that are counted are finite. *)
LEMMA CountedSets ==
    /\ IsFiniteSet(Taken) /\ IsFiniteSet(Owed)
    /\ Cardinality(Taken) \in Nat /\ Cardinality(Owed) \in Nat
    /\ \A id : /\ IsFiniteSet(Settled(id)) /\ Cardinality(Settled(id)) \in Nat
               /\ IsFiniteSet(Due(id)) /\ Cardinality(Due(id)) \in Nat
<1>1. IsFiniteSet(Putters)
  <2>1. IsFiniteSet({R}) /\ IsFiniteSet({R} \cup {P})
    BY FS_Singleton, FS_AddElement
  <2>2. Putters = {R} \cup {P}
    BY AtAssumption
  <2>3. QED BY <2>1, <2>2
<1>2. Owed \in SUBSET Putters /\ \A id : Due(id) \in SUBSET Putters
  BY DEF Owed, Due
<1>3. Taken \in SUBSET Slots /\ \A id : Settled(id) \in SUBSET Slots
  BY DEF Settled, Taken
<1>4. /\ IsFiniteSet(Taken) /\ IsFiniteSet(Owed)
      /\ \A id : IsFiniteSet(Settled(id)) /\ IsFiniteSet(Due(id))
  BY <1>1, <1>2, <1>3, SlotSets, FS_Subset
<1>5. QED BY <1>4, FS_CardinalityType

-----------------------------------------------------------------------------
(* The steps of a put. *)

(* A step of thread t that changes its put and nothing else of a put. *)
PutOnly(t, stage) ==
    /\ put' \in [Putters -> PutRecords]
    /\ \A u \in Putters : u # t => put'[u] = put[u]
    /\ put'[t].stage = stage /\ put'[t].slot = put[t].slot /\ put'[t].id = put[t].id

(* _tr50_at_storage_put fills in a slot that is not in use. *)
LEMMA PutBegins ==
    ASSUME StorageInv, NEW t \in Putters, NEW mode \in Modes, NEW id \in Nat,
           StoragePut(t, mode, id), rung' = rung, lastId' \in Nat
    PROVE  StorageInv'
<1> DEFINE i == Min(FreeSlots)
<1>t. TypeInv
  BY DEF StorageInv
<1>1. i \in Slots /\ i \notin Taken /\ put[t].stage = "none"
  <2>1. FreeSlots \in SUBSET Slots /\ FreeSlots # {}
    BY DEF StoragePut, Full, FreeSlots
  <2>2. i \in FreeSlots
    BY <2>1, SlotSets
  <2>3. QED BY <2>2 DEF FreeSlots, Taken, StoragePut
<1>2. /\ put' = [put EXCEPT ![t] = [stage |-> "filled", slot |-> i, mode |-> mode,
                                    id |-> id, seen |-> 0]]
      /\ slots' = [slots EXCEPT ![i].msg = id]
      /\ raced' = (raced \/ \E o \in Putters : Fills(o, i))
      /\ UNCHANGED <<count, got, overlapped, fetched>>
  BY DEF StoragePut
<1> HIDE DEF i
<1>3. /\ slots' \in [Slots -> [used : BOOLEAN, id : Nat, mode : Modes, msg : Nat]]
      /\ \A j \in Slots : slots'[j].used = slots[j].used /\ slots'[j].id = slots[j].id
      /\ \A j \in Slots : j # i => slots'[j].msg = slots[j].msg
      /\ slots'[i].msg = id
  BY <1>1, <1>2, <1>t DEF TypeInv
<1>4. /\ put' \in [Putters -> PutRecords]
      /\ \A u \in Putters : u # t => put'[u] = put[u]
      /\ put'[t].stage = "filled" /\ put'[t].slot = i /\ put'[t].id = id
  <2>1. [stage |-> "filled", slot |-> i, mode |-> mode, id |-> id, seen |-> 0] \in PutRecords
    BY <1>1, StorageAssumption DEF PutRecords, Slots
  <2>2. QED BY <1>2, <2>1, <1>t DEF TypeInv
<1>5. TypeInv'
  BY <1>1, <1>2, <1>3, <1>4, <1>t DEF TypeInv, Filling
<1>6. Taken' = Taken /\ Owed' = Owed /\ \A n : Due(n)' = Due(n)
  BY <1>1, <1>3, <1>4 DEF Taken, Owed, Due
<1>7. ~raced' => ~raced /\ \A o \in Putters : ~Fills(o, i)
  BY <1>2
<1>8. ASSUME ~raced', SlotInv PROVE SlotInv'
  <2>1. \A o \in Putters : ~Fills(o, i)
    BY <1>7, <1>8
  <2>2. \A u \in Putters, j \in Slots : Fills(u, j)' <=> IF u = t THEN j = i ELSE Fills(u, j)
    BY <1>4 DEF Fills
  <2>3. \A j \in Slots : ~Fills(t, j)
    BY <1>1 DEF Fills
  <2>4. \A n : Settled(n)' = Settled(n)
    BY <1>1, <1>3, <1>6, <2>2, <2>3 DEF Settled, Taken
  <2>5. ASSUME NEW u \in Putters PROVE FillsRight(u)'
    <3>1. ASSUME u # t, Filling(u)
          PROVE  put'[u] = put[u] /\ slots'[put[u].slot].msg = slots[put[u].slot].msg
      BY <1>3, <1>4, <1>t, <2>1, <3>1 DEF TypeInv, Filling, Fills
    <3>2. QED BY <1>1, <1>3, <1>4, <1>6, <1>8, <3>1 DEF SlotInv, FillsRight, Filling
  <2>6. \A u, v \in Putters : Filling(u)' /\ Filling(v)' /\ put'[u].slot = put'[v].slot => u = v
    BY <1>4, <1>8, <2>1 DEF SlotInv, Filling, Fills
  <2>7. \A j \in Taken' : (\A u \in Putters : ~Fills(u, j)') => slots'[j].msg = slots'[j].id
    BY <1>1, <1>3, <1>6, <1>8, <2>2, <2>3 DEF SlotInv, Taken
  <2>8. QED BY <1>2, <1>6, <1>8, <2>4, <2>5, <2>6, <2>7 DEF SlotInv
<1>9. ASSUME CountInv PROVE CountInv'
  BY <1>1, <1>2, <1>4, <1>6, <1>9 DEF CountInv, Getting
<1>10. QED BY <1>2, <1>5, <1>7, <1>8, <1>9 DEF StorageInv, TableSound

(* It sets is_used. *)
LEMMA PutUses ==
    ASSUME StorageInv, NEW t \in Putters, StoragePutUsed(t), rung' = rung, lastId' = lastId
    PROVE  StorageInv'
<1> DEFINE i == put[t].slot
<1>t. TypeInv
  BY DEF StorageInv
<1>1. i \in Slots /\ put[t].stage = "filled" /\ Filling(t)
  BY <1>t DEF StoragePutUsed, TypeInv, Filling
<1>2. /\ slots' = [slots EXCEPT ![i].mode = put[t].mode, ![i].used = TRUE]
      /\ put' = [put EXCEPT ![t].stage = "used"]
      /\ UNCHANGED <<count, got, raced, overlapped, fetched>>
  BY DEF StoragePutUsed
<1>3. /\ slots' \in [Slots -> [used : BOOLEAN, id : Nat, mode : Modes, msg : Nat]]
      /\ \A j \in Slots : slots'[j].id = slots[j].id /\ slots'[j].msg = slots[j].msg
      /\ \A j \in Slots : j # i => slots'[j].used = slots[j].used
      /\ slots'[i].used
  BY <1>1, <1>2, <1>t DEF TypeInv, PutRecords
<1>4. PutOnly(t, "used")
  BY <1>2, <1>t DEF TypeInv, PutOnly, PutRecords
<1> HIDE DEF i
<1>5. TypeInv'
  BY <1>1, <1>2, <1>3, <1>4, <1>t DEF TypeInv, Filling, PutOnly, i
<1>6. Taken' = Taken \cup {i} /\ Owed' = Owed \cup {t} /\ t \notin Owed
  BY <1>1, <1>3, <1>4 DEF Taken, Owed, PutOnly
<1>7. /\ \A u \in Putters, j \in Slots : Fills(u, j)' <=> Fills(u, j)
      /\ \A u \in Putters : Filling(u)' <=> Filling(u)
      /\ \A n : Due(n)' = Due(n)
  BY <1>1, <1>4 DEF Filling, Fills, PutOnly, Due
<1>8. SlotInv => i \notin Taken /\ slots[i].msg = put[t].id
  BY <1>1 DEF SlotInv, FillsRight, i
<1>9. ASSUME SlotInv PROVE SlotInv'
  <2>1. \A u \in Putters : Filling(u) /\ u # t => put[u].slot # i
    BY <1>1, <1>9 DEF SlotInv, i
  <2>2. Fills(t, i)
    BY <1>1 DEF Fills, i
  <2>3. \A n : Settled(n)' = Settled(n)
    BY <1>1, <1>3, <1>6, <1>7, <2>2 DEF Settled, Taken
  <2>4. ASSUME NEW u \in Putters PROVE FillsRight(u)'
    BY <1>1, <1>3, <1>4, <1>6, <1>8, <1>9, <1>t, <2>1 DEF SlotInv, FillsRight, TypeInv, Filling, PutOnly, i
  <2>5. \A u, v \in Putters : Filling(u)' /\ Filling(v)' /\ put'[u].slot = put'[v].slot => u = v
    BY <1>4, <1>7, <1>9 DEF SlotInv, PutOnly
  <2>6. \A j \in Taken' : (\A u \in Putters : ~Fills(u, j)') => slots'[j].msg = slots'[j].id
    BY <1>1, <1>3, <1>6, <1>7, <1>9, <2>2 DEF SlotInv, Taken
  <2>7. QED BY <1>2, <1>7, <1>9, <2>3, <2>4, <2>5, <2>6 DEF SlotInv
<1>10. ASSUME SlotInv, CountInv PROVE CountInv'
  <2>1. /\ Cardinality(Taken') = Cardinality(Taken) + 1
        /\ Cardinality(Owed') = Cardinality(Owed) + 1
    BY <1>6, <1>8, <1>10, CountedSets, FS_AddElement
  <2>2. count' = Cardinality(Taken') - Cardinality(Owed') + Getting'
    BY <1>2, <1>10, <2>1, CountedSets DEF CountInv, Getting
  <2>3. QED BY <1>1, <1>2, <1>4, <1>10, <2>2 DEF CountInv, PutOnly
<1>11. QED BY <1>2, <1>5, <1>9, <1>10 DEF StorageInv, TableSound

(* It sets id: the answer can be fetched, and is due to be announced. *)
LEMMA PutNames ==
    ASSUME StorageInv, NEW t \in Putters, StoragePutId(t), rung' = rung, lastId' = lastId
    PROVE  StorageInv'
<1> DEFINE i  == put[t].slot
           id == put[t].id
<1>t. TypeInv
  BY DEF StorageInv
<1>1. i \in Slots /\ put[t].stage = "used" /\ id \in Nat /\ Filling(t)
  BY <1>t DEF StoragePutId, TypeInv, Filling, PutRecords
<1>2. /\ slots' = [slots EXCEPT ![i].id = id] /\ put' = [put EXCEPT ![t].stage = "named"]
      /\ UNCHANGED <<count, got, raced, overlapped, fetched>>
  BY DEF StoragePutId
<1>3. /\ slots' \in [Slots -> [used : BOOLEAN, id : Nat, mode : Modes, msg : Nat]]
      /\ \A j \in Slots : slots'[j].used = slots[j].used /\ slots'[j].msg = slots[j].msg
      /\ \A j \in Slots : j # i => slots'[j].id = slots[j].id
      /\ slots'[i].id = id
  BY <1>1, <1>2, <1>t DEF TypeInv
<1>4. PutOnly(t, "named")
  BY <1>2, <1>t DEF TypeInv, PutOnly, PutRecords
<1>5. \A u \in Putters, j \in Slots : Fills(u, j)' <=> Fills(u, j) /\ u # t
  BY <1>4 DEF Fills, PutOnly
<1>6. Fills(t, i) /\ \A j : Fills(t, j) => j = i
  BY <1>1 DEF Fills
<1> HIDE DEF i, id
<1>7. TypeInv'
  BY <1>1, <1>2, <1>3, <1>4, <1>t DEF TypeInv, Filling, PutOnly
<1>8. Taken' = Taken /\ Owed' = Owed /\ Taken \subseteq Slots
  BY <1>1, <1>3, <1>4 DEF Taken, Owed, PutOnly
<1>9. \A n : t \notin Due(n) /\ Due(n)' = IF n = id THEN Due(n) \cup {t} ELSE Due(n)
  BY <1>1, <1>4 DEF Due, PutOnly, id
<1>10. ASSUME SlotInv PROVE SlotInv'
  <2>1. i \in Taken /\ slots[i].msg = id
    BY <1>1, <1>10 DEF SlotInv, FillsRight, i, id
  <2>2. \A u \in Putters : u # t => ~Fills(u, i)
    BY <1>1, <1>10 DEF SlotInv, Fills, Filling, i
  <2>3. \A n : i \notin Settled(n)
               /\ Settled(n)' = IF n = id THEN Settled(n) \cup {i} ELSE Settled(n)
    BY <1>1, <1>3, <1>5, <1>6, <1>8, <2>1, <2>2 DEF Settled
  <2>4. ASSUME NEW n \in Ids PROVE rung'[n] + Cardinality(Due(n)') <= Cardinality(Settled(n)')
    <3>1. rung[n] \in Int /\ rung[n] + Cardinality(Due(n)) <= Cardinality(Settled(n))
      BY <1>10, <1>t DEF SlotInv, TypeInv
    <3>2. CASE n = id
      <4>1. /\ Cardinality(Due(n)') = Cardinality(Due(n)) + 1
            /\ Cardinality(Settled(n)') = Cardinality(Settled(n)) + 1
        BY <1>9, <2>3, <3>2, CountedSets, FS_AddElement
      <4>2. QED BY <3>1, <4>1, CountedSets
    <3>3. CASE n # id
      BY <1>9, <2>3, <3>1, <3>3
    <3>4. QED BY <3>2, <3>3
  <2>5. ASSUME NEW u \in Putters PROVE FillsRight(u)'
    <3>1. ASSUME u # t, Filling(u)
          PROVE  put'[u] = put[u] /\ slots'[put[u].slot].msg = slots[put[u].slot].msg
      BY <1>3, <1>4, <1>t, <3>1 DEF TypeInv, PutOnly
    <3>2. QED BY <1>4, <1>8, <1>10, <3>1 DEF SlotInv, FillsRight, Filling, PutOnly
  <2>6. \A u, v \in Putters : Filling(u)' /\ Filling(v)' /\ put'[u].slot = put'[v].slot => u = v
    BY <1>4, <1>10 DEF SlotInv, Filling, PutOnly
  <2>7. ASSUME NEW j \in Taken', \A u \in Putters : ~Fills(u, j)'
        PROVE  slots'[j].msg = slots'[j].id
    <3>1. CASE j = i
      BY <1>1, <1>3, <2>1, <3>1
    <3>2. CASE j # i
      <4>1. j \in Slots /\ \A u \in Putters : ~Fills(u, j)
        BY <1>5, <1>6, <1>8, <2>7, <3>2
      <4>2. QED BY <1>3, <1>8, <1>10, <2>7, <3>2, <4>1 DEF SlotInv
    <3>3. QED BY <3>1, <3>2
  <2>8. QED BY <1>2, <1>10, <2>4, <2>5, <2>6, <2>7 DEF SlotInv
<1>11. ASSUME CountInv PROVE CountInv'
  BY <1>1, <1>2, <1>4, <1>8, <1>11 DEF CountInv, Getting, PutOnly
<1>12. QED BY <1>2, <1>7, <1>10, <1>11 DEF StorageInv, TableSound

(* A step of ++ or -- leaves the slots and what is due alone. *)
LEMMA SlotsKept ==
    ASSUME TypeInv, UNCHANGED <<slots, fetched, rung>>,
           \A u \in Putters :
             /\ put'[u].slot = put[u].slot /\ put'[u].id = put[u].id
             /\ \/ put'[u].stage = put[u].stage
                \/ {put'[u].stage, put[u].stage} \subseteq {"named", "counting", "rings"}
    PROVE  SlotInv => SlotInv'
<1>1. \A u \in Putters : Filling(u)' <=> Filling(u)
  BY DEF Filling
<1>2. \A u \in Putters : \A j : Fills(u, j)' <=> Fills(u, j)
  BY DEF Fills
<1>3. Taken' = Taken /\ \A n : Due(n)' = Due(n)
  BY DEF Taken, Due
<1>4. \A n : Settled(n)' = Settled(n)
  BY <1>2, <1>3 DEF Settled
<1>5. \A u \in Putters : FillsRight(u) => FillsRight(u)'
  BY <1>3 DEF FillsRight
<1>6. QED BY <1>1, <1>2, <1>3, <1>4, <1>5 DEF SlotInv

(* ++ reads the count. *)
LEMMA PutReads ==
    ASSUME StorageInv, NEW t \in Putters, StoragePutReads(t), rung' = rung, lastId' = lastId
    PROVE  StorageInv'
<1>t. TypeInv
  BY DEF StorageInv
<1>1. /\ put[t].stage = "named" /\ put' = [put EXCEPT ![t].stage = "counting", ![t].seen = count]
      /\ overlapped' = (overlapped \/ Counting)
      /\ UNCHANGED <<slots, count, got, raced, fetched>>
  BY DEF StoragePutReads
<1>2. PutOnly(t, "counting") /\ put'[t].seen = count
  BY <1>1, <1>t DEF TypeInv, PutOnly, PutRecords
<1>3. TypeInv'
  BY <1>1, <1>2, <1>t DEF TypeInv, PutOnly, Filling
<1>4. SlotInv => SlotInv'
  <2>1. \A u \in Putters :
             /\ put'[u].slot = put[u].slot /\ put'[u].id = put[u].id
             /\ \/ put'[u].stage = put[u].stage
                \/ {put'[u].stage, put[u].stage} \subseteq {"named", "counting", "rings"}
    BY <1>1, <1>2 DEF PutOnly
  <2>2. QED BY <1>1, <1>t, <2>1, SlotsKept
<1>5. ASSUME CountInv, ~overlapped' PROVE CountInv'
  <2>1. got.stage # "counting" /\ \A u \in Putters : put[u].stage # "counting"
    BY <1>1, <1>5 DEF Counting
  <2>2. Taken' = Taken /\ Owed' = Owed
    BY <1>1, <1>2 DEF Taken, Owed, PutOnly
  <2>3. QED BY <1>1, <1>2, <1>5, <2>1, <2>2 DEF CountInv, Getting, PutOnly
<1>6. QED BY <1>1, <1>3, <1>4, <1>5 DEF StorageInv, TableSound

(* ++ writes what it read and 1. *)
LEMMA PutEnds ==
    ASSUME StorageInv, NEW t \in Putters, StoragePutEnds(t), rung' = rung, lastId' = lastId
    PROVE  StorageInv'
<1>t. TypeInv
  BY DEF StorageInv
<1>1. /\ put[t].stage = "counting" /\ count' = put[t].seen + 1
      /\ put' = [put EXCEPT ![t].stage = "rings"]
      /\ UNCHANGED <<slots, got, raced, overlapped, fetched>>
  BY DEF StoragePutEnds
<1>2. PutOnly(t, "rings") /\ put[t].seen \in Int
  BY <1>1, <1>t DEF TypeInv, PutOnly, PutRecords
<1>3. TypeInv'
  BY <1>1, <1>2, <1>t DEF TypeInv, PutOnly, Filling
<1>4. SlotInv => SlotInv'
  <2>1. \A u \in Putters :
             /\ put'[u].slot = put[u].slot /\ put'[u].id = put[u].id
             /\ \/ put'[u].stage = put[u].stage
                \/ {put'[u].stage, put[u].stage} \subseteq {"named", "counting", "rings"}
    BY <1>1, <1>2 DEF PutOnly
  <2>2. QED BY <1>1, <1>t, <2>1, SlotsKept
<1>5. ASSUME CountInv PROVE CountInv'
  <2>1. put[t].seen = count /\ got.stage # "counting"
        /\ \A u \in Putters : u # t => put[u].stage # "counting"
    BY <1>1, <1>5 DEF CountInv
  <2>2. Taken' = Taken /\ Owed' = Owed \ {t} /\ t \in Owed
    BY <1>1, <1>2 DEF Taken, Owed, PutOnly
  <2>3. Cardinality(Owed') = Cardinality(Owed) - 1
    BY <2>2, CountedSets, FS_RemoveElement
  <2>4. Getting' = Getting /\ Getting \in Int
    BY <1>1 DEF Getting
  <2>5. count' = Cardinality(Taken') - Cardinality(Owed') + Getting'
    BY <1>1, <1>5, <2>1, <2>2, <2>3, <2>4, CountedSets DEF CountInv
  <2>6. QED BY <1>1, <1>2, <2>1, <2>5 DEF CountInv, PutOnly
<1>6. QED BY <1>1, <1>3, <1>4, <1>5 DEF StorageInv, TableSound

(* unsol_callback: what was due is announced. *)
LEMMA Announces ==
    ASSUME StorageInv, NEW t \in Putters, Announce(t)
    PROVE  StorageInv'
<1> DEFINE id == put[t].id
<1>t. TypeInv
  BY DEF StorageInv
<1>1. /\ put[t].stage = "rings" /\ put' = [put EXCEPT ![t] = NoPut]
      /\ rung' = [rung EXCEPT ![id] = @ + 1]
      /\ UNCHANGED <<slots, count, got, raced, overlapped, fetched, lastId>>
  BY DEF Announce
<1>2. NoPut \in PutRecords /\ NoPut.stage = "none"
  BY StorageAssumption DEF NoPut, PutRecords, Modes
<1>3. /\ put' \in [Putters -> PutRecords] /\ put'[t].stage = "none"
      /\ \A u \in Putters : u # t => put'[u] = put[u]
  BY <1>1, <1>2, <1>t DEF TypeInv
<1>4. /\ rung' \in [Ids -> Int]
      /\ \A n \in Ids : rung'[n] = IF n = id THEN rung[n] + 1 ELSE rung[n]
  <2>1. rung \in [Ids -> Int]
    BY <1>t DEF TypeInv
  <2>2. \A n \in Ids : rung[n] \in Int /\ rung[n] + 1 \in Int
    BY <2>1
  <2>3. \A n \in Ids : rung'[n] = IF n = id THEN rung[n] + 1 ELSE rung[n]
    BY <1>1, <2>1
  <2>4. rung' = [n \in Ids |-> rung'[n]]
    BY <1>1, <2>1
  <2>5. rung' \in [Ids -> Int]
    BY <2>2, <2>3, <2>4
  <2>6. QED BY <2>3, <2>5
<1>5. \A n : Due(n)' = (IF n = id THEN Due(n) \ {t} ELSE Due(n)) /\ t \in Due(id)
  BY <1>1, <1>3 DEF Due
<1> HIDE DEF id
<1>6. TypeInv'
  BY <1>1, <1>3, <1>4, <1>t DEF TypeInv, Filling
<1>7. Taken' = Taken /\ Owed' = Owed
  BY <1>1, <1>3 DEF Taken, Owed
<1>8. /\ \A u \in Putters : Filling(u)' <=> Filling(u)
      /\ \A u \in Putters : \A j : Fills(u, j)' <=> Fills(u, j)
  BY <1>1, <1>3 DEF Filling, Fills
<1>9. ASSUME SlotInv PROVE SlotInv'
  <2>1. \A n : Settled(n)' = Settled(n)
    BY <1>1, <1>7, <1>8 DEF Settled
  <2>2. ASSUME NEW n \in Ids PROVE rung'[n] + Cardinality(Due(n)') <= Cardinality(Settled(n)')
    <3>1. rung[n] \in Int /\ rung[n] + Cardinality(Due(n)) <= Cardinality(Settled(n))
      BY <1>9, <1>t DEF SlotInv, TypeInv
    <3>2. CASE n = id
      <4>1. Cardinality(Due(n)') = Cardinality(Due(n)) - 1
        BY <1>5, <3>2, CountedSets, FS_RemoveElement
      <4>2. QED BY <1>4, <2>1, <3>1, <3>2, <4>1, CountedSets
    <3>3. CASE n # id
      BY <1>4, <1>5, <2>1, <3>1, <3>3
    <3>4. QED BY <3>2, <3>3
  <2>3. ASSUME NEW u \in Putters PROVE FillsRight(u)'
    BY <1>1, <1>3, <1>7, <1>9 DEF SlotInv, FillsRight
  <2>4. \A u, v \in Putters : Filling(u)' /\ Filling(v)' /\ put'[u].slot = put'[v].slot => u = v
    BY <1>3, <1>8, <1>9 DEF SlotInv, Filling
  <2>5. QED BY <1>1, <1>7, <1>8, <1>9, <2>2, <2>3, <2>4 DEF SlotInv
<1>10. ASSUME CountInv PROVE CountInv'
  BY <1>1, <1>3, <1>7, <1>10 DEF CountInv, Getting
<1>11. QED BY <1>1, <1>6, <1>9, <1>10 DEF StorageInv, TableSound

-----------------------------------------------------------------------------
(* The steps of a get. *)

(* It empties the first slot that matches: one with the message that was   *)
(* put under this identifier, unless a put fills it.                       *)
LEMMA Gets ==
    ASSUME StorageInv, NEW id, NEW mode, StorageGet(id, mode), lastId' = lastId,
           rung' = [rung EXCEPT ![id] = @ - 1]
    PROVE  StorageInv'
<1> DEFINE i == Min({j \in Slots : Matches(j, id, mode)})
<1>t. TypeInv
  BY DEF StorageInv
<1>1. i \in Slots /\ Matches(i, id, mode)
  <2> DEFINE S == {j \in Slots : Matches(j, id, mode)}
  <2>1. S \in SUBSET Slots /\ S # {}
    BY DEF StorageGet
  <2>2. Min(S) \in S
    BY <2>1, SlotSets
  <2>3. QED BY <2>2
<1>2. /\ slots' = [slots EXCEPT ![i].used = FALSE, ![i].msg = 0]
      /\ got.stage = "none" /\ got' = [got EXCEPT !.stage = "cleared"]
      /\ fetched' = (fetched /\ slots[i].msg = id)
      /\ raced' = (raced \/ \E t \in Putters : Fills(t, i))
      /\ UNCHANGED <<count, put, overlapped>>
  BY DEF StorageGet
<1> HIDE DEF i
<1>3. /\ slots' \in [Slots -> [used : BOOLEAN, id : Nat, mode : Modes, msg : Nat]]
      /\ \A j \in Slots : slots'[j].id = slots[j].id
      /\ \A j \in Slots : j # i => slots'[j] = slots[j]
      /\ ~slots'[i].used
  BY <1>1, <1>2, <1>t DEF TypeInv
<1>4. /\ rung' \in [Ids -> Int]
      /\ \A n \in Ids : rung'[n] = IF n = id THEN rung[n] - 1 ELSE rung[n]
  <2>1. rung \in [Ids -> Int]
    BY <1>t DEF TypeInv
  <2>2. \A n \in Ids : rung[n] \in Int /\ rung[n] - 1 \in Int
    BY <2>1
  <2>3. \A n \in Ids : rung'[n] = IF n = id THEN rung[n] - 1 ELSE rung[n]
    BY <2>1
  <2>4. rung' = [n \in Ids |-> rung'[n]]
    BY <2>1
  <2>5. rung' \in [Ids -> Int]
    BY <2>2, <2>3, <2>4
  <2>6. QED BY <2>3, <2>5
<1>5. got' \in [stage : {"none", "cleared", "counting"}, seen : Int] /\ got'.stage = "cleared"
  BY <1>2, <1>t DEF TypeInv
<1>6. TypeInv'
  BY <1>2, <1>3, <1>4, <1>5, <1>t DEF TypeInv, Filling
<1>7. Taken' = Taken \ {i} /\ i \in Taken /\ slots[i].id = id /\ Taken \subseteq Slots
  BY <1>1, <1>3 DEF Taken, Matches
<1>8. /\ Owed' = Owed /\ \A n : Due(n)' = Due(n)
      /\ \A u \in Putters : (Filling(u)' <=> Filling(u)) /\ \A j : Fills(u, j)' <=> Fills(u, j)
  BY <1>2 DEF Owed, Due, Filling, Fills
<1>9. ASSUME ~raced', SlotInv PROVE SlotInv'
  <2>1. \A t \in Putters : ~Fills(t, i)
    BY <1>2, <1>9
  <2>2. slots[i].msg = id
    BY <1>7, <1>9, <2>1 DEF SlotInv
  <2>3. \A n : Settled(n)' = IF n = id THEN Settled(n) \ {i} ELSE Settled(n)
    BY <1>3, <1>7, <1>8 DEF Settled
  <2>4. i \in Settled(id)
    BY <1>7, <2>1 DEF Settled
  <2>5. ASSUME NEW n \in Ids PROVE rung'[n] + Cardinality(Due(n)') <= Cardinality(Settled(n)')
    <3>1. rung[n] \in Int /\ rung[n] + Cardinality(Due(n)) <= Cardinality(Settled(n))
      BY <1>9, <1>t DEF SlotInv, TypeInv
    <3>2. CASE n = id
      <4>1. Cardinality(Settled(n)') = Cardinality(Settled(n)) - 1
        BY <2>3, <2>4, <3>2, CountedSets, FS_RemoveElement
      <4>2. QED BY <1>4, <1>8, <3>1, <3>2, <4>1, CountedSets
    <3>3. CASE n # id
      BY <1>4, <1>8, <2>3, <3>1, <3>3
    <3>4. QED BY <3>2, <3>3
  <2>6. ASSUME NEW u \in Putters PROVE FillsRight(u)'
    <3>1. ASSUME Filling(u)
          PROVE  put[u].slot \in Slots /\ put[u].slot # i /\ slots'[put[u].slot] = slots[put[u].slot]
      BY <1>3, <1>t, <2>1, <3>1 DEF TypeInv, Fills, Filling
    <3>2. QED BY <1>2, <1>7, <1>9, <3>1 DEF SlotInv, FillsRight, Filling
  <2>7. \A u, v \in Putters : Filling(u)' /\ Filling(v)' /\ put'[u].slot = put'[v].slot => u = v
    BY <1>2, <1>8, <1>9 DEF SlotInv
  <2>8. \A j \in Taken' : (\A u \in Putters : ~Fills(u, j)') => slots'[j].msg = slots'[j].id
    BY <1>3, <1>7, <1>8, <1>9 DEF SlotInv
  <2>9. QED BY <1>2, <1>9, <2>2, <2>5, <2>6, <2>7, <2>8 DEF SlotInv
<1>10. ASSUME CountInv PROVE CountInv'
  <2>1. Cardinality(Taken') = Cardinality(Taken) - 1
    BY <1>7, CountedSets, FS_RemoveElement
  <2>2. Getting = 0 /\ Getting' = 1
    BY <1>2, <1>5 DEF Getting
  <2>3. count' = Cardinality(Taken') - Cardinality(Owed') + Getting'
    BY <1>2, <1>8, <1>10, <2>1, <2>2, CountedSets DEF CountInv
  <2>4. QED BY <1>2, <1>5, <1>10, <2>3 DEF CountInv
<1>11. QED BY <1>2, <1>6, <1>9, <1>10 DEF StorageInv, TableSound

(* -- reads the count. *)
LEMMA GetReads ==
    ASSUME StorageInv, StorageGetReads, rung' = rung, lastId' = lastId
    PROVE  StorageInv'
<1>t. TypeInv
  BY DEF StorageInv
<1>1. /\ got.stage = "cleared" /\ got' = [stage |-> "counting", seen |-> count]
      /\ overlapped' = (overlapped \/ Counting)
      /\ UNCHANGED <<slots, count, put, raced, fetched>>
  BY DEF StorageGetReads
<1>2. TypeInv'
  BY <1>1, <1>t DEF TypeInv, Filling
<1>3. SlotInv => SlotInv'
  BY <1>1, <1>t, SlotsKept
<1>4. ASSUME CountInv, ~overlapped' PROVE CountInv'
  <2>1. \A u \in Putters : put[u].stage # "counting"
    BY <1>1, <1>4 DEF Counting
  <2>2. Taken' = Taken /\ Owed' = Owed /\ Getting' = Getting
    BY <1>1 DEF Taken, Owed, Getting
  <2>3. QED BY <1>1, <1>4, <2>1, <2>2 DEF CountInv
<1>5. QED BY <1>1, <1>2, <1>3, <1>4 DEF StorageInv, TableSound

(* -- writes what it read less 1. *)
LEMMA GetEnds ==
    ASSUME StorageInv, StorageGetEnds, rung' = rung, lastId' = lastId
    PROVE  StorageInv'
<1>t. TypeInv
  BY DEF StorageInv
<1>1. /\ got.stage = "counting" /\ count' = got.seen - 1
      /\ got' = [stage |-> "none", seen |-> 0]
      /\ UNCHANGED <<slots, put, raced, overlapped, fetched>>
  BY DEF StorageGetEnds, NoGet
<1>2. TypeInv'
  BY <1>1, <1>t DEF TypeInv, Filling
<1>3. SlotInv => SlotInv'
  BY <1>1, <1>t, SlotsKept
<1>4. ASSUME CountInv PROVE CountInv'
  <2>1. got.seen = count /\ \A u \in Putters : put[u].stage # "counting"
    BY <1>1, <1>4 DEF CountInv
  <2>2. Taken' = Taken /\ Owed' = Owed
    BY <1>1 DEF Taken, Owed
  <2>3. Getting = 1 /\ Getting' = 0
    BY <1>1 DEF Getting
  <2>4. count' = Cardinality(Taken') - Cardinality(Owed') + Getting'
    BY <1>1, <1>4, <2>1, <2>2, <2>3, CountedSets DEF CountInv
  <2>5. QED BY <1>1, <2>1, <2>4 DEF CountInv
<1>5. QED BY <1>1, <1>2, <1>3, <1>4 DEF StorageInv, TableSound

(* A step that leaves the table and the announcements alone. *)
LEMMA TableKept ==
    ASSUME StorageInv, UNCHANGED storageVars, rung' = rung, lastId' \in Nat
    PROVE  StorageInv'
<1>1. UNCHANGED <<slots, count, put, got, raced, overlapped, fetched>>
  BY DEF storageVars
<1>2. TypeInv' /\ (SlotInv => SlotInv')
  BY <1>1, SlotsKept DEF StorageInv, TypeInv, Filling
<1>3. CountInv => CountInv'
  BY <1>1 DEF CountInv, Taken, Owed, Getting
<1>4. QED BY <1>1, <1>2, <1>3 DEF StorageInv, TableSound

-----------------------------------------------------------------------------
(* The table. *)

(* The table is empty, and nothing was announced. *)
LEMMA StorageStarts == Init => StorageInv
<1> SUFFICES ASSUME Init PROVE StorageInv
  OBVIOUS
<1>1. slots = [i \in Slots |-> NoSlot] /\ put = [t \in Putters |-> NoPut] /\ got = NoGet
      /\ count = 0 /\ fetched /\ lastId = 0 /\ rung = [i \in Ids |-> 0]
  BY DEF Init, StorageInit
<1>2. NoSlot \in [used : BOOLEAN, id : Nat, mode : Modes, msg : Nat]
  BY DEF NoSlot, Modes
<1>3. NoPut \in PutRecords
  BY StorageAssumption DEF NoPut, PutRecords, Modes
<1>4. \A t \in Putters : put[t].stage = "none"
  BY <1>1 DEF NoPut
<1>5. TypeInv
  BY <1>1, <1>2, <1>3, <1>4 DEF TypeInv, NoGet, Filling
<1>6. Taken = {} /\ Owed = {} /\ \A n : Due(n) = {}
  BY <1>1, <1>4 DEF Taken, Owed, Due, NoSlot
<1>7. Cardinality(Taken) = 0 /\ Cardinality(Owed) = 0 /\ \A n : Cardinality(Due(n)) = 0
  BY <1>6, FS_EmptySet
<1>8. \A n \in Ids : rung[n] + Cardinality(Due(n)) <= Cardinality(Settled(n))
  BY <1>1, <1>7, CountedSets
<1>9. SlotInv
  BY <1>1, <1>4, <1>6, <1>8 DEF SlotInv, FillsRight, Filling
<1>10. CountInv
  BY <1>1, <1>4, <1>7 DEF CountInv, Getting, NoGet
<1>11. QED BY <1>5, <1>9, <1>10 DEF StorageInv, TableSound

(* AT commands, the two threads that put, and module.exec leave the table  *)
(* sound, unless two of them meet in one slot.                             *)
LEMMA StorageStep == StorageInv /\ [Next]_vars => StorageInv'
<1> SUFFICES ASSUME StorageInv, [Next]_vars PROVE StorageInv'
  OBVIOUS
<1>t. R \in Putters /\ P \in Putters /\ lastId \in Nat
  BY AtAssumption DEF StorageInv, TypeInv
<1>k. ASSUME UNCHANGED storageVars, rung' = rung, lastId' \in Nat PROVE StorageInv'
  BY <1>k, TableKept
<1>p. ASSUME NEW t \in Putters, NEW m \in Modes, NEW id \in Nat, StoragePut(t, m, id),
             rung' = rung, lastId' \in Nat
      PROVE  StorageInv'
  BY <1>p, PutBegins
<1>1. ASSUME NEW input \in Inputs, Process(input) PROVE StorageInv'
  <2>1. ASSUME NEW id, NEW mode, Fetch(id, mode) PROVE StorageInv'
    <3>1. CASE StorageGet(id, mode) /\ rung' = [rung EXCEPT ![id] = @ - 1] /\ lastId' = lastId
      BY <3>1, Gets
    <3>2. CASE UNCHANGED vars
      BY <1>k, <1>t, <3>2 DEF vars, cmdVars
    <3>3. QED BY <2>1, <3>1, <3>2 DEF Fetch, Prints
  <2>2. CASE UNCHANGED storageVars /\ rung' = rung /\ lastId' \in {lastId, lastId + 1}
    BY <1>k, <1>t, <2>2
  <2>3. CASE DwrcvrSet(input) \/ DwrcvSet(input)
    BY <2>1, <2>3 DEF DwrcvrSet, DwrcvSet
  <2>4. CASE DwconnSet(input) \/ DwsendrSet \/ DwlrcvGet \/ DwstatusGet \/ Prints
    BY <2>2, <2>4 DEF DwconnSet, DwconnStart, DwconnStop, DwsendrSet, ApiCall,
                      DwlrcvGet, DwstatusGet, Prints, vars, cmdVars
  <2>5. CASE DwsendSet(input)
    <3>1. Sends \/ Prints
      BY <2>5 DEF DwsendSet, DwsendNormal, DwsendMethod, DwsendMethodUpdate, DwsendMethodAck
    <3>2. QED BY <2>2, <3>1 DEF Sends, ApiCall, Prints, vars, cmdVars
  <2>6. QED BY <1>1, <2>3, <2>4, <2>5 DEF Process
<1>2. CASE StatusNext
  BY <1>k, <1>t, <1>2 DEF StatusNext, LatencyReturns, LatencyCallback, ModuleRegister
<1>3. CASE SendReply \/ SendTimeout
  <2>1. rung' = rung /\ lastId' = lastId
    BY <1>3 DEF SendReply, SendTimeout, Quiet
  <2>2. \/ UNCHANGED storageVars
        \/ StoragePut(R, "reply", 1) \/ StoragePut(P, "reply", 1)
    BY <1>3 DEF SendReply, SendTimeout
  <2>3. QED BY <1>k, <1>p, <1>t, <2>1, <2>2 DEF Modes
<1>4. CASE MethodEvent
  <2>1. rung' = rung /\ lastId' = lastId + 1
    BY <1>4 DEF MethodEvent
  <2>2. UNCHANGED storageVars \/ StoragePut(R, "method", lastId + 1)
    BY <1>4 DEF MethodEvent
  <2>3. QED BY <1>k, <1>p, <1>t, <2>1, <2>2 DEF Modes
<1>5. ASSUME NEW t \in Putters, PutStep(t) PROVE StorageInv'
  <2>1. rung' = rung /\ lastId' = lastId
    BY <1>5 DEF PutStep, cmdVars
  <2>2. StoragePutUsed(t) \/ StoragePutId(t) \/ StoragePutReads(t) \/ StoragePutEnds(t)
    BY <1>5 DEF PutStep
  <2>3. QED BY <2>1, <2>2, PutUses, PutNames, PutReads, PutEnds
<1>6. ASSUME NEW t \in Putters, Announce(t) PROVE StorageInv'
  BY <1>6, Announces
<1>7. CASE FetchStep
  <2>1. rung' = rung /\ lastId' = lastId
    BY <1>7 DEF FetchStep, cmdVars
  <2>2. QED BY <1>7, <2>1, GetReads, GetEnds DEF FetchStep
<1>8. CASE ExecNext
  BY <1>k, <1>t, <1>8 DEF ExecNext, ProcessRunExec, ExecGrowsOld, RunRecv, RunSendBack, cmdVars
<1>9. CASE UNCHANGED vars
  BY <1>k, <1>t, <1>9 DEF vars, cmdVars
<1>10. QED
  BY <1>1, <1>2, <1>3, <1>4, <1>5, <1>6, <1>7, <1>8, <1>9
     DEF Next, CommandsNext, CallsNext, TableNext

(* Each get gives the message that was put under its identifier, unless    *)
(* two threads met in one slot; and the count is that of the slots in use  *)
(* with what is still to be counted, unless two updates of it overlapped.  *)
THEOREM StorageSoundCorrect == Spec => []StorageSound
<1>1. /\ Slots \ FreeSlots = Taken
      /\ {t \in Putters : put[t].stage \in {"used", "named", "counting"}} = Owed
      /\ (IF got.stage = "none" THEN 0 ELSE 1) = Getting
  BY DEF FreeSlots, Taken, Owed, Getting
<1>2. StorageInv => StorageSound
  BY <1>1 DEF StorageInv, TableSound, SlotInv, CountInv, StorageSound
<1>3. QED BY <1>2, StorageStarts, StorageStep, PTL DEF Spec

(* For each identifier the announcements do not outnumber the gets and the *)
(* messages in the table, unless two threads met in one slot.              *)
THEOREM RungIsThereCorrect == Spec => []RungIsThere
<1>1. ASSUME StorageInv, ~raced, NEW id \in Ids
      PROVE  rung[id] <= Cardinality({i \in Slots : slots[i].used /\ slots[i].id = id})
  <2> DEFINE S == {i \in Slots : slots[i].used /\ slots[i].id = id}
  <2>1. Settled(id) \in SUBSET S /\ S \in SUBSET Slots
    BY DEF Settled, Taken
  <2>2. IsFiniteSet(S)
    BY <2>1, SlotSets
  <2>3. Cardinality(Settled(id)) <= Cardinality(S)
    BY <2>1, <2>2, FS_Subset
  <2>4. Cardinality(S) \in Nat /\ rung[id] \in Int
    BY <1>1, <2>2, FS_CardinalityType DEF StorageInv, TypeInv
  <2>5. rung[id] + Cardinality(Due(id)) <= Cardinality(Settled(id))
    BY <1>1 DEF StorageInv, TableSound, SlotInv
  <2> HIDE DEF S
  <2>6. rung[id] <= Cardinality(S)
    BY <2>3, <2>4, <2>5, CountedSets
  <2>7. QED BY <2>6 DEF S
<1>2. StorageInv => RungIsThere
  BY <1>1 DEF RungIsThere
<1>3. QED BY <1>2, StorageStarts, StorageStep, PTL DEF Spec

-----------------------------------------------------------------------------
(* module.exec. *)

(* An acknowledgement of a command that had none. *)
LEMMA FirstAck ==
    ASSUME ExecInv, NEW e \in Execs, NEW a \in Answers, acks[e] = <<>>, Ack(e, a)
    PROVE  /\ acks' \in [Execs -> Seq(Answers)]
           /\ \A f \in Execs : f # e => acks'[f] = acks[f]
           /\ \A f \in Execs : AtMostOne(f)'
           /\ \A f \in Execs : f # e /\ OwnOutput(f) => OwnOutput(f)'
           /\ a \subseteq {e, "busy", "attach failed"} => OwnOutput(e)'
<1>1. Append(acks[e], a) = <<a>> /\ <<a>> \in Seq(Answers)
  OBVIOUS
<1>2. acks' = [acks EXCEPT ![e] = <<a>>] /\ acks \in [Execs -> Seq(Answers)]
  BY <1>1 DEF Ack, ExecInv
<1>3. acks'[e] = <<a>> /\ \A f \in Execs : f # e => acks'[f] = acks[f]
  BY <1>2
<1>4. \A f \in Execs : AtMostOne(f)'
  <2>1. Len(<<a>>) <= 1
    OBVIOUS
  <2>2. AtMostOne(e)'
    BY <1>3, <2>1, Zenon DEF AtMostOne
  <2>3. \A f \in Execs : f # e => AtMostOne(f)'
    BY <1>3 DEF ExecInv, AtMostOne
  <2>4. QED BY <2>2, <2>3
<1>5. a \subseteq {e, "busy", "attach failed"} => OwnOutput(e)'
  <2>1. <<a>>[1] = a
    OBVIOUS
  <2>2. acks'[e][1] = a
    BY <1>3, <2>1, Zenon
  <2>3. QED BY <2>2 DEF OwnOutput
<1>6. QED BY <1>1, <1>2, <1>3, <1>4, <1>5 DEF OwnOutput

(* The modem is given a command only when it has none, or the one before   *)
(* is given up; each command is acknowledged when it leaves.               *)
LEMMA ExecStep == ExecInv /\ [Next]_vars => ExecInv'
<1> SUFFICES ASSUME ExecInv, [Next]_vars PROVE ExecInv'
  OBVIOUS
<1>t. NoMail \notin Execs /\ mail \in Execs \cup {NoMail} /\ engine \in Seq(Execs)
  BY AtAssumption DEF ExecInv
<1>k. UNCHANGED execVars => ExecInv'
  <2>1. \A e : acks' = acks => (AtMostOne(e)' <=> AtMostOne(e)) /\ (OwnOutput(e)' <=> OwnOutput(e))
    BY DEF AtMostOne, OwnOutput
  <2>2. UNCHANGED execVars => /\ mail' = mail /\ acks' = acks /\ engine' = engine
                              /\ buffer' = buffer /\ overtaken' = overtaken
    BY DEF execVars
  <2>3. QED BY <2>1, <2>2, Zenon DEF ExecInv
<1>1. CASE CommandsNext
  <2>1. ASSUME NEW input \in Inputs, Process(input) PROVE UNCHANGED execVars
    BY <2>1 DEF Process, DwconnSet, DwconnStart, DwconnStop, DwsendrSet, DwsendSet,
                DwsendNormal, DwsendMethod, DwsendMethodUpdate, DwsendMethodAck, Sends,
                DwrcvrSet, DwrcvSet, Fetch, DwlrcvGet, DwstatusGet, Prints, vars
  <2>2. CASE StatusNext \/ CallsNext \/ TableNext
    BY <1>k, <2>2 DEF StatusNext, CallsNext, TableNext, LatencyReturns, LatencyCallback,
                      ModuleRegister, SendReply, SendTimeout, MethodEvent, FetchStep,
                      PutStep, Announce, Quiet
  <2>3. QED BY <1>1, <1>k, <2>1, <2>2 DEF CommandsNext
<1>2. ASSUME NEW e \in Execs, ProcessRunExec(e) PROVE ExecInv'
  <2>1. acks[e] = <<>> /\ mail # e /\ e # NoMail
    BY <1>2, <1>t DEF ProcessRunExec
  <2>2. CASE mail # NoMail /\ recent /\ Ack(e, {"busy"})
             /\ UNCHANGED <<mail, recent, engine, buffer, overtaken>>
    <3>1. {"busy"} \in Answers
      BY DEF Answers
    <3>2. /\ acks' \in [Execs -> Seq(Answers)]
          /\ \A f \in Execs : AtMostOne(f)' /\ (OwnOutput(f) => OwnOutput(f)')
          /\ \A f \in Execs : f # e => acks'[f] = acks[f]
      BY <2>1, <2>2, <3>1, FirstAck
    <3>3. QED BY <1>t, <2>1, <2>2, <3>2 DEF ExecInv
  <2>3. CASE (mail = NoMail \/ ~recent) /\ overtaken' = (overtaken \/ mail # NoMail)
             /\ mail' = NoMail /\ Ack(e, {"attach failed"}) /\ UNCHANGED <<engine, buffer>>
    <3>1. {"attach failed"} \in Answers
      BY DEF Answers
    <3>2. /\ acks' \in [Execs -> Seq(Answers)]
          /\ \A f \in Execs : AtMostOne(f)' /\ (OwnOutput(f) => OwnOutput(f)')
          /\ \A f \in Execs : f # e => acks'[f] = acks[f]
      BY <2>1, <2>3, <3>1, FirstAck
    <3>3. QED BY <1>t, <2>1, <2>3, <3>2 DEF ExecInv
  <2>4. CASE (mail = NoMail \/ ~recent) /\ overtaken' = (overtaken \/ mail # NoMail)
             /\ mail' = e /\ ExecStart(e) /\ UNCHANGED acks
    <3>1. buffer' = {} /\ engine' = Append(engine, e) /\ engine' \in Seq(Execs)
      BY <1>t, <2>4 DEF ExecStart
    <3>2. ~overtaken' => engine' = <<e>>
      <4>1. ~overtaken' => engine = <<>>
        BY <2>4, Zenon DEF ExecInv
      <4>2. Append(<<>>, e) = <<e>>
        OBVIOUS
      <4>3. QED BY <3>1, <4>1, <4>2, Zenon
    <3>3. QED BY <1>t, <2>1, <2>4, <3>1, <3>2 DEF ExecInv, AtMostOne, OwnOutput
  <2>5. QED BY <1>2, <2>2, <2>3, <2>4 DEF ProcessRunExec
<1>3. CASE ExecGrowsOld
  BY <1>3 DEF ExecGrowsOld, ExecInv, AtMostOne, OwnOutput
<1>4. CASE RunRecv
  <2>1. engine # <<>> /\ buffer' = buffer \cup {Head(engine)}
        /\ UNCHANGED <<mail, engine, acks, overtaken>>
    BY <1>4 DEF RunRecv
  <2>2. Head(engine) \in Execs
    BY <1>t, <2>1
  <2>3. ~overtaken /\ mail # NoMail => Head(engine) = mail
    BY DEF ExecInv
  <2>4. QED BY <2>1, <2>2, <2>3 DEF ExecInv, AtMostOne, OwnOutput
<1>5. CASE RunSendBack
  <2>1. /\ engine # <<>> /\ engine' = Tail(engine) /\ UNCHANGED <<buffer, overtaken>>
        /\ engine' \in Seq(Execs)
    BY <1>5, <1>t DEF RunSendBack
  <2>2. CASE mail = NoMail /\ UNCHANGED <<mail, acks>>
    BY <2>1, <2>2 DEF ExecInv, AtMostOne, OwnOutput
  <2>3. CASE mail # NoMail /\ Ack(mail, buffer) /\ mail' = NoMail
    <3>1. mail \in Execs /\ buffer \in Answers /\ acks[mail] = <<>>
      BY <1>t, <2>3 DEF ExecInv, Answers
    <3>2. /\ acks' \in [Execs -> Seq(Answers)]
          /\ \A f \in Execs : AtMostOne(f)'
          /\ \A f \in Execs : OwnOutput(f) /\ f # mail => OwnOutput(f)'
          /\ buffer \subseteq {mail} => \A f \in Execs : f = mail => OwnOutput(f)'
      BY <2>3, <3>1, FirstAck
    <3>3. ~overtaken => engine' = <<>> /\ buffer \subseteq {mail}
      BY <2>1, <2>3 DEF ExecInv
    <3>4. QED BY <2>1, <2>3, <3>2, <3>3 DEF ExecInv
  <2>4. QED BY <1>5, <2>2, <2>3 DEF RunSendBack
<1>6. CASE UNCHANGED vars
  BY <1>6, <1>k DEF vars
<1>7. QED BY <1>1, <1>2, <1>3, <1>4, <1>5, <1>6 DEF Next, ExecNext

(* A module.exec has one acknowledgement at most, which holds its own      *)
(* output or an error, if none was given up for a newer one.               *)
THEOREM ExecAnsweredCorrect == Spec => []ExecAnswered
<1>1. Init => ExecInv
  <2>1. <<>> \in Seq(Answers) /\ <<>> \in Seq(Execs) /\ Len(<<>>) = 0
    OBVIOUS
  <2>2. QED BY <2>1 DEF Init, ExecInv, AtMostOne, OwnOutput
<1>2. ExecInv => ExecAnswered
  BY DEF ExecInv, ExecAnswered, AtMostOne, OwnOutput
<1>3. QED BY <1>1, <1>2, ExecStep, PTL DEF Spec
=============================================================================
