------------------------------- MODULE Basics -------------------------------
(***************************************************************************)
(* What the proofs share: the least-number principle, and what follows     *)
(* from it, that is induction, and that recursive definitions have         *)
(* solutions; division; and parts and concatenations of sequences.         *)
(*                                                                         *)
(* Sets and functions stand where one would have formulas and operators as *)
(* parameters, since a lemma is instantiated with values only.             *)
(***************************************************************************)
EXTENDS Integers, Sequences, FiniteSets, FiniteSetTheorems, SequenceTheorems, TLAPS

(* A set of numbers that is finite and not empty has a least element: of   *)
(* the sets of the numbers below one of them, one has no other as a proper *)
(* subset.                                                                 *)
LEMMA LeastElement ==
    ASSUME NEW S \in SUBSET Nat, IsFiniteSet(S), S # {}
    PROVE  \E x \in S : \A y \in S : x <= y
<1> DEFINE Below(x) == {y \in S : y < x}
           All == {Below(x) : x \in S}
<1>1. \A x \in S : Below(x) \in FiniteSubsetsOf(S)
  <2>1. \A T \in SUBSET S : T \in FiniteSubsetsOf(S)
    BY FS_Subset DEF FiniteSubsetsOf
  <2>2. QED BY <2>1
<1>2. All \subseteq FiniteSubsetsOf(S) /\ All # {}
  BY <1>1, Zenon
<1>3. PICK B \in All : \A A \in All : ~(<<A, B>> \in StrictSubsetOrdering(S))
  BY <1>2, FS_StrictSubsetOrderingWellFounded, WFMin
<1>4. PICK x \in S : B = Below(x)
  OBVIOUS
<1>5. ASSUME NEW y \in S, y < x PROVE FALSE
  <2>1. y \in Below(x) /\ y \notin Below(y)
    BY <1>5
  <2>2. ASSUME NEW z \in Below(y) PROVE z \in Below(x)
    <3>1. z \in Nat /\ y \in Nat /\ x \in Nat
      OBVIOUS
    <3>2. QED BY <1>5, <3>1
  <2>3. <<Below(y), B>> \in StrictSubsetOrdering(S)
    BY <1>4, <2>1, <2>2 DEF StrictSubsetOrdering
  <2>4. Below(y) \in All
    OBVIOUS
  <2>5. QED BY <1>3, <2>3, <2>4
<1>6. \A y \in S : x <= y
  <2>1. \A y \in S : y \in Nat /\ x \in Nat
    OBVIOUS
  <2>2. QED BY <1>5, <2>1
<1>7. QED BY <1>6

-----------------------------------------------------------------------------
(* Induction, with the set of the numbers for which a formula holds in the *)
(* place of the formula.                                                   *)
LEMMA NumberInduction ==
    ASSUME NEW P \in SUBSET Nat, 0 \in P, \A n \in P : n + 1 \in P
    PROVE  P = Nat
<1> SUFFICES ASSUME NEW m \in Nat, m \notin P PROVE FALSE
  OBVIOUS
<1> DEFINE S == {n \in 0..m : n \notin P}
<1>1. IsFiniteSet(S)
  <2>1. IsFiniteSet(0..m)
    BY FS_Interval
  <2>2. QED BY <2>1, FS_Subset
<1>2. S # {} /\ S \in SUBSET Nat
  OBVIOUS
<1> HIDE DEF S
<1>3. PICK x \in S : \A y \in S : x <= y
  BY <1>1, <1>2, LeastElement
<1>4. x \in Nat /\ x # 0 /\ x \in 0..m /\ x \notin P
  BY <1>3 DEF S
<1>5. x - 1 \in 0..m /\ x - 1 \notin S
  BY <1>2, <1>3, <1>4
<1>6. x - 1 \in P
  BY <1>5 DEF S
<1>7. QED BY <1>4, <1>6

(* The same with all smaller numbers at hand. *)
LEMMA StrongInduction ==
    ASSUME NEW P \in SUBSET Nat, \A n \in Nat : (\A k \in 0..(n - 1) : k \in P) => n \in P
    PROVE  P = Nat
<1> DEFINE Q == {n \in Nat : \A k \in 0..n : k \in P}
<1>1. 0 \in Q
  OBVIOUS
<1>2. ASSUME NEW n \in Q PROVE n + 1 \in Q
  <2>1. n + 1 \in Nat /\ \A k \in 0..((n + 1) - 1) : k \in P
    OBVIOUS
  <2>2. n + 1 \in P
    BY <2>1
  <2>3. QED BY <2>1, <2>2
<1>3. Q = Nat
  <2>1. Q \in SUBSET Nat
    OBVIOUS
  <2> HIDE DEF Q
  <2>2. QED BY <1>1, <1>2, <2>1, NumberInduction
<1>4. ASSUME NEW n \in Nat PROVE n \in P
  <2>1. n \in Q /\ n \in 0..n
    BY <1>3
  <2>2. QED BY <2>1
<1>5. QED BY <1>4

(* A recursive definition of a function from T to S: c[x] for x in B, and  *)
(* otherwise h[x] of the value at p[x], which is smaller by the measure m. *)
Recursion(T, S, m, B, c, p, h) ==
    /\ m \in [T -> Nat] /\ B \in SUBSET T /\ c \in [T -> S]
    /\ p \in [T -> T] /\ h \in [T -> [S -> S]]
    /\ \A x \in T \ B : m[p[x]] < m[x]

(* f is what it asks for, for the arguments of a measure below n.          *)
Follows(f, n, m, B, c, p, h) ==
    \A x \in DOMAIN m : m[x] < n => f[x] = IF x \in B THEN c[x] ELSE h[x][f[p[x]]]

(* Two such functions agree as far as both are defined.                    *)
LEMMA RecursionUnique ==
    ASSUME NEW T, NEW S, NEW m, NEW B, NEW c, NEW p, NEW h, Recursion(T, S, m, B, c, p, h),
           NEW k \in Nat, NEW n \in Nat, k <= n,
           NEW f, NEW g, Follows(f, k, m, B, c, p, h), Follows(g, n, m, B, c, p, h)
    PROVE  \A x \in T : m[x] < k => f[x] = g[x]
<1> USE DEF Recursion
<1> DEFINE Agree(l) == \A x \in T : m[x] < l => f[x] = g[x]
           P == {l \in Nat : l <= k => Agree(l)}
<1>1. 0 \in P
  OBVIOUS
<1>2. ASSUME NEW l \in P PROVE l + 1 \in P
  <2> SUFFICES ASSUME l + 1 <= k, NEW x \in T, m[x] < l + 1 PROVE f[x] = g[x]
    OBVIOUS
  <2>1. l \in Nat /\ Agree(l) /\ m[x] \in Nat /\ m[x] < k /\ m[x] < n
    OBVIOUS
  <2>2. /\ f[x] = IF x \in B THEN c[x] ELSE h[x][f[p[x]]]
        /\ g[x] = IF x \in B THEN c[x] ELSE h[x][g[p[x]]]
    BY <2>1 DEF Follows
  <2>3. CASE x \in B
    BY <2>2, <2>3
  <2>4. CASE x \notin B
    <3>1. p[x] \in T /\ m[p[x]] \in Nat /\ m[p[x]] < l
      BY <2>1, <2>4
    <3>2. f[p[x]] = g[p[x]]
      BY <2>1, <3>1
    <3>3. QED BY <2>2, <2>4, <3>2
  <2>5. QED BY <2>3, <2>4
<1>3. P = Nat
  <2>1. P \in SUBSET Nat
    OBVIOUS
  <2> HIDE DEF P
  <2>2. QED BY <1>1, <1>2, <2>1, NumberInduction
<1>4. k \in P
  BY <1>3
<1>5. QED BY <1>4

(* There is such a function for every bound.                               *)
LEMMA RecursionBelow ==
    ASSUME NEW T, NEW S, NEW m, NEW B, NEW c, NEW p, NEW h, Recursion(T, S, m, B, c, p, h),
           NEW n \in Nat
    PROVE  \E f \in [T -> S] : Follows(f, n, m, B, c, p, h)
<1> USE DEF Recursion
<1> DEFINE P == {k \in Nat : \E f \in [T -> S] : Follows(f, k, m, B, c, p, h)}
<1>1. 0 \in P
  <2>1. \A x \in T : m[x] \in Nat /\ ~(m[x] < 0)
    OBVIOUS
  <2>2. Follows(c, 0, m, B, c, p, h)
    BY <2>1 DEF Follows
  <2>3. QED BY <2>2
<1>2. ASSUME NEW k \in P PROVE k + 1 \in P
  <2>1. k \in Nat
    OBVIOUS
  <2>2. PICK f \in [T -> S] : Follows(f, k, m, B, c, p, h)
    OBVIOUS
  <2> DEFINE g == [x \in T |-> IF m[x] < k THEN f[x] ELSE IF x \in B THEN c[x] ELSE h[x][f[p[x]]]]
  <2>3. g \in [T -> S]
    <3>1. \A x \in T : f[x] \in S /\ c[x] \in S /\ h[x][f[p[x]]] \in S
      OBVIOUS
    <3>2. QED BY <3>1
  <2>4. ASSUME NEW x \in T, m[x] < k + 1
        PROVE  g[x] = IF x \in B THEN c[x] ELSE h[x][g[p[x]]]
    <3>1. m[x] \in Nat /\ p[x] \in T /\ m[p[x]] \in Nat
      OBVIOUS
    <3>2. g[x] = IF x \in B THEN c[x] ELSE h[x][f[p[x]]]
      <4>1. CASE m[x] < k
        BY <2>2, <4>1 DEF Follows
      <4>2. CASE ~(m[x] < k)
        BY <4>2
      <4>3. QED BY <4>1, <4>2
    <3>3. CASE x \notin B
      <4>1. m[p[x]] < k
        BY <2>1, <2>4, <3>1, <3>3
      <4>2. g[p[x]] = f[p[x]]
        BY <3>1, <4>1
      <4>3. QED BY <3>2, <3>3, <4>2
    <3>4. QED BY <3>2, <3>3
  <2>5. Follows(g, k + 1, m, B, c, p, h)
    BY <2>4 DEF Follows
  <2>6. QED BY <2>1, <2>3, <2>5
<1>3. P = Nat
  <2>1. P \in SUBSET Nat
    OBVIOUS
  <2> HIDE DEF P
  <2>2. QED BY <1>1, <1>2, <2>1, NumberInduction
<1>4. QED BY <1>3

Solves(f, T, B, c, p, h) ==
    \A x \in T : f[x] = IF x \in B THEN c[x] ELSE h[x][f[p[x]]]

(* A recursive definition whose argument gets smaller by some measure has  *)
(* a solution.                                                             *)
LEMMA RecursionExists ==
    ASSUME NEW T, NEW S, NEW m, NEW B, NEW c, NEW p, NEW h, Recursion(T, S, m, B, c, p, h)
    PROVE  \E f \in [T -> S] : Solves(f, T, B, c, p, h)
<1>00. \A n \in Nat : \E g \in [T -> S] : Follows(g, n, m, B, c, p, h)
  BY RecursionBelow
<1>0. ASSUME NEW k \in Nat, NEW n \in Nat, k <= n, NEW d, NEW e,
             Follows(d, k, m, B, c, p, h), Follows(e, n, m, B, c, p, h)
      PROVE  \A y \in T : m[y] < k => d[y] = e[y]
  BY <1>0, RecursionUnique
<1> USE DEF Recursion
<1> DEFINE G(x) == CHOOSE g \in [T -> S] : Follows(g, m[x] + 1, m, B, c, p, h)
           f == [x \in T |-> G(x)[x]]
<1>1. ASSUME NEW x \in T
      PROVE  G(x) \in [T -> S] /\ Follows(G(x), m[x] + 1, m, B, c, p, h)
  <2>1. m[x] + 1 \in Nat
    OBVIOUS
  <2>2. \E g \in [T -> S] : Follows(g, m[x] + 1, m, B, c, p, h)
    BY <1>00, <2>1
  <2>3. QED BY <2>2
<1> HIDE DEF G
<1>2. f \in [T -> S]
  BY <1>1
<1>3. ASSUME NEW x \in T PROVE f[x] = IF x \in B THEN c[x] ELSE h[x][f[p[x]]]
  <2>1. m[x] \in Nat /\ p[x] \in T /\ m[p[x]] \in Nat
    OBVIOUS
  <2>2. f[x] = IF x \in B THEN c[x] ELSE h[x][G(x)[p[x]]]
    BY <1>1, <2>1 DEF Follows
  <2>3. CASE x \notin B
    <3>1. m[p[x]] + 1 \in Nat /\ m[x] + 1 \in Nat /\ m[p[x]] + 1 <= m[x] + 1 /\ m[p[x]] < m[p[x]] + 1
      BY <2>1, <2>3
    <3>2. /\ Follows(G(p[x]), m[p[x]] + 1, m, B, c, p, h)
          /\ Follows(G(x), m[x] + 1, m, B, c, p, h)
      BY <1>1, <2>1
    <3>3. \A y \in T : m[y] < m[p[x]] + 1 => G(p[x])[y] = G(x)[y]
      BY <1>0, <3>1, <3>2
    <3>4. f[p[x]] = G(x)[p[x]]
      BY <2>1, <3>1, <3>3
    <3>5. QED BY <2>2, <2>3, <3>4
  <2>4. QED BY <2>2, <2>3
<1>4. Solves(f, T, B, c, p, h)
  BY <1>3 DEF Solves
<1> HIDE DEF f
<1>5. QED BY <1>2, <1>4

(* Division, as the digits need it. *)
LEMMA DivMod ==
    ASSUME NEW n \in Nat, NEW base \in Nat, base > 1
    PROVE  /\ n \div base \in Nat /\ n % base \in 0..(base - 1)
           /\ n = base * (n \div base) + (n % base)
           /\ n >= base => n \div base < n
<1>1. n \div base \in Nat /\ n % base \in 0..(base - 1)
  OBVIOUS
<1>2. n = base * (n \div base) + (n % base)
  OBVIOUS
<1>3. n >= base => n \div base < n
  BY <1>1, <1>2
<1>4. QED BY <1>1, <1>2, <1>3

-----------------------------------------------------------------------------
(* Sequences of numbers. *)

(* The sequence of one element. *)
LEMMA OneElement == \A S : \A x \in S : <<x>> \in Seq(S) /\ Len(<<x>>) = 1 /\ <<x>>[1] = x
OBVIOUS

(* A part of a stream. *)
LEMMA PartElements ==
    ASSUME NEW s \in Seq(Int), NEW a \in Nat \ {0}, NEW b \in Int, b <= Len(s)
    PROVE  /\ SubSeq(s, a, b) \in Seq(Int)
           /\ Len(SubSeq(s, a, b)) = IF a <= b THEN b - a + 1 ELSE 0
           /\ \A i \in 1..(b - a + 1) : SubSeq(s, a, b)[i] = s[a + i - 1]
<1>1. \A i \in a..b : s[i] \in Int
  OBVIOUS
<1>2. QED BY <1>1, SubSeqProperties

(* A part of a stream that is put after another. *)
LEMMA PartBehind ==
    ASSUME NEW u \in Seq(Int), NEW t \in Seq(Int), NEW a \in Nat \ {0}, NEW b \in Int, b <= Len(t)
    PROVE  SubSeq(u \o t, Len(u) + a, Len(u) + b) = SubSeq(t, a, b)
<1> DEFINE s == u \o t
           l == Len(u)
           x == SubSeq(s, l + a, l + b)
           y == SubSeq(t, a, b)
<1>1. /\ s \in Seq(Int) /\ Len(s) = l + Len(t) /\ l \in Nat /\ Len(t) \in Nat
      /\ \A k \in 1..Len(t) : s[l + k] = t[k]
  BY ConcatProperties
<1> HIDE DEF s, l
<1>2. l + a \in Nat \ {0} /\ l + b \in Int /\ l + b <= Len(s) /\ (l + b) - (l + a) = b - a
  BY <1>1
<1>3. /\ x \in Seq(Int)
      /\ Len(x) = IF l + a <= l + b THEN (l + b) - (l + a) + 1 ELSE 0
      /\ \A i \in 1..((l + b) - (l + a) + 1) : x[i] = s[(l + a) + i - 1]
  BY <1>1, <1>2, PartElements
<1>4. /\ y \in Seq(Int)
      /\ Len(y) = IF a <= b THEN b - a + 1 ELSE 0
      /\ \A i \in 1..(b - a + 1) : y[i] = t[a + i - 1]
  BY PartElements
<1> HIDE DEF x, y
<1>5. Len(x) = Len(y)
  BY <1>1, <1>3, <1>4
<1>6. ASSUME NEW i \in 1..Len(x) PROVE x[i] = y[i]
  <2>1. i \in 1..(b - a + 1) /\ a + i - 1 \in 1..Len(t) /\ (l + a) + i - 1 = l + (a + i - 1)
    <3>1. Len(y) \in Nat /\ i \in Nat /\ 1 <= i /\ i <= Len(y)
      BY <1>3, <1>4, <1>5
    <3>2. a <= b /\ Len(y) = b - a + 1
      BY <1>4, <3>1
    <3>3. i \in 1..(b - a + 1)
      BY <3>1, <3>2
    <3>4. l \in Nat /\ (l + a) + i - 1 = l + (a + i - 1)
      BY <1>1, <3>1
    <3>5. a + i - 1 \in Int /\ 1 <= a + i - 1 /\ a + i - 1 <= Len(t)
      BY <3>1, <3>2
    <3>6. QED BY <3>3, <3>4, <3>5
  <2>2. x[i] = s[l + (a + i - 1)]
    BY <1>2, <1>3, <2>1
  <2>3. QED BY <1>1, <1>4, <2>1, <2>2
<1>7. x = y
  BY <1>3, <1>4, <1>5, <1>6, SeqEqual
<1>8. QED BY <1>7 DEF x, y, s, l

(* A part of a stream, told by its elements. *)
LEMMA PartIs ==
    ASSUME NEW s \in Seq(Int), NEW q \in Seq(Int), NEW a \in Nat \ {0}, a + Len(q) - 1 <= Len(s),
           \A i \in 1..Len(q) : s[a + i - 1] = q[i]
    PROVE  SubSeq(s, a, a + Len(q) - 1) = q
<1> DEFINE b == a + Len(q) - 1
           x == SubSeq(s, a, b)
<1>1. b \in Int /\ b <= Len(s) /\ b - a + 1 = Len(q) /\ Len(q) \in Nat
  OBVIOUS
<1> HIDE DEF b
<1>2. /\ x \in Seq(Int)
      /\ Len(x) = IF a <= b THEN b - a + 1 ELSE 0
      /\ \A i \in 1..(b - a + 1) : x[i] = s[a + i - 1]
  BY <1>1, PartElements
<1> HIDE DEF x
<1>3. Len(x) = Len(q)
  BY <1>1, <1>2
<1>4. \A i \in 1..Len(x) : x[i] = q[i]
  BY <1>1, <1>2, <1>3
<1>5. x = q
  BY <1>2, <1>3, <1>4, SeqEqual
<1>6. QED BY <1>5 DEF x, b

(* The elements of two streams that are put together. *)
LEMMA Joined ==
    ASSUME NEW s \in Seq(Int), NEW t \in Seq(Int)
    PROVE  /\ s \o t \in Seq(Int) /\ Len(s \o t) = Len(s) + Len(t) /\ Len(s) \in Nat /\ Len(t) \in Nat
           /\ \A i \in 1..Len(s) : (s \o t)[i] = s[i]
           /\ \A i \in 1..Len(t) : (s \o t)[Len(s) + i] = t[i]
<1>1. Len(s) \in Nat /\ Len(t) \in Nat
  OBVIOUS
<1>2. /\ s \o t \in Seq(Int) /\ Len(s \o t) = Len(s) + Len(t)
      /\ \A i \in 1..(Len(s) + Len(t)) : (s \o t)[i] = IF i <= Len(s) THEN s[i] ELSE t[i - Len(s)]
  BY ConcatProperties
<1>3. \A i \in 1..Len(s) : (s \o t)[i] = s[i]
  BY <1>1, <1>2
<1>4. ASSUME NEW i \in 1..Len(t) PROVE (s \o t)[Len(s) + i] = t[i]
  <2>1. Len(s) + i \in 1..(Len(s) + Len(t)) /\ ~(Len(s) + i <= Len(s)) /\ (Len(s) + i) - Len(s) = i
    BY <1>1
  <2>2. QED BY <1>2, <2>1
<1>5. QED BY <1>1, <1>2, <1>3, <1>4

(* Two streams that are put together are one. *)
LEMMA JoinedType == \A s, t \in Seq(Int) : s \o t \in Seq(Int)
BY Joined

(* It is the same which of three streams are put together first. *)
LEMMA JoinedThree ==
    ASSUME NEW s \in Seq(Int), NEW t \in Seq(Int), NEW u \in Seq(Int)
    PROVE  (s \o t) \o u = s \o (t \o u)
<1> DEFINE x == (s \o t) \o u
           y == s \o (t \o u)
<1>1. x = y
  <2>1. \A S : \A a, b, c \in Seq(S) : (a \o b) \o c = a \o (b \o c)
    BY ConcatAssociative
  <2>2. QED BY <2>1
<1>2. QED BY <1>1

(* The whole of a stream and nothing of it. *)
LEMMA Whole == \A s \in Seq(Int) : SubSeq(s, 1, Len(s)) = s /\ SubSeq(s, 1, 0) = <<>> /\ s \o <<>> = s /\ <<>> \o s = s
<1> SUFFICES ASSUME NEW s \in Seq(Int)
             PROVE  SubSeq(s, 1, Len(s)) = s /\ SubSeq(s, 1, 0) = <<>> /\ s \o <<>> = s /\ <<>> \o s = s
  OBVIOUS
<1>1. SubSeq(s, 1, Len(s)) = s
  <2>1. 1 \in Nat \ {0} /\ 1 + Len(s) - 1 = Len(s) /\ 1 + Len(s) - 1 <= Len(s) /\ \A i \in 1..Len(s) : s[1 + i - 1] = s[i]
    OBVIOUS
  <2>2. SubSeq(s, 1, 1 + Len(s) - 1) = s
    BY <2>1, PartIs
  <2>3. QED BY <2>1, <2>2
<1>2. SubSeq(s, 1, 0) = <<>>
  <2>1. 1 \in Nat \ {0} /\ 0 \in Int /\ 0 <= Len(s)
    OBVIOUS
  <2>2. SubSeq(s, 1, 0) \in Seq(Int) /\ Len(SubSeq(s, 1, 0)) = IF 1 <= 0 THEN 0 - 1 + 1 ELSE 0
    BY <2>1, PartElements
  <2>3. QED BY <2>2
<1>3. s \o <<>> = s /\ <<>> \o s = s
  BY ConcatEmptySeq
<1>4. QED BY <1>1, <1>2, <1>3
=============================================================================
