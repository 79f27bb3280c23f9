--------------------------- MODULE ProdConsLemmas ---------------------------
(***************************************************************************)
(* Lemmas shared by the proofs about the producer/consumer programs: how   *)
(* many threads of a set stand at given control points and how that number *)
(* changes when one thread moves (semaphore invariants are equations       *)
(* between semaphore values and such numbers), and index arithmetic of a   *)
(* circular buffer.  At the end, least elements and loops, for every       *)
(* component that has them.                                                *)
(***************************************************************************)
EXTENDS Integers, Sequences, FiniteSets, FiniteSetTheorems, SequenceTheorems, TLAPS

At(S, f, L) == {x \in S : f[x] \in L}
Cnt(S, f, L) == Cardinality(At(S, f, L))

\* What a move of thread t from a to b adds to Cnt(S, f, L).
Delta(S, L, t, a, b) ==
  (IF t \in S /\ b \in L THEN 1 ELSE 0) - (IF t \in S /\ a \in L THEN 1 ELSE 0)

\* The number of threads at given control points is a natural number.
LEMMA CntNat ==
  ASSUME NEW S, IsFiniteSet(S), NEW f, NEW L
  PROVE  IsFiniteSet(At(S, f, L)) /\ Cnt(S, f, L) \in Nat
<1>1. At(S, f, L) \subseteq S BY DEF At
<1>2. IsFiniteSet(At(S, f, L)) BY <1>1, FS_Subset
<1> QED BY <1>2, FS_CardinalityType DEF Cnt

\* A thread that stands at one of the control points is counted.
LEMMA CntPositive ==
  ASSUME NEW S, IsFiniteSet(S), NEW f, NEW L, NEW t \in S, f[t] \in L
  PROVE  Cnt(S, f, L) \in Nat /\ Cnt(S, f, L) >= 1
<1>1. IsFiniteSet(At(S, f, L)) /\ Cnt(S, f, L) \in Nat BY CntNat
<1>2. At(S, f, L) # {} BY DEF At
<1>3. Cardinality(At(S, f, L)) # 0 BY <1>1, <1>2, FS_EmptySet
<1> QED BY <1>1, <1>3 DEF Cnt

\* A move of thread t takes it out of the count or into it.
LEMMA CntMove ==
  ASSUME NEW S, IsFiniteSet(S), NEW f, NEW g, NEW t, NEW a, NEW b, NEW L,
         \A x \in S : x # t => g[x] = f[x],
         t \in S => f[t] = a /\ g[t] = b
  PROVE  /\ Cnt(S, f, L) \in Nat
         /\ Cnt(S, g, L) = Cnt(S, f, L) + Delta(S, L, t, a, b)
<1> DEFINE A == At(S, f, L)
           B == At(S, g, L)
<1>1. IsFiniteSet(A) /\ IsFiniteSet(B) /\ Cnt(S, f, L) \in Nat /\ Cnt(S, g, L) \in Nat
  BY CntNat
<1>2. \A x \in S : x # t => g[x] = f[x] OBVIOUS
<1>3. t \in S => f[t] = a /\ g[t] = b OBVIOUS
<1>4. CASE t \in S /\ a \in L /\ b \notin L
  <2>1. t \in A /\ B = A \ {t} BY <1>2, <1>3, <1>4 DEF At
  <2>2. Cardinality(B) = Cardinality(A) - 1 BY <1>1, <2>1, FS_RemoveElement
  <2> QED BY <1>1, <1>4, <2>2 DEF Cnt, Delta
<1>5. CASE t \in S /\ a \notin L /\ b \in L
  <2>1. t \notin A /\ B = A \cup {t} BY <1>2, <1>3, <1>5 DEF At
  <2>2. Cardinality(B) = Cardinality(A) + 1 BY <1>1, <2>1, FS_AddElement
  <2> QED BY <1>1, <1>5, <2>2 DEF Cnt, Delta
<1>6. CASE t \notin S \/ (a \in L <=> b \in L)
  <2>1. A = B BY <1>2, <1>3, <1>6 DEF At
  <2> QED BY <1>1, <1>6, <2>1 DEF Cnt, Delta
<1> QED BY <1>4, <1>5, <1>6

\* The same, with the control points of t read from the functions.
LEMMA CntMoved ==
  ASSUME NEW S, IsFiniteSet(S), NEW f, NEW g, NEW t, NEW L, \A x \in S : x # t => g[x] = f[x]
  PROVE  /\ Cnt(S, f, L) \in Nat
         /\ Cnt(S, g, L) = Cnt(S, f, L) + Delta(S, L, t, f[t], g[t])
<1>1. PICK a, b : f[t] = a /\ g[t] = b OBVIOUS
<1>2. /\ Cnt(S, f, L) \in Nat
      /\ Cnt(S, g, L) = Cnt(S, f, L) + Delta(S, L, t, a, b)
  BY <1>1, CntMove
<1> QED BY <1>1, <1>2

\* A set that loses at least p, and one that gains at most p.
LEMMA CountChange ==
  ASSUME NEW S, IsFiniteSet(S), NEW A \in SUBSET S, NEW B, NEW p
  PROVE  /\ Cardinality(A) \in Nat
         /\ B \subseteq A \ {p} =>
              /\ Cardinality(B) \in Nat /\ Cardinality(B) <= Cardinality(A)
              /\ p \in A => Cardinality(B) + 1 <= Cardinality(A)
         /\ B \subseteq A \cup {p} => Cardinality(B) \in Nat /\ Cardinality(B) <= Cardinality(A) + 1
<1>1. IsFiniteSet(A) BY FS_Subset
<1>2. Cardinality(A) \in Nat BY <1>1, FS_CardinalityType
<1>3. ASSUME B \subseteq A \ {p}
      PROVE  /\ Cardinality(B) \in Nat /\ Cardinality(B) <= Cardinality(A)
             /\ p \in A => Cardinality(B) + 1 <= Cardinality(A)
  <2>1. /\ IsFiniteSet(A \ {p})
        /\ Cardinality(A \ {p}) = IF p \in A THEN Cardinality(A) - 1 ELSE Cardinality(A)
    BY <1>1, FS_RemoveElement
  <2>2. IsFiniteSet(B) /\ Cardinality(B) <= Cardinality(A \ {p}) BY <1>3, <2>1, FS_Subset
  <2>3. Cardinality(B) \in Nat BY <2>2, FS_CardinalityType
  <2> QED BY <1>2, <2>1, <2>2, <2>3
<1>4. ASSUME B \subseteq A \cup {p} PROVE Cardinality(B) \in Nat /\ Cardinality(B) <= Cardinality(A) + 1
  <2>1. /\ IsFiniteSet(A \cup {p})
        /\ Cardinality(A \cup {p}) = IF p \in A THEN Cardinality(A) ELSE Cardinality(A) + 1
    BY <1>1, FS_AddElement
  <2>2. IsFiniteSet(B) /\ Cardinality(B) <= Cardinality(A \cup {p}) BY <1>4, <2>1, FS_Subset
  <2>3. Cardinality(B) \in Nat BY <2>2, FS_CardinalityType
  <2> QED BY <1>2, <2>1, <2>2, <2>3
<1> QED BY <1>2, <1>3, <1>4

-----------------------------------------------------------------------------
\* An index of the circular buffer is in range.
LEMMA ModIn ==
  ASSUME NEW n \in Nat \ {0}, NEW i \in Nat
  PROVE  i % n \in 0..(n - 1)
OBVIOUS

\* Two item numbers less than n apart use different slots of a buffer of n.
LEMMA ModDistinct ==
  ASSUME NEW n \in Nat \ {0}, NEW i \in Nat, NEW j \in Nat, i < j, j < i + n
  PROVE  i % n # j % n
<1> DEFINE qi == i \div n
           qj == j \div n
<1>1. qi \in Int /\ qj \in Int /\ i = (n * qi) + (i % n) /\ j = (n * qj) + (j % n)
  OBVIOUS
<1>2. i % n \in 0..(n - 1) /\ j % n \in 0..(n - 1) OBVIOUS
<1> HIDE DEF qi, qj
<1> SUFFICES ASSUME i % n = j % n PROVE FALSE OBVIOUS
<1>3. j - i = n * (qj - qi) BY <1>1, <1>2
<1>4. CASE qj - qi <= 0
  <2>1. n * (qj - qi) <= 0 BY <1>1, <1>4
  <2> QED BY <1>3, <2>1
<1>5. CASE qj - qi >= 1
  <2>1. n * (qj - qi) >= n BY <1>1, <1>5
  <2> QED BY <1>3, <2>1
<1> QED BY <1>1, <1>4, <1>5

\* A multiple of n between -n and n is 0.
LEMMA SmallMultiple ==
  ASSUME NEW n \in Nat \ {0}, NEW q \in Int, n * q < n, -n < n * q
  PROVE  n * q = 0
<1>1. CASE q <= -1
  <2>1. n * q <= -n BY <1>1
  <2> QED BY <2>1
<1>2. CASE q >= 1
  <2>1. n * q >= n BY <1>2
  <2> QED BY <2>1
<1> QED BY <1>1, <1>2

\* The slot after that of item i, written with % or with a test.
LEMMA ModSucc ==
  ASSUME NEW n \in Nat \ {0}, NEW i \in Nat
  PROVE  /\ (i + 1) % n = IF (i % n) + 1 >= n THEN 0 ELSE (i % n) + 1
         /\ ((i % n) + 1) % n = (i + 1) % n
<1> DEFINE q == i \div n
           r == i % n
           q1 == (i + 1) \div n
           r1 == (i + 1) % n
<1>1. q \in Int /\ q1 \in Int /\ r \in 0..(n - 1) /\ r1 \in 0..(n - 1) OBVIOUS
<1>2. i = (n * q) + r /\ i + 1 = (n * q1) + r1 OBVIOUS
<1>3. r + 1 < n => (r + 1) % n = r + 1 OBVIOUS
<1>4. r + 1 = n => (r + 1) % n = 0
  <2>1. n % n = 0 OBVIOUS
  <2> QED BY <2>1
<1> HIDE DEF q, r, q1, r1
<1>5. n * (q1 - q) = (r + 1) - r1 BY <1>1, <1>2
<1>6. n * ((q + 1) - q1) = (r1 - (r + 1)) + n BY <1>1, <1>2
<1>7. CASE r + 1 < n
  <2>1. n * (q1 - q) = 0 BY <1>1, <1>5, <1>7, SmallMultiple
  <2> QED BY <1>1, <1>3, <1>5, <1>7, <2>1 DEF r, r1
<1>8. CASE r + 1 = n
  <2>1. n * (q1 - q) = n - r1 BY <1>1, <1>5, <1>8
  <2>2. n * ((q + 1) - q1) = r1 BY <1>1, <1>6, <1>8
  <2>3. n * ((q + 1) - q1) = 0 BY <1>1, <2>2, SmallMultiple
  <2> QED BY <1>1, <1>4, <1>8, <2>2, <2>3 DEF r, r1
<1> QED BY <1>1, <1>7, <1>8

-----------------------------------------------------------------------------
\* The queue that holds the items lo, ..., hi - 1.
Items(lo, hi) == [i \in 1..(hi - lo) |-> lo + i - 1]

LEMMA ItemsSeq ==
  ASSUME NEW lo \in Nat, NEW hi \in Nat, lo <= hi
  PROVE  Items(lo, hi) \in Seq(Nat) /\ Len(Items(lo, hi)) = hi - lo
<1>1. hi - lo \in Nat OBVIOUS
<1>2. Items(lo, hi) \in [1..(hi - lo) -> Nat] BY DEF Items
<1>3. Items(lo, hi) \in Seq(Nat) BY <1>1, <1>2, SeqDef
<1>4. DOMAIN Items(lo, hi) = 1..(hi - lo) BY DEF Items
<1> QED BY <1>1, <1>3, <1>4, LenProperties

LEMMA ItemsEmpty == ASSUME NEW lo \in Nat PROVE Items(lo, lo) = <<>>
<1>1. Items(lo, lo) \in Seq(Nat) /\ Len(Items(lo, lo)) = 0 BY ItemsSeq
<1> QED BY <1>1, EmptySeq

LEMMA ItemsPut ==
  ASSUME NEW lo \in Nat, NEW hi \in Nat, lo <= hi
  PROVE  Items(lo, hi + 1) = Append(Items(lo, hi), hi)
<1> DEFINE s == Items(lo, hi)
           u == Items(lo, hi + 1)
<1>1. s \in Seq(Nat) /\ Len(s) = hi - lo /\ u \in Seq(Nat) /\ Len(u) = hi + 1 - lo
  <2>1. hi + 1 \in Nat /\ lo <= hi + 1 OBVIOUS
  <2> HIDE DEF s, u
  <2>2. Len(u) = (hi + 1) - lo /\ u \in Seq(Nat) BY <2>1, ItemsSeq DEF u
  <2>3. Len(s) = hi - lo /\ s \in Seq(Nat) BY ItemsSeq DEF s
  <2> QED BY <2>2, <2>3
<1>2. Append(s, hi) \in Seq(Nat) /\ Len(Append(s, hi)) = hi + 1 - lo
  <2> HIDE DEF s, u
  <2>1. Append(s, hi) \in Seq(Nat) /\ Len(Append(s, hi)) = Len(s) + 1 BY <1>1, AppendProperties
  <2> QED BY <1>1, <2>1
<1>3. \A i \in 1..(hi + 1 - lo) : u[i] = lo + i - 1 BY DEF Items
<1>4. \A i \in 1..(hi - lo) : s[i] = lo + i - 1 BY DEF Items
<1>5. \A i \in 1..(hi + 1 - lo) : Append(s, hi)[i] = IF i <= hi - lo THEN s[i] ELSE hi
  <2> HIDE DEF s, u
  <2> QED BY <1>1, AppendProperties
<1>6. \A i \in 1..(hi + 1 - lo) : u[i] = Append(s, hi)[i] BY <1>3, <1>4, <1>5
<1> HIDE DEF s, u
<1> QED BY <1>1, <1>2, <1>6, SeqEqual DEF s, u

LEMMA ItemsGet ==
  ASSUME NEW lo \in Nat, NEW hi \in Nat, lo < hi
  PROVE  /\ Items(lo, hi) # <<>> /\ Head(Items(lo, hi)) = lo
         /\ Tail(Items(lo, hi)) = Items(lo + 1, hi)
<1> DEFINE s == Items(lo, hi)
           u == Items(lo + 1, hi)
<1>1. s \in Seq(Nat) /\ Len(s) = hi - lo /\ u \in Seq(Nat) /\ Len(u) = hi - lo - 1
  <2>1. lo + 1 \in Nat /\ lo + 1 <= hi /\ lo <= hi OBVIOUS
  <2> HIDE DEF s, u
  <2>2. Len(u) = hi - (lo + 1) /\ u \in Seq(Nat) BY <2>1, ItemsSeq DEF u
  <2>3. Len(s) = hi - lo /\ s \in Seq(Nat) BY <2>1, ItemsSeq DEF s
  <2> QED BY <2>2, <2>3
<1>2. s # <<>> BY <1>1, EmptySeq
<1>3. s[1] = lo BY DEF Items
<1>4. Head(s) = s[1] BY <1>1, <1>2
<1>5. /\ Tail(s) \in Seq(Nat) /\ Len(Tail(s)) = hi - lo - 1
      /\ \A i \in 1..(hi - lo - 1) : Tail(s)[i] = s[i + 1]
  BY <1>1, <1>2, HeadTailProperties
<1>6. \A i \in 1..(hi - lo - 1) : s[i + 1] = lo + i /\ u[i] = lo + i BY DEF Items
<1>7. Tail(s) = u
  <2> HIDE DEF s, u
  <2>1. \A i \in 1..Len(Tail(s)) : Tail(s)[i] = u[i] BY <1>5, <1>6
  <2> QED BY <1>1, <1>5, <2>1, SeqEqual
<1> QED BY <1>2, <1>3, <1>4, <1>7

-----------------------------------------------------------------------------
(* Least elements, induction and loops                                     *)

\* A set of natural numbers that is not empty has a least element.
LEMMA LeastNat ==
  ASSUME NEW S, S \subseteq Nat, S # {}
  PROVE  \E x \in S : \A y \in S : x <= y
<1> DEFINE R == OpToRel(<, Nat)
<1>1. IsWellFoundedOn(R, Nat) BY NatLessThanWellFounded
<1> HIDE DEF R
<1>2. PICK x \in S : \A y \in S : ~(<<y, x>> \in R) BY <1>1, WFMin
<1>3. \A y \in S : x <= y
  <2> SUFFICES ASSUME NEW y \in S, y < x PROVE FALSE BY <1>2
  <2>1. <<y, x>> \in R BY DEF R, OpToRel
  <2> QED BY <1>2, <2>1
<1> QED BY <1>2, <1>3

\* A set that holds 0 and with every number below n the next one holds 0..n.
LEMMA UpTo ==
  ASSUME NEW n \in Nat, NEW P, 0 \in P, \A k \in 1..n : k - 1 \in P => k \in P
  PROVE  \A k \in 0..n : k \in P
<1> DEFINE Bad == {k \in 0..n : k \notin P}
<1> SUFFICES ASSUME Bad # {} PROVE FALSE OBVIOUS
<1>1. PICK k \in Bad : \A y \in Bad : k <= y
  <2>1. Bad \subseteq Nat /\ Bad # {} OBVIOUS
  <2> HIDE DEF Bad
  <2> QED BY <2>1, LeastNat
<1>2. k \in 1..n /\ k - 1 \in 0..n /\ k \notin P BY <1>1
<1>3. k - 1 \notin Bad BY <1>1, <1>2
<1> QED BY <1>2, <1>3

\* The rounds of a loop exist: the states G[k] that it may be in after k rounds
\* are left for those after k + 1 rounds.
LoopRuns(f, n, t, F, G) == f = [k \in 0..n |-> IF k = 0 THEN t ELSE F[f[k - 1]]] /\ \A k \in 0..n : f[k] \in G[k]
LEMMA LoopExists ==
  ASSUME NEW n \in Nat, NEW G, NEW F, NEW t \in G[0],
         \A k \in 1..n : \A u \in G[k - 1] : F[u] \in G[k]
  PROVE  \E f : LoopRuns(f, n, t, F, G)
<1> DEFINE Run(f, m) == f = [k \in 0..m |-> IF k = 0 THEN t ELSE F[f[k - 1]]] /\ \A k \in 0..m : f[k] \in G[k]
           P == {m \in 0..n : \E f : Run(f, m)}
<1>1. 0 \in P
  <2> DEFINE f == [k \in 0..0 |-> t]
  <2>1. \A k \in 0..0 : f[k] \in G[k] OBVIOUS
  <2>2. f = [k \in 0..0 |-> IF k = 0 THEN t ELSE F[f[k - 1]]] OBVIOUS
  <2>3. Run(f, 0) BY <2>1, <2>2
  <2> HIDE DEF f
  <2> QED BY <2>3
<1>2. ASSUME NEW m \in 1..n, m - 1 \in P PROVE m \in P
  <2>1. PICK f : Run(f, m - 1) BY <1>2
  <2> DEFINE g == [k \in 0..m |-> IF k = m THEN F[f[m - 1]] ELSE f[k]]
  <2>2. \A k \in 0..(m - 1) : g[k] = f[k] /\ f[k] \in G[k] BY <2>1
  <2>3. g[m] = F[g[m - 1]] /\ g[m] \in G[m] BY <2>2
  <2>4. g[0] = t BY <2>1, <2>2
  <2>5. \A k \in 1..(m - 1) : g[k] = F[g[k - 1]] BY <2>1, <2>2
  <2>6. \A k \in 0..m : g[k] \in G[k] /\ g[k] = IF k = 0 THEN t ELSE F[g[k - 1]]
    <3> SUFFICES ASSUME NEW k \in 0..m PROVE g[k] \in G[k] /\ g[k] = IF k = 0 THEN t ELSE F[g[k - 1]]
      OBVIOUS
    <3> HIDE DEF g
    <3>1. CASE k = m BY <2>3, <3>1
    <3>2. CASE k = 0 BY <2>2, <2>4, <3>2
    <3>3. CASE k \in 1..(m - 1) BY <2>2, <2>5, <3>3
    <3> QED BY <3>1, <3>2, <3>3
  <2>7. g = [k \in 0..m |-> IF k = 0 THEN t ELSE F[g[k - 1]]] BY <2>6
  <2>8. Run(g, m) BY <2>6, <2>7
  <2> HIDE DEF g
  <2> QED BY <2>8
<1>3. n \in P
  <2> HIDE DEF P
  <2> QED BY <1>1, <1>2, UpTo
<1> QED BY <1>3 DEF LoopRuns
=============================================================================
