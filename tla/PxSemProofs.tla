---------------------------- MODULE PxSemProofs -----------------------------
(***************************************************************************)
(* Proofs about the semaphore programs of MCPxSem, for any producers, runs,*)
(* buffer sizes and numbers of items: semaphore.c and sem_prodcons3.c      *)
(* implement the bounded FIFO, overlapping runs of sem_prodcons1.c and     *)
(* sem_prodcons2.c do not meet, and sem_multibuffer.c copies its file.  All*)
(* four arguments rest on equations between the values of the semaphores   *)
(* and the threads that stand between a sem_wait and the sem_post that     *)
(* answers it.                                                             *)
(***************************************************************************)
EXTENDS MCPxSem, ProdConsLemmas

One(A) == IF A THEN 1 ELSE 0

-----------------------------------------------------------------------------
(***************************************************************************)
(* semaphore.c                                                             *)
(***************************************************************************)
TTypes ==
  /\ semT \in [{"sem_one", "sem_two"} -> Nat]
  /\ pcT \in [{"read", "accu"} -> {"loop", "scanf", "add", "post", "done"}]
  /\ typed \in Nat /\ added \in Nat

\* There is one turn: it lies in a semaphore or a thread has it.
TTurn ==
  semT["sem_two"] + One(pcT["read"] \in {"scanf", "post"})
    + semT["sem_one"] + One(pcT["accu"] \in {"add", "post"}) = 1

\* A number is waiting while the turn is on its way from read() to accu().
TNumber ==
  /\ typed - added = One(pcT["read"] = "post") + semT["sem_one"] + One(pcT["accu"] = "add")
  /\ typed > added => num = added
  /\ pcT["read"] = "scanf" => typed < Numbers

TInv == TTypes /\ TTurn /\ TNumber

\* The turn exists in the initial state.
LEMMA TInit == ASSUME Init PROVE TInv /\ TT!Fifo!Init
<1>1. /\ semT = [s \in {"sem_one", "sem_two"} |-> IF s = "sem_two" THEN 1 ELSE 0]
      /\ pcT = [t \in {"read", "accu"} |-> "loop"]
      /\ num = 0 /\ typed = 0 /\ added = 0
  BY DEF Init, TT!Init
<1>2. TTypes BY <1>1 DEF TTypes
<1>3. TTurn BY <1>1 DEF TTurn, One
<1>4. TNumber BY <1>1 DEF TNumber, One
<1>5. TT!Fifo!Init BY <1>1 DEF TT!Fifo!Init
<1> QED BY <1>2, <1>3, <1>4, <1>5 DEF TInv

\* A step of either thread passes the turn on, and puts or takes a number.
LEMMA TStep ==
  ASSUME TInv, [Next]_vars
  PROVE  TInv' /\ [TT!Fifo!Next]_(TT!Fifo!fifoVars)
<1>0. /\ TTypes /\ TTurn /\ TNumber /\ typed \in Nat /\ added \in Nat /\ Numbers \in Nat
      /\ semT["sem_one"] \in Nat /\ semT["sem_two"] \in Nat
  BY TurnsAssumption DEF TInv, TTypes
<1>1. ASSUME TT!Read PROVE TInv' /\ [TT!Fifo!Next]_(TT!Fifo!fifoVars)
  <2>1. CASE typed < Numbers /\ TT!Wait("read", "loop", "sem_two", "scanf") /\ UNCHANGED <<num, typed>>
    <3>1. TTypes' BY <1>0, <1>1, <2>1 DEF TT!Read, TT!Wait, TT!Move, TTypes
    <3>2. TTurn' /\ TNumber' BY <1>0, <1>1, <2>1 DEF TT!Read, TT!Wait, TT!Move, TTypes, TTurn, TNumber, One
    <3>3. UNCHANGED TT!Fifo!fifoVars BY <1>1, <2>1 DEF TT!Read, TT!Fifo!fifoVars
    <3> QED BY <3>1, <3>2, <3>3 DEF TInv
  <2>2. CASE TT!Step("read", "scanf", "post") /\ num' = typed /\ typed' = typed + 1
    <3>1. TTypes' BY <1>0, <1>1, <2>2 DEF TT!Read, TT!Step, TT!Move, TTypes
    <3>2. typed = added
      BY <1>0, <2>2 DEF TT!Step, TT!Move, TTurn, TNumber, One
    <3>3. TTurn' /\ TNumber'
      BY <1>0, <1>1, <2>2, <3>2 DEF TT!Read, TT!Step, TT!Move, TTypes, TTurn, TNumber, One
    <3>4. TT!Fifo!Put
      <4>1. ~(typed > added) /\ typed' > added' /\ typed < Numbers /\ added' = added
        BY <1>0, <1>1, <2>2, <3>2 DEF TT!Read, TT!Step, TT!Move, TNumber
      <4>2. Len(<< >>) = 0 /\ <<typed>> = Append(<< >>, typed) OBVIOUS
      <4> QED BY <2>2, <4>1, <4>2 DEF TT!Fifo!Put
    <3> QED BY <3>1, <3>3, <3>4 DEF TInv, TT!Fifo!Next
  <2>3. CASE TT!Post("read", "post", "sem_one", "loop") /\ UNCHANGED <<num, typed>>
    <3>1. TTypes' BY <1>0, <1>1, <2>3 DEF TT!Read, TT!Post, TT!Move, TTypes
    <3>2. TTurn' /\ TNumber' BY <1>0, <1>1, <2>3 DEF TT!Read, TT!Post, TT!Move, TTypes, TTurn, TNumber, One
    <3>3. UNCHANGED TT!Fifo!fifoVars BY <1>1, <2>3 DEF TT!Read, TT!Fifo!fifoVars
    <3> QED BY <3>1, <3>2, <3>3 DEF TInv
  <2>4. CASE typed = Numbers /\ TT!Step("read", "loop", "done") /\ UNCHANGED <<num, typed>>
    <3>1. TTypes' BY <1>0, <1>1, <2>4 DEF TT!Read, TT!Step, TT!Move, TTypes
    <3>2. TTurn' /\ TNumber' BY <1>0, <1>1, <2>4 DEF TT!Read, TT!Step, TT!Move, TTypes, TTurn, TNumber, One
    <3>3. UNCHANGED TT!Fifo!fifoVars BY <1>1, <2>4 DEF TT!Read, TT!Fifo!fifoVars
    <3> QED BY <3>1, <3>2, <3>3 DEF TInv
  <2> QED BY <1>1, <2>1, <2>2, <2>3, <2>4 DEF TT!Read
<1>2. ASSUME TT!Accu PROVE TInv' /\ [TT!Fifo!Next]_(TT!Fifo!fifoVars)
  <2>1. CASE added < Numbers /\ TT!Wait("accu", "loop", "sem_one", "add") /\ UNCHANGED added
    <3>1. TTypes' BY <1>0, <1>2, <2>1 DEF TT!Accu, TT!Wait, TT!Move, TTypes
    <3>2. TTurn' /\ TNumber' BY <1>0, <1>2, <2>1 DEF TT!Accu, TT!Wait, TT!Move, TTypes, TTurn, TNumber, One
    <3>3. UNCHANGED TT!Fifo!fifoVars BY <1>2, <2>1 DEF TT!Accu, TT!Fifo!fifoVars
    <3> QED BY <3>1, <3>2, <3>3 DEF TInv
  <2>2. CASE TT!Step("accu", "add", "post") /\ added' = added + 1
    <3>1. TTypes' BY <1>0, <1>2, <2>2 DEF TT!Accu, TT!Step, TT!Move, TTypes
    <3>2. typed = added + 1 /\ num = added
      BY <1>0, <2>2 DEF TT!Step, TT!Move, TTurn, TNumber, One
    <3>3. TTurn' /\ TNumber'
      BY <1>0, <1>2, <2>2, <3>2 DEF TT!Accu, TT!Step, TT!Move, TTypes, TTurn, TNumber, One
    <3>4. TT!Fifo!Get
      BY <1>0, <1>2, <2>2, <3>2 DEF TT!Accu, TT!Step, TT!Move, TT!Fifo!Get
    <3> QED BY <3>1, <3>3, <3>4 DEF TInv, TT!Fifo!Next
  <2>3. CASE TT!Post("accu", "post", "sem_two", "loop") /\ UNCHANGED added
    <3>1. TTypes' BY <1>0, <1>2, <2>3 DEF TT!Accu, TT!Post, TT!Move, TTypes
    <3>2. TTurn' /\ TNumber' BY <1>0, <1>2, <2>3 DEF TT!Accu, TT!Post, TT!Move, TTypes, TTurn, TNumber, One
    <3>3. UNCHANGED TT!Fifo!fifoVars BY <1>2, <2>3 DEF TT!Accu, TT!Fifo!fifoVars
    <3> QED BY <3>1, <3>2, <3>3 DEF TInv
  <2>4. CASE added = Numbers /\ TT!Step("accu", "loop", "done") /\ UNCHANGED added
    <3>1. TTypes' BY <1>0, <1>2, <2>4 DEF TT!Accu, TT!Step, TT!Move, TTypes
    <3>2. TTurn' /\ TNumber' BY <1>0, <1>2, <2>4 DEF TT!Accu, TT!Step, TT!Move, TTypes, TTurn, TNumber, One
    <3>3. UNCHANGED TT!Fifo!fifoVars BY <1>2, <2>4 DEF TT!Accu, TT!Fifo!fifoVars
    <3> QED BY <3>1, <3>2, <3>3 DEF TInv
  <2> QED BY <1>2, <2>1, <2>2, <2>3, <2>4 DEF TT!Accu
<1>3. ASSUME UNCHANGED varsT PROVE TInv' /\ [TT!Fifo!Next]_(TT!Fifo!fifoVars)
  BY <1>3 DEF varsT, TInv, TTypes, TTurn, TNumber, TT!Fifo!fifoVars
<1>4. CASE InT(TT!Next) BY <1>1, <1>2, <1>3, <1>4 DEF InT, TT!Next, TT!vars, varsT
<1>5. CASE UNCHANGED vars BY <1>3, <1>5 DEF vars
<1> QED BY <1>3, <1>4, <1>5 DEF Next, In3, In1, InM

\* semaphore.c implements the bounded FIFO of capacity 1: every number is
\* added exactly once and in order, and none is overwritten before it was
\* added.
THEOREM TurnsAreTaken == Spec => TurnsTaken
<1>1. Init => TInv /\ TT!Fifo!Init BY TInit
<1>2. TInv /\ [Next]_vars => TInv' /\ [TT!Fifo!Next]_(TT!Fifo!fifoVars) BY TStep
<1> QED BY <1>1, <1>2, PTL DEF Spec, TurnsTaken, TT!TurnsTaken, TT!Fifo!Spec

-----------------------------------------------------------------------------
(***************************************************************************)
(* sem_prodcons3.c                                                         *)
(***************************************************************************)
ProducerPoints ==
  {"unborn", "nempty", "mutex", "test", "x_nempty", "x_mutex", "store", "incr", "unlock", "nstored", "done"}
ConsumerPoints ==
  {"unborn", "c_nstored", "c_mutex", "c_check", "c_unlock", "c_nempty", "done"}
SemNames3 == {"mutex", "nempty", "nstored"}

\* Producers that took nempty and have neither stored an item nor given the
\* slot back, and those that stored one and have not posted nstored for it.
Empties == {"mutex", "test", "x_nempty", "store", "incr"}
Storers == {"unlock", "nstored"}
EmptyHeld == Cnt(Producers, pc3, Empties)
ItemsHeld == Cnt(Producers, pc3, Storers)
\* The consumer has passed nstored and not come back to it.
Takes == pc3["consumer"] \in {"c_mutex", "c_check", "c_unlock", "c_nempty"}

MTypes ==
  /\ sem3 \in [SemNames3 -> Nat]
  /\ pc3 \in [S3!Threads -> ProducerPoints \cup ConsumerPoints]
  /\ \A t \in Producers : pc3[t] \in ProducerPoints
  /\ pc3["consumer"] \in ConsumerPoints
  /\ buf \in [0..(Slots - 1) -> Nat] /\ nput \in Nat /\ i \in Nat

\* The semaphore mutex is a lock.
Locked == {"test", "x_nempty", "x_mutex", "store", "incr", "unlock", "c_check", "c_unlock"}
MLock ==
  /\ sem3["mutex"] <= 1
  /\ sem3["mutex"] = 1 => \A t \in S3!Threads : pc3[t] \notin Locked
  /\ \A t, u \in S3!Threads : pc3[t] \in Locked /\ pc3[u] \in Locked => t = u

\* Every slot and every item is accounted for: a producer that leaves posts
\* nempty only, so both equations hold to the end.
MSlots ==
  /\ sem3["nempty"] + EmptyHeld + (nput - i) = Slots
  /\ sem3["nstored"] + ItemsHeld + One(Takes) = nput - i

\* The items between i and nput lie in their slots.
MItems ==
  /\ nputval = nput
  /\ \A k \in i..(nput - 1) : buf[k % Slots] = k
  /\ \A t \in Producers : /\ pc3[t] \in {"store", "incr"} => nput < NItems
                          /\ pc3[t] = "incr" => buf[nput % Slots] = nput

MInv == MTypes /\ MLock /\ MSlots /\ MItems

\* The invariant holds before the threads are created.
LEMMA MInit == ASSUME Init PROVE MInv
<1>1. /\ sem3 = [s \in {"mutex", "nempty", "nstored"} |->
                  CASE s = "mutex" -> 1 [] s = "nempty" -> Slots [] s = "nstored" -> 0]
      /\ buf = [k \in 0..(Slots - 1) |-> 0] /\ nput = 0 /\ nputval = 0 /\ i = 0
      /\ pc3 = [t \in S3!Threads |-> "unborn"]
  BY DEF Init, S3!Init
<1>2. Slots \in Nat \ {0} /\ IsFiniteSet(Producers) BY ManyToOneAssumption
<1>3. "consumer" \in S3!Threads /\ Producers \subseteq S3!Threads BY DEF S3!Threads, S3!Consumer
<1>4. sem3["mutex"] = 1 /\ sem3["nempty"] = Slots /\ sem3["nstored"] = 0 BY <1>1
<1>5. MTypes
  <2>1. sem3 \in [SemNames3 -> Nat] BY <1>1, <1>2, <1>4 DEF SemNames3
  <2> QED BY <1>1, <1>2, <1>3, <2>1 DEF MTypes, ProducerPoints, ConsumerPoints
<1>6. MLock BY <1>1, <1>4 DEF MLock, Locked
<1>7. EmptyHeld = 0 /\ ItemsHeld = 0
  <2>1. At(Producers, pc3, Empties) = {} /\ At(Producers, pc3, Storers) = {}
    BY <1>1, <1>3 DEF At, Empties, Storers
  <2> QED BY <2>1, FS_EmptySet DEF EmptyHeld, ItemsHeld, Cnt
<1>8. MSlots BY <1>1, <1>2, <1>3, <1>4, <1>7 DEF MSlots, Takes, One
<1>9. MItems BY <1>1, <1>3 DEF MItems
<1> QED BY <1>5, <1>6, <1>8, <1>9 DEF MInv

\* How the two counts change.
MCounts(e, s) ==
  /\ EmptyHeld \in Nat /\ EmptyHeld' = EmptyHeld + e
  /\ ItemsHeld \in Nat /\ ItemsHeld' = ItemsHeld + s

\* How they change when thread t moves from a to b.
LEMMA MMoved ==
  ASSUME MTypes, NEW t \in S3!Threads, NEW a, NEW b, S3!Move(t, a, b)
  PROVE  MCounts(Delta(Producers, Empties, t, a, b), Delta(Producers, Storers, t, a, b))
<1>1. DOMAIN pc3 = S3!Threads /\ pc3[t] = a /\ pc3' = [pc3 EXCEPT ![t] = b]
  BY DEF MTypes, S3!Move
<1>2. IsFiniteSet(Producers) BY ManyToOneAssumption
<1>3. \A x \in Producers : x # t => pc3'[x] = pc3[x] BY <1>1 DEF S3!Threads
<1>4. pc3[t] = a /\ pc3'[t] = b BY <1>1
<1>5. ASSUME NEW L
      PROVE  /\ Cnt(Producers, pc3, L) \in Nat
             /\ Cnt(Producers, pc3', L) = Cnt(Producers, pc3, L) + Delta(Producers, L, t, a, b)
  <2>1. /\ Cnt(Producers, pc3, L) \in Nat
        /\ Cnt(Producers, pc3', L) = Cnt(Producers, pc3, L) + Delta(Producers, L, t, pc3[t], pc3'[t])
    BY <1>2, <1>3, CntMoved
  <2> QED BY <1>4, <2>1
<1> QED BY <1>5 DEF MCounts, EmptyHeld, ItemsHeld, Empties, Storers

\* A thread that moves to a control point of its function keeps the types of
\* the semaphores and of pc.
LEMMA MThreadType ==
  ASSUME MTypes, NEW t \in S3!Threads, NEW a, NEW b, NEW s \in SemNames3,
         t \in Producers => b \in ProducerPoints, t = "consumer" => b \in ConsumerPoints,
         S3!Wait(t, a, s, b) \/ S3!Post(t, a, s, b) \/ S3!Step(t, a, b)
  PROVE  /\ sem3' \in [SemNames3 -> Nat]
         /\ pc3' \in [S3!Threads -> ProducerPoints \cup ConsumerPoints]
         /\ \A p \in Producers : pc3'[p] \in ProducerPoints
         /\ pc3'["consumer"] \in ConsumerPoints
<1>1. pc3' = [pc3 EXCEPT ![t] = b] BY DEF S3!Wait, S3!Post, S3!Step, S3!Move
<1>2. /\ pc3' \in [S3!Threads -> ProducerPoints \cup ConsumerPoints]
      /\ \A p \in Producers : pc3'[p] \in ProducerPoints
      /\ pc3'["consumer"] \in ConsumerPoints
  BY <1>1, ManyToOneAssumption DEF MTypes, S3!Threads, S3!Consumer
<1>3. CASE S3!Wait(t, a, s, b)
  <2>1. sem3[s] \in Nat /\ sem3[s] > 0 BY <1>3 DEF S3!Wait, MTypes
  <2>2. sem3' = [sem3 EXCEPT ![s] = sem3[s] - 1] BY <1>3 DEF S3!Wait
  <2> QED BY <1>2, <2>1, <2>2 DEF MTypes
<1>4. CASE S3!Post(t, a, s, b)
  <2>1. sem3[s] + 1 \in Nat BY DEF MTypes
  <2>2. sem3' = [sem3 EXCEPT ![s] = sem3[s] + 1] BY <1>4 DEF S3!Post
  <2> QED BY <1>2, <2>1, <2>2 DEF MTypes
<1>5. CASE S3!Step(t, a, b) BY <1>2, <1>5 DEF S3!Step, MTypes
<1> QED BY <1>3, <1>4, <1>5

\* Every step preserves the types.
LEMMA MTypeStep == ASSUME MTypes, MItems, S3!Next PROVE MTypes'
<1> USE ManyToOneAssumption
<1>0. nputval = nput /\ nput \in Nat /\ i \in Nat BY DEF MTypes, MItems
<1>1. ASSUME NEW t \in Producers, S3!P_Acquire(t) PROVE MTypes'
  BY <1>0, <1>1, MThreadType DEF S3!P_Acquire, MTypes, ProducerPoints, SemNames3, S3!Threads, S3!Consumer, S3!data
<1>2. ASSUME NEW t \in Producers, S3!P_Test(t) PROVE MTypes'
  BY <1>0, <1>2, MThreadType DEF S3!P_Test, MTypes, ProducerPoints, SemNames3, S3!Threads, S3!Consumer, S3!data
<1>3. ASSUME NEW t \in Producers, S3!P_Exit(t) PROVE MTypes'
  BY <1>0, <1>3, MThreadType DEF S3!P_Exit, MTypes, ProducerPoints, SemNames3, S3!Threads, S3!Consumer, S3!data
<1>4. ASSUME NEW t \in Producers, S3!P_Store(t) PROVE MTypes'
  <2>1. nput % Slots \in 0..(Slots - 1) BY <1>0, ModIn
  <2> QED BY <1>0, <1>4, <2>1, MThreadType DEF S3!P_Store, MTypes, ProducerPoints, SemNames3, S3!Threads, S3!Consumer
<1>5. ASSUME NEW t \in Producers, S3!P_Incr(t) PROVE MTypes'
  BY <1>0, <1>5, MThreadType DEF S3!P_Incr, MTypes, ProducerPoints, SemNames3, S3!Threads, S3!Consumer, S3!data
<1>6. ASSUME NEW t \in Producers, S3!P_Release(t) PROVE MTypes'
  BY <1>0, <1>6, MThreadType DEF S3!P_Release, MTypes, ProducerPoints, SemNames3, S3!Threads, S3!Consumer, S3!data
<1>7. CASE S3!C_Loop
  <2>1. PICK a \in ConsumerPoints, b \in ConsumerPoints, s \in SemNames3 :
          \/ S3!Wait("consumer", a, s, b) \/ S3!Post("consumer", a, s, b) \/ S3!Step("consumer", a, b)
    BY <1>7 DEF S3!C_Loop, ConsumerPoints, SemNames3, S3!Consumer
  <2>2. buf' = buf /\ nput' = nput /\ i' \in {i, i + 1} BY <1>7 DEF S3!C_Loop, S3!data
  <2>3. "consumer" \in S3!Threads /\ "consumer" \notin Producers BY DEF S3!Threads, S3!Consumer
  <2>4. /\ sem3' \in [SemNames3 -> Nat]
        /\ pc3' \in [S3!Threads -> ProducerPoints \cup ConsumerPoints]
        /\ \A p \in Producers : pc3'[p] \in ProducerPoints
        /\ pc3'["consumer"] \in ConsumerPoints
    BY <2>1, <2>3, MThreadType
  <2>5. buf' \in [0..(Slots - 1) -> Nat] /\ nput' \in Nat /\ i' \in Nat BY <1>0, <2>2 DEF MTypes
  <2> QED BY <2>4, <2>5 DEF MTypes
<1>8. CASE S3!M_Create
  BY <1>8, MThreadType DEF S3!M_Create, MTypes, ProducerPoints, ConsumerPoints, SemNames3, S3!Threads, S3!Consumer, S3!data
<1>9. CASE S3!M_Join BY <1>9 DEF S3!M_Join, MTypes, S3!data
<1>10. CASE S3!Returned BY <1>10 DEF S3!Returned, MTypes, S3!vars, S3!data
<1> QED BY <1>1, <1>2, <1>3, <1>4, <1>5, <1>6, <1>7, <1>8, <1>9, <1>10 DEF S3!Next, S3!Producer

\* Every step keeps the semaphore mutex a lock.
LEMMA MLockStep == ASSUME MTypes, MLock, S3!Next PROVE MLock'
<1>1. ASSUME NEW t \in Producers, S3!P_Acquire(t) PROVE MLock'
  BY <1>1 DEF S3!P_Acquire, MLock, Locked, MTypes, SemNames3, S3!Threads, S3!Consumer, S3!Wait, S3!Post, S3!Step, S3!Move
<1>2. ASSUME NEW t \in Producers, S3!P_Test(t) PROVE MLock'
  BY <1>2 DEF S3!P_Test, MLock, Locked, MTypes, SemNames3, S3!Threads, S3!Consumer, S3!Wait, S3!Post, S3!Step, S3!Move
<1>3. ASSUME NEW t \in Producers, S3!P_Exit(t) PROVE MLock'
  BY <1>3 DEF S3!P_Exit, MLock, Locked, MTypes, SemNames3, S3!Threads, S3!Consumer, S3!Wait, S3!Post, S3!Step, S3!Move
<1>4. ASSUME NEW t \in Producers, S3!P_Store(t) PROVE MLock'
  BY <1>4 DEF S3!P_Store, MLock, Locked, MTypes, SemNames3, S3!Threads, S3!Consumer, S3!Wait, S3!Post, S3!Step, S3!Move
<1>5. ASSUME NEW t \in Producers, S3!P_Incr(t) PROVE MLock'
  BY <1>5 DEF S3!P_Incr, MLock, Locked, MTypes, SemNames3, S3!Threads, S3!Consumer, S3!Wait, S3!Post, S3!Step, S3!Move
<1>6. ASSUME NEW t \in Producers, S3!P_Release(t) PROVE MLock'
  BY <1>6 DEF S3!P_Release, MLock, Locked, MTypes, SemNames3, S3!Threads, S3!Consumer, S3!Wait, S3!Post, S3!Step, S3!Move
<1>7. CASE S3!C_Loop BY <1>7 DEF S3!C_Loop, MLock, Locked, MTypes, SemNames3, S3!Threads, S3!Consumer, S3!Wait, S3!Post, S3!Step, S3!Move
<1>8. CASE S3!M_Create BY <1>8 DEF S3!M_Create, MLock, Locked, MTypes, SemNames3, S3!Threads, S3!Consumer, S3!Wait, S3!Post, S3!Step, S3!Move
<1>9. CASE S3!M_Join BY <1>9 DEF S3!M_Join, MLock
<1>10. CASE S3!Returned BY <1>10 DEF S3!Returned, MLock, S3!vars
<1> QED BY <1>1, <1>2, <1>3, <1>4, <1>5, <1>6, <1>7, <1>8, <1>9, <1>10 DEF S3!Next, S3!Producer

\* Every step keeps the two semaphore equations.
LEMMA MSlotStep == ASSUME MTypes, MSlots, S3!Next PROVE MSlots'
<1>0. /\ MTypes /\ MSlots /\ nput \in Nat /\ i \in Nat /\ Slots \in Nat
      /\ sem3 \in [{"mutex", "nempty", "nstored"} -> Nat] /\ DOMAIN pc3 = S3!Threads
      /\ sem3["nempty"] \in Nat /\ sem3["nstored"] \in Nat
      /\ "consumer" \notin Producers /\ "consumer" \in S3!Threads
      /\ \A t \in Producers : t \in S3!Threads /\ t # "consumer"
  BY ManyToOneAssumption DEF MTypes, SemNames3, S3!Threads, S3!Consumer
<1>1. ASSUME NEW t \in Producers, S3!P_Acquire(t) PROVE MSlots'
  <2>1. CASE S3!Wait(t, "nempty", "nempty", "mutex")
    <3>1. S3!Move(t, "nempty", "mutex") BY <1>1, <2>1 DEF S3!Wait, S3!Consumer
    <3>2. MCounts(1, 0) BY <1>0, <3>1, MMoved DEF Delta, Empties, Storers
    <3>3. /\ sem3'["nempty"] = sem3["nempty"] - 1 /\ sem3'["nstored"] = sem3["nstored"]
          /\ nput' = nput /\ i' = i
      BY <1>0, <1>1, <2>1 DEF S3!P_Acquire, S3!Wait, S3!data
    <3>4. Takes' <=> Takes BY <1>0, <3>1 DEF S3!Move, Takes
    <3> QED BY <1>0, <3>2, <3>3, <3>4 DEF MCounts, MSlots, One
  <2>2. CASE S3!Wait(t, "mutex", "mutex", "test")
    <3>1. S3!Move(t, "mutex", "test") BY <1>1, <2>2 DEF S3!Wait, S3!Consumer
    <3>2. MCounts(0, 0) BY <1>0, <3>1, MMoved DEF Delta, Empties, Storers
    <3>3. /\ sem3'["nempty"] = sem3["nempty"] /\ sem3'["nstored"] = sem3["nstored"]
          /\ nput' = nput /\ i' = i
      BY <1>0, <1>1, <2>2 DEF S3!P_Acquire, S3!Wait, S3!data
    <3>4. Takes' <=> Takes BY <1>0, <3>1 DEF S3!Move, Takes
    <3> QED BY <1>0, <3>2, <3>3, <3>4 DEF MCounts, MSlots, One
  <2> QED BY <1>1, <2>1, <2>2 DEF S3!P_Acquire
<1>2. ASSUME NEW t \in Producers, S3!P_Test(t) PROVE MSlots'
  <2>1. CASE S3!Step(t, "test", "x_nempty")
    <3>1. S3!Move(t, "test", "x_nempty") BY <1>2, <2>1 DEF S3!Step, S3!Consumer
    <3>2. MCounts(0, 0) BY <1>0, <3>1, MMoved DEF Delta, Empties, Storers
    <3>3. /\ sem3'["nempty"] = sem3["nempty"] /\ sem3'["nstored"] = sem3["nstored"]
          /\ nput' = nput /\ i' = i
      BY <1>0, <1>2, <2>1 DEF S3!P_Test, S3!Step, S3!data
    <3>4. Takes' <=> Takes BY <1>0, <3>1 DEF S3!Move, Takes
    <3> QED BY <1>0, <3>2, <3>3, <3>4 DEF MCounts, MSlots, One
  <2>2. CASE S3!Step(t, "test", "store")
    <3>1. S3!Move(t, "test", "store") BY <1>2, <2>2 DEF S3!Step, S3!Consumer
    <3>2. MCounts(0, 0) BY <1>0, <3>1, MMoved DEF Delta, Empties, Storers
    <3>3. /\ sem3'["nempty"] = sem3["nempty"] /\ sem3'["nstored"] = sem3["nstored"]
          /\ nput' = nput /\ i' = i
      BY <1>0, <1>2, <2>2 DEF S3!P_Test, S3!Step, S3!data
    <3>4. Takes' <=> Takes BY <1>0, <3>1 DEF S3!Move, Takes
    <3> QED BY <1>0, <3>2, <3>3, <3>4 DEF MCounts, MSlots, One
  <2> QED BY <1>2, <2>1, <2>2 DEF S3!P_Test
<1>3. ASSUME NEW t \in Producers, S3!P_Exit(t) PROVE MSlots'
  <2>1. CASE S3!Post(t, "x_nempty", "nempty", "x_mutex")
    <3>1. S3!Move(t, "x_nempty", "x_mutex") BY <1>3, <2>1 DEF S3!Post, S3!Consumer
    <3>2. MCounts(-1, 0) BY <1>0, <3>1, MMoved DEF Delta, Empties, Storers
    <3>3. /\ sem3'["nempty"] = sem3["nempty"] + 1 /\ sem3'["nstored"] = sem3["nstored"]
          /\ nput' = nput /\ i' = i
      BY <1>0, <1>3, <2>1 DEF S3!P_Exit, S3!Post, S3!data
    <3>4. Takes' <=> Takes BY <1>0, <3>1 DEF S3!Move, Takes
    <3> QED BY <1>0, <3>2, <3>3, <3>4 DEF MCounts, MSlots, One
  <2>2. CASE S3!Post(t, "x_mutex", "mutex", "done")
    <3>1. S3!Move(t, "x_mutex", "done") BY <1>3, <2>2 DEF S3!Post, S3!Consumer
    <3>2. MCounts(0, 0) BY <1>0, <3>1, MMoved DEF Delta, Empties, Storers
    <3>3. /\ sem3'["nempty"] = sem3["nempty"] /\ sem3'["nstored"] = sem3["nstored"]
          /\ nput' = nput /\ i' = i
      BY <1>0, <1>3, <2>2 DEF S3!P_Exit, S3!Post, S3!data
    <3>4. Takes' <=> Takes BY <1>0, <3>1 DEF S3!Move, Takes
    <3> QED BY <1>0, <3>2, <3>3, <3>4 DEF MCounts, MSlots, One
  <2> QED BY <1>3, <2>1, <2>2 DEF S3!P_Exit
<1>4. ASSUME NEW t \in Producers, S3!P_Store(t) PROVE MSlots'
  <2>1. CASE S3!Step(t, "store", "incr")
    <3>1. S3!Move(t, "store", "incr") BY <1>4, <2>1 DEF S3!Step, S3!Consumer
    <3>2. MCounts(0, 0) BY <1>0, <3>1, MMoved DEF Delta, Empties, Storers
    <3>3. /\ sem3'["nempty"] = sem3["nempty"] /\ sem3'["nstored"] = sem3["nstored"]
          /\ nput' = nput /\ i' = i
      BY <1>0, <1>4, <2>1 DEF S3!P_Store, S3!Step, S3!data
    <3>4. Takes' <=> Takes BY <1>0, <3>1 DEF S3!Move, Takes
    <3> QED BY <1>0, <3>2, <3>3, <3>4 DEF MCounts, MSlots, One
  <2> QED BY <1>4, <2>1 DEF S3!P_Store
<1>5. ASSUME NEW t \in Producers, S3!P_Incr(t) PROVE MSlots'
  <2>1. CASE S3!Step(t, "incr", "unlock")
    <3>1. S3!Move(t, "incr", "unlock") BY <1>5, <2>1 DEF S3!Step, S3!Consumer
    <3>2. MCounts(-1, 1) BY <1>0, <3>1, MMoved DEF Delta, Empties, Storers
    <3>3. /\ sem3'["nempty"] = sem3["nempty"] /\ sem3'["nstored"] = sem3["nstored"]
          /\ nput' = nput + 1 /\ i' = i
      BY <1>0, <1>5, <2>1 DEF S3!P_Incr, S3!Step, S3!data
    <3>4. Takes' <=> Takes BY <1>0, <3>1 DEF S3!Move, Takes
    <3> QED BY <1>0, <3>2, <3>3, <3>4 DEF MCounts, MSlots, One
  <2> QED BY <1>5, <2>1 DEF S3!P_Incr
<1>6. ASSUME NEW t \in Producers, S3!P_Release(t) PROVE MSlots'
  <2>1. CASE S3!Post(t, "unlock", "mutex", "nstored")
    <3>1. S3!Move(t, "unlock", "nstored") BY <1>6, <2>1 DEF S3!Post, S3!Consumer
    <3>2. MCounts(0, 0) BY <1>0, <3>1, MMoved DEF Delta, Empties, Storers
    <3>3. /\ sem3'["nempty"] = sem3["nempty"] /\ sem3'["nstored"] = sem3["nstored"]
          /\ nput' = nput /\ i' = i
      BY <1>0, <1>6, <2>1 DEF S3!P_Release, S3!Post, S3!data
    <3>4. Takes' <=> Takes BY <1>0, <3>1 DEF S3!Move, Takes
    <3> QED BY <1>0, <3>2, <3>3, <3>4 DEF MCounts, MSlots, One
  <2>2. CASE S3!Post(t, "nstored", "nstored", "nempty")
    <3>1. S3!Move(t, "nstored", "nempty") BY <1>6, <2>2 DEF S3!Post, S3!Consumer
    <3>2. MCounts(0, -1) BY <1>0, <3>1, MMoved DEF Delta, Empties, Storers
    <3>3. /\ sem3'["nempty"] = sem3["nempty"] /\ sem3'["nstored"] = sem3["nstored"] + 1
          /\ nput' = nput /\ i' = i
      BY <1>0, <1>6, <2>2 DEF S3!P_Release, S3!Post, S3!data
    <3>4. Takes' <=> Takes BY <1>0, <3>1 DEF S3!Move, Takes
    <3> QED BY <1>0, <3>2, <3>3, <3>4 DEF MCounts, MSlots, One
  <2> QED BY <1>6, <2>1, <2>2 DEF S3!P_Release
<1>7. CASE S3!C_Loop
  <2>1. CASE S3!Wait("consumer", "c_nstored", "nstored", "c_mutex") /\ UNCHANGED <<S3!data, main>>
    <3>1. S3!Move("consumer", "c_nstored", "c_mutex") BY <2>1 DEF S3!Wait, S3!Consumer
    <3>2. MCounts(0, 0) BY <1>0, <3>1, MMoved DEF Delta, Empties, Storers
    <3>3. /\ sem3'["nempty"] = sem3["nempty"] /\ sem3'["nstored"] = sem3["nstored"] - 1
          /\ nput' = nput /\ i' = i
      BY <1>0, <2>1 DEF S3!C_Loop, S3!Wait, S3!data
    <3>4. ~Takes /\ Takes' BY <1>0, <3>1 DEF S3!Move, Takes
    <3> QED BY <1>0, <3>2, <3>3, <3>4 DEF MCounts, MSlots, One
  <2>2. CASE S3!Step("consumer", "c_nstored", "done") /\ UNCHANGED <<S3!data, main>>
    <3>1. S3!Move("consumer", "c_nstored", "done") BY <2>2 DEF S3!Step, S3!Consumer
    <3>2. MCounts(0, 0) BY <1>0, <3>1, MMoved DEF Delta, Empties, Storers
    <3>3. /\ sem3'["nempty"] = sem3["nempty"] /\ sem3'["nstored"] = sem3["nstored"]
          /\ nput' = nput /\ i' = i
      BY <1>0, <2>2 DEF S3!C_Loop, S3!Step, S3!data
    <3>4. ~Takes /\ ~Takes' BY <1>0, <3>1 DEF S3!Move, Takes
    <3> QED BY <1>0, <3>2, <3>3, <3>4 DEF MCounts, MSlots, One
  <2>3. CASE S3!Wait("consumer", "c_mutex", "mutex", "c_check") /\ UNCHANGED <<S3!data, main>>
    <3>1. S3!Move("consumer", "c_mutex", "c_check") BY <2>3 DEF S3!Wait, S3!Consumer
    <3>2. MCounts(0, 0) BY <1>0, <3>1, MMoved DEF Delta, Empties, Storers
    <3>3. /\ sem3'["nempty"] = sem3["nempty"] /\ sem3'["nstored"] = sem3["nstored"]
          /\ nput' = nput /\ i' = i
      BY <1>0, <2>3 DEF S3!C_Loop, S3!Wait, S3!data
    <3>4. Takes /\ Takes' BY <1>0, <3>1 DEF S3!Move, Takes
    <3> QED BY <1>0, <3>2, <3>3, <3>4 DEF MCounts, MSlots, One
  <2>4. CASE S3!Step("consumer", "c_check", "c_unlock") /\ UNCHANGED <<S3!data, main>>
    <3>1. S3!Move("consumer", "c_check", "c_unlock") BY <2>4 DEF S3!Step, S3!Consumer
    <3>2. MCounts(0, 0) BY <1>0, <3>1, MMoved DEF Delta, Empties, Storers
    <3>3. /\ sem3'["nempty"] = sem3["nempty"] /\ sem3'["nstored"] = sem3["nstored"]
          /\ nput' = nput /\ i' = i
      BY <1>0, <2>4 DEF S3!C_Loop, S3!Step, S3!data
    <3>4. Takes /\ Takes' BY <1>0, <3>1 DEF S3!Move, Takes
    <3> QED BY <1>0, <3>2, <3>3, <3>4 DEF MCounts, MSlots, One
  <2>5. CASE S3!Post("consumer", "c_unlock", "mutex", "c_nempty") /\ UNCHANGED <<S3!data, main>>
    <3>1. S3!Move("consumer", "c_unlock", "c_nempty") BY <2>5 DEF S3!Post, S3!Consumer
    <3>2. MCounts(0, 0) BY <1>0, <3>1, MMoved DEF Delta, Empties, Storers
    <3>3. /\ sem3'["nempty"] = sem3["nempty"] /\ sem3'["nstored"] = sem3["nstored"]
          /\ nput' = nput /\ i' = i
      BY <1>0, <2>5 DEF S3!C_Loop, S3!Post, S3!data
    <3>4. Takes /\ Takes' BY <1>0, <3>1 DEF S3!Move, Takes
    <3> QED BY <1>0, <3>2, <3>3, <3>4 DEF MCounts, MSlots, One
  <2>6. CASE S3!Post("consumer", "c_nempty", "nempty", "c_nstored") /\ i' = i + 1 /\ nput' = nput
    <3>1. S3!Move("consumer", "c_nempty", "c_nstored") BY <2>6 DEF S3!Post, S3!Consumer
    <3>2. MCounts(0, 0) BY <1>0, <3>1, MMoved DEF Delta, Empties, Storers
    <3>3. /\ sem3'["nempty"] = sem3["nempty"] + 1 /\ sem3'["nstored"] = sem3["nstored"]
          /\ nput' = nput /\ i' = i + 1
      BY <1>0, <2>6 DEF S3!C_Loop, S3!Post, S3!data
    <3>4. Takes /\ ~Takes' BY <1>0, <3>1 DEF S3!Move, Takes
    <3> QED BY <1>0, <3>2, <3>3, <3>4 DEF MCounts, MSlots, One
  <2> QED BY <1>7, <2>1, <2>2, <2>3, <2>4, <2>5, <2>6 DEF S3!C_Loop, S3!Consumer
<1>8. CASE S3!M_Create
  <2>1. PICK t \in S3!Threads, b \in {"nempty", "c_nstored"} : S3!Step(t, "unborn", b)
    BY <1>8 DEF S3!M_Create, S3!Threads
  <2>2. S3!Move(t, "unborn", b) /\ sem3' = sem3 /\ nput' = nput /\ i' = i
    BY <1>8, <2>1 DEF S3!M_Create, S3!Step, S3!data
  <2>3. MCounts(0, 0)
    <3>1. MCounts(Delta(Producers, Empties, t, "unborn", b), Delta(Producers, Storers, t, "unborn", b))
      BY <1>0, <2>2, MMoved
    <3> QED BY <2>1, <3>1 DEF Delta, Empties, Storers
  <2>4. Takes' <=> Takes BY <1>0, <2>1, <2>2 DEF S3!Move, Takes
  <2> QED BY <1>0, <2>2, <2>3, <2>4 DEF MCounts, MSlots, One
<1>9. CASE S3!M_Join BY <1>9 DEF S3!M_Join, S3!data, MSlots, EmptyHeld, ItemsHeld, Takes
<1>10. CASE S3!Returned BY <1>10 DEF S3!Returned, S3!vars, S3!data, MSlots, EmptyHeld, ItemsHeld, Takes
<1> QED BY <1>1, <1>2, <1>3, <1>4, <1>5, <1>6, <1>7, <1>8, <1>9, <1>10 DEF S3!Next, S3!Producer

\* The items in the buffer number 0 to Slots, and a producer that took nempty
\* finds a free slot.
LEMMA MRoom ==
  ASSUME MTypes, MSlots
  PROVE  /\ i <= nput
         /\ Takes => i < nput
         /\ \A t \in Producers : pc3[t] \in Empties => nput < i + Slots
<1>1. IsFiniteSet(Producers) /\ Slots \in Nat BY ManyToOneAssumption
<1>2. EmptyHeld \in Nat /\ ItemsHeld \in Nat BY <1>1, CntNat DEF EmptyHeld, ItemsHeld
<1>3. nput \in Nat /\ i \in Nat /\ sem3["nempty"] \in Nat /\ sem3["nstored"] \in Nat
  BY DEF MTypes, SemNames3
<1>4. i <= nput BY <1>2, <1>3 DEF MSlots, One
<1>5. Takes => i < nput BY <1>2, <1>3 DEF MSlots, One
<1>6. ASSUME NEW t \in Producers, pc3[t] \in Empties PROVE nput < i + Slots
  <2>1. EmptyHeld >= 1 BY <1>1, <1>6, CntPositive DEF EmptyHeld
  <2> QED BY <1>1, <1>2, <1>3, <2>1 DEF MSlots
<1> QED BY <1>4, <1>5, <1>6

\* Every step keeps the stored items in their slots.
LEMMA MItemStep == ASSUME MInv, S3!Next PROVE MItems'
<1>0. /\ MTypes /\ MLock /\ MSlots /\ MItems /\ nput \in Nat /\ i \in Nat /\ i <= nput
      /\ Slots \in Nat \ {0} /\ NItems \in Int /\ DOMAIN pc3 = S3!Threads
      /\ buf \in [0..(Slots - 1) -> Nat] /\ nputval = nput
      /\ "consumer" \notin Producers /\ Producers \subseteq S3!Threads
  <2>1. MTypes /\ MLock /\ MSlots /\ MItems BY DEF MInv
  <2>2. i <= nput BY <2>1, MRoom
  <2> QED BY <2>1, <2>2, ManyToOneAssumption DEF MTypes, MItems, S3!Threads
<1>1. ASSUME NEW t \in S3!Threads, NEW a, NEW b, S3!Move(t, a, b), UNCHANGED <<buf, nput, nputval>>,
             i' \in {i, i + 1}, b \notin {"store", "incr"}
      PROVE  MItems'
  <2>1. \A u \in Producers : pc3'[u] \in {"store", "incr"} => pc3'[u] = pc3[u]
    BY <1>0, <1>1 DEF S3!Move
  <2>2. \A k \in i'..(nput' - 1) : k \in i..(nput - 1) BY <1>0, <1>1
  <2> QED BY <1>0, <1>1, <2>1, <2>2 DEF MItems
<1>2. ASSUME NEW t \in Producers, S3!P_Acquire(t) PROVE MItems'
  BY <1>0, <1>1, <1>2 DEF S3!P_Acquire, S3!Wait, S3!data
<1>3. ASSUME NEW t \in Producers, S3!P_Exit(t) PROVE MItems'
  BY <1>0, <1>1, <1>3 DEF S3!P_Exit, S3!Post, S3!data
<1>4. ASSUME NEW t \in Producers, S3!P_Release(t) PROVE MItems'
  BY <1>0, <1>1, <1>4 DEF S3!P_Release, S3!Post, S3!data
<1>5. ASSUME NEW t \in Producers, S3!P_Test(t) PROVE MItems'
  <2>1. CASE nput >= NItems BY <1>0, <1>1, <1>5, <2>1 DEF S3!P_Test, S3!Step, S3!data
  <2>2. CASE ~(nput >= NItems)
    <3>1. pc3' = [pc3 EXCEPT ![t] = "store"] /\ UNCHANGED <<buf, nput, nputval, i>>
      BY <1>5, <2>2 DEF S3!P_Test, S3!Step, S3!Move, S3!data
    <3> QED BY <1>0, <2>2, <3>1 DEF MItems
  <2> QED BY <2>1, <2>2
<1>6. ASSUME NEW t \in Producers, S3!P_Store(t) PROVE MItems'
  <2>1. /\ pc3[t] = "store" /\ pc3' = [pc3 EXCEPT ![t] = "incr"] /\ UNCHANGED <<nput, nputval, i>>
        /\ buf' = [buf EXCEPT ![nput % Slots] = nput]
    BY <1>0, <1>6 DEF S3!P_Store, S3!Step, S3!Move
  <2>2. nput < i + Slots BY <1>0, <2>1, MRoom DEF Empties
  <2>3. buf'[nput % Slots] = nput BY <1>0, <2>1, ModIn
  <2>4. ASSUME NEW k \in i..(nput - 1) PROVE buf'[k % Slots] = k
    <3>1. k \in Nat /\ k < nput /\ nput < k + Slots BY <1>0, <2>2
    <3>2. k % Slots # nput % Slots /\ k % Slots \in 0..(Slots - 1) BY <1>0, <3>1, ModDistinct, ModIn
    <3> QED BY <1>0, <2>1, <3>2 DEF MItems
  <2>5. nput < NItems BY <1>0, <2>1 DEF MItems
  <2> QED BY <1>0, <2>1, <2>3, <2>4, <2>5 DEF MItems
<1>7. ASSUME NEW t \in Producers, S3!P_Incr(t) PROVE MItems'
  <2>1. /\ pc3[t] = "incr" /\ pc3' = [pc3 EXCEPT ![t] = "unlock"] /\ UNCHANGED <<buf, i>>
        /\ nput' = nput + 1 /\ nputval' = nputval + 1
    BY <1>7 DEF S3!P_Incr, S3!Step, S3!Move
  <2>2. \A u \in Producers : pc3'[u] \notin {"store", "incr"}
    BY <1>0, <2>1 DEF MLock, Locked
  <2>3. buf[nput % Slots] = nput BY <1>0, <2>1 DEF MItems
  <2>4. \A k \in i'..(nput' - 1) : k = nput \/ k \in i..(nput - 1) BY <1>0, <2>1
  <2> QED BY <1>0, <2>1, <2>2, <2>3, <2>4 DEF MItems
<1>8. CASE S3!C_Loop
  <2>1. "consumer" \in S3!Threads BY DEF S3!Threads, S3!Consumer
  <2>2. PICK a \in ConsumerPoints, b \in ConsumerPoints : S3!Move("consumer", a, b)
    BY <1>8 DEF S3!C_Loop, S3!Wait, S3!Post, S3!Step, ConsumerPoints, S3!Consumer
  <2>3. b \notin {"store", "incr"} BY DEF ConsumerPoints
  <2>4. UNCHANGED <<buf, nput, nputval>> /\ i' \in {i, i + 1} BY <1>8 DEF S3!C_Loop, S3!data
  <2> QED BY <1>1, <2>1, <2>2, <2>3, <2>4
<1>9. CASE S3!M_Create
  <2>1. PICK t \in S3!Threads, b \in {"nempty", "c_nstored"} : S3!Move(t, "unborn", b)
    BY <1>9 DEF S3!M_Create, S3!Step, S3!Threads
  <2>2. UNCHANGED <<buf, nput, nputval, i>> BY <1>9 DEF S3!M_Create, S3!data
  <2> QED BY <1>1, <2>1, <2>2
<1>10. CASE S3!M_Join \/ S3!Returned
  BY <1>0, <1>10 DEF S3!M_Join, S3!Returned, S3!vars, S3!data, MItems
<1> QED BY <1>2, <1>3, <1>4, <1>5, <1>6, <1>7, <1>8, <1>9, <1>10 DEF S3!Next, S3!Producer

\* The queue of the refinement mapping holds the items taken, ..., nput - 1.
LEMMA MQueue ==
  ASSUME MInv
  PROVE  /\ S3!taken \in Nat /\ i <= S3!taken /\ S3!taken <= nput
         /\ [k \in 1..(nput - S3!taken) |-> buf[(S3!taken + k - 1) % Slots]] = Items(S3!taken, nput)
<1>1. MTypes /\ MSlots /\ MItems /\ nput \in Nat /\ i \in Nat BY DEF MInv, MTypes
<1>2. i <= nput /\ (Takes => i < nput) BY <1>1, MRoom
<1>3. PICK lo : lo = S3!taken OBVIOUS
<1>4. lo \in Nat /\ i <= lo /\ lo <= nput
  BY <1>1, <1>2, <1>3 DEF S3!taken, S3!Consumer, Takes
<1>5. ASSUME NEW k \in 1..(nput - lo) PROVE buf[(lo + k - 1) % Slots] = lo + k - 1
  <2>1. lo + k - 1 \in i..(nput - 1) BY <1>1, <1>4
  <2> QED BY <1>1, <2>1 DEF MItems
<1>6. [k \in 1..(nput - lo) |-> buf[(lo + k - 1) % Slots]] = Items(lo, nput) BY <1>5 DEF Items
<1> QED BY <1>3, <1>4, <1>6

\* Storing an item and counting it is Put, comparing one is Get; no other step
\* is seen by the FIFO.
LEMMA MFifoStep ==
  ASSUME MInv, MInv', S3!Next
  PROVE  [S3!Fifo!Next]_(S3!Fifo!fifoVars)
<1> DEFINE q == [k \in 1..(nput - S3!taken) |-> buf[(S3!taken + k - 1) % Slots]]
<1>0. /\ MTypes /\ MLock /\ MSlots /\ MItems /\ nput \in Nat /\ nputval = nput
      /\ DOMAIN pc3 = S3!Threads /\ "consumer" \in S3!Threads
      /\ nputval' = nput' /\ nput' \in Nat /\ i \in Nat
      /\ "consumer" \notin Producers /\ Slots \in Nat /\ NItems \in Int
  BY ManyToOneAssumption DEF MInv, MTypes, MItems, S3!Threads, S3!Consumer
<1>1. S3!taken \in Nat /\ i <= S3!taken /\ S3!taken <= nput /\ q = Items(S3!taken, nput)
  BY MQueue
<1>2. S3!taken' \in Nat /\ S3!taken' <= nput' /\ q' = Items(S3!taken', nput')
  <2>1. (S3!taken \in Nat /\ i <= S3!taken /\ S3!taken <= nput /\ q = Items(S3!taken, nput))'
    BY MQueue, PTL
  <2> QED BY <2>1
<1> HIDE DEF q
<1>3. ASSUME nput' = nput, S3!taken' = S3!taken PROVE UNCHANGED S3!Fifo!fifoVars
  BY <1>0, <1>1, <1>2, <1>3 DEF S3!Fifo!fifoVars, q
<1>4. ASSUME NEW t \in Producers, S3!P_Incr(t) PROVE S3!Fifo!Put
  <2>1. pc3[t] = "incr" /\ pc3'["consumer"] = pc3["consumer"] /\ nput' = nput + 1 /\ i' = i
    BY <1>0, <1>4 DEF S3!P_Incr, S3!Step, S3!Move
  <2>2. S3!taken' = S3!taken BY <2>1 DEF S3!taken, S3!Consumer
  <2>3. nput < NItems /\ nput < i + Slots BY <1>0, <2>1, MRoom DEF MItems, Empties
  <2>4. Len(q) < Slots
    <3>1. Len(q) = nput - S3!taken BY <1>0, <1>1, ItemsSeq
    <3> QED BY <1>0, <1>1, <2>3, <3>1
  <2>5. q' = Append(q, nput)
    <3>1. Items(S3!taken, nput + 1) = Append(Items(S3!taken, nput), nput) BY <1>0, <1>1, ItemsPut
    <3> QED BY <1>1, <1>2, <2>1, <2>2, <3>1
  <2> QED BY <1>0, <2>1, <2>2, <2>3, <2>4, <2>5 DEF S3!Fifo!Put, q
<1>5. ASSUME S3!Step("consumer", "c_check", "c_unlock"), nput' = nput, i' = i PROVE S3!Fifo!Get
  <2>1. pc3["consumer"] = "c_check" /\ pc3'["consumer"] = "c_unlock"
    BY <1>0, <1>5 DEF S3!Step, S3!Move
  <2>2. S3!taken = i /\ S3!taken' = i + 1 BY <1>0, <1>5, <2>1 DEF S3!taken, S3!Consumer
  <2>3. S3!taken < nput BY <1>0, <2>1, <2>2, MRoom DEF Takes
  <2>4. /\ Items(S3!taken, nput) # << >> /\ Head(Items(S3!taken, nput)) = S3!taken
        /\ Tail(Items(S3!taken, nput)) = Items(S3!taken + 1, nput)
    BY <1>0, <1>1, <2>3, ItemsGet
  <2>5. q # << >> /\ Head(q) = S3!taken /\ q' = Tail(q) BY <1>1, <1>2, <1>5, <2>2, <2>4
  <2> QED BY <1>0, <1>5, <2>2, <2>5 DEF S3!Fifo!Get, q
<1>6. ASSUME NEW t \in Producers, S3!P_Acquire(t) \/ S3!P_Test(t) \/ S3!P_Exit(t) \/ S3!P_Store(t) \/ S3!P_Release(t)
      PROVE  UNCHANGED S3!Fifo!fifoVars
  <2>1. PICK b : pc3' = [pc3 EXCEPT ![t] = b]
    BY <1>6 DEF S3!P_Acquire, S3!P_Test, S3!P_Exit, S3!P_Store, S3!P_Release, S3!Wait, S3!Post, S3!Step, S3!Move
  <2>2. nput' = nput /\ i' = i
    BY <1>6 DEF S3!P_Acquire, S3!P_Test, S3!P_Exit, S3!P_Store, S3!P_Release, S3!data
  <2>3. pc3'["consumer"] = pc3["consumer"] BY <1>0, <2>1
  <2>4. S3!taken' = S3!taken BY <2>2, <2>3 DEF S3!taken, S3!Consumer
  <2> QED BY <1>3, <2>2, <2>4
<1>7. CASE S3!C_Loop
  <2>1. CASE S3!Step("consumer", "c_check", "c_unlock") /\ UNCHANGED <<S3!data, main>>
    BY <1>5, <2>1 DEF S3!data, S3!Fifo!Next
  <2>2. CASE S3!Post("consumer", "c_nempty", "nempty", "c_nstored") /\ i' = i + 1 /\ nput' = nput
    <3>1. pc3["consumer"] = "c_nempty" /\ pc3'["consumer"] = "c_nstored"
      BY <1>0, <2>2 DEF S3!Post, S3!Move
    <3>2. S3!taken' = S3!taken BY <2>2, <3>1 DEF S3!taken, S3!Consumer
    <3> QED BY <1>3, <2>2, <3>2
  <2>3. ASSUME NEW a, NEW b, S3!Move("consumer", a, b), nput' = nput, i' = i,
               a \in {"c_unlock", "c_nempty"} <=> b \in {"c_unlock", "c_nempty"}
        PROVE  UNCHANGED S3!Fifo!fifoVars
    <3>1. pc3["consumer"] = a /\ pc3'["consumer"] = b BY <1>0, <2>3 DEF S3!Move
    <3>2. S3!taken' = S3!taken BY <2>3, <3>1 DEF S3!taken, S3!Consumer
    <3> QED BY <1>3, <2>3, <3>2
  <2>4. CASE S3!Wait("consumer", "c_nstored", "nstored", "c_mutex") /\ UNCHANGED <<S3!data, main>>
    BY <2>3, <2>4 DEF S3!Wait, S3!data
  <2>5. CASE S3!Step("consumer", "c_nstored", "done") /\ UNCHANGED <<S3!data, main>>
    BY <2>3, <2>5 DEF S3!Step, S3!data
  <2>6. CASE S3!Wait("consumer", "c_mutex", "mutex", "c_check") /\ UNCHANGED <<S3!data, main>>
    BY <2>3, <2>6 DEF S3!Wait, S3!data
  <2>7. CASE S3!Post("consumer", "c_unlock", "mutex", "c_nempty") /\ UNCHANGED <<S3!data, main>>
    BY <2>3, <2>7 DEF S3!Post, S3!data
  <2> QED BY <1>7, <2>1, <2>2, <2>4, <2>5, <2>6, <2>7 DEF S3!C_Loop, S3!Consumer
<1>8. CASE S3!M_Create
  <2>1. PICK t \in S3!Threads, b \in {"nempty", "c_nstored"} :
          pc3[t] = "unborn" /\ pc3' = [pc3 EXCEPT ![t] = b]
    BY <1>8 DEF S3!M_Create, S3!Step, S3!Move, S3!Threads
  <2>2. nput' = nput /\ i' = i BY <1>8 DEF S3!M_Create, S3!data
  <2>3. pc3'["consumer"] \in {"c_unlock", "c_nempty"} <=> pc3["consumer"] \in {"c_unlock", "c_nempty"}
    BY <1>0, <2>1
  <2>4. S3!taken' = S3!taken BY <2>2, <2>3 DEF S3!taken, S3!Consumer
  <2> QED BY <1>3, <2>2, <2>4
<1>9. CASE S3!M_Join \/ S3!Returned
  BY <1>9 DEF S3!M_Join, S3!Returned, S3!vars, S3!data, S3!taken, S3!Fifo!fifoVars
<1> QED BY <1>4, <1>6, <1>7, <1>8, <1>9 DEF S3!Next, S3!Producer, S3!Fifo!Next

\* The invariant is inductive.
LEMMA MStep == ASSUME MInv, [Next]_vars PROVE MInv' /\ [S3!Fifo!Next]_(S3!Fifo!fifoVars)
<1>1. CASE In3(S3!Next)
  <2>1. S3!Next BY <1>1 DEF In3
  <2>2. MInv' BY <2>1, MTypeStep, MLockStep, MSlotStep, MItemStep DEF MInv
  <2> QED BY <2>1, <2>2, MFifoStep
<1>2. CASE UNCHANGED vars3
  BY <1>2 DEF vars3, MInv, MTypes, MLock, MSlots, MItems, EmptyHeld, ItemsHeld, Takes,
     S3!taken, S3!Fifo!fifoVars
<1> QED BY <1>1, <1>2 DEF Next, In1, InM, InT, vars

\* sem_prodcons3.c implements the bounded FIFO for any producers, any number of
\* slots and any number of items: the items are handed over in order and
\* exactly once, although producers that find all items put give slots back.
THEOREM HandsOverInOrder == Spec => ManyToOneFifo
<1>1. Init => MInv BY MInit
<1>2. Init => S3!Fifo!Init
  <2> SUFFICES ASSUME Init PROVE S3!Fifo!Init OBVIOUS
  <2>1. /\ nput = 0 /\ nputval = 0 /\ i = 0 /\ pc3 = [t \in S3!Threads |-> "unborn"]
        /\ "consumer" \in S3!Threads
    BY DEF Init, S3!Init, S3!Threads, S3!Consumer
  <2>2. S3!taken = 0 BY <2>1 DEF S3!taken, S3!Consumer
  <2>3. [k \in 1..(nput - S3!taken) |-> buf[(S3!taken + k - 1) % Slots]] = Items(S3!taken, nput)
    BY <1>1, MQueue
  <2>4. Items(0, 0) = << >> BY ItemsEmpty
  <2> QED BY <2>1, <2>2, <2>3, <2>4 DEF S3!Fifo!Init
<1>3. MInv /\ [Next]_vars => MInv' /\ [S3!Fifo!Next]_(S3!Fifo!fifoVars) BY MStep
<1> QED BY <1>1, <1>2, <1>3, PTL DEF Spec, ManyToOneFifo, S3!FifoSpec, S3!Fifo!Spec

-----------------------------------------------------------------------------
(***************************************************************************)
(* Overlapping runs of sem_prodcons1.c and sem_prodcons2.c                 *)
(***************************************************************************)
RunPoints ==
  {"unborn", "nempty", "mutex", "store", "unlock", "stored", "nstored", "check", "emptied", "done"}
RunThreads == {"producer", "consumer"}

\* main() before it has created the threads, while it has the semaphore s open
\* and its name, and while it only has the name.
Early == {S1!At("idle", 0), S1!At("open", 1), S1!At("open", 2), S1!At("open", 3), S1!At("create", 0)}
Opened(s) ==
  {S1!At("create", 0), S1!At("join", 0)}
    \cup (IF s = "mutex" THEN {S1!At("open", 2)} ELSE {})
    \cup (IF s \in {"mutex", "nempty"} THEN {S1!At("open", 3)} ELSE {})
Unlinking(s) ==
  {S1!At("unlink", 1)}
    \cup (IF s \in {"nempty", "nstored"} THEN {S1!At("unlink", 2)} ELSE {})
    \cup (IF s = "nstored" THEN {S1!At("unlink", 3)} ELSE {})

RTypes ==
  /\ sem1 \in [Runs \X SemNames3 -> Nat]
  /\ pc1 \in [Runs \X RunThreads -> RunPoints]
  /\ names \in [SemNames3 -> Runs \cup {"none"}]
  /\ handle \in [Runs -> [SemNames3 -> Runs \cup {"none"}]]
  /\ bufs \in [Runs -> [0..(RunSlots - 1) -> Nat]]
  /\ pi \in [Runs -> Nat] /\ ci \in [Runs -> Nat]
  /\ DOMAIN mains = Runs

\* While both threads run: the slots and the items are accounted for, and the
\* items lie in their slots.
RCount(r) ==
  /\ sem1[<<r, "nempty">>] + One(pc1[<<r, "producer">>] \in {"mutex", "store", "unlock", "stored"})
       + (pi[r] - ci[r]) = RunSlots
  /\ sem1[<<r, "nstored">>] + One(pc1[<<r, "consumer">>] \in {"mutex", "check", "unlock", "emptied"})
       = pi[r] - ci[r]
  /\ \A k \in ci[r]..(pi[r] - 1) : bufs[r][k % RunSlots] = k
  /\ pc1[<<r, "producer">>] \in {"unlock", "stored"} => bufs[r][pi[r] % RunSlots] = pi[r]

\* A run uses the semaphores it has created itself.
ROwn(r) ==
  /\ mains[r] \in Early => /\ pc1[<<r, "producer">>] = "unborn" /\ pc1[<<r, "consumer">>] = "unborn"
                           /\ pi[r] = 0 /\ ci[r] = 0
  /\ \A s \in SemNames3 :
       /\ mains[r] \in Opened(s) => handle[r][s] = r
       /\ mains[r] \in Opened(s) \ {S1!At("join", 0)} => sem1[<<r, s>>] = S1!InitialValue(s)
  /\ mains[r] = S1!At("join", 0) => RCount(r)

\* It owns the name of a semaphore from sem_open to sem_unlink.
RNames(r) ==
  r \notin MemoryRuns => \A s \in SemNames3 : mains[r] \in Opened(s) \cup Unlinking(s) => names[s] = r

RInv == RTypes /\ \A r \in Runs : ROwn(r) /\ RNames(r)

\* Control points of main() with different labels or numbers are different.
LEMMA Labels ==
  \A a, b, k, l : S1!At(a, k) = S1!At(b, l) <=> a = b /\ k = l
BY DEF S1!At

\* The names in the order main() uses.
LEMMA Order ==
  /\ S1!SemNames[1] = "mutex" /\ S1!SemNames[2] = "nempty" /\ S1!SemNames[3] = "nstored"
  /\ S1!Names = SemNames3
<1>1. S1!SemNames[1] = "mutex" /\ S1!SemNames[2] = "nempty" /\ S1!SemNames[3] = "nstored"
  BY DEF S1!SemNames
<1>2. 1..3 = {1, 2, 3} OBVIOUS
<1> QED BY <1>1, <1>2 DEF S1!Names, SemNames3

\* No run has been started.
LEMMA RInit == ASSUME Init PROVE RInv
<1>1. /\ sem1 = [o \in Runs \X SemNames3 |-> 0]
      /\ pc1 = [t \in Runs \X RunThreads |-> "unborn"]
      /\ names = [s \in SemNames3 |-> "none"]
      /\ handle = [r \in Runs |-> [s \in SemNames3 |-> "none"]]
      /\ bufs = [r \in Runs |-> [k \in 0..(RunSlots - 1) |-> 0]]
      /\ pi = [r \in Runs |-> 0] /\ ci = [r \in Runs |-> 0]
      /\ mains = [r \in Runs |-> S1!At("idle", 0)]
  BY Order DEF Init, S1!Init, S1!Threads, S1!None, RunThreads
<1>2. RTypes BY <1>1 DEF RTypes, RunPoints
<1>3. ASSUME NEW r \in Runs PROVE ROwn(r) /\ RNames(r)
  <2>1. mains[r] = S1!At("idle", 0) BY <1>1
  <2>2. \A s \in SemNames3 : mains[r] \notin Opened(s) \cup Unlinking(s)
    BY <2>1, Labels DEF Opened, Unlinking
  <2>3. mains[r] # S1!At("join", 0) BY <2>1, Labels
  <2>4. pc1[<<r, "producer">>] = "unborn" /\ pc1[<<r, "consumer">>] = "unborn" BY <1>1 DEF RunThreads
  <2> QED BY <1>1, <2>2, <2>3, <2>4 DEF ROwn, RNames
<1> QED BY <1>2, <1>3 DEF RInv

\* A step leaves what belongs to run r alone.
Apart(r) ==
  /\ mains'[r] = mains[r] /\ handle'[r] = handle[r]
  /\ bufs'[r] = bufs[r] /\ pi'[r] = pi[r] /\ ci'[r] = ci[r]
  /\ \A x \in RunThreads : pc1'[<<r, x>>] = pc1[<<r, x>>]
  /\ \A s \in SemNames3 : sem1'[<<r, s>>] = sem1[<<r, s>>]

\* Then r still uses the semaphores it has created itself.
LEMMA RFrame == ASSUME NEW r \in Runs, ROwn(r), Apart(r) PROVE ROwn(r)'
<1>1. /\ sem1'[<<r, "nempty">>] = sem1[<<r, "nempty">>] /\ sem1'[<<r, "nstored">>] = sem1[<<r, "nstored">>]
      /\ pc1'[<<r, "producer">>] = pc1[<<r, "producer">>] /\ pc1'[<<r, "consumer">>] = pc1[<<r, "consumer">>]
      /\ mains'[r] = mains[r] /\ handle'[r] = handle[r]
      /\ bufs'[r] = bufs[r] /\ pi'[r] = pi[r] /\ ci'[r] = ci[r]
  BY DEF Apart, SemNames3, RunThreads
<1>2. RCount(r) => RCount(r)' BY <1>1 DEF RCount
<1> QED BY <1>1, <1>2 DEF ROwn, Apart

\* What a step of run u does: only u's part changes, and only names that were
\* free or u's own.
KeepsNames(u) == \A s \in SemNames3 : names[s] \notin {"none", u} => names'[s] = names[s]
Alone(u) ==
  /\ RTypes' /\ ROwn(u)' /\ RNames(u)' /\ KeepsNames(u)
  /\ \A r \in Runs : r # u => Apart(r)

\* A step of main() that changes neither a semaphore nor a name.
LEMMA MainStep ==
  ASSUME RTypes, NEW u \in Runs, NEW l, mains' = [mains EXCEPT ![u] = l],
         UNCHANGED <<sem1, pc1, handle, bufs, pi, ci>>
  PROVE  /\ mains'[u] = l
         /\ names' \in [SemNames3 -> Runs \cup {"none"}] => RTypes'
         /\ \A r \in Runs : r # u => Apart(r)
         /\ l \notin Early /\ l # S1!At("join", 0) /\ (\A s \in SemNames3 : l \notin Opened(s)) => ROwn(u)'
<1>1. mains'[u] = l /\ DOMAIN mains' = Runs /\ \A r \in Runs : r # u => mains'[r] = mains[r]
  BY DEF RTypes
<1>2. names' \in [SemNames3 -> Runs \cup {"none"}] => RTypes' BY <1>1 DEF RTypes
<1>3. \A r \in Runs : r # u => Apart(r) BY <1>1 DEF Apart
<1>4. l \notin Early /\ l # S1!At("join", 0) /\ (\A s \in SemNames3 : l \notin Opened(s)) => ROwn(u)'
  BY <1>1 DEF ROwn
<1> QED BY <1>1, <1>2, <1>3, <1>4

\* The user starts a run, or a signal ends one.
LEMMA StartKill == ASSUME RInv, NEW u \in Runs, S1!Start(u) \/ S1!Kill(u) PROVE Alone(u)
<1>0. RTypes /\ ROwn(u) /\ names \in [SemNames3 -> Runs \cup {"none"}] BY DEF RInv, RTypes
<1>1. PICK l \in {S1!At("open", 1), S1!At("killed", 0)} :
        /\ mains' = [mains EXCEPT ![u] = l]
        /\ l = S1!At("open", 1) => mains[u] = S1!At("idle", 0)
  BY Labels DEF S1!Start, S1!Kill
<1>2. UNCHANGED <<sem1, pc1, names, handle, bufs, pi, ci>> BY DEF S1!Start, S1!Kill, S1!local
<1>3. /\ mains'[u] = l /\ RTypes' /\ \A r \in Runs : r # u => Apart(r)
  BY <1>0, <1>1, <1>2, MainStep
<1>4. l # S1!At("join", 0) /\ \A s \in SemNames3 : l \notin Opened(s) \cup Unlinking(s)
  BY Labels DEF Opened, Unlinking
<1>5. ROwn(u)'
  <2>1. CASE l = S1!At("open", 1)
    <3>1. mains[u] \in Early BY <1>1, <2>1 DEF Early
    <3> QED BY <1>0, <1>2, <1>3, <1>4, <3>1 DEF ROwn
  <2>2. CASE l = S1!At("killed", 0)
    <3>1. l \notin Early BY <2>2, Labels DEF Early
    <3> QED BY <1>3, <1>4, <3>1 DEF ROwn
  <2> QED BY <2>1, <2>2
<1>6. RNames(u)' BY <1>3, <1>4 DEF RNames
<1>7. KeepsNames(u) BY <1>2 DEF KeepsNames
<1> QED BY <1>3, <1>5, <1>6, <1>7 DEF Alone

\* sem_open creates the semaphore and its name, or the run exits.
LEMMA Opens == ASSUME RInv, NEW u \in Runs, S1!Open(u) PROVE Alone(u)
<1>0. /\ RTypes /\ ROwn(u) /\ RNames(u) /\ names \in [SemNames3 -> Runs \cup {"none"}]
      /\ handle \in [Runs -> [SemNames3 -> Runs \cup {"none"}]]
      /\ sem1 \in [Runs \X SemNames3 -> Nat] /\ RunSlots \in Nat
  BY RunsAssumption DEF RInv, RTypes
<1>1. PICK k \in 1..3 :
        LET s == S1!SemNames[k] IN
          /\ u \notin MemoryRuns /\ mains[u] = S1!At("open", k)
          /\ IF names[s] = "none"
               THEN /\ mains' = [mains EXCEPT ![u] = IF k = 3 THEN S1!At("create", 0) ELSE S1!At("open", k + 1)]
                    /\ names' = [names EXCEPT ![s] = u]
                    /\ handle' = [handle EXCEPT ![u][s] = u]
                    /\ sem1' = [sem1 EXCEPT ![<<u, s>>] = S1!InitialValue(s)]
               ELSE /\ mains' = [mains EXCEPT ![u] = S1!At("exited", 0)]
                    /\ UNCHANGED <<names, handle, sem1>>
          /\ UNCHANGED <<pc1, bufs, pi, ci>>
  BY DEF S1!Open, S1!None, S1!local
<1>2. PICK s : s = S1!SemNames[k] OBVIOUS
<1>3. /\ s \in SemNames3
      /\ k = 1 => s = "mutex"
      /\ k = 2 => s = "nempty"
      /\ k = 3 => s = "nstored"
  <2>1. k \in {1, 2, 3} OBVIOUS
  <2> QED BY <1>2, <2>1, Order DEF SemNames3
<1>4. CASE names[s] # "none"
  <2>1. mains' = [mains EXCEPT ![u] = S1!At("exited", 0)] /\ UNCHANGED <<sem1, pc1, names, handle, bufs, pi, ci>>
    BY <1>1, <1>2, <1>4
  <2>2. /\ S1!At("exited", 0) \notin Early /\ S1!At("exited", 0) # S1!At("join", 0)
        /\ \A x \in SemNames3 : S1!At("exited", 0) \notin Opened(x) \cup Unlinking(x)
    BY Labels DEF Early, Opened, Unlinking
  <2>3. /\ mains'[u] = S1!At("exited", 0) /\ RTypes' /\ ROwn(u)' /\ \A r \in Runs : r # u => Apart(r)
    <3>1. PICK l : l = S1!At("exited", 0) OBVIOUS
    <3>2. l \notin Early /\ l # S1!At("join", 0) /\ \A x \in SemNames3 : l \notin Opened(x)
      BY <2>2, <3>1
    <3>3. /\ mains' = [mains EXCEPT ![u] = l] /\ names' \in [SemNames3 -> Runs \cup {"none"}]
          /\ UNCHANGED <<sem1, pc1, handle, bufs, pi, ci>>
      BY <1>0, <2>1, <3>1
    <3>4. /\ mains'[u] = l /\ RTypes' /\ ROwn(u)' /\ \A r \in Runs : r # u => Apart(r)
      BY <1>0, <3>2, <3>3, MainStep
    <3> QED BY <3>1, <3>4
  <2> QED BY <2>1, <2>2, <2>3 DEF Alone, RNames, KeepsNames
<1>5. CASE names[s] = "none"
  <2>1. PICK l : l = IF k = 3 THEN S1!At("create", 0) ELSE S1!At("open", k + 1) OBVIOUS
  <2>2. /\ mains[u] = S1!At("open", k) /\ mains' = [mains EXCEPT ![u] = l]
        /\ names' = [names EXCEPT ![s] = u]
        /\ handle' = [handle EXCEPT ![u][s] = u]
        /\ sem1' = [sem1 EXCEPT ![<<u, s>>] = S1!InitialValue(s)]
        /\ UNCHANGED <<pc1, bufs, pi, ci>>
    BY <1>1, <1>2, <1>5, <2>1
  <2>3. mains'[u] = l /\ DOMAIN mains' = Runs /\ \A r \in Runs : r # u => mains'[r] = mains[r]
    BY <1>0, <2>2 DEF RTypes
  <2>4. S1!InitialValue(s) \in Nat BY <1>0, <1>3 DEF S1!InitialValue, SemNames3
  <2>5. /\ sem1' \in [Runs \X SemNames3 -> Nat] /\ sem1'[<<u, s>>] = S1!InitialValue(s)
        /\ \A r \in Runs, x \in SemNames3 : <<r, x>> # <<u, s>> => sem1'[<<r, x>>] = sem1[<<r, x>>]
    BY <1>0, <1>3, <2>2, <2>4
  <2>6. /\ handle' \in [Runs -> [SemNames3 -> Runs \cup {"none"}]]
        /\ \A x \in SemNames3 : handle'[u][x] = IF x = s THEN u ELSE handle[u][x]
        /\ \A r \in Runs : r # u => handle'[r] = handle[r]
    BY <1>0, <1>3, <2>2
  <2>7. /\ names' \in [SemNames3 -> Runs \cup {"none"}]
        /\ \A x \in SemNames3 : names'[x] = IF x = s THEN u ELSE names[x]
    BY <1>0, <1>3, <2>2
  <2>8. RTypes' BY <1>0, <2>2, <2>3, <2>5, <2>6, <2>7 DEF RTypes
  <2>9. \A r \in Runs : r # u => Apart(r) BY <2>2, <2>3, <2>5, <2>6 DEF Apart
  <2>10. l \in Early /\ mains[u] \in Early /\ l # S1!At("join", 0)
    <3>1. k \in {1, 2, 3} OBVIOUS
    <3>2. k = 1 => k + 1 = 2 OBVIOUS
    <3>3. k = 2 => k + 1 = 3 OBVIOUS
    <3> QED BY <2>1, <2>2, <3>1, <3>2, <3>3, Labels DEF Early
  <2>11. \A x \in SemNames3 : l \in Opened(x) => x = s \/ mains[u] \in Opened(x) \ {S1!At("join", 0)}
    <3>1. CASE k = 1
      <4>1. l = S1!At("open", 2) BY <2>1, <3>1
      <4> QED BY <1>3, <3>1, <4>1, Labels DEF Opened, SemNames3
    <3>2. CASE k = 2
      <4>1. l = S1!At("open", 3) BY <2>1, <3>2
      <4> QED BY <1>3, <2>2, <3>2, <4>1, Labels DEF Opened, SemNames3
    <3>3. CASE k = 3 BY <1>3, <2>1, <2>2, <3>3, Labels DEF Opened, SemNames3
    <3>4. k \in {1, 2, 3} OBVIOUS
    <3> QED BY <3>1, <3>2, <3>3, <3>4
  <2>12. \A x \in SemNames3 : l \notin Unlinking(x) BY <2>1, Labels DEF Unlinking
  <2>13. ROwn(u)'
    <3>1. ASSUME NEW x \in SemNames3, l \in Opened(x)
          PROVE  handle'[u][x] = u /\ sem1'[<<u, x>>] = S1!InitialValue(x)
      <4>1. CASE x = s BY <2>5, <2>6, <4>1
      <4>2. CASE x # s
        <5>1. handle[u][x] = u /\ sem1[<<u, x>>] = S1!InitialValue(x)
          BY <1>0, <2>11, <3>1, <4>2 DEF ROwn
        <5> QED BY <2>5, <2>6, <4>2, <5>1
      <4> QED BY <4>1, <4>2
    <3> QED BY <1>0, <2>2, <2>3, <2>10, <3>1 DEF ROwn
  <2>14. RNames(u)' BY <1>0, <2>3, <2>7, <2>11, <2>12, <1>1 DEF RNames
  <2>15. KeepsNames(u) BY <1>5, <2>7 DEF KeepsNames
  <2> QED BY <2>8, <2>9, <2>13, <2>14, <2>15 DEF Alone
<1> QED BY <1>4, <1>5

\* sem_init of all three semaphores in the memory of the process.
LEMMA Inits == ASSUME RInv, NEW u \in Runs, S1!InitMemory(u) PROVE Alone(u)
<1>0. /\ RTypes /\ ROwn(u) /\ names \in [SemNames3 -> Runs \cup {"none"}]
      /\ handle \in [Runs -> [SemNames3 -> Runs \cup {"none"}]]
      /\ sem1 \in [Runs \X SemNames3 -> Nat] /\ RunSlots \in Nat
  BY RunsAssumption DEF RInv, RTypes
<1>1. /\ u \in MemoryRuns /\ mains[u] = S1!At("open", 1)
      /\ mains' = [mains EXCEPT ![u] = S1!At("create", 0)]
      /\ handle' = [handle EXCEPT ![u] = [s \in SemNames3 |-> u]]
      /\ sem1' = [o \in Runs \X SemNames3 |-> IF o[1] = u THEN S1!InitialValue(o[2]) ELSE sem1[o]]
      /\ UNCHANGED <<pc1, names, bufs, pi, ci>>
  BY Order DEF S1!InitMemory, S1!local
<1>2. mains'[u] = S1!At("create", 0) /\ DOMAIN mains' = Runs /\ \A r \in Runs : r # u => mains'[r] = mains[r]
  BY <1>0, <1>1 DEF RTypes
<1>3. \A s \in SemNames3 : S1!InitialValue(s) \in Nat BY <1>0 DEF S1!InitialValue, SemNames3
<1>4. /\ \A s \in SemNames3 : sem1'[<<u, s>>] = S1!InitialValue(s)
      /\ \A r \in Runs, s \in SemNames3 : r # u => sem1'[<<r, s>>] = sem1[<<r, s>>]
  BY <1>1
<1>5. sem1' \in [Runs \X SemNames3 -> Nat] BY <1>0, <1>1, <1>3
<1>6. /\ handle' \in [Runs -> [SemNames3 -> Runs \cup {"none"}]]
      /\ \A s \in SemNames3 : handle'[u][s] = u
      /\ \A r \in Runs : r # u => handle'[r] = handle[r]
  BY <1>0, <1>1
<1>7. RTypes' BY <1>0, <1>1, <1>2, <1>5, <1>6 DEF RTypes
<1>8. \A r \in Runs : r # u => Apart(r) BY <1>1, <1>2, <1>4, <1>6 DEF Apart
<1>9. ROwn(u)'
  <2>1. mains[u] \in Early /\ S1!At("create", 0) # S1!At("join", 0) BY <1>1, Labels DEF Early
  <2> QED BY <1>0, <1>1, <1>2, <1>4, <1>6, <2>1 DEF ROwn
<1> QED BY <1>1, <1>7, <1>8, <1>9 DEF Alone, RNames, KeepsNames

\* pthread_create of both threads.
LEMMA Creates == ASSUME RInv, NEW u \in Runs, S1!CreateThreads(u) PROVE Alone(u)
<1>0. /\ RTypes /\ ROwn(u) /\ RNames(u) /\ pc1 \in [Runs \X RunThreads -> RunPoints] /\ RunSlots \in Nat
      /\ <<u, "producer">> \in Runs \X RunThreads /\ <<u, "consumer">> \in Runs \X RunThreads
      /\ <<u, "producer">> # <<u, "consumer">>
  BY RunsAssumption DEF RInv, RTypes, RunThreads
<1>1. /\ mains[u] = S1!At("create", 0) /\ mains' = [mains EXCEPT ![u] = S1!At("join", 0)]
      /\ pc1' = [pc1 EXCEPT ![<<u, "producer">>] = "nempty", ![<<u, "consumer">>] = "nstored"]
      /\ UNCHANGED <<sem1, names, handle, bufs, pi, ci>>
  BY DEF S1!CreateThreads, S1!P, S1!C, S1!local
<1>2. mains'[u] = S1!At("join", 0) /\ DOMAIN mains' = Runs /\ \A r \in Runs : r # u => mains'[r] = mains[r]
  BY <1>0, <1>1 DEF RTypes
<1>3. pc1' \in [Runs \X RunThreads -> RunPoints] BY <1>0, <1>1 DEF RunPoints
<1>4. pc1'[<<u, "producer">>] = "nempty" /\ pc1'[<<u, "consumer">>] = "nstored" BY <1>0, <1>1
<1>5. \A r \in Runs, x \in RunThreads : r # u => pc1'[<<r, x>>] = pc1[<<r, x>>] BY <1>0, <1>1
<1>6. RTypes' BY <1>0, <1>1, <1>2, <1>3 DEF RTypes
<1>7. ASSUME NEW r \in Runs, r # u PROVE Apart(r)
  <2>1. mains'[r] = mains[r] /\ \A x \in RunThreads : pc1'[<<r, x>>] = pc1[<<r, x>>] BY <1>2, <1>5, <1>7
  <2>2. UNCHANGED <<sem1, handle, bufs, pi, ci>> BY <1>1
  <2> QED BY <2>1, <2>2 DEF Apart
<1>8. /\ pi[u] = 0 /\ ci[u] = 0
      /\ \A s \in SemNames3 : handle[u][s] = u /\ sem1[<<u, s>>] = S1!InitialValue(s)
  <2>1. mains[u] \in Early /\ \A s \in SemNames3 : mains[u] \in Opened(s) \ {S1!At("join", 0)}
    BY <1>1, Labels DEF Early, Opened
  <2> QED BY <1>0, <2>1 DEF ROwn
<1>9. sem1[<<u, "nempty">>] = RunSlots /\ sem1[<<u, "nstored">>] = 0
  BY <1>8 DEF S1!InitialValue, SemNames3
<1>10. RCount(u)' BY <1>0, <1>1, <1>4, <1>8, <1>9 DEF RCount, One
<1>11. ROwn(u)'
  <2>1. S1!At("join", 0) \notin Early BY Labels DEF Early
  <2> QED BY <1>1, <1>2, <1>8, <1>10, <2>1 DEF ROwn
<1>12. RNames(u)'
  <2>1. \A s \in SemNames3 : mains[u] \in Opened(s) BY <1>1 DEF Opened
  <2> QED BY <1>0, <1>1, <2>1 DEF RNames
<1> QED BY <1>1, <1>6, <1>7, <1>11, <1>12 DEF Alone, KeepsNames

\* main() joins the threads, and destroys semaphores in memory.
LEMMA Joins == ASSUME RInv, NEW u \in Runs, S1!Join(u) \/ S1!DestroyMemory(u) PROVE Alone(u)
<1>0. RTypes /\ ROwn(u) /\ RNames(u) /\ names \in [SemNames3 -> Runs \cup {"none"}] BY DEF RInv, RTypes
<1>1. UNCHANGED <<sem1, pc1, names, handle, bufs, pi, ci>> BY DEF S1!Join, S1!DestroyMemory, S1!local
<1>2. PICK l \in {S1!At("unlink", 1), S1!At("returned", 0)} :
        /\ mains' = [mains EXCEPT ![u] = l]
        /\ l = S1!At("unlink", 1) => mains[u] = S1!At("join", 0)
  BY Labels DEF S1!Join, S1!DestroyMemory
<1>3. l \notin Early /\ l # S1!At("join", 0) /\ \A s \in SemNames3 : l \notin Opened(s)
  BY Labels DEF Early, Opened
<1>4. /\ mains'[u] = l /\ RTypes' /\ ROwn(u)' /\ \A r \in Runs : r # u => Apart(r)
  <2>1. names' \in [SemNames3 -> Runs \cup {"none"}] BY <1>0, <1>1
  <2> QED BY <1>0, <1>1, <1>2, <1>3, <2>1, MainStep
<1>5. RNames(u)'
  <2>1. CASE l = S1!At("unlink", 1)
    <3>1. \A s \in SemNames3 : mains[u] \in Opened(s) BY <1>2, <2>1 DEF Opened
    <3> QED BY <1>0, <1>1, <3>1 DEF RNames
  <2>2. CASE l = S1!At("returned", 0)
    <3>1. \A s \in SemNames3 : l \notin Opened(s) \cup Unlinking(s) BY <1>3, <2>2, Labels DEF Unlinking
    <3> QED BY <1>4, <3>1 DEF RNames
  <2> QED BY <2>1, <2>2
<1> QED BY <1>1, <1>4, <1>5 DEF Alone, KeepsNames

\* sem_unlink removes a name that is the run's own.
LEMMA Unlinks == ASSUME RInv, NEW u \in Runs, S1!Unlink(u) PROVE Alone(u)
<1>0. RTypes /\ ROwn(u) /\ RNames(u) /\ names \in [SemNames3 -> Runs \cup {"none"}] /\ u # "none"
  BY RunsAssumption DEF RInv, RTypes
<1>1. PICK k \in 1..3 :
        /\ u \notin MemoryRuns /\ mains[u] = S1!At("unlink", k)
        /\ names' = [names EXCEPT ![S1!SemNames[k]] = "none"]
        /\ mains' = [mains EXCEPT ![u] = IF names[S1!SemNames[k]] = "none" THEN S1!At("exited", 0)
                                         ELSE IF k = 3 THEN S1!At("returned", 0) ELSE S1!At("unlink", k + 1)]
        /\ UNCHANGED <<sem1, pc1, handle, bufs, pi, ci>>
  BY DEF S1!Unlink, S1!None, S1!local
<1>2. PICK s : s = S1!SemNames[k] OBVIOUS
<1>3. /\ s \in SemNames3
      /\ k = 1 => s = "mutex"
      /\ k = 2 => s = "nempty"
      /\ k = 3 => s = "nstored"
  <2>1. k \in {1, 2, 3} OBVIOUS
  <2> QED BY <1>2, <2>1, Order DEF SemNames3
<1>4. mains[u] \in Unlinking(s)
  <2>1. k \in {1, 2, 3} OBVIOUS
  <2> QED BY <1>1, <1>3, <2>1 DEF Unlinking
<1>5. names[s] = u BY <1>0, <1>1, <1>3, <1>4 DEF RNames
<1>6. PICK l : l = IF k = 3 THEN S1!At("returned", 0) ELSE S1!At("unlink", k + 1) OBVIOUS
<1>7. mains' = [mains EXCEPT ![u] = l] /\ names' = [names EXCEPT ![s] = "none"] BY <1>0, <1>1, <1>2, <1>5, <1>6
<1>8. l \notin Early /\ l # S1!At("join", 0) /\ \A x \in SemNames3 : l \notin Opened(x)
  BY <1>6, Labels DEF Early, Opened
<1>9. /\ mains'[u] = l /\ RTypes' /\ ROwn(u)' /\ \A r \in Runs : r # u => Apart(r)
  <2>1. names' \in [SemNames3 -> Runs \cup {"none"}] BY <1>0, <1>3, <1>7
  <2> QED BY <1>0, <1>1, <1>7, <1>8, <2>1, MainStep
<1>10. \A x \in SemNames3 : l \in Unlinking(x) => x # s /\ mains[u] \in Unlinking(x)
  <2>1. CASE k = 1
    <3>1. l = S1!At("unlink", 2) BY <1>6, <2>1
    <3> QED BY <1>1, <1>3, <2>1, <3>1, Labels DEF Unlinking, SemNames3
  <2>2. CASE k = 2
    <3>1. l = S1!At("unlink", 3) BY <1>6, <2>2
    <3> QED BY <1>1, <1>3, <2>2, <3>1, Labels DEF Unlinking, SemNames3
  <2>3. CASE k = 3 BY <1>6, <2>3, Labels DEF Unlinking
  <2>4. k \in {1, 2, 3} OBVIOUS
  <2> QED BY <2>1, <2>2, <2>3, <2>4
<1>11. \A x \in SemNames3 : x # s => names'[x] = names[x] BY <1>0, <1>7
<1>12. RNames(u)' BY <1>0, <1>1, <1>8, <1>9, <1>10, <1>11 DEF RNames
<1>13. KeepsNames(u) BY <1>5, <1>11 DEF KeepsNames
<1> QED BY <1>9, <1>12, <1>13 DEF Alone

\* The semaphores and threads of the runs other than u.
Others(u) ==
  /\ \A r \in Runs, y \in RunThreads : r # u => pc1'[<<r, y>>] = pc1[<<r, y>>]
  /\ \A r \in Runs, z \in SemNames3 : r # u => sem1'[<<r, z>>] = sem1[<<r, z>>]

\* A call of thread x of run u on u's semaphore s, between control points a and
\* b, changes nothing else.
Called(u, x, s, a, b) ==
  /\ sem1' \in [Runs \X SemNames3 -> Nat] /\ pc1' \in [Runs \X RunThreads -> RunPoints]
  /\ pc1[<<u, x>>] = a /\ pc1'[<<u, x>>] = b
  /\ \A y \in RunThreads : y # x => pc1'[<<u, y>>] = pc1[<<u, y>>]
  /\ \A r \in Runs, z \in SemNames3 : <<r, z>> # <<u, s>> => sem1'[<<r, z>>] = sem1[<<r, z>>]
  /\ Others(u)

\* So do the calls of the model.
LEMMA ThreadStep ==
  ASSUME RTypes, NEW u \in Runs, NEW x \in RunThreads, NEW s \in SemNames3, NEW a, NEW b \in RunPoints,
         \/ S1!Wait(<<u, x>>, a, <<u, s>>, b)
         \/ S1!Post(<<u, x>>, a, <<u, s>>, b)
         \/ S1!Step(<<u, x>>, a, b)
  PROVE  Called(u, x, s, a, b)
<1>1. sem1 \in [Runs \X SemNames3 -> Nat] /\ pc1 \in [Runs \X RunThreads -> RunPoints] BY DEF RTypes
<1>2. pc1[<<u, x>>] = a /\ pc1' = [pc1 EXCEPT ![<<u, x>>] = b] BY DEF S1!Wait, S1!Post, S1!Step, S1!Move
<1>3. /\ pc1' \in [Runs \X RunThreads -> RunPoints] /\ pc1'[<<u, x>>] = b
      /\ \A r \in Runs, y \in RunThreads : <<r, y>> # <<u, x>> => pc1'[<<r, y>>] = pc1[<<r, y>>]
  BY <1>1, <1>2
<1>4. PICK v \in Nat : sem1' = [sem1 EXCEPT ![<<u, s>>] = v]
  <2>1. sem1[<<u, s>>] \in Nat /\ sem1 = [sem1 EXCEPT ![<<u, s>>] = sem1[<<u, s>>]] BY <1>1
  <2>2. CASE S1!Wait(<<u, x>>, a, <<u, s>>, b)
    <3>1. sem1' = [sem1 EXCEPT ![<<u, s>>] = sem1[<<u, s>>] - 1] /\ sem1[<<u, s>>] > 0
      BY <2>2 DEF S1!Wait
    <3>2. sem1[<<u, s>>] - 1 \in Nat BY <2>1, <3>1
    <3> QED BY <3>1, <3>2
  <2>3. CASE S1!Post(<<u, x>>, a, <<u, s>>, b)
    <3>1. sem1' = [sem1 EXCEPT ![<<u, s>>] = sem1[<<u, s>>] + 1] BY <2>3 DEF S1!Post
    <3>2. sem1[<<u, s>>] + 1 \in Nat BY <2>1
    <3> QED BY <3>1, <3>2
  <2>4. CASE S1!Step(<<u, x>>, a, b) BY <2>1, <2>4 DEF S1!Step
  <2> QED BY <2>2, <2>3, <2>4
<1>5. /\ sem1' \in [Runs \X SemNames3 -> Nat]
      /\ \A r \in Runs, z \in SemNames3 : <<r, z>> # <<u, s>> => sem1'[<<r, z>>] = sem1[<<r, z>>]
  BY <1>1, <1>4
<1>6. Others(u)
  <2>1. \A r, y, z : r # u => <<r, y>> # <<u, z>> OBVIOUS
  <2> QED BY <1>3, <1>5, <2>1 DEF Others
<1>7. \A y \in RunThreads : y # x => pc1'[<<u, y>>] = pc1[<<u, y>>] BY <1>3
<1> QED BY <1>2, <1>3, <1>5, <1>6, <1>7 DEF Called

\* A step of a thread of u that keeps the account of slots and items.
LEMMA ThreadAlone ==
  ASSUME RInv, NEW u \in Runs, Others(u),
         sem1' \in [Runs \X SemNames3 -> Nat], pc1' \in [Runs \X RunThreads -> RunPoints],
         mains[u] = S1!At("join", 0), UNCHANGED <<names, handle, mains>>,
         bufs' \in [Runs -> [0..(RunSlots - 1) -> Nat]], pi' \in [Runs -> Nat], ci' \in [Runs -> Nat],
         \A r \in Runs : r # u => bufs'[r] = bufs[r] /\ pi'[r] = pi[r] /\ ci'[r] = ci[r],
         RCount(u)'
  PROVE  Alone(u)
<1>0. RTypes /\ ROwn(u) /\ RNames(u) BY DEF RInv
<1>2. RTypes' BY <1>0 DEF RTypes
<1>3. \A r \in Runs : r # u => Apart(r) BY DEF Apart, Others
<1>4. mains[u] \notin Early /\ \A z \in SemNames3 : mains[u] \in Opened(z) BY Labels DEF Early, Opened
<1>5. \A z \in SemNames3 : handle'[u][z] = u BY <1>0, <1>4 DEF ROwn
<1>6. ROwn(u)' BY <1>4, <1>5 DEF ROwn
<1>7. RNames(u)' BY <1>0 DEF RNames
<1> QED BY <1>2, <1>3, <1>6, <1>7 DEF Alone, KeepsNames

\* A step of the producer of run u.
LEMMA ProducerAlone == ASSUME RInv, NEW u \in Runs, S1!Producer(u) PROVE Alone(u)
<1>0. /\ RInv /\ RTypes /\ RCount(u) /\ mains[u] = S1!At("join", 0) /\ UNCHANGED <<names, handle, mains>>
      /\ RunSlots \in Nat \ {0} /\ sem1 \in [Runs \X SemNames3 -> Nat]
      /\ sem1[<<u, "nempty">>] \in Nat /\ sem1[<<u, "nstored">>] \in Nat
      /\ bufs \in [Runs -> [0..(RunSlots - 1) -> Nat]] /\ pi \in [Runs -> Nat] /\ ci \in [Runs -> Nat]
      /\ pi[u] \in Nat /\ ci[u] \in Nat
  <2>1. RTypes /\ ROwn(u) /\ mains[u] = S1!At("join", 0) BY DEF RInv, S1!Producer
  <2>2. UNCHANGED <<names, handle, mains>> BY DEF S1!Producer
  <2> QED BY <2>1, <2>2, RunsAssumption DEF RTypes, ROwn, SemNames3
<1>9. /\ RTypes /\ "producer" \in RunThreads /\ "consumer" \in RunThreads
      /\ "mutex" \in SemNames3 /\ "nempty" \in SemNames3 /\ "nstored" \in SemNames3
      /\ "nempty" \in RunPoints /\ "nstored" \in RunPoints /\ "mutex" \in RunPoints
      /\ "store" \in RunPoints /\ "check" \in RunPoints /\ "unlock" \in RunPoints
      /\ "stored" \in RunPoints /\ "emptied" \in RunPoints /\ "done" \in RunPoints
  BY <1>0 DEF RunThreads, RunPoints, SemNames3
<1>10. \A s \in SemNames3 : S1!H(u, s) = <<u, s>>
  <2>1. ROwn(u) BY DEF RInv
  <2>2. \A s \in SemNames3 : mains[u] \in Opened(s) BY <1>0 DEF Opened
  <2> QED BY <2>1, <2>2 DEF ROwn, S1!H
<1>1. CASE S1!Wait(<<u, "producer">>, "nempty", <<u, "nempty">>, "mutex") /\ UNCHANGED S1!local
  <2>0. Called(u, "producer", "nempty", "nempty", "mutex") BY <1>9, <1>1, ThreadStep
  <2>1. /\ pc1[<<u, "producer">>] = "nempty" /\ pc1'[<<u, "producer">>] = "mutex" /\ pc1'[<<u, "consumer">>] = pc1[<<u, "consumer">>]
        /\ \A r \in Runs, y \in SemNames3 : <<r, y>> # <<u, "nempty">> => sem1'[<<r, y>>] = sem1[<<r, y>>]
        /\ sem1' \in [Runs \X SemNames3 -> Nat] /\ pc1' \in [Runs \X RunThreads -> RunPoints] /\ Others(u)
    BY <1>9, <2>0 DEF Called
  <2>2. /\ sem1'[<<u, "nempty">>] = sem1[<<u, "nempty">>] - 1
        /\ sem1'[<<u, "nstored">>] = sem1[<<u, "nstored">>]
    BY <1>0, <1>1, <2>1 DEF S1!Wait, S1!Post, S1!Step, SemNames3
  <2>3. UNCHANGED <<bufs, pi, ci>> BY <1>1 DEF S1!local
  <2>4. RCount(u)'
    <3>1. sem1'[<<u, "nempty">>] + One(pc1'[<<u, "producer">>] \in {"mutex", "store", "unlock", "stored"})
                + (pi'[u] - ci'[u]) = RunSlots
      BY <1>0, <2>1, <2>2, <2>3 DEF RCount, One
    <3>2. sem1'[<<u, "nstored">>] + One(pc1'[<<u, "consumer">>] \in {"mutex", "check", "unlock", "emptied"})
                = pi'[u] - ci'[u]
      BY <1>0, <2>1, <2>2, <2>3 DEF RCount, One
    <3>3. /\ \A k \in ci'[u]..(pi'[u] - 1) : bufs'[u][k % RunSlots] = k
          /\ pc1'[<<u, "producer">>] \in {"unlock", "stored"} => bufs'[u][pi'[u] % RunSlots] = pi'[u]
      BY <1>0, <2>1, <2>3 DEF RCount
    <3> QED BY <3>1, <3>2, <3>3 DEF RCount
  <2> QED BY <1>0, <2>3, <2>4, <2>1, ThreadAlone
<1>2. CASE S1!Step(<<u, "producer">>, "nempty", "done") /\ UNCHANGED S1!local
  <2>0. Called(u, "producer", "mutex", "nempty", "done") BY <1>9, <1>2, ThreadStep
  <2>1. /\ pc1[<<u, "producer">>] = "nempty" /\ pc1'[<<u, "producer">>] = "done" /\ pc1'[<<u, "consumer">>] = pc1[<<u, "consumer">>]
        /\ \A r \in Runs, y \in SemNames3 : <<r, y>> # <<u, "mutex">> => sem1'[<<r, y>>] = sem1[<<r, y>>]
        /\ sem1' \in [Runs \X SemNames3 -> Nat] /\ pc1' \in [Runs \X RunThreads -> RunPoints] /\ Others(u)
    BY <1>9, <2>0 DEF Called
  <2>2. /\ sem1'[<<u, "nempty">>] = sem1[<<u, "nempty">>]
        /\ sem1'[<<u, "nstored">>] = sem1[<<u, "nstored">>]
    BY <1>0, <1>2, <2>1 DEF S1!Wait, S1!Post, S1!Step, SemNames3
  <2>3. UNCHANGED <<bufs, pi, ci>> BY <1>2 DEF S1!local
  <2>4. RCount(u)'
    <3>1. sem1'[<<u, "nempty">>] + One(pc1'[<<u, "producer">>] \in {"mutex", "store", "unlock", "stored"})
                + (pi'[u] - ci'[u]) = RunSlots
      BY <1>0, <2>1, <2>2, <2>3 DEF RCount, One
    <3>2. sem1'[<<u, "nstored">>] + One(pc1'[<<u, "consumer">>] \in {"mutex", "check", "unlock", "emptied"})
                = pi'[u] - ci'[u]
      BY <1>0, <2>1, <2>2, <2>3 DEF RCount, One
    <3>3. /\ \A k \in ci'[u]..(pi'[u] - 1) : bufs'[u][k % RunSlots] = k
          /\ pc1'[<<u, "producer">>] \in {"unlock", "stored"} => bufs'[u][pi'[u] % RunSlots] = pi'[u]
      BY <1>0, <2>1, <2>3 DEF RCount
    <3> QED BY <3>1, <3>2, <3>3 DEF RCount
  <2> QED BY <1>0, <2>3, <2>4, <2>1, ThreadAlone
<1>3. CASE S1!Wait(<<u, "producer">>, "mutex", <<u, "mutex">>, "store") /\ UNCHANGED S1!local
  <2>0. Called(u, "producer", "mutex", "mutex", "store") BY <1>9, <1>3, ThreadStep
  <2>1. /\ pc1[<<u, "producer">>] = "mutex" /\ pc1'[<<u, "producer">>] = "store" /\ pc1'[<<u, "consumer">>] = pc1[<<u, "consumer">>]
        /\ \A r \in Runs, y \in SemNames3 : <<r, y>> # <<u, "mutex">> => sem1'[<<r, y>>] = sem1[<<r, y>>]
        /\ sem1' \in [Runs \X SemNames3 -> Nat] /\ pc1' \in [Runs \X RunThreads -> RunPoints] /\ Others(u)
    BY <1>9, <2>0 DEF Called
  <2>2. /\ sem1'[<<u, "nempty">>] = sem1[<<u, "nempty">>]
        /\ sem1'[<<u, "nstored">>] = sem1[<<u, "nstored">>]
    BY <1>0, <1>3, <2>1 DEF S1!Wait, S1!Post, S1!Step, SemNames3
  <2>3. UNCHANGED <<bufs, pi, ci>> BY <1>3 DEF S1!local
  <2>4. RCount(u)'
    <3>1. sem1'[<<u, "nempty">>] + One(pc1'[<<u, "producer">>] \in {"mutex", "store", "unlock", "stored"})
                + (pi'[u] - ci'[u]) = RunSlots
      BY <1>0, <2>1, <2>2, <2>3 DEF RCount, One
    <3>2. sem1'[<<u, "nstored">>] + One(pc1'[<<u, "consumer">>] \in {"mutex", "check", "unlock", "emptied"})
                = pi'[u] - ci'[u]
      BY <1>0, <2>1, <2>2, <2>3 DEF RCount, One
    <3>3. /\ \A k \in ci'[u]..(pi'[u] - 1) : bufs'[u][k % RunSlots] = k
          /\ pc1'[<<u, "producer">>] \in {"unlock", "stored"} => bufs'[u][pi'[u] % RunSlots] = pi'[u]
      BY <1>0, <2>1, <2>3 DEF RCount
    <3> QED BY <3>1, <3>2, <3>3 DEF RCount
  <2> QED BY <1>0, <2>3, <2>4, <2>1, ThreadAlone
<1>4. CASE S1!Post(<<u, "producer">>, "unlock", <<u, "mutex">>, "stored") /\ UNCHANGED S1!local
  <2>0. Called(u, "producer", "mutex", "unlock", "stored") BY <1>9, <1>4, ThreadStep
  <2>1. /\ pc1[<<u, "producer">>] = "unlock" /\ pc1'[<<u, "producer">>] = "stored" /\ pc1'[<<u, "consumer">>] = pc1[<<u, "consumer">>]
        /\ \A r \in Runs, y \in SemNames3 : <<r, y>> # <<u, "mutex">> => sem1'[<<r, y>>] = sem1[<<r, y>>]
        /\ sem1' \in [Runs \X SemNames3 -> Nat] /\ pc1' \in [Runs \X RunThreads -> RunPoints] /\ Others(u)
    BY <1>9, <2>0 DEF Called
  <2>2. /\ sem1'[<<u, "nempty">>] = sem1[<<u, "nempty">>]
        /\ sem1'[<<u, "nstored">>] = sem1[<<u, "nstored">>]
    BY <1>0, <1>4, <2>1 DEF S1!Wait, S1!Post, S1!Step, SemNames3
  <2>3. UNCHANGED <<bufs, pi, ci>> BY <1>4 DEF S1!local
  <2>4. RCount(u)'
    <3>1. sem1'[<<u, "nempty">>] + One(pc1'[<<u, "producer">>] \in {"mutex", "store", "unlock", "stored"})
                + (pi'[u] - ci'[u]) = RunSlots
      BY <1>0, <2>1, <2>2, <2>3 DEF RCount, One
    <3>2. sem1'[<<u, "nstored">>] + One(pc1'[<<u, "consumer">>] \in {"mutex", "check", "unlock", "emptied"})
                = pi'[u] - ci'[u]
      BY <1>0, <2>1, <2>2, <2>3 DEF RCount, One
    <3>3. /\ \A k \in ci'[u]..(pi'[u] - 1) : bufs'[u][k % RunSlots] = k
          /\ pc1'[<<u, "producer">>] \in {"unlock", "stored"} => bufs'[u][pi'[u] % RunSlots] = pi'[u]
      BY <1>0, <2>1, <2>3 DEF RCount
    <3> QED BY <3>1, <3>2, <3>3 DEF RCount
  <2> QED BY <1>0, <2>3, <2>4, <2>1, ThreadAlone
<1>5. CASE S1!Step(<<u, "producer">>, "store", "unlock") /\ bufs' = [bufs EXCEPT ![u][pi[u] % RunSlots] = pi[u]] /\ UNCHANGED <<pi, ci>>
  <2>0. Called(u, "producer", "mutex", "store", "unlock") BY <1>9, <1>5, ThreadStep
  <2>1. /\ pc1[<<u, "producer">>] = "store" /\ pc1'[<<u, "producer">>] = "unlock" /\ pc1'[<<u, "consumer">>] = pc1[<<u, "consumer">>]
        /\ \A r \in Runs, y \in SemNames3 : <<r, y>> # <<u, "mutex">> => sem1'[<<r, y>>] = sem1[<<r, y>>]
        /\ sem1' \in [Runs \X SemNames3 -> Nat] /\ pc1' \in [Runs \X RunThreads -> RunPoints] /\ Others(u)
    BY <1>9, <2>0 DEF Called
  <2>2. /\ sem1'[<<u, "nempty">>] = sem1[<<u, "nempty">>]
        /\ sem1'[<<u, "nstored">>] = sem1[<<u, "nstored">>]
    BY <1>0, <1>5, <2>1 DEF S1!Wait, S1!Post, S1!Step, SemNames3
  <2>3. /\ pi[u] % RunSlots \in 0..(RunSlots - 1) /\ UNCHANGED <<pi, ci>>
        /\ bufs' = [bufs EXCEPT ![u][pi[u] % RunSlots] = pi[u]]
    BY <1>0, <1>5, ModIn
  <2>4. /\ bufs' \in [Runs -> [0..(RunSlots - 1) -> Nat]]
        /\ bufs'[u] = [bufs[u] EXCEPT ![pi[u] % RunSlots] = pi[u]]
        /\ \A r \in Runs : r # u => bufs'[r] = bufs[r]
    BY <1>0, <2>3
  <2>5. RCount(u)'
    <3>1. pi[u] < ci[u] + RunSlots
      <4>1. One(pc1[<<u, "producer">>] \in {"mutex", "store", "unlock", "stored"}) = 1 BY <2>1 DEF One
      <4>2. /\ sem1[<<u, "nempty">>] + 1 + (pi[u] - ci[u]) = RunSlots
            /\ sem1[<<u, "nempty">>] \in Nat /\ pi[u] \in Nat /\ ci[u] \in Nat /\ RunSlots \in Nat
        BY <1>0, <4>1 DEF RCount
      <4> QED BY <4>2
    <3>2. bufs'[u][pi[u] % RunSlots] = pi[u] BY <1>0, <2>3, <2>4
    <3>3. ASSUME NEW k \in ci[u]..(pi[u] - 1) PROVE bufs'[u][k % RunSlots] = k
      <4>1. k \in Nat /\ k < pi[u] /\ pi[u] < k + RunSlots BY <1>0, <3>1
      <4>2. k % RunSlots # pi[u] % RunSlots /\ k % RunSlots \in 0..(RunSlots - 1)
        BY <1>0, <4>1, ModDistinct, ModIn
      <4> QED BY <1>0, <2>4, <4>2 DEF RCount
    <3> QED BY <1>0, <2>1, <2>2, <2>3, <3>2, <3>3 DEF RCount, One
  <2> QED BY <1>0, <2>3, <2>4, <2>5, <2>1, ThreadAlone
<1>6. CASE S1!Post(<<u, "producer">>, "stored", <<u, "nstored">>, "nempty") /\ pi' = [pi EXCEPT ![u] = @ + 1] /\ UNCHANGED <<bufs, ci>>
  <2>0. Called(u, "producer", "nstored", "stored", "nempty") BY <1>9, <1>6, ThreadStep
  <2>1. /\ pc1[<<u, "producer">>] = "stored" /\ pc1'[<<u, "producer">>] = "nempty" /\ pc1'[<<u, "consumer">>] = pc1[<<u, "consumer">>]
        /\ \A r \in Runs, y \in SemNames3 : <<r, y>> # <<u, "nstored">> => sem1'[<<r, y>>] = sem1[<<r, y>>]
        /\ sem1' \in [Runs \X SemNames3 -> Nat] /\ pc1' \in [Runs \X RunThreads -> RunPoints] /\ Others(u)
    BY <1>9, <2>0 DEF Called
  <2>2. /\ sem1'[<<u, "nempty">>] = sem1[<<u, "nempty">>]
        /\ sem1'[<<u, "nstored">>] = sem1[<<u, "nstored">>] + 1
    BY <1>0, <1>6, <2>1 DEF S1!Wait, S1!Post, S1!Step, SemNames3
  <2>3. pi'[u] = pi[u] + 1 /\ pi' \in [Runs -> Nat] /\ bufs' = bufs /\ ci' = ci
        /\ \A r \in Runs : r # u => pi'[r] = pi[r]
    BY <1>0, <1>6
  <2>4. RCount(u)'
    <3>1. bufs[u][pi[u] % RunSlots] = pi[u] BY <1>0, <2>1 DEF RCount
    <3>2. \A k \in ci[u]..pi[u] : k = pi[u] \/ k \in ci[u]..(pi[u] - 1) BY <1>0
    <3>6. \A k \in ci[u]..(pi[u] - 1) : bufs[u][k % RunSlots] = k BY <1>0 DEF RCount
    <3>7. pi'[u] - 1 = pi[u] /\ ci'[u] = ci[u] /\ bufs'[u] = bufs[u] BY <1>0, <2>3
    <3>3. \A k \in ci'[u]..(pi'[u] - 1) : bufs'[u][k % RunSlots] = k BY <3>1, <3>2, <3>6, <3>7
    <3>10. /\ One(pc1[<<u, "producer">>] \in {"mutex", "store", "unlock", "stored"}) = 1 /\ One(pc1'[<<u, "producer">>] \in {"mutex", "store", "unlock", "stored"}) = 0
          /\ One(pc1'[<<u, "consumer">>] \in {"mutex", "check", "unlock", "emptied"}) = One(pc1[<<u, "consumer">>] \in {"mutex", "check", "unlock", "emptied"}) /\ One(pc1[<<u, "consumer">>] \in {"mutex", "check", "unlock", "emptied"}) \in Int
      BY <2>1 DEF One
    <3>11. pi'[u] = pi[u] + 1 /\ ci'[u] = ci[u] BY <2>3
    <3>12. /\ sem1[<<u, "nempty">>] + One(pc1[<<u, "producer">>] \in {"mutex", "store", "unlock", "stored"}) + (pi[u] - ci[u]) = RunSlots
           /\ sem1[<<u, "nstored">>] + One(pc1[<<u, "consumer">>] \in {"mutex", "check", "unlock", "emptied"}) = pi[u] - ci[u]
      BY <1>0 DEF RCount
    <3>13. /\ pi[u] \in Nat /\ ci[u] \in Nat /\ sem1[<<u, "nempty">>] \in Nat /\ sem1[<<u, "nstored">>] \in Nat
           /\ RunSlots \in Nat
      BY <1>0
    <3>4. sem1'[<<u, "nempty">>] + One(pc1'[<<u, "producer">>] \in {"mutex", "store", "unlock", "stored"})
                + (pi'[u] - ci'[u]) = RunSlots
      BY <2>2, <3>10, <3>11, <3>12, <3>13
    <3>5. sem1'[<<u, "nstored">>] + One(pc1'[<<u, "consumer">>] \in {"mutex", "check", "unlock", "emptied"})
                = pi'[u] - ci'[u]
      BY <2>2, <3>10, <3>11, <3>12, <3>13
    <3> QED BY <2>1, <3>3, <3>4, <3>5 DEF RCount
  <2> QED BY <1>0, <2>3, <2>4, <2>1, ThreadAlone
<1>11. S1!H(u, "mutex") = <<u, "mutex">> /\ S1!H(u, "nempty") = <<u, "nempty">> /\ S1!H(u, "nstored") = <<u, "nstored">>
  BY <1>10 DEF SemNames3
<1> QED BY <1>1, <1>2, <1>3, <1>4, <1>5, <1>6, <1>11 DEF S1!Producer, S1!P, S1!C

\* A step of the consumer of run u.
LEMMA ConsumerAlone == ASSUME RInv, NEW u \in Runs, S1!Consumer(u) PROVE Alone(u)
<1>0. /\ RInv /\ RTypes /\ RCount(u) /\ mains[u] = S1!At("join", 0) /\ UNCHANGED <<names, handle, mains>>
      /\ RunSlots \in Nat \ {0} /\ sem1 \in [Runs \X SemNames3 -> Nat]
      /\ sem1[<<u, "nempty">>] \in Nat /\ sem1[<<u, "nstored">>] \in Nat
      /\ bufs \in [Runs -> [0..(RunSlots - 1) -> Nat]] /\ pi \in [Runs -> Nat] /\ ci \in [Runs -> Nat]
      /\ pi[u] \in Nat /\ ci[u] \in Nat
  <2>1. RTypes /\ ROwn(u) /\ mains[u] = S1!At("join", 0) BY DEF RInv, S1!Consumer
  <2>2. UNCHANGED <<names, handle, mains>> BY DEF S1!Consumer
  <2> QED BY <2>1, <2>2, RunsAssumption DEF RTypes, ROwn, SemNames3
<1>9. /\ RTypes /\ "producer" \in RunThreads /\ "consumer" \in RunThreads
      /\ "mutex" \in SemNames3 /\ "nempty" \in SemNames3 /\ "nstored" \in SemNames3
      /\ "nempty" \in RunPoints /\ "nstored" \in RunPoints /\ "mutex" \in RunPoints
      /\ "store" \in RunPoints /\ "check" \in RunPoints /\ "unlock" \in RunPoints
      /\ "stored" \in RunPoints /\ "emptied" \in RunPoints /\ "done" \in RunPoints
  BY <1>0 DEF RunThreads, RunPoints, SemNames3
<1>10. \A s \in SemNames3 : S1!H(u, s) = <<u, s>>
  <2>1. ROwn(u) BY DEF RInv
  <2>2. \A s \in SemNames3 : mains[u] \in Opened(s) BY <1>0 DEF Opened
  <2> QED BY <2>1, <2>2 DEF ROwn, S1!H
<1>1. CASE S1!Wait(<<u, "consumer">>, "nstored", <<u, "nstored">>, "mutex") /\ UNCHANGED S1!local
  <2>0. Called(u, "consumer", "nstored", "nstored", "mutex") BY <1>9, <1>1, ThreadStep
  <2>1. /\ pc1[<<u, "consumer">>] = "nstored" /\ pc1'[<<u, "consumer">>] = "mutex" /\ pc1'[<<u, "producer">>] = pc1[<<u, "producer">>]
        /\ \A r \in Runs, y \in SemNames3 : <<r, y>> # <<u, "nstored">> => sem1'[<<r, y>>] = sem1[<<r, y>>]
        /\ sem1' \in [Runs \X SemNames3 -> Nat] /\ pc1' \in [Runs \X RunThreads -> RunPoints] /\ Others(u)
    BY <1>9, <2>0 DEF Called
  <2>2. /\ sem1'[<<u, "nempty">>] = sem1[<<u, "nempty">>]
        /\ sem1'[<<u, "nstored">>] = sem1[<<u, "nstored">>] - 1
    BY <1>0, <1>1, <2>1 DEF S1!Wait, S1!Post, S1!Step, SemNames3
  <2>3. UNCHANGED <<bufs, pi, ci>> BY <1>1 DEF S1!local
  <2>4. RCount(u)'
    <3>1. sem1'[<<u, "nempty">>] + One(pc1'[<<u, "producer">>] \in {"mutex", "store", "unlock", "stored"})
                + (pi'[u] - ci'[u]) = RunSlots
      BY <1>0, <2>1, <2>2, <2>3 DEF RCount, One
    <3>2. sem1'[<<u, "nstored">>] + One(pc1'[<<u, "consumer">>] \in {"mutex", "check", "unlock", "emptied"})
                = pi'[u] - ci'[u]
      BY <1>0, <2>1, <2>2, <2>3 DEF RCount, One
    <3>3. /\ \A k \in ci'[u]..(pi'[u] - 1) : bufs'[u][k % RunSlots] = k
          /\ pc1'[<<u, "producer">>] \in {"unlock", "stored"} => bufs'[u][pi'[u] % RunSlots] = pi'[u]
      BY <1>0, <2>1, <2>3 DEF RCount
    <3> QED BY <3>1, <3>2, <3>3 DEF RCount
  <2> QED BY <1>0, <2>3, <2>4, <2>1, ThreadAlone
<1>2. CASE S1!Step(<<u, "consumer">>, "nstored", "done") /\ UNCHANGED S1!local
  <2>0. Called(u, "consumer", "mutex", "nstored", "done") BY <1>9, <1>2, ThreadStep
  <2>1. /\ pc1[<<u, "consumer">>] = "nstored" /\ pc1'[<<u, "consumer">>] = "done" /\ pc1'[<<u, "producer">>] = pc1[<<u, "producer">>]
        /\ \A r \in Runs, y \in SemNames3 : <<r, y>> # <<u, "mutex">> => sem1'[<<r, y>>] = sem1[<<r, y>>]
        /\ sem1' \in [Runs \X SemNames3 -> Nat] /\ pc1' \in [Runs \X RunThreads -> RunPoints] /\ Others(u)
    BY <1>9, <2>0 DEF Called
  <2>2. /\ sem1'[<<u, "nempty">>] = sem1[<<u, "nempty">>]
        /\ sem1'[<<u, "nstored">>] = sem1[<<u, "nstored">>]
    BY <1>0, <1>2, <2>1 DEF S1!Wait, S1!Post, S1!Step, SemNames3
  <2>3. UNCHANGED <<bufs, pi, ci>> BY <1>2 DEF S1!local
  <2>4. RCount(u)'
    <3>1. sem1'[<<u, "nempty">>] + One(pc1'[<<u, "producer">>] \in {"mutex", "store", "unlock", "stored"})
                + (pi'[u] - ci'[u]) = RunSlots
      BY <1>0, <2>1, <2>2, <2>3 DEF RCount, One
    <3>2. sem1'[<<u, "nstored">>] + One(pc1'[<<u, "consumer">>] \in {"mutex", "check", "unlock", "emptied"})
                = pi'[u] - ci'[u]
      BY <1>0, <2>1, <2>2, <2>3 DEF RCount, One
    <3>3. /\ \A k \in ci'[u]..(pi'[u] - 1) : bufs'[u][k % RunSlots] = k
          /\ pc1'[<<u, "producer">>] \in {"unlock", "stored"} => bufs'[u][pi'[u] % RunSlots] = pi'[u]
      BY <1>0, <2>1, <2>3 DEF RCount
    <3> QED BY <3>1, <3>2, <3>3 DEF RCount
  <2> QED BY <1>0, <2>3, <2>4, <2>1, ThreadAlone
<1>3. CASE S1!Wait(<<u, "consumer">>, "mutex", <<u, "mutex">>, "check") /\ UNCHANGED S1!local
  <2>0. Called(u, "consumer", "mutex", "mutex", "check") BY <1>9, <1>3, ThreadStep
  <2>1. /\ pc1[<<u, "consumer">>] = "mutex" /\ pc1'[<<u, "consumer">>] = "check" /\ pc1'[<<u, "producer">>] = pc1[<<u, "producer">>]
        /\ \A r \in Runs, y \in SemNames3 : <<r, y>> # <<u, "mutex">> => sem1'[<<r, y>>] = sem1[<<r, y>>]
        /\ sem1' \in [Runs \X SemNames3 -> Nat] /\ pc1' \in [Runs \X RunThreads -> RunPoints] /\ Others(u)
    BY <1>9, <2>0 DEF Called
  <2>2. /\ sem1'[<<u, "nempty">>] = sem1[<<u, "nempty">>]
        /\ sem1'[<<u, "nstored">>] = sem1[<<u, "nstored">>]
    BY <1>0, <1>3, <2>1 DEF S1!Wait, S1!Post, S1!Step, SemNames3
  <2>3. UNCHANGED <<bufs, pi, ci>> BY <1>3 DEF S1!local
  <2>4. RCount(u)'
    <3>1. sem1'[<<u, "nempty">>] + One(pc1'[<<u, "producer">>] \in {"mutex", "store", "unlock", "stored"})
                + (pi'[u] - ci'[u]) = RunSlots
      BY <1>0, <2>1, <2>2, <2>3 DEF RCount, One
    <3>2. sem1'[<<u, "nstored">>] + One(pc1'[<<u, "consumer">>] \in {"mutex", "check", "unlock", "emptied"})
                = pi'[u] - ci'[u]
      BY <1>0, <2>1, <2>2, <2>3 DEF RCount, One
    <3>3. /\ \A k \in ci'[u]..(pi'[u] - 1) : bufs'[u][k % RunSlots] = k
          /\ pc1'[<<u, "producer">>] \in {"unlock", "stored"} => bufs'[u][pi'[u] % RunSlots] = pi'[u]
      BY <1>0, <2>1, <2>3 DEF RCount
    <3> QED BY <3>1, <3>2, <3>3 DEF RCount
  <2> QED BY <1>0, <2>3, <2>4, <2>1, ThreadAlone
<1>4. CASE S1!Step(<<u, "consumer">>, "check", "unlock") /\ UNCHANGED S1!local
  <2>0. Called(u, "consumer", "mutex", "check", "unlock") BY <1>9, <1>4, ThreadStep
  <2>1. /\ pc1[<<u, "consumer">>] = "check" /\ pc1'[<<u, "consumer">>] = "unlock" /\ pc1'[<<u, "producer">>] = pc1[<<u, "producer">>]
        /\ \A r \in Runs, y \in SemNames3 : <<r, y>> # <<u, "mutex">> => sem1'[<<r, y>>] = sem1[<<r, y>>]
        /\ sem1' \in [Runs \X SemNames3 -> Nat] /\ pc1' \in [Runs \X RunThreads -> RunPoints] /\ Others(u)
    BY <1>9, <2>0 DEF Called
  <2>2. /\ sem1'[<<u, "nempty">>] = sem1[<<u, "nempty">>]
        /\ sem1'[<<u, "nstored">>] = sem1[<<u, "nstored">>]
    BY <1>0, <1>4, <2>1 DEF S1!Wait, S1!Post, S1!Step, SemNames3
  <2>3. UNCHANGED <<bufs, pi, ci>> BY <1>4 DEF S1!local
  <2>4. RCount(u)'
    <3>1. sem1'[<<u, "nempty">>] + One(pc1'[<<u, "producer">>] \in {"mutex", "store", "unlock", "stored"})
                + (pi'[u] - ci'[u]) = RunSlots
      BY <1>0, <2>1, <2>2, <2>3 DEF RCount, One
    <3>2. sem1'[<<u, "nstored">>] + One(pc1'[<<u, "consumer">>] \in {"mutex", "check", "unlock", "emptied"})
                = pi'[u] - ci'[u]
      BY <1>0, <2>1, <2>2, <2>3 DEF RCount, One
    <3>3. /\ \A k \in ci'[u]..(pi'[u] - 1) : bufs'[u][k % RunSlots] = k
          /\ pc1'[<<u, "producer">>] \in {"unlock", "stored"} => bufs'[u][pi'[u] % RunSlots] = pi'[u]
      BY <1>0, <2>1, <2>3 DEF RCount
    <3> QED BY <3>1, <3>2, <3>3 DEF RCount
  <2> QED BY <1>0, <2>3, <2>4, <2>1, ThreadAlone
<1>5. CASE S1!Post(<<u, "consumer">>, "unlock", <<u, "mutex">>, "emptied") /\ UNCHANGED S1!local
  <2>0. Called(u, "consumer", "mutex", "unlock", "emptied") BY <1>9, <1>5, ThreadStep
  <2>1. /\ pc1[<<u, "consumer">>] = "unlock" /\ pc1'[<<u, "consumer">>] = "emptied" /\ pc1'[<<u, "producer">>] = pc1[<<u, "producer">>]
        /\ \A r \in Runs, y \in SemNames3 : <<r, y>> # <<u, "mutex">> => sem1'[<<r, y>>] = sem1[<<r, y>>]
        /\ sem1' \in [Runs \X SemNames3 -> Nat] /\ pc1' \in [Runs \X RunThreads -> RunPoints] /\ Others(u)
    BY <1>9, <2>0 DEF Called
  <2>2. /\ sem1'[<<u, "nempty">>] = sem1[<<u, "nempty">>]
        /\ sem1'[<<u, "nstored">>] = sem1[<<u, "nstored">>]
    BY <1>0, <1>5, <2>1 DEF S1!Wait, S1!Post, S1!Step, SemNames3
  <2>3. UNCHANGED <<bufs, pi, ci>> BY <1>5 DEF S1!local
  <2>4. RCount(u)'
    <3>1. sem1'[<<u, "nempty">>] + One(pc1'[<<u, "producer">>] \in {"mutex", "store", "unlock", "stored"})
                + (pi'[u] - ci'[u]) = RunSlots
      BY <1>0, <2>1, <2>2, <2>3 DEF RCount, One
    <3>2. sem1'[<<u, "nstored">>] + One(pc1'[<<u, "consumer">>] \in {"mutex", "check", "unlock", "emptied"})
                = pi'[u] - ci'[u]
      BY <1>0, <2>1, <2>2, <2>3 DEF RCount, One
    <3>3. /\ \A k \in ci'[u]..(pi'[u] - 1) : bufs'[u][k % RunSlots] = k
          /\ pc1'[<<u, "producer">>] \in {"unlock", "stored"} => bufs'[u][pi'[u] % RunSlots] = pi'[u]
      BY <1>0, <2>1, <2>3 DEF RCount
    <3> QED BY <3>1, <3>2, <3>3 DEF RCount
  <2> QED BY <1>0, <2>3, <2>4, <2>1, ThreadAlone
<1>6. CASE S1!Post(<<u, "consumer">>, "emptied", <<u, "nempty">>, "nstored") /\ ci' = [ci EXCEPT ![u] = @ + 1] /\ UNCHANGED <<bufs, pi>>
  <2>0. Called(u, "consumer", "nempty", "emptied", "nstored") BY <1>9, <1>6, ThreadStep
  <2>1. /\ pc1[<<u, "consumer">>] = "emptied" /\ pc1'[<<u, "consumer">>] = "nstored" /\ pc1'[<<u, "producer">>] = pc1[<<u, "producer">>]
        /\ \A r \in Runs, y \in SemNames3 : <<r, y>> # <<u, "nempty">> => sem1'[<<r, y>>] = sem1[<<r, y>>]
        /\ sem1' \in [Runs \X SemNames3 -> Nat] /\ pc1' \in [Runs \X RunThreads -> RunPoints] /\ Others(u)
    BY <1>9, <2>0 DEF Called
  <2>2. /\ sem1'[<<u, "nempty">>] = sem1[<<u, "nempty">>] + 1
        /\ sem1'[<<u, "nstored">>] = sem1[<<u, "nstored">>]
    BY <1>0, <1>6, <2>1 DEF S1!Wait, S1!Post, S1!Step, SemNames3
  <2>3. ci'[u] = ci[u] + 1 /\ ci' \in [Runs -> Nat] /\ bufs' = bufs /\ pi' = pi
        /\ \A r \in Runs : r # u => ci'[r] = ci[r]
    BY <1>0, <1>6
  <2>4. RCount(u)'
    <3>1. \A k \in ci'[u]..(pi'[u] - 1) : k \in ci[u]..(pi[u] - 1) BY <1>0, <2>3
    <3>2. \A k \in ci'[u]..(pi'[u] - 1) : bufs'[u][k % RunSlots] = k BY <2>3, <1>0, <3>1 DEF RCount
    <3>10. /\ One(pc1[<<u, "consumer">>] \in {"mutex", "check", "unlock", "emptied"}) = 1 /\ One(pc1'[<<u, "consumer">>] \in {"mutex", "check", "unlock", "emptied"}) = 0
          /\ One(pc1'[<<u, "producer">>] \in {"mutex", "store", "unlock", "stored"}) = One(pc1[<<u, "producer">>] \in {"mutex", "store", "unlock", "stored"}) /\ One(pc1[<<u, "producer">>] \in {"mutex", "store", "unlock", "stored"}) \in Int
      BY <2>1 DEF One
    <3>11. pi'[u] = pi[u] /\ ci'[u] = ci[u] + 1 BY <2>3
    <3>12. /\ sem1[<<u, "nempty">>] + One(pc1[<<u, "producer">>] \in {"mutex", "store", "unlock", "stored"}) + (pi[u] - ci[u]) = RunSlots
           /\ sem1[<<u, "nstored">>] + One(pc1[<<u, "consumer">>] \in {"mutex", "check", "unlock", "emptied"}) = pi[u] - ci[u]
      BY <1>0 DEF RCount
    <3>13. /\ pi[u] \in Nat /\ ci[u] \in Nat /\ sem1[<<u, "nempty">>] \in Nat /\ sem1[<<u, "nstored">>] \in Nat
           /\ RunSlots \in Nat
      BY <1>0
    <3>3. sem1'[<<u, "nempty">>] + One(pc1'[<<u, "producer">>] \in {"mutex", "store", "unlock", "stored"})
                + (pi'[u] - ci'[u]) = RunSlots
      BY <2>2, <3>10, <3>11, <3>12, <3>13
    <3>4. sem1'[<<u, "nstored">>] + One(pc1'[<<u, "consumer">>] \in {"mutex", "check", "unlock", "emptied"})
                = pi'[u] - ci'[u]
      BY <2>2, <3>10, <3>11, <3>12, <3>13
    <3>5. pc1'[<<u, "producer">>] \in {"unlock", "stored"} => bufs'[u][pi'[u] % RunSlots] = pi'[u]
      BY <1>0, <2>1, <2>3 DEF RCount
    <3> QED BY <3>2, <3>3, <3>4, <3>5 DEF RCount
  <2> QED BY <1>0, <2>3, <2>4, <2>1, ThreadAlone
<1>11. S1!H(u, "mutex") = <<u, "mutex">> /\ S1!H(u, "nempty") = <<u, "nempty">> /\ S1!H(u, "nstored") = <<u, "nstored">>
  BY <1>10 DEF SemNames3
<1> QED BY <1>1, <1>2, <1>3, <1>4, <1>5, <1>6, <1>11 DEF S1!Consumer, S1!P, S1!C

\* The consumer of a run that passed nstored finds the item it expects.
LEMMA ReadsExpected == ASSUME RInv PROVE S1!ReadsExpectedItem
<1> SUFFICES ASSUME NEW r \in Runs, mains[r] = S1!At("join", 0), pc1[<<r, "consumer">>] = "check"
             PROVE  pi[r] > ci[r] /\ bufs[r][ci[r] % RunSlots] = ci[r]
  BY DEF S1!ReadsExpectedItem, S1!C
<1>1. RCount(r) BY DEF RInv, ROwn
<1>2. pi[r] \in Nat /\ ci[r] \in Nat /\ sem1[<<r, "nstored">>] \in Nat BY DEF RInv, RTypes, SemNames3
<1>3. pi[r] > ci[r] BY <1>1, <1>2 DEF RCount, One
<1> QED BY <1>1, <1>2, <1>3 DEF RCount

\* The invariant is inductive, and a step of main() takes no name away from
\* another run.
LEMMA RStep == ASSUME RInv, [Next]_vars PROVE RInv' /\ [S1!UnlinksOwnNames]_(S1!vars)
<1>1. ASSUME NEW u \in Runs, Alone(u) PROVE RInv' /\ S1!UnlinksOwnNames
  <2>1. ASSUME NEW r \in Runs, r # u PROVE ROwn(r)' /\ RNames(r)'
    <3>1. Apart(r) /\ ROwn(r) /\ RNames(r) /\ r # "none" BY <1>1, <2>1, RunsAssumption DEF Alone, RInv
    <3>2. ROwn(r)' BY <3>1, RFrame
    <3>3. RNames(r)' BY <1>1, <2>1, <3>1 DEF RNames, Apart, Alone, KeepsNames
    <3> QED BY <3>2, <3>3
  <2>2. RTypes' /\ ROwn(u)' /\ RNames(u)' BY <1>1 DEF Alone
  <2>3. RInv' BY <2>1, <2>2 DEF RInv
  <2>4. ASSUME NEW r \in Runs, NEW s \in SemNames3, names[s] \notin {"none", r}, mains[r] # mains'[r]
        PROVE  names'[s] = names[s]
    <3>1. r = u BY <1>1, <2>4 DEF Alone, Apart
    <3> QED BY <1>1, <2>4, <3>1 DEF Alone, KeepsNames
  <2>5. S1!UnlinksOwnNames BY <2>4, Order DEF S1!UnlinksOwnNames, S1!None
  <2> QED BY <2>3, <2>5
<1>2. CASE UNCHANGED vars1
  <2>1. RInv'
    <3>1. RTypes' BY <1>2 DEF vars1, RInv, RTypes
    <3>2. ASSUME NEW r \in Runs PROVE ROwn(r)' /\ RNames(r)'
      <4>1. Apart(r) BY <1>2 DEF vars1, Apart
      <4>2. ROwn(r)' BY <4>1, RFrame DEF RInv
      <4>3. RNames(r)' BY <1>2 DEF vars1, RInv, RNames
      <4> QED BY <4>2, <4>3
    <3> QED BY <3>1, <3>2 DEF RInv
  <2>2. UNCHANGED S1!vars BY <1>2 DEF vars1, S1!vars, S1!local
  <2> QED BY <2>1, <2>2
<1>3. CASE In1(S1!Next)
  <2>1. CASE \E r \in Runs : S1!Start(r) \/ S1!Main(r) \/ S1!Producer(r) \/ S1!Consumer(r) \/ S1!Kill(r)
    <3>1. PICK u \in Runs : S1!Start(u) \/ S1!Main(u) \/ S1!Producer(u) \/ S1!Consumer(u) \/ S1!Kill(u)
      BY <2>1
    <3>2. Alone(u)
      BY <3>1, StartKill, Opens, Inits, Creates, Joins, Unlinks, ProducerAlone, ConsumerAlone DEF S1!Main
    <3> QED BY <1>1, <3>2
  <2>2. CASE UNCHANGED S1!vars BY <1>2, <2>2 DEF vars1, S1!vars, S1!local
  <2> QED BY <1>3, <2>1, <2>2 DEF In1, S1!Next
<1> QED BY <1>2, <1>3 DEF Next, In3, InM, InT, vars

\* Whichever runs of sem_prodcons1.c and sem_prodcons2.c overlap, are killed or
\* fail half-way, a consumer reads what its own producer stored, and no run
\* removes a name that another one created.
THEOREM RunsApart == Spec => RunsStayApart
<1>1. Init => RInv BY RInit
<1>2. RInv => S1!ReadsExpectedItem BY ReadsExpected
<1>3. RInv /\ [Next]_vars => RInv' /\ [S1!UnlinksOwnNames]_(S1!vars) BY RStep
<1>4. S1!ReadsExpectedItem' /\ [S1!UnlinksOwnNames]_(S1!vars)
        => [S1!ReadsExpectedItem' /\ S1!UnlinksOwnNames]_(S1!vars)
  OBVIOUS
<1> QED BY <1>1, <1>2, <1>3, <1>4, PTL DEF Spec, RunsStayApart, S1!RunsStayApart

-----------------------------------------------------------------------------
(***************************************************************************)
(* sem_multibuffer.c                                                       *)
(***************************************************************************)
\* After a blocks stored and c blocks written out.  A thread that has come
\* through its sem_wait owns the buffer at its index until its sem_post.
BTypes ==
  /\ semM \in [{"mutex", "nempty", "nstored"} -> Nat]
  /\ DOMAIN pcM = {"producer", "consumer"} /\ DOMAIN buff = 0..(Buffers - 1)
  /\ pcM["producer"] \in {"nempty", "mutex", "unlock", "read", "reading", "stored", "done"}
  /\ pcM["consumer"] \in {"nstored", "mutex", "unlock", "test", "write", "emptied", "done"}
  /\ offset \in 0..NBlocks /\ out \in Seq(Nat)
BSems(a, c) ==
  /\ semM["nempty"] + a + One(pcM["producer"] # "nempty") = Buffers + c
  /\ semM["nstored"] + c + One(pcM["consumer"] # "nstored") = a + One(pcM["producer"] = "done")
BProducer(a) ==
  /\ ip = a % Buffers
  /\ pcM["producer"] = "stored" =>
       (buff[ip] = 0 /\ offset = NBlocks /\ a = offset) \/ (buff[ip] = offset /\ a + 1 = offset)
  /\ pcM["producer"] # "stored" => a = offset
  /\ pcM["producer"] = "done" => buff[ip] = 0 /\ offset = NBlocks
BConsumer(a, c) ==
  /\ ic = c % Buffers /\ c <= a
  /\ Len(out) = c + One(pcM["consumer"] = "emptied") /\ \A k \in 1..Len(out) : out[k] = k
  /\ pcM["consumer"] \in {"write", "emptied"} => c < a
  /\ pcM["consumer"] = "done" => c = NBlocks
BStored(a, c) == \A k \in Nat : c <= k /\ k < a => buff[k % Buffers] = k + 1
BAt(a, c) ==
  a \in Nat /\ c \in Nat /\ BTypes /\ BSems(a, c) /\ BProducer(a) /\ BConsumer(a, c) /\ BStored(a, c)
BInv == \E a, c : BAt(a, c)

\* What has been written out is the beginning of the file; all of it, when the
\* consumer has ended.  No block is lost, repeated or read half filled.
CopiesFile ==
  /\ Len(out) <= NBlocks /\ \A k \in 1..Len(out) : out[k] = k
  /\ pcM["consumer"] = "done" => out = MB!File

\* The invariant has it.
LEMMA BInvCopies == ASSUME BInv PROVE CopiesFile
<1>1. PICK a, c : BAt(a, c) BY DEF BInv
<1>2. /\ a \in Nat /\ c \in Nat /\ BTypes /\ BSems(a, c) /\ BProducer(a) /\ BConsumer(a, c)
      /\ Buffers \in Nat \ {0} /\ NBlocks \in Nat
  BY <1>1, CopyAssumption DEF BAt
<1>3. a <= offset /\ offset <= NBlocks /\ offset \in Nat BY <1>2 DEF BProducer, BTypes
<1>4. semM["nstored"] \in Nat BY <1>2 DEF BTypes
<1>5. c <= a BY <1>2 DEF BConsumer
<1>6. Len(out) <= NBlocks BY <1>2, <1>3, <1>5 DEF BConsumer, One
<1>7. ASSUME pcM["consumer"] = "done" PROVE out = MB!File
  <2>1. Len(out) = NBlocks /\ \A k \in 1..Len(out) : out[k] = k BY <1>2, <1>7 DEF BConsumer, One
  <2>2. out \in Seq(Nat) BY <1>2 DEF BTypes
  <2>3. DOMAIN out = 1..NBlocks BY <2>1, <2>2
  <2>4. out = [k \in 1..NBlocks |-> k] BY <2>1, <2>2, <2>3
  <2> QED BY <2>4 DEF MB!File
<1> QED BY <1>2, <1>6, <1>7 DEF CopiesFile, BConsumer

\* Initially all buffers are empty.
LEMMA BInit == ASSUME MB!Init PROVE BInv
<1>1. /\ semM = [s \in {"mutex", "nempty", "nstored"} |->
                   CASE s = "mutex" -> 1 [] s = "nempty" -> Buffers [] s = "nstored" -> 0]
      /\ pcM = [producer |-> "nempty", consumer |-> "nstored"]
      /\ buff = [k \in 0..(Buffers - 1) |-> 0]
      /\ offset = 0 /\ ip = 0 /\ ic = 0 /\ out = <<>>
  BY DEF MB!Init, MB!EOF
<1>2. Buffers \in Nat \ {0} /\ NBlocks \in Nat /\ 0 % Buffers = 0 BY CopyAssumption
<1>3. semM["mutex"] = 1 /\ semM["nempty"] = Buffers /\ semM["nstored"] = 0 BY <1>1
<1>4. semM \in [{"mutex", "nempty", "nstored"} -> Nat] BY <1>1, <1>2
<1>5. BTypes BY <1>1, <1>2, <1>4 DEF BTypes
<1>6. BSems(0, 0) BY <1>1, <1>2, <1>3 DEF BSems, One
<1>7. BProducer(0) BY <1>1, <1>2 DEF BProducer
<1>8. BConsumer(0, 0) BY <1>1, <1>2 DEF BConsumer, One
<1>9. BStored(0, 0) BY DEF BStored
<1>10. BAt(0, 0) BY <1>5, <1>6, <1>7, <1>8, <1>9 DEF BAt
<1> QED BY <1>10 DEF BInv

\* What the actions do to semaphores and control points.
LEMMA BMoved ==
  ASSUME BTypes, NEW t \in {"producer", "consumer"}, NEW x, NEW y, pcM[t] = x, pcM' = [pcM EXCEPT ![t] = y]
  PROVE  /\ DOMAIN pcM' = {"producer", "consumer"} /\ pcM'[t] = y
         /\ t = "producer" => pcM'["consumer"] = pcM["consumer"]
         /\ t = "consumer" => pcM'["producer"] = pcM["producer"]
BY DEF BTypes

\* The producer waits for a buffer, and passes the mutex.
LEMMA BEnter == ASSUME NEW a, NEW c, BAt(a, c), MB!P_Enter PROVE BAt(a, c)'
<1>0. /\ a \in Nat /\ c \in Nat /\ BTypes /\ BSems(a, c) /\ BProducer(a) /\ BConsumer(a, c) /\ BStored(a, c)
      /\ Buffers \in Nat \ {0} /\ NBlocks \in Nat /\ semM \in [{"mutex", "nempty", "nstored"} -> Nat]
  BY CopyAssumption DEF BAt, BTypes
<1>1. buff' = buff /\ offset' = offset /\ ip' = ip /\ ic' = ic /\ out' = out BY DEF MB!P_Enter, MB!data
<1>2. CASE MB!Wait("producer", "nempty", "nempty", "mutex")
  <2>1. /\ pcM["producer"] = "nempty" /\ pcM' = [pcM EXCEPT !["producer"] = "mutex"]
        /\ semM["nempty"] > 0 /\ semM' = [semM EXCEPT !["nempty"] = @ - 1]
    BY <1>2 DEF MB!Wait, MB!Move
  <2>2. DOMAIN pcM' = {"producer", "consumer"} /\ pcM'["producer"] = "mutex" /\ pcM'["consumer"] = pcM["consumer"]
    BY <1>0, <2>1, BMoved
  <2>3. /\ semM' \in [{"mutex", "nempty", "nstored"} -> Nat] /\ semM'["nempty"] = semM["nempty"] - 1
        /\ semM'["nstored"] = semM["nstored"]
    BY <1>0, <2>1
  <2>4. BTypes' BY <1>0, <1>1, <2>2, <2>3 DEF BTypes
  <2>5. BSems(a, c)' BY <1>0, <2>1, <2>2, <2>3 DEF BSems, One
  <2>6. BProducer(a)' BY <1>0, <1>1, <2>1, <2>2 DEF BProducer
  <2>7. BConsumer(a, c)' BY <1>0, <1>1, <2>2 DEF BConsumer
  <2> QED BY <1>0, <1>1, <2>4, <2>5, <2>6, <2>7 DEF BAt, BStored
<1>3. CASE \/ MB!Wait("producer", "mutex", "mutex", "unlock") \/ MB!Post("producer", "unlock", "mutex", "read")
  <2>1. PICK x \in {"mutex", "unlock"}, y \in {"unlock", "read"}, d \in Int :
          /\ pcM["producer"] = x /\ pcM' = [pcM EXCEPT !["producer"] = y]
          /\ semM["mutex"] + d \in Nat /\ semM' = [semM EXCEPT !["mutex"] = @ + d]
    <3>1. CASE MB!Wait("producer", "mutex", "mutex", "unlock")
      <4>1. semM["mutex"] - 1 = semM["mutex"] + (-1) /\ semM["mutex"] + (-1) \in Nat BY <1>0, <3>1 DEF MB!Wait
      <4>2. /\ pcM["producer"] = "mutex" /\ pcM' = [pcM EXCEPT !["producer"] = "unlock"]
            /\ semM' = [semM EXCEPT !["mutex"] = semM["mutex"] - 1]
        BY <3>1 DEF MB!Wait, MB!Move
      <4>3. -1 \in Int OBVIOUS
      <4> QED BY <4>1, <4>2, <4>3
    <3>2. CASE MB!Post("producer", "unlock", "mutex", "read")
      <4>1. semM["mutex"] + 1 \in Nat /\ 1 \in Int BY <1>0
      <4>2. /\ pcM["producer"] = "unlock" /\ pcM' = [pcM EXCEPT !["producer"] = "read"]
            /\ semM' = [semM EXCEPT !["mutex"] = semM["mutex"] + 1]
        BY <3>2 DEF MB!Post, MB!Move
      <4> QED BY <4>1, <4>2
    <3> QED BY <1>3, <3>1, <3>2
  <2>2. DOMAIN pcM' = {"producer", "consumer"} /\ pcM'["producer"] = y /\ pcM'["consumer"] = pcM["consumer"]
    BY <1>0, <2>1, BMoved
  <2>3. /\ semM' \in [{"mutex", "nempty", "nstored"} -> Nat] /\ semM'["nempty"] = semM["nempty"]
        /\ semM'["nstored"] = semM["nstored"]
    BY <1>0, <2>1
  <2>4. BTypes' BY <1>0, <1>1, <2>2, <2>3 DEF BTypes
  <2>5. BSems(a, c)' BY <1>0, <2>1, <2>2, <2>3 DEF BSems, One
  <2>6. BProducer(a)' BY <1>0, <1>1, <2>1, <2>2 DEF BProducer
  <2>7. BConsumer(a, c)' BY <1>0, <1>1, <2>2 DEF BConsumer
  <2> QED BY <1>0, <1>1, <2>4, <2>5, <2>6, <2>7 DEF BAt, BStored
<1> QED BY <1>2, <1>3 DEF MB!P_Enter

\* The consumer waits for a block, and passes the mutex.
LEMMA BLeave == ASSUME NEW a, NEW c, BAt(a, c), MB!C_Enter PROVE BAt(a, c)'
<1>0. /\ a \in Nat /\ c \in Nat /\ BTypes /\ BSems(a, c) /\ BProducer(a) /\ BConsumer(a, c) /\ BStored(a, c)
      /\ Buffers \in Nat \ {0} /\ NBlocks \in Nat /\ semM \in [{"mutex", "nempty", "nstored"} -> Nat]
  BY CopyAssumption DEF BAt, BTypes
<1>1. buff' = buff /\ offset' = offset /\ ip' = ip /\ ic' = ic /\ out' = out BY DEF MB!C_Enter, MB!data
<1>2. CASE MB!Wait("consumer", "nstored", "nstored", "mutex")
  <2>1. /\ pcM["consumer"] = "nstored" /\ pcM' = [pcM EXCEPT !["consumer"] = "mutex"]
        /\ semM["nstored"] > 0 /\ semM' = [semM EXCEPT !["nstored"] = @ - 1]
    BY <1>2 DEF MB!Wait, MB!Move
  <2>2. DOMAIN pcM' = {"producer", "consumer"} /\ pcM'["consumer"] = "mutex" /\ pcM'["producer"] = pcM["producer"]
    BY <1>0, <2>1, BMoved
  <2>3. /\ semM' \in [{"mutex", "nempty", "nstored"} -> Nat] /\ semM'["nstored"] = semM["nstored"] - 1
        /\ semM'["nempty"] = semM["nempty"]
    BY <1>0, <2>1
  <2>4. BTypes' BY <1>0, <1>1, <2>2, <2>3 DEF BTypes
  <2>5. BSems(a, c)' BY <1>0, <2>1, <2>2, <2>3 DEF BSems, One
  <2>6. BProducer(a)' BY <1>0, <1>1, <2>2 DEF BProducer
  <2>7. BConsumer(a, c)' BY <1>0, <1>1, <2>1, <2>2 DEF BConsumer, One
  <2> QED BY <1>0, <1>1, <2>4, <2>5, <2>6, <2>7 DEF BAt, BStored
<1>3. CASE \/ MB!Wait("consumer", "mutex", "mutex", "unlock") \/ MB!Post("consumer", "unlock", "mutex", "test")
  <2>1. PICK x \in {"mutex", "unlock"}, y \in {"unlock", "test"}, d \in Int :
          /\ pcM["consumer"] = x /\ pcM' = [pcM EXCEPT !["consumer"] = y]
          /\ semM["mutex"] + d \in Nat /\ semM' = [semM EXCEPT !["mutex"] = @ + d]
    <3>1. CASE MB!Wait("consumer", "mutex", "mutex", "unlock")
      <4>1. semM["mutex"] - 1 = semM["mutex"] + (-1) /\ semM["mutex"] + (-1) \in Nat BY <1>0, <3>1 DEF MB!Wait
      <4>2. /\ pcM["consumer"] = "mutex" /\ pcM' = [pcM EXCEPT !["consumer"] = "unlock"]
            /\ semM' = [semM EXCEPT !["mutex"] = semM["mutex"] - 1]
        BY <3>1 DEF MB!Wait, MB!Move
      <4>3. -1 \in Int OBVIOUS
      <4> QED BY <4>1, <4>2, <4>3
    <3>2. CASE MB!Post("consumer", "unlock", "mutex", "test")
      <4>1. semM["mutex"] + 1 \in Nat /\ 1 \in Int BY <1>0
      <4>2. /\ pcM["consumer"] = "unlock" /\ pcM' = [pcM EXCEPT !["consumer"] = "test"]
            /\ semM' = [semM EXCEPT !["mutex"] = semM["mutex"] + 1]
        BY <3>2 DEF MB!Post, MB!Move
      <4> QED BY <4>1, <4>2
    <3> QED BY <1>3, <3>1, <3>2
  <2>2. DOMAIN pcM' = {"producer", "consumer"} /\ pcM'["consumer"] = y /\ pcM'["producer"] = pcM["producer"]
    BY <1>0, <2>1, BMoved
  <2>3. /\ semM' \in [{"mutex", "nempty", "nstored"} -> Nat] /\ semM'["nempty"] = semM["nempty"]
        /\ semM'["nstored"] = semM["nstored"]
    BY <1>0, <2>1
  <2>4. BTypes' BY <1>0, <1>1, <2>2, <2>3 DEF BTypes
  <2>5. BSems(a, c)' BY <1>0, <2>1, <2>2, <2>3 DEF BSems, One
  <2>6. BProducer(a)' BY <1>0, <1>1, <2>2 DEF BProducer
  <2>7. BConsumer(a, c)' BY <1>0, <1>1, <2>1, <2>2 DEF BConsumer, One
  <2> QED BY <1>0, <1>1, <2>4, <2>5, <2>6, <2>7 DEF BAt, BStored
<1> QED BY <1>2, <1>3 DEF MB!C_Enter

\* The buffer that the producer fills holds none of the stored blocks.
LEMMA BFree ==
  ASSUME NEW a, NEW c, BAt(a, c), pcM["producer"] # "nempty"
  PROVE  \A k \in Nat : c <= k /\ k < a => k % Buffers # a % Buffers
<1>0. /\ a \in Nat /\ c \in Nat /\ BTypes /\ BSems(a, c)
      /\ Buffers \in Nat \ {0} /\ NBlocks \in Nat /\ semM \in [{"mutex", "nempty", "nstored"} -> Nat]
  BY CopyAssumption DEF BAt, BTypes
<1>1. semM["nempty"] \in Nat BY <1>0
<1>2. a + 1 <= Buffers + c BY <1>0, <1>1 DEF BSems, One
<1> SUFFICES ASSUME NEW k \in Nat, c <= k, k < a PROVE k % Buffers # a % Buffers OBVIOUS
<1>3. a < k + Buffers BY <1>0, <1>2
<1> QED BY <1>0, <1>3, ModDistinct

\* The producer fills its buffer: a block, or the end of the file.
LEMMA BRead == ASSUME NEW a, NEW c, BAt(a, c), MB!P_Read PROVE BAt(a, c)'
<1>0. /\ a \in Nat /\ c \in Nat /\ BTypes /\ BSems(a, c) /\ BProducer(a) /\ BConsumer(a, c) /\ BStored(a, c)
      /\ Buffers \in Nat \ {0} /\ NBlocks \in Nat /\ offset \in Nat /\ offset <= NBlocks
  BY CopyAssumption DEF BAt, BTypes
<1>1. /\ ip' = ip /\ ic' = ic /\ out' = out /\ semM' = semM
      /\ pcM["producer"] \in {"read", "reading"}
  BY DEF MB!P_Read, MB!Step, MB!Move
<1>2. PICK y, v :
        /\ pcM' = [pcM EXCEPT !["producer"] = y] /\ buff' = [buff EXCEPT ![ip] = v]
        /\ \/ y = "reading" /\ offset' = offset
           \/ y = "stored" /\ offset < NBlocks /\ v = offset + 1 /\ offset' = offset + 1
           \/ y = "stored" /\ offset = NBlocks /\ v = 0 /\ offset' = offset
  <2>1. CASE /\ MB!Step("producer", "read", "reading") /\ buff' = [buff EXCEPT ![ip] = MB!Unread]
             /\ UNCHANGED <<offset, ip, ic, out>>
    BY <2>1 DEF MB!Step, MB!Move
  <2>2. CASE /\ MB!Step("producer", "reading", "stored")
             /\ buff' = [buff EXCEPT ![ip] = IF offset < NBlocks THEN offset + 1 ELSE MB!EOF]
             /\ offset' = IF offset < NBlocks THEN offset + 1 ELSE offset
    <3>1. CASE offset < NBlocks BY <2>2, <3>1 DEF MB!Step, MB!Move
    <3>2. CASE ~(offset < NBlocks)
      <4>1. offset = NBlocks BY <1>0, <3>2
      <4> QED BY <2>2, <3>2, <4>1 DEF MB!Step, MB!Move, MB!EOF
    <3> QED BY <3>1, <3>2
  <2> QED BY <2>1, <2>2 DEF MB!P_Read
<1>3. /\ DOMAIN pcM' = {"producer", "consumer"} /\ pcM'["producer"] = y /\ pcM'["consumer"] = pcM["consumer"]
  BY <1>0, <1>2, BMoved
<1>4. a = offset /\ ip = a % Buffers BY <1>0, <1>1 DEF BProducer
<1>5. ip \in 0..(Buffers - 1) BY <1>0, <1>4, ModIn
<1>6. /\ DOMAIN buff' = 0..(Buffers - 1) /\ buff'[ip] = v
      /\ \A k \in 0..(Buffers - 1) : k # ip => buff'[k] = buff[k]
  BY <1>0, <1>2, <1>5 DEF BTypes
<1>7. BTypes'
  <2>1. offset' \in 0..NBlocks /\ y \in {"reading", "stored"} BY <1>0, <1>2
  <2> QED BY <1>0, <1>1, <1>3, <1>6, <2>1 DEF BTypes
<1>8. BSems(a, c)' BY <1>0, <1>1, <1>2, <1>3 DEF BSems, One
<1>9. BProducer(a)' BY <1>0, <1>1, <1>2, <1>3, <1>4, <1>6 DEF BProducer
<1>10. BConsumer(a, c)' BY <1>0, <1>1, <1>3 DEF BConsumer
<1>11. BStored(a, c)'
  <2> SUFFICES ASSUME NEW k \in Nat, c <= k, k < a PROVE buff'[k % Buffers] = k + 1 BY DEF BStored
  <2>1. k % Buffers # a % Buffers BY <1>1, BFree
  <2>2. k % Buffers \in 0..(Buffers - 1) BY <1>0, ModIn
  <2>3. buff[k % Buffers] = k + 1 BY <1>0 DEF BStored
  <2> QED BY <1>4, <1>6, <2>1, <2>2, <2>3
<1> QED BY <1>0, <1>7, <1>8, <1>9, <1>10, <1>11 DEF BAt

\* The producer hands its buffer over.
LEMMA BStores == ASSUME NEW a, NEW c, BAt(a, c), MB!P_Stored PROVE BInv'
<1>0. /\ a \in Nat /\ c \in Nat /\ BTypes /\ BSems(a, c) /\ BProducer(a) /\ BConsumer(a, c) /\ BStored(a, c)
      /\ Buffers \in Nat \ {0} /\ NBlocks \in Nat /\ offset \in Nat
      /\ semM \in [{"mutex", "nempty", "nstored"} -> Nat]
  BY CopyAssumption DEF BAt, BTypes
<1>1. PICK y :
        /\ y = (IF buff[ip] = 0 THEN "done" ELSE "nempty") /\ pcM' = [pcM EXCEPT !["producer"] = y]
        /\ pcM["producer"] = "stored" /\ semM' = [semM EXCEPT !["nstored"] = @ + 1]
        /\ ip' = (IF buff[ip] = 0 THEN ip ELSE MB!Inc(ip))
        /\ buff' = buff /\ offset' = offset /\ ic' = ic /\ out' = out
  BY DEF MB!P_Stored, MB!Post, MB!Move, MB!EOF
<1>2. /\ DOMAIN pcM' = {"producer", "consumer"} /\ pcM'["producer"] = y /\ pcM'["consumer"] = pcM["consumer"]
  BY <1>0, <1>1, BMoved
<1>3. /\ semM' \in [{"mutex", "nempty", "nstored"} -> Nat] /\ semM'["nstored"] = semM["nstored"] + 1
      /\ semM'["nempty"] = semM["nempty"]
  BY <1>0, <1>1
<1>4. BTypes'
  <2>1. y \in {"nempty", "done"} BY <1>1
  <2> QED BY <1>0, <1>1, <1>2, <1>3, <2>1 DEF BTypes
<1>5. CASE buff[ip] = 0
  <2>1. y = "done" /\ ip' = ip BY <1>1, <1>5
  <2>2. a = offset /\ offset = NBlocks /\ ip = a % Buffers BY <1>0, <1>1, <1>5 DEF BProducer
  <2>3. BSems(a, c)' BY <1>0, <1>1, <1>2, <1>3, <2>1 DEF BSems, One
  <2>4. BProducer(a)' BY <1>1, <1>2, <1>5, <2>1, <2>2 DEF BProducer
  <2>5. BConsumer(a, c)' BY <1>0, <1>1, <1>2 DEF BConsumer
  <2>6. BStored(a, c)' BY <1>0, <1>1 DEF BStored
  <2>7. BAt(a, c)' BY <1>0, <1>4, <2>3, <2>4, <2>5, <2>6 DEF BAt
  <2> QED BY <2>7 DEF BInv
<1>6. CASE buff[ip] # 0
  <2>1. y = "nempty" /\ ip' = MB!Inc(ip) BY <1>1, <1>6
  <2>2. buff[ip] = offset /\ a + 1 = offset /\ ip = a % Buffers BY <1>0, <1>1, <1>6 DEF BProducer
  <2>3. PICK b : b = a + 1 OBVIOUS
  <2>4. b \in Nat /\ ip' = b % Buffers BY <1>0, <2>1, <2>2, <2>3, ModSucc DEF MB!Inc
  <2>5. BSems(b, c)' BY <1>0, <1>1, <1>2, <1>3, <2>1, <2>3 DEF BSems, One
  <2>6. BProducer(b)' BY <1>1, <1>2, <2>1, <2>2, <2>3, <2>4 DEF BProducer
  <2>7. BConsumer(b, c)' BY <1>0, <1>1, <1>2, <2>3 DEF BConsumer
  <2>8. BStored(b, c)'
    <3> SUFFICES ASSUME NEW k \in Nat, c <= k, k < b PROVE buff[k % Buffers] = k + 1 BY <1>1 DEF BStored
    <3>1. CASE k = a BY <2>2, <3>1
    <3>2. CASE k # a
      <4>1. k < a BY <1>0, <2>3, <3>2
      <4> QED BY <1>0, <4>1 DEF BStored
    <3> QED BY <3>1, <3>2
  <2>9. BAt(b, c)' BY <1>0, <1>4, <2>4, <2>5, <2>6, <2>7, <2>8 DEF BAt
  <2> QED BY <2>9 DEF BInv
<1> QED BY <1>5, <1>6

\* The consumer looks at its buffer: the end of the file is behind all blocks.
LEMMA BTests == ASSUME NEW a, NEW c, BAt(a, c), MB!C_Test PROVE BAt(a, c)'
<1>0. /\ a \in Nat /\ c \in Nat /\ BTypes /\ BSems(a, c) /\ BProducer(a) /\ BConsumer(a, c) /\ BStored(a, c)
      /\ Buffers \in Nat \ {0} /\ NBlocks \in Nat /\ semM["nstored"] \in Nat
  BY CopyAssumption DEF BAt, BTypes
<1>1. PICK y :
        /\ y = (IF buff[ic] = 0 THEN "done" ELSE "write") /\ pcM' = [pcM EXCEPT !["consumer"] = y]
        /\ pcM["consumer"] = "test" /\ semM' = semM
        /\ ip' = ip /\ buff' = buff /\ offset' = offset /\ ic' = ic /\ out' = out
  BY DEF MB!C_Test, MB!Step, MB!Move, MB!EOF, MB!data
<1>2. /\ DOMAIN pcM' = {"producer", "consumer"} /\ pcM'["consumer"] = y /\ pcM'["producer"] = pcM["producer"]
  BY <1>0, <1>1, BMoved
<1>3. ic = c % Buffers /\ c <= a BY <1>0 DEF BConsumer
<1>4. CASE c < a
  <2>1. buff[ic] = c + 1 /\ c + 1 # 0 BY <1>0, <1>3, <1>4 DEF BStored
  <2>2. y = "write" BY <1>1, <2>1
  <2>3. BTypes' BY <1>0, <1>1, <1>2, <2>2 DEF BTypes
  <2>4. BSems(a, c)' BY <1>0, <1>1, <1>2, <2>2 DEF BSems, One
  <2>5. BProducer(a)' BY <1>0, <1>1, <1>2 DEF BProducer
  <2>6. BConsumer(a, c)' BY <1>0, <1>1, <1>2, <1>4, <2>2 DEF BConsumer, One
  <2> QED BY <1>0, <1>1, <2>3, <2>4, <2>5, <2>6 DEF BAt, BStored
<1>5. CASE ~(c < a)
  <2>1. c = a BY <1>0, <1>3, <1>5
  <2>2. pcM["producer"] = "done" BY <1>0, <1>1, <2>1 DEF BSems, One
  <2>3. buff[ip] = 0 /\ offset = NBlocks /\ a = offset /\ ip = ic BY <1>0, <1>3, <2>1, <2>2 DEF BProducer
  <2>4. y = "done" /\ c = NBlocks BY <1>1, <2>1, <2>3
  <2>5. BTypes' BY <1>0, <1>1, <1>2, <2>4 DEF BTypes
  <2>6. BSems(a, c)' BY <1>0, <1>1, <1>2, <2>4 DEF BSems, One
  <2>7. BProducer(a)' BY <1>0, <1>1, <1>2 DEF BProducer
  <2>8. BConsumer(a, c)' BY <1>0, <1>1, <1>2, <2>4 DEF BConsumer, One
  <2> QED BY <1>0, <1>1, <2>5, <2>6, <2>7, <2>8 DEF BAt, BStored
<1> QED BY <1>4, <1>5

\* The consumer writes its block out.
LEMMA BWrites == ASSUME NEW a, NEW c, BAt(a, c), MB!C_Write PROVE BAt(a, c)'
<1>0. /\ a \in Nat /\ c \in Nat /\ BTypes /\ BSems(a, c) /\ BProducer(a) /\ BConsumer(a, c) /\ BStored(a, c)
      /\ Buffers \in Nat \ {0} /\ NBlocks \in Nat
  BY CopyAssumption DEF BAt
<1>1. /\ pcM["consumer"] = "write" /\ pcM' = [pcM EXCEPT !["consumer"] = "emptied"] /\ semM' = semM
      /\ out' = Append(out, buff[ic]) /\ ip' = ip /\ buff' = buff /\ offset' = offset /\ ic' = ic
  BY DEF MB!C_Write, MB!Step, MB!Move
<1>2. /\ DOMAIN pcM' = {"producer", "consumer"} /\ pcM'["consumer"] = "emptied" /\ pcM'["producer"] = pcM["producer"]
  BY <1>0, <1>1, BMoved
<1>3. c < a /\ ic = c % Buffers /\ Len(out) = c /\ \A k \in 1..Len(out) : out[k] = k
  BY <1>0, <1>1 DEF BConsumer, One
<1>4. buff[ic] = c + 1 BY <1>0, <1>3 DEF BStored
<1>5. PICK o : o = out' OBVIOUS
<1>6. o \in Seq(Nat) /\ Len(o) = c + 1 /\ \A k \in 1..(c + 1) : o[k] = k
  <2>1. out \in Seq(Nat) /\ c + 1 \in Nat BY <1>0 DEF BTypes
  <2>2. o = Append(out, c + 1) BY <1>1, <1>4, <1>5
  <2>3. o \in Seq(Nat) /\ Len(o) = c + 1 /\ o[c + 1] = c + 1 /\ \A k \in 1..c : o[k] = out[k] BY <1>3, <2>1, <2>2
  <2>4. \A k \in 1..(c + 1) : k \in 1..c \/ k = c + 1 BY <1>0
  <2> QED BY <1>3, <2>3, <2>4
<1>7. BTypes' BY <1>0, <1>1, <1>2, <1>5, <1>6 DEF BTypes
<1>8. BSems(a, c)' BY <1>0, <1>1, <1>2 DEF BSems, One
<1>9. BProducer(a)' BY <1>0, <1>1, <1>2 DEF BProducer
<1>10. BConsumer(a, c)' BY <1>0, <1>1, <1>2, <1>3, <1>5, <1>6 DEF BConsumer, One
<1> QED BY <1>0, <1>1, <1>7, <1>8, <1>9, <1>10 DEF BAt, BStored

\* The consumer gives its buffer back.
LEMMA BEmpties == ASSUME NEW a, NEW c, BAt(a, c), MB!C_Emptied PROVE BInv'
<1>0. /\ a \in Nat /\ c \in Nat /\ BTypes /\ BSems(a, c) /\ BProducer(a) /\ BConsumer(a, c) /\ BStored(a, c)
      /\ Buffers \in Nat \ {0} /\ NBlocks \in Nat /\ semM \in [{"mutex", "nempty", "nstored"} -> Nat]
  BY CopyAssumption DEF BAt, BTypes
<1>1. /\ pcM["consumer"] = "emptied" /\ pcM' = [pcM EXCEPT !["consumer"] = "nstored"]
      /\ semM' = [semM EXCEPT !["nempty"] = @ + 1] /\ ic' = MB!Inc(ic)
      /\ out' = out /\ ip' = ip /\ buff' = buff /\ offset' = offset
  BY DEF MB!C_Emptied, MB!Post, MB!Move
<1>2. /\ DOMAIN pcM' = {"producer", "consumer"} /\ pcM'["consumer"] = "nstored" /\ pcM'["producer"] = pcM["producer"]
  BY <1>0, <1>1, BMoved
<1>3. /\ semM' \in [{"mutex", "nempty", "nstored"} -> Nat] /\ semM'["nempty"] = semM["nempty"] + 1
      /\ semM'["nstored"] = semM["nstored"]
  BY <1>0, <1>1
<1>4. PICK d : d = c + 1 OBVIOUS
<1>5. d \in Nat /\ ic' = d % Buffers /\ d <= a /\ Len(out) = d
  <2>1. ic = c % Buffers /\ c < a /\ Len(out) = c + 1 BY <1>0, <1>1 DEF BConsumer, One
  <2>2. ic' = (c + 1) % Buffers BY <1>0, <1>1, <2>1, ModSucc DEF MB!Inc
  <2> QED BY <1>0, <1>4, <2>1, <2>2
<1>6. BTypes' BY <1>0, <1>1, <1>2, <1>3 DEF BTypes
<1>7. BSems(a, d)' BY <1>0, <1>1, <1>2, <1>3, <1>4 DEF BSems, One
<1>8. BProducer(a)' BY <1>0, <1>1, <1>2 DEF BProducer
<1>9. BConsumer(a, d)' BY <1>0, <1>1, <1>2, <1>5 DEF BConsumer, One
<1>10. BStored(a, d)'
  <2> SUFFICES ASSUME NEW k \in Nat, d <= k, k < a PROVE buff[k % Buffers] = k + 1 BY <1>1 DEF BStored
  <2>1. c <= k BY <1>0, <1>4
  <2> QED BY <1>0, <2>1 DEF BStored
<1>11. BAt(a, d)' BY <1>0, <1>5, <1>6, <1>7, <1>8, <1>9, <1>10 DEF BAt
<1> QED BY <1>11 DEF BInv

\* Every step keeps the invariant.
LEMMA BStep == BInv /\ [Next]_vars => BInv'
<1> SUFFICES ASSUME BInv, [Next]_vars PROVE BInv' OBVIOUS
<1>1. PICK a, c : BAt(a, c) BY DEF BInv
<1>2. CASE UNCHANGED varsM
  <2>1. BAt(a, c)' BY <1>1, <1>2 DEF varsM, BAt, BTypes, BSems, BProducer, BConsumer, BStored
  <2> QED BY <2>1 DEF BInv
<1>3. CASE MB!P_Enter \/ MB!C_Enter \/ MB!P_Read \/ MB!C_Test \/ MB!C_Write
  <2>1. BAt(a, c)' BY <1>1, <1>3, BEnter, BLeave, BRead, BTests, BWrites
  <2> QED BY <2>1 DEF BInv
<1>4. CASE MB!P_Stored \/ MB!C_Emptied BY <1>1, <1>4, BStores, BEmpties
<1>5. CASE MB!Joined /\ UNCHANGED MB!vars BY <1>2, <1>5 DEF MB!vars, MB!data, varsM
<1>6. CASE MB!Next BY <1>3, <1>4, <1>5, <1>6 DEF MB!Next, MB!Producer, MB!Consumer
<1> QED BY <1>2, <1>6 DEF Next, In3, In1, InM, InT, vars

\* sem_multibuffer.c, with any number of buffers and any file: what has been
\* written out is always the beginning of the file, and the consumer ends with
\* all of it, although neither thread holds the mutex while it uses a buffer.
THEOREM CopyIsExact == Spec => []CopiesFile
<1>1. Init => BInv BY BInit DEF Init
<1>2. BInv => CopiesFile BY BInvCopies
<1> QED BY <1>1, <1>2, BStep, PTL DEF Spec
=============================================================================
