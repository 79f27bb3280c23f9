------------------------- MODULE SemProdCons4Proofs -------------------------
(***************************************************************************)
(* Proofs about sem_prodcons4.c for any finite sets of producers and       *)
(* consumers, any buffer size and any number of items.                     *)
(***************************************************************************)
EXTENDS SemProdCons4, ProdConsLemmas

EmptyHolders == {"p_mutex", "p_test", "p_store", "p_incr", "p_x_nstored", "p_x_mutex", "p_x_nempty"}
Emptiers == {"c_unlock", "c_nempty"}
StoredHolders == {"c_mutex", "c_test", "c_check"}
Storers == {"p_unlock", "p_nstored"}

\* Producers that hold an empty slot (nempty taken, nothing stored in it yet).
HoldsEmpty == Cnt(Producers, pc, EmptyHolders)
\* Consumers that took an item and have not posted nempty for it.
Emptied == Cnt(Consumers, pc, Emptiers)
\* Consumers that passed nstored and have not taken an item yet.
HoldsStored == Cnt(Consumers, pc, StoredHolders)
\* Producers that put an item and have not posted nstored for it.
Stored == Cnt(Producers, pc, Storers)

MutexInv ==
  /\ sem["mutex"] <= 1
  /\ sem["mutex"] = 1 => \A t \in Threads : pc[t] \notin InMutex
  /\ MutualExclusion

\* Every slot of the buffer is accounted for.
EmptyInv == sem["nempty"] + HoldsEmpty + Emptied + (nput - nget) = NBUFF

\* While items remain to be put, nstored counts stored items exactly; after
\* that the producers that leave post it without storing anything.
StoredInv == nput < nitems => sem["nstored"] + HoldsStored + Stored = nput - nget

WindowInv ==
  /\ nputval = nput /\ ngetval = nget /\ nget <= nput
  /\ \A i \in nget..(nput - 1) : buf[i % NBUFF] = i

ControlInv ==
  /\ \A t \in Producers :
       /\ pc[t] \in {"p_store", "p_incr"} => nput < nitems
       /\ pc[t] = "p_incr" => buf[nput % NBUFF] = nput
       /\ pc[t] = "p_x_nstored" => nput >= nitems
  /\ \A t \in Consumers :
       /\ pc[t] = "c_check" => nget < nitems
       /\ pc[t] = "c_x_nstored" => nget >= nitems

IInv == TypeOK /\ MutexInv /\ EmptyInv /\ StoredInv /\ WindowInv /\ ControlInv

-----------------------------------------------------------------------------
PCs == ProducerPCs \cup ConsumerPCs

Counts(e, m, h, s) ==
  /\ HoldsEmpty \in Nat /\ HoldsEmpty' = HoldsEmpty + e
  /\ Emptied \in Nat /\ Emptied' = Emptied + m
  /\ HoldsStored \in Nat /\ HoldsStored' = HoldsStored + h
  /\ Stored \in Nat /\ Stored' = Stored + s

\* How the four counts change when thread t moves from a to b.
LEMMA Moved ==
  ASSUME TypeOK, NEW t \in Threads, NEW a, NEW b \in PCs, Move(t, a, b)
  PROVE  Counts(Delta(Producers, EmptyHolders, t, a, b), Delta(Consumers, Emptiers, t, a, b),
                Delta(Consumers, StoredHolders, t, a, b), Delta(Producers, Storers, t, a, b))
<1>1. pc \in [Threads -> PCs] /\ pc[t] = a /\ pc' = [pc EXCEPT ![t] = b]
  BY DEF TypeOK, PCs, Move
<1>2. Producers \subseteq Threads /\ Consumers \subseteq Threads BY DEF Threads
<1>3. IsFiniteSet(Producers) /\ IsFiniteSet(Consumers) BY ThreadsAssumption
<1>4. ASSUME NEW S, S \subseteq Threads, IsFiniteSet(S), NEW L
      PROVE  Cnt(S, pc, L) \in Nat /\ Cnt(S, pc', L) = Cnt(S, pc, L) + Delta(S, L, t, a, b)
  <2>1. \A x \in S : x # t => pc'[x] = pc[x] BY <1>1, <1>4
  <2>2. pc[t] = a /\ pc'[t] = b BY <1>1
  <2> QED BY <1>4, <2>1, <2>2, CntMove
<1> QED BY <1>2, <1>3, <1>4 DEF Counts, HoldsEmpty, Emptied, HoldsStored, Stored,
             EmptyHolders, Emptiers, StoredHolders, Storers

\* A thread that moves to a control point of its function keeps the types of
\* the semaphores and of pc.
LEMMA ThreadType ==
  ASSUME TypeOK, NEW t \in Threads, NEW a, NEW b, NEW s \in {"mutex", "nempty", "nstored"},
         t \in Producers => b \in ProducerPCs, t \in Consumers => b \in ConsumerPCs,
         Wait(t, a, s, b) \/ Post(t, a, s, b) \/ Step(t, a, b)
  PROVE  /\ sem' \in [{"mutex", "nempty", "nstored"} -> Nat]
         /\ pc' \in [Threads -> ProducerPCs \cup ConsumerPCs]
         /\ \A p \in Producers : pc'[p] \in ProducerPCs
         /\ \A c \in Consumers : pc'[c] \in ConsumerPCs
<1>1. pc' = [pc EXCEPT ![t] = b] BY DEF Wait, Post, Step, Move
<1>2. /\ pc' \in [Threads -> ProducerPCs \cup ConsumerPCs]
      /\ \A p \in Producers : pc'[p] \in ProducerPCs
      /\ \A c \in Consumers : pc'[c] \in ConsumerPCs
  BY <1>1 DEF TypeOK, Threads
<1>3. CASE Wait(t, a, s, b)
  <2>1. sem[s] \in Nat /\ sem[s] > 0 BY <1>3 DEF Wait, TypeOK
  <2>2. sem' = [sem EXCEPT ![s] = sem[s] - 1] BY <1>3 DEF Wait
  <2> QED BY <1>2, <2>1, <2>2 DEF TypeOK
<1>4. CASE Post(t, a, s, b)
  <2>1. sem[s] + 1 \in Nat BY <1>4 DEF TypeOK
  <2>2. sem' = [sem EXCEPT ![s] = sem[s] + 1] BY <1>4 DEF Post
  <2> QED BY <1>2, <2>1, <2>2 DEF TypeOK
<1>5. CASE Step(t, a, b) BY <1>2, <1>5 DEF Step, TypeOK
<1> QED BY <1>3, <1>4, <1>5

\* Every step of a thread or of main() preserves the types.
LEMMA TypeStep == ASSUME TypeOK, [Next]_vars PROVE TypeOK'
<1> USE ThreadsAssumption
<1>1. ASSUME NEW t \in Producers, P_Acquire(t) PROVE TypeOK'
  BY <1>1, ThreadType DEF P_Acquire, TypeOK, ProducerPCs, ConsumerPCs, Threads, data
<1>2. ASSUME NEW t \in Producers, P_Test(t) PROVE TypeOK'
  BY <1>2, ThreadType DEF P_Test, TypeOK, ProducerPCs, ConsumerPCs, Threads, data
<1>3. ASSUME NEW t \in Producers, P_Store(t) PROVE TypeOK'
  <2>1. nput % NBUFF \in 0..(NBUFF - 1) BY NBUFFAssumption, ModIn DEF TypeOK
  <2> QED BY <1>3, <2>1, ThreadType DEF P_Store, TypeOK, ProducerPCs, Threads
<1>4. ASSUME NEW t \in Producers, P_Incr(t) PROVE TypeOK'
  BY <1>4, ThreadType DEF P_Incr, TypeOK, ProducerPCs, ConsumerPCs, Threads, data
<1>5. ASSUME NEW t \in Producers, P_Unlock(t) PROVE TypeOK'
  BY <1>5, ThreadType DEF P_Unlock, TypeOK, ProducerPCs, ConsumerPCs, Threads, data
<1>6. ASSUME NEW t \in Producers, P_Stored(t) PROVE TypeOK'
  BY <1>6, ThreadType DEF P_Stored, TypeOK, ProducerPCs, ConsumerPCs, Threads, data
<1>7. ASSUME NEW t \in Producers, P_Exit(t) PROVE TypeOK'
  BY <1>7, ThreadType DEF P_Exit, TypeOK, ProducerPCs, ConsumerPCs, Threads, data
<1>8. ASSUME NEW t \in Consumers, C_Acquire(t) PROVE TypeOK'
  BY <1>8, ThreadType DEF C_Acquire, TypeOK, ProducerPCs, ConsumerPCs, Threads, data
<1>9. ASSUME NEW t \in Consumers, C_Test(t) PROVE TypeOK'
  BY <1>9, ThreadType DEF C_Test, TypeOK, ProducerPCs, ConsumerPCs, Threads, data
<1>10. ASSUME NEW t \in Consumers, C_Check(t) PROVE TypeOK'
  BY <1>10, ThreadType DEF C_Check, TypeOK, ProducerPCs, ConsumerPCs, Threads, data
<1>11. ASSUME NEW t \in Consumers, C_Unlock(t) PROVE TypeOK'
  BY <1>11, ThreadType DEF C_Unlock, TypeOK, ProducerPCs, ConsumerPCs, Threads, data
<1>12. ASSUME NEW t \in Consumers, C_Emptied(t) PROVE TypeOK'
  BY <1>12, ThreadType DEF C_Emptied, TypeOK, ProducerPCs, ConsumerPCs, Threads, data
<1>13. ASSUME NEW t \in Consumers, C_Exit(t) PROVE TypeOK'
  BY <1>13, ThreadType DEF C_Exit, TypeOK, ProducerPCs, ConsumerPCs, Threads, data
<1>14. CASE M_Create
  BY <1>14, ThreadType DEF M_Create, TypeOK, ProducerPCs, ConsumerPCs, Threads, data
<1>15. CASE M_Join
  BY <1>15 DEF M_Join, data, TypeOK
<1>16. CASE UNCHANGED vars
  BY <1>16 DEF vars, data, TypeOK
<1> QED BY <1>1, <1>2, <1>3, <1>4, <1>5, <1>6, <1>7, <1>8, <1>9, <1>10, <1>11, <1>12, <1>13, <1>14, <1>15, <1>16 DEF Next, Producer, Consumer, Returned

\* Every step keeps the semaphore mutex a lock.
LEMMA MutexStep == ASSUME TypeOK, MutexInv, [Next]_vars PROVE MutexInv'
<1>1. ASSUME NEW t \in Producers, P_Acquire(t) PROVE MutexInv'
  BY <1>1 DEF P_Acquire, MutexInv, MutualExclusion, InMutex, TypeOK, Threads, Wait, Post, Step, Move, data
<1>2. ASSUME NEW t \in Producers, P_Test(t) PROVE MutexInv'
  BY <1>2 DEF P_Test, MutexInv, MutualExclusion, InMutex, TypeOK, Threads, Wait, Post, Step, Move, data
<1>3. ASSUME NEW t \in Producers, P_Store(t) PROVE MutexInv'
  BY <1>3 DEF P_Store, MutexInv, MutualExclusion, InMutex, TypeOK, Threads, Wait, Post, Step, Move, data
<1>4. ASSUME NEW t \in Producers, P_Incr(t) PROVE MutexInv'
  BY <1>4 DEF P_Incr, MutexInv, MutualExclusion, InMutex, TypeOK, Threads, Wait, Post, Step, Move, data
<1>5. ASSUME NEW t \in Producers, P_Unlock(t) PROVE MutexInv'
  BY <1>5 DEF P_Unlock, MutexInv, MutualExclusion, InMutex, TypeOK, Threads, Wait, Post, Step, Move, data
<1>6. ASSUME NEW t \in Producers, P_Stored(t) PROVE MutexInv'
  BY <1>6 DEF P_Stored, MutexInv, MutualExclusion, InMutex, TypeOK, Threads, Wait, Post, Step, Move, data
<1>7. ASSUME NEW t \in Producers, P_Exit(t) PROVE MutexInv'
  BY <1>7 DEF P_Exit, MutexInv, MutualExclusion, InMutex, TypeOK, Threads, Wait, Post, Step, Move, data
<1>8. ASSUME NEW t \in Consumers, C_Acquire(t) PROVE MutexInv'
  BY <1>8 DEF C_Acquire, MutexInv, MutualExclusion, InMutex, TypeOK, Threads, Wait, Post, Step, Move, data
<1>9. ASSUME NEW t \in Consumers, C_Test(t) PROVE MutexInv'
  BY <1>9 DEF C_Test, MutexInv, MutualExclusion, InMutex, TypeOK, Threads, Wait, Post, Step, Move, data
<1>10. ASSUME NEW t \in Consumers, C_Check(t) PROVE MutexInv'
  BY <1>10 DEF C_Check, MutexInv, MutualExclusion, InMutex, TypeOK, Threads, Wait, Post, Step, Move, data
<1>11. ASSUME NEW t \in Consumers, C_Unlock(t) PROVE MutexInv'
  BY <1>11 DEF C_Unlock, MutexInv, MutualExclusion, InMutex, TypeOK, Threads, Wait, Post, Step, Move, data
<1>12. ASSUME NEW t \in Consumers, C_Emptied(t) PROVE MutexInv'
  BY <1>12 DEF C_Emptied, MutexInv, MutualExclusion, InMutex, TypeOK, Threads, Wait, Post, Step, Move, data
<1>13. ASSUME NEW t \in Consumers, C_Exit(t) PROVE MutexInv'
  BY <1>13 DEF C_Exit, MutexInv, MutualExclusion, InMutex, TypeOK, Threads, Wait, Post, Step, Move, data
<1>14. CASE M_Create
  BY <1>14 DEF M_Create, MutexInv, MutualExclusion, InMutex, TypeOK, Threads, Wait, Post, Step, Move, data
<1>15. CASE M_Join
  BY <1>15 DEF M_Join, MutexInv, MutualExclusion, InMutex, TypeOK, Threads, Wait, Post, Step, Move, data
<1>16. CASE UNCHANGED vars
  BY <1>16 DEF vars, data, MutexInv, MutualExclusion, InMutex, TypeOK, Threads, Wait, Post, Step, Move, data
<1> QED BY <1>1, <1>2, <1>3, <1>4, <1>5, <1>6, <1>7, <1>8, <1>9, <1>10, <1>11, <1>12, <1>13, <1>14, <1>15, <1>16 DEF Next, Producer, Consumer, Returned


\* A producer that passed nempty has a free slot to store into.
LEMMA Room ==
  ASSUME IInv, NEW t \in Producers, pc[t] \in EmptyHolders
  PROVE  nput < nget + NBUFF
<1>1. HoldsEmpty \in Nat /\ HoldsEmpty >= 1
  BY ThreadsAssumption, CntPositive DEF HoldsEmpty
<1>2. Emptied \in Nat BY ThreadsAssumption, CntNat DEF Emptied
<1> QED BY <1>1, <1>2, NBUFFAssumption DEF IInv, TypeOK, EmptyInv

\* A consumer that passed nstored and saw nget < nitems has an item to take.
LEMMA Available ==
  ASSUME IInv, NEW t \in Consumers, pc[t] = "c_check"
  PROVE  nget < nput
<1>1. HoldsStored \in Nat /\ HoldsStored >= 1
  BY ThreadsAssumption, CntPositive DEF HoldsStored, StoredHolders
<1>2. Stored \in Nat BY ThreadsAssumption, CntNat DEF Stored
<1>3. nget < nitems BY DEF IInv, ControlInv
<1> QED BY <1>1, <1>2, <1>3, NitemsAssumption DEF IInv, TypeOK, StoredInv


\* Every step keeps the two semaphore equations.
LEMMA CountStep == ASSUME IInv, [Next]_vars PROVE EmptyInv' /\ StoredInv'
<1>0. /\ TypeOK /\ EmptyInv /\ StoredInv /\ nput \in Nat /\ nget \in Nat /\ nget <= nput
      /\ sem["nempty"] \in Nat /\ sem["nstored"] \in Nat /\ NBUFF \in Nat /\ nitems \in Int
      /\ Producers \cap Consumers = {}
  BY ThreadsAssumption, NBUFFAssumption, NitemsAssumption DEF IInv, TypeOK, WindowInv
<1>1. ASSUME NEW t \in Producers, P_Acquire(t) PROVE EmptyInv' /\ StoredInv'
  <2>1. CASE Wait(t, "p_nempty", "nempty", "p_mutex")
    <3>1. Move(t, "p_nempty", "p_mutex") BY <1>1, <2>1 DEF P_Acquire, Wait
    <3>2. Counts(1, 0, 0, 0)
      BY <1>0, <3>1, Moved DEF Delta, EmptyHolders, Emptiers, StoredHolders, Storers, Threads, PCs, ProducerPCs
    <3>3. /\ sem'["nempty"] = sem["nempty"] - 1 /\ sem'["nstored"] = sem["nstored"]
          /\ nput' = nput /\ nget' = nget
      BY <1>1, <2>1, <1>0 DEF P_Acquire, Wait, TypeOK, data
    <3> QED BY <1>0, <3>2, <3>3 DEF Counts, EmptyInv, StoredInv
  <2>2. CASE Wait(t, "p_mutex", "mutex", "p_test")
    <3>1. Move(t, "p_mutex", "p_test") BY <1>1, <2>2 DEF P_Acquire, Wait
    <3>2. Counts(0, 0, 0, 0)
      BY <1>0, <3>1, Moved DEF Delta, EmptyHolders, Emptiers, StoredHolders, Storers, Threads, PCs, ProducerPCs
    <3>3. /\ sem'["nempty"] = sem["nempty"] /\ sem'["nstored"] = sem["nstored"]
          /\ nput' = nput /\ nget' = nget
      BY <1>1, <2>2, <1>0 DEF P_Acquire, Wait, TypeOK, data
    <3> QED BY <1>0, <3>2, <3>3 DEF Counts, EmptyInv, StoredInv
  <2> QED BY <1>1, <2>1, <2>2 DEF P_Acquire
<1>2. ASSUME NEW t \in Producers, P_Test(t) PROVE EmptyInv' /\ StoredInv'
  <2>1. CASE nput >= nitems
    <3>1. Move(t, "p_test", "p_x_nstored") BY <1>2, <2>1 DEF P_Test, Step
    <3>2. Counts(0, 0, 0, 0)
      BY <1>0, <3>1, Moved DEF Delta, EmptyHolders, Emptiers, StoredHolders, Storers, Threads, PCs, ProducerPCs
    <3>3. /\ sem'["nempty"] = sem["nempty"] /\ sem'["nstored"] = sem["nstored"]
          /\ nput' = nput /\ nget' = nget
      BY <1>2, <2>1, <1>0 DEF P_Test, Step, TypeOK, data
    <3> QED BY <1>0, <2>1, <3>2, <3>3 DEF Counts, EmptyInv, StoredInv
  <2>2. CASE ~(nput >= nitems)
    <3>1. Move(t, "p_test", "p_store") BY <1>2, <2>2 DEF P_Test, Step
    <3>2. Counts(0, 0, 0, 0)
      BY <1>0, <3>1, Moved DEF Delta, EmptyHolders, Emptiers, StoredHolders, Storers, Threads, PCs, ProducerPCs
    <3>3. /\ sem'["nempty"] = sem["nempty"] /\ sem'["nstored"] = sem["nstored"]
          /\ nput' = nput /\ nget' = nget
      BY <1>2, <2>2, <1>0 DEF P_Test, Step, TypeOK, data
    <3> QED BY <1>0, <2>2, <3>2, <3>3 DEF Counts, EmptyInv, StoredInv
  <2> QED BY <1>2, <2>1, <2>2 DEF P_Test
<1>3. ASSUME NEW t \in Producers, P_Store(t) PROVE EmptyInv' /\ StoredInv'
  <2>1. Move(t, "p_store", "p_incr") BY <1>3 DEF P_Store, Step
  <2>2. Counts(0, 0, 0, 0)
    BY <1>0, <2>1, Moved DEF Delta, EmptyHolders, Emptiers, StoredHolders, Storers, Threads, PCs, ProducerPCs
  <2>3. /\ sem'["nempty"] = sem["nempty"] /\ sem'["nstored"] = sem["nstored"]
        /\ nput' = nput /\ nget' = nget
    BY <1>3, <1>0 DEF P_Store, Step, TypeOK, data
  <2> QED BY <1>0, <2>2, <2>3 DEF Counts, EmptyInv, StoredInv
<1>4. ASSUME NEW t \in Producers, P_Incr(t) PROVE EmptyInv' /\ StoredInv'
  <2>1. Move(t, "p_incr", "p_unlock") BY <1>4 DEF P_Incr, Step
  <2>2. Counts(-1, 0, 0, 1)
    BY <1>0, <2>1, Moved DEF Delta, EmptyHolders, Emptiers, StoredHolders, Storers, Threads, PCs, ProducerPCs
  <2>3. /\ sem'["nempty"] = sem["nempty"] /\ sem'["nstored"] = sem["nstored"]
        /\ nput' = nput + 1 /\ nget' = nget
    BY <1>4, <1>0 DEF P_Incr, Step, TypeOK, data
  <2>4. nput < nitems BY <2>1 DEF Move, IInv, ControlInv
  <2>5. EmptyInv' BY <1>0, <2>2, <2>3 DEF Counts, EmptyInv
  <2>6. StoredInv' BY <1>0, <2>4, <2>2, <2>3 DEF Counts, StoredInv
  <2> QED BY <2>5, <2>6
<1>5. ASSUME NEW t \in Producers, P_Unlock(t) PROVE EmptyInv' /\ StoredInv'
  <2>1. Move(t, "p_unlock", "p_nstored") BY <1>5 DEF P_Unlock, Post
  <2>2. Counts(0, 0, 0, 0)
    BY <1>0, <2>1, Moved DEF Delta, EmptyHolders, Emptiers, StoredHolders, Storers, Threads, PCs, ProducerPCs
  <2>3. /\ sem'["nempty"] = sem["nempty"] /\ sem'["nstored"] = sem["nstored"]
        /\ nput' = nput /\ nget' = nget
    BY <1>5, <1>0 DEF P_Unlock, Post, TypeOK, data
  <2> QED BY <1>0, <2>2, <2>3 DEF Counts, EmptyInv, StoredInv
<1>6. ASSUME NEW t \in Producers, P_Stored(t) PROVE EmptyInv' /\ StoredInv'
  <2>1. Move(t, "p_nstored", "p_nempty") BY <1>6 DEF P_Stored, Post
  <2>2. Counts(0, 0, 0, -1)
    BY <1>0, <2>1, Moved DEF Delta, EmptyHolders, Emptiers, StoredHolders, Storers, Threads, PCs, ProducerPCs
  <2>3. /\ sem'["nempty"] = sem["nempty"] /\ sem'["nstored"] = sem["nstored"] + 1
        /\ nput' = nput /\ nget' = nget
    BY <1>6, <1>0 DEF P_Stored, Post, TypeOK, data
  <2>5. EmptyInv' BY <1>0, <2>2, <2>3 DEF Counts, EmptyInv
  <2>6. StoredInv' BY <1>0, <2>2, <2>3 DEF Counts, StoredInv
  <2> QED BY <2>5, <2>6
<1>7. ASSUME NEW t \in Producers, P_Exit(t) PROVE EmptyInv' /\ StoredInv'
  <2>1. CASE Post(t, "p_x_nstored", "nstored", "p_x_mutex")
    <3>1. Move(t, "p_x_nstored", "p_x_mutex") BY <1>7, <2>1 DEF P_Exit, Post
    <3>2. Counts(0, 0, 0, 0)
      BY <1>0, <3>1, Moved DEF Delta, EmptyHolders, Emptiers, StoredHolders, Storers, Threads, PCs, ProducerPCs
    <3>3. /\ sem'["nempty"] = sem["nempty"] /\ sem'["nstored"] = sem["nstored"] + 1
          /\ nput' = nput /\ nget' = nget
      BY <1>7, <2>1, <1>0 DEF P_Exit, Post, TypeOK, data
    <3>4. nput >= nitems BY <3>1 DEF Move, IInv, ControlInv
    <3> QED BY <1>0, <3>4, <3>2, <3>3 DEF Counts, EmptyInv, StoredInv
  <2>2. CASE Post(t, "p_x_mutex", "mutex", "p_x_nempty")
    <3>1. Move(t, "p_x_mutex", "p_x_nempty") BY <1>7, <2>2 DEF P_Exit, Post
    <3>2. Counts(0, 0, 0, 0)
      BY <1>0, <3>1, Moved DEF Delta, EmptyHolders, Emptiers, StoredHolders, Storers, Threads, PCs, ProducerPCs
    <3>3. /\ sem'["nempty"] = sem["nempty"] /\ sem'["nstored"] = sem["nstored"]
          /\ nput' = nput /\ nget' = nget
      BY <1>7, <2>2, <1>0 DEF P_Exit, Post, TypeOK, data
    <3> QED BY <1>0, <3>2, <3>3 DEF Counts, EmptyInv, StoredInv
  <2>3. CASE Post(t, "p_x_nempty", "nempty", "done")
    <3>1. Move(t, "p_x_nempty", "done") BY <1>7, <2>3 DEF P_Exit, Post
    <3>2. Counts(-1, 0, 0, 0)
      BY <1>0, <3>1, Moved DEF Delta, EmptyHolders, Emptiers, StoredHolders, Storers, Threads, PCs, ProducerPCs
    <3>3. /\ sem'["nempty"] = sem["nempty"] + 1 /\ sem'["nstored"] = sem["nstored"]
          /\ nput' = nput /\ nget' = nget
      BY <1>7, <2>3, <1>0 DEF P_Exit, Post, TypeOK, data
    <3> QED BY <1>0, <3>2, <3>3 DEF Counts, EmptyInv, StoredInv
  <2> QED BY <1>7, <2>1, <2>2, <2>3 DEF P_Exit
<1>8. ASSUME NEW t \in Consumers, C_Acquire(t) PROVE EmptyInv' /\ StoredInv'
  <2>1. CASE Wait(t, "c_nstored", "nstored", "c_mutex")
    <3>1. Move(t, "c_nstored", "c_mutex") BY <1>8, <2>1 DEF C_Acquire, Wait
    <3>2. Counts(0, 0, 1, 0)
      BY <1>0, <3>1, Moved DEF Delta, EmptyHolders, Emptiers, StoredHolders, Storers, Threads, PCs, ConsumerPCs
    <3>3. /\ sem'["nempty"] = sem["nempty"] /\ sem'["nstored"] = sem["nstored"] - 1
          /\ nput' = nput /\ nget' = nget
      BY <1>8, <2>1, <1>0 DEF C_Acquire, Wait, TypeOK, data
    <3> QED BY <1>0, <3>2, <3>3 DEF Counts, EmptyInv, StoredInv
  <2>2. CASE Wait(t, "c_mutex", "mutex", "c_test")
    <3>1. Move(t, "c_mutex", "c_test") BY <1>8, <2>2 DEF C_Acquire, Wait
    <3>2. Counts(0, 0, 0, 0)
      BY <1>0, <3>1, Moved DEF Delta, EmptyHolders, Emptiers, StoredHolders, Storers, Threads, PCs, ConsumerPCs
    <3>3. /\ sem'["nempty"] = sem["nempty"] /\ sem'["nstored"] = sem["nstored"]
          /\ nput' = nput /\ nget' = nget
      BY <1>8, <2>2, <1>0 DEF C_Acquire, Wait, TypeOK, data
    <3> QED BY <1>0, <3>2, <3>3 DEF Counts, EmptyInv, StoredInv
  <2> QED BY <1>8, <2>1, <2>2 DEF C_Acquire
<1>9. ASSUME NEW t \in Consumers, C_Test(t) PROVE EmptyInv' /\ StoredInv'
  <2>1. CASE nget >= nitems
    <3>1. Move(t, "c_test", "c_x_nstored") BY <1>9, <2>1 DEF C_Test, Step
    <3>2. Counts(0, 0, -1, 0)
      BY <1>0, <3>1, Moved DEF Delta, EmptyHolders, Emptiers, StoredHolders, Storers, Threads, PCs, ConsumerPCs
    <3>3. /\ sem'["nempty"] = sem["nempty"] /\ sem'["nstored"] = sem["nstored"]
          /\ nput' = nput /\ nget' = nget
      BY <1>9, <2>1, <1>0 DEF C_Test, Step, TypeOK, data
    <3> QED BY <1>0, <2>1, <3>2, <3>3 DEF Counts, EmptyInv, StoredInv
  <2>2. CASE ~(nget >= nitems)
    <3>1. Move(t, "c_test", "c_check") BY <1>9, <2>2 DEF C_Test, Step
    <3>2. Counts(0, 0, 0, 0)
      BY <1>0, <3>1, Moved DEF Delta, EmptyHolders, Emptiers, StoredHolders, Storers, Threads, PCs, ConsumerPCs
    <3>3. /\ sem'["nempty"] = sem["nempty"] /\ sem'["nstored"] = sem["nstored"]
          /\ nput' = nput /\ nget' = nget
      BY <1>9, <2>2, <1>0 DEF C_Test, Step, TypeOK, data
    <3> QED BY <1>0, <2>2, <3>2, <3>3 DEF Counts, EmptyInv, StoredInv
  <2> QED BY <1>9, <2>1, <2>2 DEF C_Test
<1>10. ASSUME NEW t \in Consumers, C_Check(t) PROVE EmptyInv' /\ StoredInv'
  <2>1. Move(t, "c_check", "c_unlock") BY <1>10 DEF C_Check, Step
  <2>2. Counts(0, 1, -1, 0)
    BY <1>0, <2>1, Moved DEF Delta, EmptyHolders, Emptiers, StoredHolders, Storers, Threads, PCs, ConsumerPCs
  <2>3. /\ sem'["nempty"] = sem["nempty"] /\ sem'["nstored"] = sem["nstored"]
        /\ nput' = nput /\ nget' = nget + 1
    BY <1>10, <1>0 DEF C_Check, Step, TypeOK, data
  <2>5. EmptyInv' BY <1>0, <2>2, <2>3 DEF Counts, EmptyInv
  <2>6. StoredInv' BY <1>0, <2>2, <2>3 DEF Counts, StoredInv
  <2> QED BY <2>5, <2>6
<1>11. ASSUME NEW t \in Consumers, C_Unlock(t) PROVE EmptyInv' /\ StoredInv'
  <2>1. Move(t, "c_unlock", "c_nempty") BY <1>11 DEF C_Unlock, Post
  <2>2. Counts(0, 0, 0, 0)
    BY <1>0, <2>1, Moved DEF Delta, EmptyHolders, Emptiers, StoredHolders, Storers, Threads, PCs, ConsumerPCs
  <2>3. /\ sem'["nempty"] = sem["nempty"] /\ sem'["nstored"] = sem["nstored"]
        /\ nput' = nput /\ nget' = nget
    BY <1>11, <1>0 DEF C_Unlock, Post, TypeOK, data
  <2> QED BY <1>0, <2>2, <2>3 DEF Counts, EmptyInv, StoredInv
<1>12. ASSUME NEW t \in Consumers, C_Emptied(t) PROVE EmptyInv' /\ StoredInv'
  <2>1. Move(t, "c_nempty", "c_nstored") BY <1>12 DEF C_Emptied, Post
  <2>2. Counts(0, -1, 0, 0)
    BY <1>0, <2>1, Moved DEF Delta, EmptyHolders, Emptiers, StoredHolders, Storers, Threads, PCs, ConsumerPCs
  <2>3. /\ sem'["nempty"] = sem["nempty"] + 1 /\ sem'["nstored"] = sem["nstored"]
        /\ nput' = nput /\ nget' = nget
    BY <1>12, <1>0 DEF C_Emptied, Post, TypeOK, data
  <2> QED BY <1>0, <2>2, <2>3 DEF Counts, EmptyInv, StoredInv
<1>13. ASSUME NEW t \in Consumers, C_Exit(t) PROVE EmptyInv' /\ StoredInv'
  <2>1. CASE Post(t, "c_x_nstored", "nstored", "c_x_mutex")
    <3>1. Move(t, "c_x_nstored", "c_x_mutex") BY <1>13, <2>1 DEF C_Exit, Post
    <3>2. Counts(0, 0, 0, 0)
      BY <1>0, <3>1, Moved DEF Delta, EmptyHolders, Emptiers, StoredHolders, Storers, Threads, PCs, ConsumerPCs
    <3>3. /\ sem'["nempty"] = sem["nempty"] /\ sem'["nstored"] = sem["nstored"] + 1
          /\ nput' = nput /\ nget' = nget
      BY <1>13, <2>1, <1>0 DEF C_Exit, Post, TypeOK, data
    <3>4. nget >= nitems BY <3>1 DEF Move, IInv, ControlInv
    <3> QED BY <1>0, <3>4, <3>2, <3>3 DEF Counts, EmptyInv, StoredInv
  <2>2. CASE Post(t, "c_x_mutex", "mutex", "done")
    <3>1. Move(t, "c_x_mutex", "done") BY <1>13, <2>2 DEF C_Exit, Post
    <3>2. Counts(0, 0, 0, 0)
      BY <1>0, <3>1, Moved DEF Delta, EmptyHolders, Emptiers, StoredHolders, Storers, Threads, PCs, ConsumerPCs
    <3>3. /\ sem'["nempty"] = sem["nempty"] /\ sem'["nstored"] = sem["nstored"]
          /\ nput' = nput /\ nget' = nget
      BY <1>13, <2>2, <1>0 DEF C_Exit, Post, TypeOK, data
    <3> QED BY <1>0, <3>2, <3>3 DEF Counts, EmptyInv, StoredInv
  <2> QED BY <1>13, <2>1, <2>2 DEF C_Exit
<1>14. CASE M_Create
  <2>1. PICK t \in Threads, b \in {"p_nempty", "c_nstored"} : Step(t, "unborn", b)
    BY <1>14 DEF M_Create, Threads
  <2>2. Counts(0, 0, 0, 0)
    BY <1>0, <2>1, Moved DEF Step, Delta, EmptyHolders, Emptiers, StoredHolders, Storers, PCs, ProducerPCs, ConsumerPCs
  <2> QED BY <1>0, <1>14, <2>1, <2>2 DEF M_Create, Step, Counts, EmptyInv, StoredInv, data
<1>15. CASE M_Join \/ UNCHANGED vars
  BY <1>0, <1>15 DEF M_Join, vars, data, EmptyInv, StoredInv, HoldsEmpty, Emptied, HoldsStored, Stored
<1> QED BY <1>1, <1>2, <1>3, <1>4, <1>5, <1>6, <1>7, <1>8, <1>9, <1>10, <1>11, <1>12, <1>13, <1>14, <1>15 DEF Next, Producer, Consumer, Returned

\* Every step keeps the stored items in place and what the control points of
\* the threads imply about them.
LEMMA WindowStep == ASSUME IInv, [Next]_vars PROVE WindowInv' /\ ControlInv'
<1>0. /\ TypeOK /\ MutualExclusion /\ WindowInv /\ ControlInv
      /\ nput \in Nat /\ nget \in Nat /\ nitems \in Int /\ Producers \cap Consumers = {}
      /\ pc \in [Threads -> ProducerPCs \cup ConsumerPCs]
  BY ThreadsAssumption, NitemsAssumption DEF IInv, TypeOK, MutexInv
<1>1. ASSUME NEW t \in Producers, P_Acquire(t) PROVE WindowInv' /\ ControlInv'
  BY <1>0, <1>1 DEF P_Acquire, MutualExclusion, InMutex, WindowInv, ControlInv, Threads, Wait, Post, Step, Move, data
<1>2. ASSUME NEW t \in Producers, P_Test(t) PROVE WindowInv' /\ ControlInv'
  BY <1>0, <1>2 DEF P_Test, MutualExclusion, InMutex, WindowInv, ControlInv, Threads, Wait, Post, Step, Move, data
<1>3. ASSUME NEW t \in Producers, P_Store(t) PROVE WindowInv' /\ ControlInv'
  <2>1. nput < nget + NBUFF BY <1>3, Room DEF P_Store, Step, Move, EmptyHolders
  <2>2. nput % NBUFF \in 0..(NBUFF - 1) BY <1>0, NBUFFAssumption, ModIn
  <2>3. \A i \in nget..(nput - 1) : i % NBUFF \in 0..(NBUFF - 1) /\ i % NBUFF # nput % NBUFF
    <3> TAKE i \in nget..(nput - 1)
    <3>1. i \in Nat /\ i < nput /\ nput < i + NBUFF BY <1>0, <2>1, NBUFFAssumption
    <3> QED BY <1>0, <3>1, NBUFFAssumption, ModIn, ModDistinct
  <2>4. buf \in [0..(NBUFF - 1) -> Nat] /\ buf' = [buf EXCEPT ![nput % NBUFF] = nput]
    BY <1>0, <1>3 DEF TypeOK, WindowInv, P_Store
  <2>5. WindowInv' BY <1>0, <1>3, <2>2, <2>3, <2>4 DEF P_Store, WindowInv
  <2>6. buf'[nput % NBUFF] = nput BY <2>2, <2>4
  <2>7. ControlInv' BY <1>0, <1>3, <2>6 DEF P_Store, Step, Move, ControlInv, Threads
  <2> QED BY <2>5, <2>7
<1>4. ASSUME NEW t \in Producers, P_Incr(t) PROVE WindowInv' /\ ControlInv'
  <2>1. buf' = buf /\ nput' = nput + 1 /\ nputval' = nputval + 1 /\ nget' = nget /\ ngetval' = ngetval
    BY <1>4 DEF P_Incr
  <2>2. buf[nput % NBUFF] = nput BY <1>0, <1>4 DEF P_Incr, Step, Move, ControlInv
  <2>3. WindowInv' BY <1>0, <2>1, <2>2 DEF WindowInv
  <2>4. \A q \in Threads : q # t => pc'[q] = pc[q] /\ pc[q] \notin InMutex
    BY <1>0, <1>4 DEF P_Incr, Step, Move, MutualExclusion, InMutex, Threads
  <2>5. pc'[t] = "p_unlock" BY <1>0, <1>4 DEF P_Incr, Step, Move, Threads
  <2>6. ControlInv' BY <1>0, <2>1, <2>4, <2>5 DEF ControlInv, InMutex, Threads
  <2> QED BY <2>3, <2>6
<1>5. ASSUME NEW t \in Producers, P_Unlock(t) PROVE WindowInv' /\ ControlInv'
  BY <1>0, <1>5 DEF P_Unlock, MutualExclusion, InMutex, WindowInv, ControlInv, Threads, Wait, Post, Step, Move, data
<1>6. ASSUME NEW t \in Producers, P_Stored(t) PROVE WindowInv' /\ ControlInv'
  BY <1>0, <1>6 DEF P_Stored, MutualExclusion, InMutex, WindowInv, ControlInv, Threads, Wait, Post, Step, Move, data
<1>7. ASSUME NEW t \in Producers, P_Exit(t) PROVE WindowInv' /\ ControlInv'
  BY <1>0, <1>7 DEF P_Exit, MutualExclusion, InMutex, WindowInv, ControlInv, Threads, Wait, Post, Step, Move, data
<1>8. ASSUME NEW t \in Consumers, C_Acquire(t) PROVE WindowInv' /\ ControlInv'
  BY <1>0, <1>8 DEF C_Acquire, MutualExclusion, InMutex, WindowInv, ControlInv, Threads, Wait, Post, Step, Move, data
<1>9. ASSUME NEW t \in Consumers, C_Test(t) PROVE WindowInv' /\ ControlInv'
  BY <1>0, <1>9 DEF C_Test, MutualExclusion, InMutex, WindowInv, ControlInv, Threads, Wait, Post, Step, Move, data
<1>10. ASSUME NEW t \in Consumers, C_Check(t) PROVE WindowInv' /\ ControlInv'
  <2>1. nget < nput BY <1>10, Available DEF C_Check, Step, Move
  <2>2. buf' = buf /\ nput' = nput /\ nputval' = nputval /\ nget' = nget + 1 /\ ngetval' = ngetval + 1
    BY <1>10 DEF C_Check
  <2>3. WindowInv' BY <1>0, <2>1, <2>2 DEF WindowInv
  <2>4. \A q \in Threads : q # t => pc'[q] = pc[q] /\ pc[q] \notin InMutex
    BY <1>0, <1>10 DEF C_Check, Step, Move, MutualExclusion, InMutex, Threads
  <2>5. pc'[t] = "c_unlock" BY <1>0, <1>10 DEF C_Check, Step, Move, Threads
  <2>6. ControlInv' BY <1>0, <2>2, <2>4, <2>5 DEF ControlInv, InMutex, Threads
  <2> QED BY <2>3, <2>6
<1>11. ASSUME NEW t \in Consumers, C_Unlock(t) PROVE WindowInv' /\ ControlInv'
  BY <1>0, <1>11 DEF C_Unlock, MutualExclusion, InMutex, WindowInv, ControlInv, Threads, Wait, Post, Step, Move, data
<1>12. ASSUME NEW t \in Consumers, C_Emptied(t) PROVE WindowInv' /\ ControlInv'
  BY <1>0, <1>12 DEF C_Emptied, MutualExclusion, InMutex, WindowInv, ControlInv, Threads, Wait, Post, Step, Move, data
<1>13. ASSUME NEW t \in Consumers, C_Exit(t) PROVE WindowInv' /\ ControlInv'
  BY <1>0, <1>13 DEF C_Exit, MutualExclusion, InMutex, WindowInv, ControlInv, Threads, Wait, Post, Step, Move, data
<1>14. CASE M_Create
  BY <1>0, <1>14 DEF M_Create, MutualExclusion, InMutex, WindowInv, ControlInv, Threads, Wait, Post, Step, Move, data
<1>15. CASE M_Join \/ UNCHANGED vars
  BY <1>0, <1>15 DEF M_Join, vars, data, WindowInv, ControlInv
<1> QED BY <1>1, <1>2, <1>3, <1>4, <1>5, <1>6, <1>7, <1>8, <1>9, <1>10, <1>11, <1>12, <1>13, <1>14, <1>15 DEF Next, Producer, Consumer, Returned

-----------------------------------------------------------------------------
\* The initial state set up by main() satisfies the inductive invariant.
LEMMA InitIInv == ASSUME Init PROVE IInv
<1>1. TypeOK BY NBUFFAssumption DEF Init, TypeOK, Threads, ProducerPCs, ConsumerPCs
<1>2. MutexInv BY DEF Init, MutexInv, MutualExclusion, InMutex, Threads
<1>3. HoldsEmpty = 0 /\ Emptied = 0 /\ HoldsStored = 0 /\ Stored = 0
  <2>1. ASSUME NEW S, S \subseteq Threads, NEW L, "unborn" \notin L PROVE Cnt(S, pc, L) = 0
    <3>1. At(S, pc, L) = {} BY <2>1 DEF Init, At
    <3> QED BY <3>1, FS_EmptySet DEF Cnt
  <2> QED BY <2>1 DEF HoldsEmpty, Emptied, HoldsStored, Stored, Threads,
               EmptyHolders, Emptiers, StoredHolders, Storers
<1>4. EmptyInv /\ StoredInv BY <1>3, NBUFFAssumption DEF Init, EmptyInv, StoredInv
<1>5. WindowInv /\ ControlInv BY DEF Init, WindowInv, ControlInv, Threads
<1> QED BY <1>1, <1>2, <1>4, <1>5 DEF IInv

\* Every step of the program preserves the inductive invariant.
LEMMA NextIInv == ASSUME IInv, [Next]_vars PROVE IInv'
BY TypeStep, MutexStep, CountStep, WindowStep DEF IInv

\* The inductive invariant holds in every reachable state of sem_prodcons4.
THEOREM Invariance == Spec => []IInv
BY InitIInv, NextIInv, PTL DEF Spec

\* The variables of sem_prodcons4 keep their types: no semaphore goes below
\* zero and no store leaves the buffer.
THEOREM TypeCorrect == Spec => []TypeOK
<1>1. IInv => TypeOK BY DEF IInv
<1> QED BY <1>1, Invariance, PTL

\* At most one thread is between sem_wait(&mutex) and its sem_post.
THEOREM Exclusion == Spec => []MutualExclusion
<1>1. IInv => MutualExclusion BY DEF IInv, MutexInv
<1> QED BY <1>1, Invariance, PTL

\* The error branch of consumer() is never taken, whatever the buffer size,
\* the number of items and the numbers of threads.
THEOREM ReadsCorrect == Spec => []ReadsExpectedItem
<1>1. ASSUME IInv PROVE ReadsExpectedItem
  <2> SUFFICES ASSUME NEW t \in Consumers, pc[t] = "c_check"
               PROVE  nget < nput /\ buf[nget % NBUFF] = ngetval
    BY DEF ReadsExpectedItem
  <2>1. nget < nput BY <1>1, Available
  <2>2. nget \in nget..(nput - 1) BY <1>1, <2>1 DEF IInv, TypeOK
  <2> QED BY <1>1, <2>1, <2>2 DEF IInv, WindowInv
<1> QED BY <1>1, Invariance, PTL

-----------------------------------------------------------------------------
\* In a reachable state the buffer holds exactly the items nget, ..., nput - 1.
LEMMA QueueForm == IInv => fifoQueue = Items(nget, nput)
<1> SUFFICES ASSUME IInv PROVE fifoQueue = Items(nget, nput) OBVIOUS
<1>1. nput \in Nat /\ nget \in Nat /\ nget <= nput BY DEF IInv, TypeOK, WindowInv
<1>2. \A i \in 1..(nput - nget) : nget + i - 1 \in nget..(nput - 1) BY <1>1
<1>3. \A i \in 1..(nput - nget) : buf[(nget + i - 1) % NBUFF] = nget + i - 1
  BY <1>2 DEF IInv, WindowInv
<1> QED BY <1>3 DEF fifoQueue, Items

\* P_Incr is the abstract Put, C_Check the abstract Get, nothing else is seen.
LEMMA FifoStep == ASSUME IInv, [Next]_vars PROVE [Fifo!Next]_(Fifo!fifoVars)
<1>a. IInv' => (fifoQueue = Items(nget, nput))' BY QueueForm, PTL
<1>0. /\ fifoQueue = Items(nget, nput) /\ fifoQueue' = Items(nget', nput')
      /\ nput \in Nat /\ nget \in Nat /\ nget <= nput /\ nputval = nput /\ ngetval = nget
  BY <1>a, NextIInv, QueueForm DEF IInv, TypeOK, WindowInv, Items
<1>1. ASSUME NEW t \in Producers, P_Incr(t) PROVE Fifo!Put
  <2>1. nput < nget + NBUFF /\ nput < nitems
    BY <1>1, Room DEF P_Incr, Step, Move, EmptyHolders, IInv, ControlInv
  <2>2. Len(fifoQueue) < NBUFF BY <1>0, <2>1, ItemsSeq, NBUFFAssumption
  <2>3. fifoQueue' = Append(fifoQueue, nputval) BY <1>0, <1>1, ItemsPut DEF P_Incr
  <2> QED BY <1>0, <1>1, <2>1, <2>2, <2>3 DEF P_Incr, Fifo!Put
<1>2. ASSUME NEW t \in Consumers, C_Check(t) PROVE Fifo!Get
  <2>1. nget < nput BY <1>2, Available DEF C_Check, Step, Move
  <2>2. fifoQueue # <<>> /\ Head(fifoQueue) = nget /\ fifoQueue' = Tail(fifoQueue)
    BY <1>0, <1>2, <2>1, ItemsGet DEF C_Check
  <2> QED BY <1>0, <1>2, <2>2 DEF C_Check, Fifo!Get
<1>3. ASSUME UNCHANGED <<nput, nputval, nget, ngetval>> PROVE UNCHANGED Fifo!fifoVars
  BY <1>0, <1>3 DEF Fifo!fifoVars
<1>4. CASE \E t \in Producers : P_Acquire(t) \/ P_Test(t) \/ P_Store(t) \/ P_Unlock(t) \/ P_Stored(t) \/ P_Exit(t)
  BY <1>3, <1>4 DEF P_Acquire, P_Test, P_Store, P_Unlock, P_Stored, P_Exit, data
<1>5. CASE \E t \in Consumers : C_Acquire(t) \/ C_Test(t) \/ C_Unlock(t) \/ C_Emptied(t) \/ C_Exit(t)
  BY <1>3, <1>5 DEF C_Acquire, C_Test, C_Unlock, C_Emptied, C_Exit, data
<1>6. CASE M_Create \/ M_Join \/ UNCHANGED vars
  BY <1>3, <1>6 DEF M_Create, M_Join, vars, data
<1> QED BY <1>1, <1>2, <1>4, <1>5, <1>6 DEF Next, Producer, Consumer, Returned, Fifo!Next

\* sem_prodcons4 implements the bounded FIFO queue: every item is handed over
\* exactly once and in order.
THEOREM ImplementsFifo == Spec => FifoSpec
<1>1. Init => Fifo!Init
  <2> SUFFICES ASSUME Init PROVE Fifo!Init OBVIOUS
  <2>1. fifoQueue = Items(0, 0) BY InitIInv, QueueForm DEF Init
  <2> QED BY <2>1, ItemsEmpty DEF Init, Fifo!Init
<1>2. IInv /\ [Next]_vars => [Fifo!Next]_(Fifo!fifoVars) BY FifoStep
<1> QED BY <1>1, <1>2, Invariance, PTL DEF Spec, FifoSpec, Fifo!Spec
=============================================================================
