---------------------------- MODULE SharedProofs -----------------------------
(***************************************************************************)
(* Proofs about the programs of MCShared, for any numbers of threads,      *)
(* processes, items and slots.                                             *)
(***************************************************************************)
EXTENDS MCShared, ProdConsLemmas

-----------------------------------------------------------------------------
(* mutex_prodcons1.c to 3.c                                                *)

ProducerPCs == {"lock", "test", "store", "incr", "r_lock", "r_signal", "r_incr", "done"}
ConsumerPCs == {"unborn", "loop", "check", "done", "c_lock", "c_test", "r_lock", "r_test", "asleep", "r_unlock"}
\* A producer that has stored an item and not yet counted it in nready.
Announcing == {"r_lock", "r_signal", "r_incr"}
consumer == pcM["consumer"]

MTypes ==
  /\ variant \in {"join", "spin", "cond"}
  /\ nputM \in Nat /\ nval = nputM /\ nready \in Nat /\ i \in Nat
  /\ buf \in [0..(nitems - 1) -> Int]
  /\ pcM \in [M!Threads -> ProducerPCs \cup ConsumerPCs]
  /\ \A t \in Producers : pcM[t] \in ProducerPCs

\* shared.mutex (put.mutex) is held by whoever is inside its critical section.
MLocked == \A t \in M!Threads : pcM[t] \in {"test", "store", "incr", "c_test"} => put = t

\* What is stored, and what the producers know of it.
MStored ==
  /\ \A k \in 0..(nputM - 1) : buf[k] = k
  /\ \A t \in Producers :
       /\ pcM[t] \in {"store", "incr"} => nputM < nitems
       /\ pcM[t] = "incr" => buf[nputM] = nputM
       /\ pcM[t] = "done" => nputM >= nitems
       /\ pcM[t] \in Announcing => variant = "cond"

\* What the consumer knows in each program.
MConsumer ==
  /\ variant = "join" =>
       /\ consumer \in {"unborn", "loop", "check", "done"}
       /\ consumer # "unborn" => \A t \in Producers : pcM[t] = "done"
       /\ consumer = "check" => i < nitems
  /\ variant = "spin" =>
       /\ consumer \in {"unborn", "loop", "c_lock", "c_test", "check", "done"}
       /\ consumer = "check" => i < nputM
  /\ variant = "cond" => consumer \notin {"c_lock", "c_test"}

\* 3.c: every item is consumed, given to the consumer, counted in nready, or
\* still to be counted by the producer that stored it.
MAnnounced ==
  variant = "cond" =>
    nputM = i + nready + Cnt(Producers, pcM, Announcing) + IF consumer \in {"r_unlock", "check"} THEN 1 ELSE 0

MInv == MTypes /\ MLocked /\ MStored /\ MConsumer /\ MAnnounced

\* When the consumer reads buf[i], the item is there.
LEMMA MInvReads == MInv => ReadsStoredItem
<1> SUFFICES ASSUME MInv, consumer = "check" PROVE i < nputM /\ buf[i] = i
  BY DEF ReadsStoredItem, M!ReadsStoredItem, M!C, consumer
<1>1. i < nputM
  <2>1. CASE variant = "join"
    <3>1. PICK t \in Producers : TRUE BY MutexAssumption
    <3> QED BY <2>1, <3>1, MutexAssumption DEF MInv, MTypes, MStored, MConsumer
  <2>2. CASE variant = "spin" BY <2>2 DEF MInv, MConsumer
  <2>3. CASE variant = "cond"
    <3>1. Cnt(Producers, pcM, Announcing) \in Nat BY CntNat, MutexAssumption
    <3> QED BY <2>3, <3>1 DEF MInv, MTypes, MAnnounced
  <2> QED BY <2>1, <2>2, <2>3 DEF MInv, MTypes
<1> QED BY <1>1 DEF MInv, MTypes, MStored

\* The state before any thread has run.
LEMMA MInitInv == M!Init => MInv
<1> SUFFICES ASSUME M!Init PROVE MInv OBVIOUS
<1> USE MutexAssumption DEF M!Init, M!Threads, M!C, M!Free, M!Empty
<1>1. MTypes BY DEF MTypes, ProducerPCs, ConsumerPCs
<1>2. MLocked /\ MStored /\ MConsumer BY DEF MLocked, MStored, MConsumer, consumer, Announcing
<1>3. Cnt(Producers, pcM, Announcing) = 0
  <2>1. At(Producers, pcM, Announcing) = {} BY DEF At, Announcing
  <2> QED BY <2>1, FS_EmptySet DEF Cnt
<1>4. MAnnounced BY <1>3 DEF MAnnounced, consumer
<1> QED BY <1>1, <1>2, <1>4 DEF MInv

\* A producer's part of a step: only its own control point changes.
LEMMA MMoved ==
  ASSUME MInv, NEW t \in M!Threads, NEW a, NEW b, M!Go(t, a, b), b \in ProducerPCs \cup ConsumerPCs
  PROVE  /\ pcM[t] = a /\ pcM'[t] = b /\ \A u \in M!Threads : u # t => pcM'[u] = pcM[u]
         /\ pcM' \in [M!Threads -> ProducerPCs \cup ConsumerPCs]
         /\ Cnt(Producers, pcM, Announcing) \in Nat
         /\ Cnt(Producers, pcM', Announcing) =
              Cnt(Producers, pcM, Announcing) + Delta(Producers, Announcing, t, a, b)
<1>1. /\ pcM[t] = a /\ pcM'[t] = b /\ \A u \in M!Threads : u # t => pcM'[u] = pcM[u]
      /\ pcM' \in [M!Threads -> ProducerPCs \cup ConsumerPCs]
  BY DEF MInv, MTypes, M!Go
<1>2. \A x \in Producers : x # t => pcM'[x] = pcM[x] BY <1>1 DEF M!Threads
<1>3. IsFiniteSet(Producers) BY MutexAssumption
<1>4. /\ Cnt(Producers, pcM, Announcing) \in Nat
      /\ Cnt(Producers, pcM', Announcing) =
           Cnt(Producers, pcM, Announcing) + Delta(Producers, Announcing, t, a, b)
  BY <1>1, <1>2, <1>3, CntMove
<1> QED BY <1>1, <1>4

\* Every step of producer() preserves the invariant.
LEMMA MProducerStep ==
  ASSUME MInv, NEW t \in Producers, M!Producer(t), UNCHANGED variant
  PROVE  MInv'
<1> USE MutexAssumption
<1>0. t \in M!Threads /\ t # "consumer" BY DEF M!Threads
<1>1. CASE /\ M!Go(t, "lock", "test") /\ M!Lock(put, t)
           /\ UNCHANGED <<buf, nputM, nval, nready, i>>
  <2>1. /\ pcM[t] = "lock" /\ pcM'[t] = "test" /\ \A u \in M!Threads : u # t => pcM'[u] = pcM[u]
        /\ pcM' \in [M!Threads -> ProducerPCs \cup ConsumerPCs]
        /\ Cnt(Producers, pcM', Announcing) = Cnt(Producers, pcM, Announcing)
    BY <1>0, <1>1, MMoved DEF ProducerPCs, Announcing, Delta
  <2>2. put = "free" /\ put' = t BY <1>1 DEF M!Lock, M!Free
  <2>3. MTypes' BY <1>0, <1>1, <2>1 DEF MInv, MTypes, ProducerPCs, M!Threads
  <2>4. MLocked' BY <1>0, <2>1, <2>2 DEF MInv, MLocked, M!Threads, M!C
  <2>5. MStored' BY <1>0, <1>1, <2>1 DEF MInv, MStored, M!Threads, Announcing
  <2>6. MConsumer' /\ MAnnounced'
    BY <1>0, <1>1, <2>1 DEF MInv, MConsumer, MAnnounced, consumer, M!Threads, M!C
  <2> QED BY <2>3, <2>4, <2>5, <2>6 DEF MInv
<1>2. CASE /\ M!Go(t, "test", IF nputM >= nitems THEN "done" ELSE "store")
           /\ IF nputM >= nitems THEN M!Unlock(put, t) ELSE UNCHANGED put
           /\ UNCHANGED <<buf, nputM, nval, nready, i>>
  <2>1. /\ pcM[t] = "test" /\ pcM'[t] = IF nputM >= nitems THEN "done" ELSE "store"
        /\ \A u \in M!Threads : u # t => pcM'[u] = pcM[u]
        /\ pcM' \in [M!Threads -> ProducerPCs \cup ConsumerPCs]
        /\ Cnt(Producers, pcM', Announcing) = Cnt(Producers, pcM, Announcing)
    BY <1>0, <1>2, MMoved DEF ProducerPCs, Announcing, Delta
  <2>2. put = t BY <1>0, <2>1 DEF MInv, MLocked
  <2>3. MTypes' BY <1>0, <1>2, <2>1 DEF MInv, MTypes, ProducerPCs, M!Threads
  <2>4. MLocked' BY <1>0, <1>2, <2>1, <2>2 DEF MInv, MLocked, M!Threads, M!C, M!Unlock, M!Free
  <2>5. MStored' BY <1>0, <1>2, <2>1 DEF MInv, MTypes, MStored, M!Threads, Announcing
  <2>6. MConsumer' /\ MAnnounced'
    BY <1>0, <1>2, <2>1 DEF MInv, MTypes, MConsumer, MAnnounced, consumer, M!Threads, M!C
  <2> QED BY <2>3, <2>4, <2>5, <2>6 DEF MInv
<1>3. CASE /\ M!Go(t, "store", "incr") /\ buf' = [buf EXCEPT ![nputM] = M!Value]
           /\ UNCHANGED <<put, nputM, nval, nready, i>>
  <2>1. /\ pcM[t] = "store" /\ pcM'[t] = "incr"
        /\ \A u \in M!Threads : u # t => pcM'[u] = pcM[u]
        /\ pcM' \in [M!Threads -> ProducerPCs \cup ConsumerPCs]
        /\ Cnt(Producers, pcM', Announcing) = Cnt(Producers, pcM, Announcing)
    BY <1>0, <1>3, MMoved DEF ProducerPCs, Announcing, Delta
  <2>2. M!Value = nputM /\ nputM \in 0..(nitems - 1)
    BY <1>0, <2>1 DEF M!Value, MInv, MTypes, MStored
  <2>3. \A u \in Producers : u # t => pcM[u] # "incr"
    BY <1>0, <2>1 DEF MInv, MLocked, M!Threads
  <2>4. MTypes' BY <1>0, <1>3, <2>1, <2>2 DEF MInv, MTypes, ProducerPCs, M!Threads
  <2>5. MLocked' BY <1>0, <1>3, <2>1 DEF MInv, MLocked, M!Threads, M!C
  <2>6. MStored' BY <1>0, <1>3, <2>1, <2>2, <2>3 DEF MInv, MTypes, MStored, M!Threads, Announcing
  <2>7. MConsumer' /\ MAnnounced'
    BY <1>0, <1>3, <2>1 DEF MInv, MConsumer, MAnnounced, consumer, M!Threads, M!C
  <2> QED BY <2>4, <2>5, <2>6, <2>7 DEF MInv
<1>4. CASE /\ M!Go(t, "incr", IF variant = "cond" THEN "r_lock" ELSE "lock")
           /\ nputM' = nputM + 1 /\ nval' = nval + 1 /\ M!Unlock(put, t)
           /\ UNCHANGED <<buf, nready, i>>
  <2>0. (IF variant = "cond" THEN "r_lock" ELSE "lock") \in ProducerPCs BY DEF ProducerPCs
  <2>1. /\ pcM[t] = "incr" /\ pcM'[t] = IF variant = "cond" THEN "r_lock" ELSE "lock"
        /\ \A u \in M!Threads : u # t => pcM'[u] = pcM[u]
        /\ pcM' \in [M!Threads -> ProducerPCs \cup ConsumerPCs]
        /\ Cnt(Producers, pcM, Announcing) \in Nat
        /\ Cnt(Producers, pcM', Announcing) =
             Cnt(Producers, pcM, Announcing) + IF variant = "cond" THEN 1 ELSE 0
    BY <1>0, <1>4, <2>0, MMoved DEF Announcing, Delta
  <2>2. put = t /\ put' = "free" /\ nputM < nitems /\ buf[nputM] = nputM
    BY <1>0, <1>4, <2>1 DEF MInv, MLocked, MStored, M!Unlock, M!Free
  <2>3. \A u \in M!Threads : u # t => pcM[u] \notin {"test", "store", "incr", "c_test"}
    BY <2>2 DEF MInv, MLocked
  <2>4. MTypes' BY <1>0, <1>4, <2>1 DEF MInv, MTypes, ProducerPCs, M!Threads
  <2>5. MLocked' BY <1>0, <1>4, <2>1, <2>3 DEF MLocked
  <2>6. MStored'
    <3>1. \A k \in 0..(nputM' - 1) : buf'[k] = k
      BY <1>4, <2>2 DEF MInv, MTypes, MStored
    <3>2. \A u \in Producers : pcM'[u] = "done" => nputM' >= nitems
      BY <1>0, <1>4, <2>1 DEF MInv, MTypes, MStored, M!Threads
    <3>3. \A u \in Producers : pcM'[u] \notin {"store", "incr"}
      BY <1>0, <2>1, <2>3 DEF M!Threads
    <3>4. \A u \in Producers : pcM'[u] \in Announcing => variant' = "cond"
      BY <1>0, <2>1 DEF MInv, MStored, M!Threads, Announcing
    <3> QED BY <3>1, <3>2, <3>3, <3>4 DEF MStored
  <2>7. MConsumer' BY <1>0, <1>4, <2>1 DEF MInv, MTypes, MConsumer, consumer, M!Threads, M!C
  <2>8. MAnnounced' BY <1>0, <1>4, <2>1 DEF MInv, MTypes, MAnnounced, consumer, M!Threads, M!C
  <2> QED BY <2>4, <2>5, <2>6, <2>7, <2>8 DEF MInv
<1>5. CASE /\ M!Go(t, "r_lock", "r_signal") \/ M!Go(t, "r_signal", "r_incr")
           /\ UNCHANGED <<put, buf, nputM, nval, nready, i>>
  <2>1. /\ pcM[t] \in Announcing /\ pcM'[t] \in {"r_signal", "r_incr"}
        /\ \A u \in M!Threads : u # t => pcM'[u] = pcM[u]
        /\ pcM' \in [M!Threads -> ProducerPCs \cup ConsumerPCs]
        /\ Cnt(Producers, pcM', Announcing) = Cnt(Producers, pcM, Announcing)
    <3>1. CASE M!Go(t, "r_lock", "r_signal")
      BY <1>0, <3>1, MMoved DEF ProducerPCs, Announcing, Delta
    <3>2. CASE M!Go(t, "r_signal", "r_incr")
      BY <1>0, <3>2, MMoved DEF ProducerPCs, Announcing, Delta
    <3> QED BY <1>5, <3>1, <3>2
  <2>2. MTypes' BY <1>0, <1>5, <2>1 DEF MInv, MTypes, ProducerPCs, M!Threads
  <2>3. MLocked' BY <1>0, <1>5, <2>1 DEF MInv, MLocked, M!Threads, M!C
  <2>4. MStored' BY <1>0, <1>5, <2>1 DEF MInv, MStored, M!Threads, Announcing
  <2>5. MConsumer' /\ MAnnounced'
    BY <1>0, <1>5, <2>1 DEF MInv, MConsumer, MStored, MAnnounced, consumer, M!Threads, M!C, Announcing
  <2> QED BY <2>2, <2>3, <2>4, <2>5 DEF MInv
<1>6. CASE /\ M!Go(t, "r_incr", "lock") /\ nready' = nready + 1
           /\ UNCHANGED <<put, buf, nputM, nval, i>>
  <2>1. /\ pcM[t] = "r_incr" /\ pcM'[t] = "lock"
        /\ \A u \in M!Threads : u # t => pcM'[u] = pcM[u]
        /\ pcM' \in [M!Threads -> ProducerPCs \cup ConsumerPCs]
        /\ Cnt(Producers, pcM, Announcing) \in Nat
        /\ Cnt(Producers, pcM', Announcing) = Cnt(Producers, pcM, Announcing) - 1
    BY <1>0, <1>6, MMoved DEF ProducerPCs, Announcing, Delta
  <2>2. MTypes' BY <1>0, <1>6, <2>1 DEF MInv, MTypes, ProducerPCs, M!Threads
  <2>3. MLocked' BY <1>0, <1>6, <2>1 DEF MInv, MLocked, M!Threads, M!C
  <2>4. MStored' BY <1>0, <1>6, <2>1 DEF MInv, MStored, M!Threads, Announcing
  <2>5. MConsumer' /\ MAnnounced'
    BY <1>0, <1>6, <2>1 DEF MInv, MTypes, MConsumer, MStored, MAnnounced, consumer, M!Threads, M!C, Announcing
  <2> QED BY <2>2, <2>3, <2>4, <2>5 DEF MInv
<1> QED BY <1>1, <1>2, <1>3, <1>4, <1>5, <1>6 DEF M!Producer, M!P_Put, M!P_Announce, M!items

\* Every step of consumer(), and of main() for it, preserves the invariant.
LEMMA MConsumerStep ==
  ASSUME MInv, M!M_CreateConsumer \/ M!Consumer \/ M!SpuriousWakeup, UNCHANGED variant
  PROVE  MInv'
<1> USE MutexAssumption
<1>0. "consumer" \in M!Threads /\ M!C = "consumer" /\ \A t \in Producers : t \in M!Threads /\ t # "consumer"
  BY DEF M!Threads, M!C
<1>1. ASSUME NEW a, NEW b \in ConsumerPCs, M!Go("consumer", a, b),
             UNCHANGED <<buf, nputM, nval>>, nready' \in Nat, i' \in Nat
      PROVE  /\ consumer = a /\ consumer' = b
             /\ \A u \in Producers : pcM'[u] = pcM[u]
             /\ \A u \in M!Threads : u # "consumer" => pcM'[u] = pcM[u]
             /\ Cnt(Producers, pcM, Announcing) \in Nat
             /\ Cnt(Producers, pcM', Announcing) = Cnt(Producers, pcM, Announcing)
             /\ MTypes' /\ MStored'
  <2>1. /\ pcM["consumer"] = a /\ pcM'["consumer"] = b
        /\ \A u \in M!Threads : u # "consumer" => pcM'[u] = pcM[u]
        /\ pcM' \in [M!Threads -> ProducerPCs \cup ConsumerPCs]
        /\ Cnt(Producers, pcM, Announcing) \in Nat
        /\ Cnt(Producers, pcM', Announcing) = Cnt(Producers, pcM, Announcing)
    BY <1>0, <1>1, MMoved DEF Delta
  <2>2. \A u \in Producers : pcM'[u] = pcM[u] BY <1>0, <2>1
  <2>3. MTypes' BY <1>0, <1>1, <2>1, <2>2 DEF MInv, MTypes
  <2>4. MStored' BY <1>0, <1>1, <2>1, <2>2 DEF MInv, MStored
  <2> QED BY <2>1, <2>2, <2>3, <2>4 DEF consumer
<1>2. CASE M!M_CreateConsumer
  <2>1. /\ M!Go("consumer", "unborn", "loop") /\ UNCHANGED <<put, buf, nputM, nval, nready, i>>
        /\ variant = "join" => \A t \in Producers : pcM[t] = "done"
    BY <1>0, <1>2 DEF M!M_CreateConsumer, M!items
  <2>2. "loop" \in ConsumerPCs /\ nready' \in Nat /\ i' \in Nat BY <2>1 DEF ConsumerPCs, MInv, MTypes
  <2> QED BY <1>0, <1>1, <2>1, <2>2 DEF MInv, MLocked, MConsumer, MAnnounced, consumer
<1>3. CASE M!C_Loop
  <2> DEFINE b == IF i >= nitems THEN "done" ELSE
                   CASE variant = "join" -> "check" [] variant = "spin" -> "c_lock" [] variant = "cond" -> "r_lock"
  <2>1. M!Go("consumer", "loop", b) /\ UNCHANGED <<put, buf, nputM, nval, nready, i>>
    BY <1>0, <1>3 DEF M!C_Loop, M!items
  <2>2. b \in ConsumerPCs /\ nready' \in Nat /\ i' \in Nat BY <2>1 DEF ConsumerPCs, MInv, MTypes
  <2>3. /\ variant = "join" => b \in {"done", "check"} /\ (b = "check" => i < nitems)
        /\ variant = "spin" => b \in {"done", "c_lock"}
        /\ variant = "cond" => b \in {"done", "r_lock"}
    BY DEF MInv, MTypes
  <2> HIDE DEF b
  <2>4. /\ consumer = "loop" /\ consumer' = b /\ MTypes' /\ MStored'
        /\ \A u \in Producers : pcM'[u] = pcM[u]
        /\ \A u \in M!Threads : u # "consumer" => pcM'[u] = pcM[u]
        /\ Cnt(Producers, pcM', Announcing) = Cnt(Producers, pcM, Announcing)
    BY <1>1, <2>1, <2>2
  <2>5. variant \in {"join", "spin", "cond"} BY DEF MInv, MTypes
  <2>6. MLocked' BY <1>0, <2>1, <2>3, <2>4, <2>5 DEF MInv, MLocked, consumer
  <2>7. MConsumer' BY <1>0, <2>1, <2>3, <2>4 DEF MInv, MConsumer
  <2>8. MAnnounced' BY <2>1, <2>3, <2>4 DEF MInv, MAnnounced
  <2> QED BY <2>4, <2>6, <2>7, <2>8 DEF MInv
<1>4. CASE M!ConsumerWait
  <2>1. CASE M!Go("consumer", "c_lock", "c_test") /\ put = "free" /\ put' = "consumer"
             /\ UNCHANGED <<buf, nputM, nval, nready, i>>
    <3>1. "c_test" \in ConsumerPCs /\ nready' \in Nat /\ i' \in Nat BY <2>1 DEF ConsumerPCs, MInv, MTypes
    <3> QED BY <1>0, <1>1, <2>1, <3>1 DEF MInv, MLocked, MConsumer, MAnnounced, consumer, M!Threads
  <2>2. CASE M!Go("consumer", "c_test", IF i < nputM THEN "check" ELSE "c_lock") /\ put' = "free"
             /\ UNCHANGED <<buf, nputM, nval, nready, i>>
    <3>1. /\ (IF i < nputM THEN "check" ELSE "c_lock") \in ConsumerPCs
          /\ nready' \in Nat /\ i' \in Nat BY <2>2 DEF ConsumerPCs, MInv, MTypes
    <3>2. /\ consumer = "c_test" /\ consumer' = IF i < nputM THEN "check" ELSE "c_lock"
          /\ MTypes' /\ MStored' /\ \A u \in M!Threads : u # "consumer" => pcM'[u] = pcM[u]
          /\ variant = "spin"
      <4>1. consumer = "c_test" BY <1>1, <2>2, <3>1
      <4>2. variant = "spin" BY <4>1 DEF MInv, MTypes, MConsumer
      <4> QED BY <1>1, <2>2, <3>1, <4>1, <4>2
    <3>3. put = "consumer" BY <1>0, <3>2 DEF MInv, MLocked, consumer
    <3>4. MLocked' BY <1>0, <2>2, <3>2, <3>3 DEF MInv, MLocked, consumer
    <3> QED BY <2>2, <3>2, <3>4 DEF MInv, MConsumer, MAnnounced
  <2> QED BY <1>0, <1>4, <2>1, <2>2 DEF M!ConsumerWait, M!Lock, M!Unlock, M!Free, M!items
<1>5. CASE M!C_CondWait
  <2>1. UNCHANGED <<put, buf, nputM, nval, i>> BY <1>5 DEF M!C_CondWait, M!items
  <2>2. CASE nready # 0 /\ M!Go("consumer", "r_test", "r_unlock") /\ nready' = nready - 1
    <3>1. "r_unlock" \in ConsumerPCs /\ nready' \in Nat /\ i' \in Nat
      BY <2>1, <2>2 DEF ConsumerPCs, MInv, MTypes
    <3> QED BY <1>0, <1>1, <2>1, <2>2, <3>1 DEF MInv, MTypes, MLocked, MConsumer, MAnnounced, consumer
  <2>3. ASSUME NEW a \in {"r_lock", "r_test", "asleep", "r_unlock"}, NEW b \in {"r_test", "asleep", "check"},
               a = "r_unlock" <=> b = "check", M!Go("consumer", a, b), nready' = nready
        PROVE  MInv'
    <3>1. b \in ConsumerPCs /\ nready' \in Nat /\ i' \in Nat
      BY <2>1, <2>3 DEF ConsumerPCs, MInv, MTypes
    <3>2. variant = "cond" /\ consumer = a /\ consumer' = b
      BY <1>1, <2>1, <2>3, <3>1 DEF MInv, MTypes, MConsumer
    <3> QED BY <1>0, <1>1, <2>1, <2>3, <3>1, <3>2 DEF MInv, MTypes, MLocked, MConsumer, MAnnounced, consumer
  <2> QED BY <1>0, <1>5, <2>2, <2>3 DEF M!C_CondWait
<1>6. CASE M!C_Check
  <2>1. M!Go("consumer", "check", "loop") /\ i' = i + 1 /\ UNCHANGED <<put, buf, nputM, nval, nready>>
    BY <1>0, <1>6 DEF M!C_Check, M!items
  <2>2. "loop" \in ConsumerPCs /\ nready' \in Nat /\ i' \in Nat BY <2>1 DEF ConsumerPCs, MInv, MTypes
  <2> QED BY <1>0, <1>1, <2>1, <2>2 DEF MInv, MTypes, MLocked, MConsumer, MAnnounced, consumer
<1>7. CASE M!SpuriousWakeup
  BY <1>7 DEF M!SpuriousWakeup, M!items, MInv, MTypes, MLocked, MStored, MConsumer, MAnnounced, consumer
<1> QED BY <1>2, <1>3, <1>4, <1>5, <1>6, <1>7 DEF M!Consumer

\* A step of the run is a step of the mutex program or leaves it alone.
LEMMA MStep == ASSUME MInv, [Next]_vars PROVE MInv'
<1>1. CASE UNCHANGED varsM
  BY <1>1 DEF varsM, MInv, MTypes, MLocked, MStored, MConsumer, MAnnounced, consumer
<1>2. CASE M!Next
  <2>1. CASE UNCHANGED M!vars BY <1>1, <2>1 DEF M!vars, M!items, varsM
  <2> QED BY <1>2, <2>1, MProducerStep, MConsumerStep DEF M!Next
<1> QED BY <1>1, <1>2 DEF Next, InM, InC, InL, vars

\* In all three mutex programs the consumer reads buf[i], without holding a
\* mutex, only after it was stored.
THEOREM ReadsStored == Spec => []ReadsStoredItem
<1>1. Init => MInv BY MInitInv DEF Init
<1>2. MInv /\ [Next]_vars => MInv' BY MStep
<1> QED BY <1>1, <1>2, MInvReads, PTL DEF Spec

-----------------------------------------------------------------------------
(* The counting programs                                                   *)

WorkerPCs == {"lock", "read", "write", "unlock", "ended", "killed"}

CTypes ==
  /\ counting \in C!Programs /\ counter \in Int /\ kills \in Nat
  /\ n \in [Workers -> 0..Increments] /\ seqno \in [Workers -> Int]
  /\ issued \in [Workers -> Seq(Int)] /\ pcC \in [Workers -> WorkerPCs]

\* Where a worker is tells how many rounds it has done and what it has read.
CControl ==
  \A w \in Workers :
    /\ pcC[w] \in {"lock", "read", "write"} => n[w] < Increments
    /\ pcC[w] = "ended" => n[w] = Increments
    /\ pcC[w] = "killed" => kills > 0
    /\ n[w] <= Len(issued[w])
    /\ pcC[w] \in {"lock", "read"} => Len(issued[w]) = n[w]
    /\ pcC[w] \in {"unlock"} => Len(issued[w]) = n[w]
    /\ pcC[w] = "write" => Len(issued[w]) = n[w] + 1 /\ issued[w][n[w] + 1] = seqno[w]

\* The common lock excludes; the number a worker has read under it is current.
CLocked ==
  C!Excludes => \A w \in Workers :
    /\ pcC[w] \in {"read", "write", "unlock"} => holder = w
    /\ pcC[w] = "write" => seqno[w] = counter

\* Numbers that were issued and written back are smaller than the counter.
CIssued ==
  C!Excludes /\ counting.workers # "threads" =>
    /\ \A w \in Workers : \A j \in 1..n[w] : issued[w][j] < counter
    /\ \A v, w \in Workers : \A j \in 1..n[v], k \in 1..n[w] : issued[v][j] = issued[w][k] => v = w /\ j = k

\* Without a lock: the counter lags behind the completed rounds, has left 0
\* after the first one, and is 1 only when its last writer has done one round.
CLagging ==
  counting.workers # "threads" =>
    /\ counter \in 0..Cardinality(C!Rounds(C!Started))
    /\ \A w \in Workers :
         /\ n[w] > 0 => counter >= 1
         /\ pcC[w] = "write" => seqno[w] \in 0..Cardinality(C!Rounds(C!Started))
         /\ pcC[w] = "write" /\ n[w] > 0 => seqno[w] >= 1
    /\ counter = 1 => \E w \in C!Started : n[w] = 1

CInv == CTypes /\ CControl /\ CLocked /\ C!NoLostUpdate /\ CIssued /\ CLagging

RoundsOf(W, f) == {r \in W \X (1..Increments) : r[2] <= f[r[1]]}

\* SharedCounter counts with the same Cardinality.
LEMMA CCardinality == ASSUME NEW S PROVE C!Cardinality(S) = Cardinality(S)
BY DEF C!Cardinality, Cardinality

\* Finitely many workers complete finitely many rounds.
LEMMA RoundsFinite ==
  ASSUME NEW W, W \subseteq Workers, NEW f
  PROVE  /\ IsFiniteSet(RoundsOf(W, f)) /\ Cardinality(RoundsOf(W, f)) \in Nat
         /\ IsFiniteSet(W) /\ Cardinality(RoundsOf(W, f)) <= Increments * Cardinality(W)
<1>1. IsFiniteSet(W) BY CounterAssumption, FS_Subset
<1>2. Increments \in Nat BY CounterAssumption
<1>3. IsFiniteSet(1..Increments) /\ Cardinality(1..Increments) = Increments
  BY <1>2, FS_Interval
<1>4. /\ IsFiniteSet(W \X (1..Increments)) /\ Cardinality(W) \in Nat
      /\ Cardinality(W \X (1..Increments)) = Cardinality(W) * Cardinality(1..Increments)
  BY <1>1, <1>3, FS_Product, FS_CardinalityType
<1>5. RoundsOf(W, f) \subseteq W \X (1..Increments) BY DEF RoundsOf
<1>6. /\ IsFiniteSet(RoundsOf(W, f))
      /\ Cardinality(RoundsOf(W, f)) <= Cardinality(W \X (1..Increments))
  BY <1>4, <1>5, FS_Subset
<1>7. Cardinality(RoundsOf(W, f)) \in Nat BY <1>6, FS_CardinalityType
<1>8. Cardinality(W) * Increments = Increments * Cardinality(W) BY <1>2, <1>4
<1> QED BY <1>1, <1>3, <1>4, <1>6, <1>7, <1>8

\* A worker that completes a round adds one to the rounds of its set.
LEMMA RoundsMore ==
  ASSUME NEW W, W \subseteq Workers, NEW f \in [Workers -> 0..Increments], NEW g,
         NEW w \in Workers, f[w] < Increments, g[w] = f[w] + 1, \A v \in Workers : v # w => g[v] = f[v]
  PROVE  Cardinality(RoundsOf(W, g)) = Cardinality(RoundsOf(W, f)) + IF w \in W THEN 1 ELSE 0
<1>0. Increments \in Nat /\ f[w] \in Nat BY CounterAssumption
<1>1. CASE w \notin W
  <2>1. \A v \in W : g[v] = f[v] BY <1>1
  <2>2. RoundsOf(W, g) = RoundsOf(W, f) BY <2>1 DEF RoundsOf
  <2>3. Cardinality(RoundsOf(W, f)) \in Nat BY RoundsFinite
  <2> QED BY <1>1, <2>2, <2>3
<1>2. CASE w \in W
  <2> DEFINE new == <<w, f[w] + 1>>
  <2>1. new \notin RoundsOf(W, f) BY <1>0 DEF RoundsOf
  <2>2. RoundsOf(W, g) = RoundsOf(W, f) \cup {new}
    <3>1. ASSUME NEW r \in W \X (1..Increments)
          PROVE  r[2] <= g[r[1]] <=> r[2] <= f[r[1]] \/ r = new
      <4>1. r[1] \in Workers /\ r[2] \in 1..Increments /\ r = <<r[1], r[2]>> /\ f[r[1]] \in Nat
        BY <3>1
      <4>2. CASE r[1] = w BY <1>0, <4>1, <4>2
      <4>3. CASE r[1] # w BY <1>0, <4>1, <4>3
      <4> QED BY <4>2, <4>3
    <3>2. new \in W \X (1..Increments) BY <1>0, <1>2
    <3> QED BY <3>1, <3>2 DEF RoundsOf
  <2>3. IsFiniteSet(RoundsOf(W, f)) /\ Cardinality(RoundsOf(W, f)) \in Nat BY RoundsFinite
  <2>4. Cardinality(RoundsOf(W, f) \cup {new}) = Cardinality(RoundsOf(W, f)) + 1 BY <2>1, <2>3, FS_AddElement
  <2> HIDE DEF new
  <2> QED BY <1>2, <2>2, <2>3, <2>4
<1> QED BY <1>1, <1>2

\* The invariant has the three properties of the counting programs.
LEMMA CInvCounted == CInv => UpdatesCounted
<1> SUFFICES ASSUME CInv PROVE UpdatesCounted OBVIOUS
<1>1. C!Started \subseteq Workers BY CounterAssumption DEF C!Started
<1>2. C!NumbersUnique BY <1>1 DEF CInv, CIssued, C!NumbersUnique
<1>3. C!SomeUpdatesSurvive
  <2> SUFFICES ASSUME C!AllEnded, counting.workers # "threads", kills = 0, Increments >= 2
               PROVE  counter \in 2..(Increments * Cardinality(C!Started))
    BY CCardinality DEF C!SomeUpdatesSurvive
  <2>1. C!Started # {}
    <3>1. Pair # {} BY CounterAssumption, FS_EmptySet
    <3> QED BY <3>1, CounterAssumption DEF C!Started
  <2>2. \A w \in C!Started : w \in Workers /\ n[w] = Increments /\ n[w] >= 2
    <3>1. \A w \in C!Started : w \in Workers /\ pcC[w] \in {"ended", "killed"} BY <1>1 DEF C!AllEnded, C!Ended
    <3>2. \A w \in Workers : pcC[w] # "killed" BY DEF CInv, CTypes, CControl
    <3> QED BY <3>1, <3>2 DEF CInv, CControl
  <2>3. counter \in Nat /\ counter <= Cardinality(C!Rounds(C!Started)) /\ counter >= 1 /\ counter # 1
    BY <2>1, <2>2 DEF CInv, CTypes, CLagging
  <2>4. /\ Cardinality(C!Rounds(C!Started)) <= Increments * Cardinality(C!Started)
        /\ Cardinality(C!Rounds(C!Started)) \in Nat /\ IsFiniteSet(C!Started)
    BY <1>1, RoundsFinite DEF C!Rounds, RoundsOf
  <2>5. Cardinality(C!Started) \in Nat BY <2>4, FS_CardinalityType
  <2>6. Increments * Cardinality(C!Started) \in Nat BY <2>5, CounterAssumption
  <2> QED BY <2>3, <2>4, <2>6
<1> QED BY <1>2, <1>3 DEF CInv, UpdatesCounted

\* The state before any worker has run.
LEMMA CInitInv == C!Init => CInv
<1> SUFFICES ASSUME C!Init PROVE CInv OBVIOUS
<1> USE CounterAssumption
<1>1. CTypes BY DEF C!Init, CTypes, WorkerPCs
<1>2. CControl /\ CLocked /\ CIssued BY DEF C!Init, CControl, CLocked, CIssued, C!Excludes
<1>3. C!Started \subseteq Workers /\ C!Down \subseteq Workers BY DEF C!Started, C!Down
<1>4. ASSUME NEW W, W \subseteq Workers PROVE Cardinality(C!Rounds(W)) = 0
  <2>1. C!Rounds(W) = {} BY <1>4 DEF C!Init, C!Rounds
  <2> QED BY <2>1, FS_EmptySet
<1>5. C!NoLostUpdate
  <2>1. C!Started \ C!Down \subseteq Workers BY <1>3
  <2> QED BY <1>3, <1>4, <2>1, CCardinality DEF C!Init, C!NoLostUpdate
<1>6. CLagging BY <1>3, <1>4 DEF C!Init, CLagging
<1> QED BY <1>1, <1>2, <1>5, <1>6 DEF CInv

\* What a worker's step leaves alone.
LEMMA CMoved ==
  ASSUME CInv, NEW w \in Workers, NEW a, NEW b \in WorkerPCs, C!Go(w, a, b)
  PROVE  /\ pcC[w] = a /\ pcC'[w] = b /\ \A v \in Workers : v # w => pcC'[v] = pcC[v]
         /\ pcC' \in [Workers -> WorkerPCs]
BY DEF CInv, CTypes, C!Go

\* The rounds and the set of workers are those of before.
LEMMA CSameRounds ==
  ASSUME UNCHANGED <<counting, n>>
  PROVE  /\ C!Started' = C!Started /\ (C!Excludes' <=> C!Excludes)
         /\ Cardinality(C!Rounds(C!Started))' = Cardinality(C!Rounds(C!Started))
         /\ counter' = counter => (C!NoLostUpdate' <=> C!NoLostUpdate)
BY DEF C!Started, C!Excludes, C!Rounds, C!NoLostUpdate, C!Down, C!Delta

\* my_lock, sem_wait, pthread_mutex_lock preserve the invariant.
LEMMA CAcquireStep ==
  ASSUME CInv, NEW w \in Workers, C!Acquire(w), UNCHANGED <<counting, kills>>
  PROVE  CInv'
<1> USE CounterAssumption
<1>1. /\ UNCHANGED <<counter, seqno, issued, n, counting, kills>>
      /\ C!Excludes => holder = "free" /\ holder' = w
  BY DEF C!Acquire, C!Free
<1>2. /\ pcC[w] = "lock" /\ pcC'[w] = "read" /\ \A v \in Workers : v # w => pcC'[v] = pcC[v]
      /\ pcC' \in [Workers -> WorkerPCs]
  BY CMoved DEF C!Acquire, WorkerPCs
<1>3. CTypes' BY <1>1, <1>2 DEF CInv, CTypes
<1>4. CControl' BY <1>1, <1>2 DEF CInv, CControl
<1>5. CLocked' BY <1>1, <1>2, CSameRounds DEF CInv, CLocked
<1>6. C!NoLostUpdate' BY <1>1, CSameRounds DEF CInv
<1>7. CIssued' BY <1>1 DEF CInv, CIssued, C!Excludes
<1>8. CLagging' BY <1>1, <1>2, CSameRounds DEF CInv, CLagging
<1> QED BY <1>3, <1>4, <1>5, <1>6, <1>7, <1>8 DEF CInv

\* Unlocking preserves the invariant.
LEMMA CReleaseStep ==
  ASSUME CInv, NEW w \in Workers, C!Release(w), UNCHANGED <<counting, kills>>
  PROVE  CInv'
<1> USE CounterAssumption
<1>1. /\ UNCHANGED <<counter, seqno, issued, n, counting, kills>>
      /\ C!Excludes => holder' = "free"
  BY DEF C!Release, C!Free
<1>2. /\ pcC[w] = "unlock" /\ pcC'[w] = IF n[w] < Increments THEN "lock" ELSE "ended"
      /\ \A v \in Workers : v # w => pcC'[v] = pcC[v]
      /\ pcC' \in [Workers -> WorkerPCs]
  <2>1. (IF n[w] < Increments THEN "lock" ELSE "ended") \in WorkerPCs BY DEF WorkerPCs
  <2> QED BY <2>1, CMoved DEF C!Release
<1>3. CTypes' BY <1>1, <1>2 DEF CInv, CTypes
<1>4. CControl' BY <1>1, <1>2 DEF CInv, CTypes, CControl
<1>5. CLocked' BY <1>1, <1>2, CSameRounds DEF CInv, CLocked
<1>6. C!NoLostUpdate' BY <1>1, CSameRounds DEF CInv
<1>7. CIssued' BY <1>1 DEF CInv, CIssued, C!Excludes
<1>8. CLagging' BY <1>1, <1>2, CSameRounds DEF CInv, CLagging
<1> QED BY <1>3, <1>4, <1>5, <1>6, <1>7, <1>8 DEF CInv

\* The death of a process preserves the invariant, whether its lock is freed
\* or stays with it.
LEMMA CKillStep == ASSUME CInv, NEW w \in Workers, C!Kill(w) PROVE CInv'
<1> USE CounterAssumption
<1>1. /\ UNCHANGED <<counter, seqno, issued, n, counting>> /\ kills' = kills + 1
      /\ holder' = holder \/ (holder = w /\ holder' = "free")
  BY DEF C!Kill, C!Free
<1>2. /\ pcC'[w] = "killed" /\ \A v \in Workers : v # w => pcC'[v] = pcC[v]
      /\ pcC' \in [Workers -> WorkerPCs]
  BY DEF C!Kill, CInv, CTypes, WorkerPCs
<1>3. CTypes' BY <1>1, <1>2 DEF CInv, CTypes
<1>4. CControl' BY <1>1, <1>2 DEF CInv, CTypes, CControl
<1>5. CLocked' BY <1>1, <1>2, CSameRounds DEF CInv, CLocked
<1>6. C!NoLostUpdate' BY <1>1, CSameRounds DEF CInv
<1>7. CIssued' BY <1>1 DEF CInv, CIssued, C!Excludes
<1>8. CLagging' BY <1>1, <1>2, CSameRounds DEF CInv, CLagging
<1> QED BY <1>3, <1>4, <1>5, <1>6, <1>7, <1>8 DEF CInv

\* Reading the number preserves the invariant.
LEMMA CReadStep ==
  ASSUME CInv, NEW w \in Workers, C!ReadNumber(w), UNCHANGED <<counting, kills>>
  PROVE  CInv'
<1> USE CounterAssumption
<1>1. /\ UNCHANGED <<counter, holder, n, counting, kills>>
      /\ seqno' = [seqno EXCEPT ![w] = counter] /\ issued' = [issued EXCEPT ![w] = Append(issued[w], counter)]
  BY DEF C!ReadNumber
<1>2. /\ pcC[w] = "read" /\ pcC'[w] = "write" /\ \A v \in Workers : v # w => pcC'[v] = pcC[v]
      /\ pcC' \in [Workers -> WorkerPCs]
  BY CMoved DEF C!ReadNumber, WorkerPCs
<1>3. /\ issued[w] \in Seq(Int) /\ Len(issued[w]) = n[w] /\ n[w] \in Nat /\ counter \in Int
      /\ issued'[w] = Append(issued[w], counter) /\ \A v \in Workers : v # w => issued'[v] = issued[v]
      /\ seqno'[w] = counter /\ \A v \in Workers : v # w => seqno'[v] = seqno[v]
  BY <1>1, <1>2 DEF CInv, CTypes, CControl
<1>4. /\ issued'[w] \in Seq(Int) /\ Len(issued'[w]) = n[w] + 1 /\ issued'[w][n[w] + 1] = counter
      /\ \A j \in 1..n[w] : issued'[w][j] = issued[w][j]
  BY <1>3
<1>5. CTypes' BY <1>1, <1>2, <1>4 DEF CInv, CTypes
<1>6. CControl'
  <2>1. ASSUME NEW v \in Workers, v # w
        PROVE  pcC'[v] = pcC[v] /\ issued'[v] = issued[v] /\ seqno'[v] = seqno[v] /\ n'[v] = n[v]
    BY <1>1, <1>2, <1>3, <2>1
  <2>2. n[w] < Increments BY <1>2 DEF CInv, CControl
  <2> QED BY <1>1, <1>2, <1>3, <1>4, <2>1, <2>2 DEF CInv, CControl
<1>7. CLocked' BY <1>1, <1>2, <1>3 DEF CInv, CLocked, C!Excludes
<1>8. C!NoLostUpdate' BY <1>1, CSameRounds DEF CInv
<1>9. \A v \in Workers : \A j \in 1..n[v] : issued'[v][j] = issued[v][j] BY <1>3, <1>4
<1>10. CIssued'
  <2>1. UNCHANGED <<counter, n, counting>> BY <1>1
  <2> SUFFICES ASSUME C!Excludes, counting.workers # "threads"
               PROVE  /\ \A v \in Workers : \A j \in 1..n[v] : issued'[v][j] < counter
                      /\ \A u, v \in Workers : \A j \in 1..n[u], k \in 1..n[v] :
                           issued'[u][j] = issued'[v][k] => u = v /\ j = k
    BY <2>1 DEF CIssued, C!Excludes
  <2> QED BY <1>9 DEF CInv, CIssued
<1>11. CLagging' BY <1>1, <1>2, <1>3, CSameRounds DEF CInv, CLagging
<1> QED BY <1>5, <1>6, <1>7, <1>8, <1>10, <1>11 DEF CInv

\* Writing the number back preserves the invariant.
LEMMA CWriteStep ==
  ASSUME CInv, NEW w \in C!Started, C!WriteNumber(w), UNCHANGED <<counting, kills>>
  PROVE  CInv'
<1> USE CounterAssumption
<1> DEFINE b == IF counting.scope = "loop" /\ n[w] + 1 < Increments THEN "read" ELSE "unlock"
<1>0. w \in Workers /\ C!Started \subseteq Workers /\ C!Down \subseteq Workers
  BY DEF C!Started, C!Down
<1>1. /\ UNCHANGED <<holder, seqno, issued, counting, kills>>
      /\ counter' = seqno[w] + C!Delta(w) /\ n' = [n EXCEPT ![w] = n[w] + 1]
  BY DEF C!WriteNumber
<1>2. /\ pcC[w] = "write" /\ pcC'[w] = b /\ b \in {"read", "unlock"}
      /\ b = "read" => n[w] + 1 < Increments
      /\ pcC' \in [Workers -> WorkerPCs] /\ \A v \in Workers : v # w => pcC'[v] = pcC[v]
  <2>1. b \in WorkerPCs BY DEF WorkerPCs
  <2>2. C!Go(w, "write", b) BY DEF C!WriteNumber
  <2>3. /\ pcC[w] = "write" /\ pcC'[w] = b
        /\ pcC' \in [Workers -> WorkerPCs] /\ \A v \in Workers : v # w => pcC'[v] = pcC[v]
    BY <1>0, <2>1, <2>2, CMoved
  <2> QED BY <2>3
<1> HIDE DEF b
<1>3. /\ n[w] \in Nat /\ n[w] < Increments /\ Len(issued[w]) = n[w] + 1 /\ issued[w][n[w] + 1] = seqno[w]
      /\ seqno[w] \in Int /\ counter \in Int /\ C!Delta(w) \in {-1, 1}
  BY <1>0, <1>2 DEF CInv, CTypes, CControl, C!Delta
<1>4. /\ n'[w] = n[w] + 1 /\ \A v \in Workers : v # w => n'[v] = n[v]
      /\ n \in [Workers -> 0..Increments] /\ n' \in [Workers -> 0..Increments]
  BY <1>0, <1>1, <1>3 DEF CInv, CTypes
<1>5. /\ C!Started' = C!Started /\ C!Down' = C!Down /\ (C!Excludes' <=> C!Excludes)
  BY <1>1 DEF C!Started, C!Down, C!Delta, C!Excludes
<1>6. ASSUME NEW W, W \subseteq Workers
      PROVE  /\ Cardinality(RoundsOf(W, n)) \in Nat
             /\ Cardinality(RoundsOf(W, n')) = Cardinality(RoundsOf(W, n)) + IF w \in W THEN 1 ELSE 0
  <2>1. w \in Workers /\ n[w] < Increments BY <1>0, <1>3
  <2>2. Cardinality(RoundsOf(W, n')) = Cardinality(RoundsOf(W, n)) + IF w \in W THEN 1 ELSE 0
    BY <1>4, <1>6, <2>1, RoundsMore
  <2>3. Cardinality(RoundsOf(W, n)) \in Nat BY <1>4, <1>6, RoundsFinite
  <2> QED BY <2>2, <2>3
<1>7. CTypes' BY <1>1, <1>2, <1>3, <1>4 DEF CInv, CTypes
<1>8. CControl'
  <2>1. ASSUME NEW v \in Workers, v # w
        PROVE  pcC'[v] = pcC[v] /\ issued'[v] = issued[v] /\ seqno'[v] = seqno[v] /\ n'[v] = n[v]
    BY <1>1, <1>2, <1>4, <2>1
  <2>2. /\ pcC'[w] \in {"read", "unlock"} /\ issued'[w] = issued[w] /\ n'[w] = n[w] + 1
        /\ pcC'[w] = "read" => n'[w] < Increments
    BY <1>1, <1>2, <1>4
  <2>3. CControl /\ kills' = kills BY <1>1 DEF CInv
  <2> QED BY <1>3, <2>1, <2>2, <2>3 DEF CControl
<1>9. CLocked' BY <1>0, <1>1, <1>2, <1>5 DEF CInv, CLocked
<1>10. C!NoLostUpdate'
  <2> SUFFICES ASSUME C!Excludes
               PROVE  counter' = Cardinality(RoundsOf(C!Started \ C!Down, n')) - Cardinality(RoundsOf(C!Down, n'))
    BY <1>5, CCardinality DEF C!NoLostUpdate, C!Rounds, RoundsOf
  <2>1. counter = Cardinality(RoundsOf(C!Started \ C!Down, n)) - Cardinality(RoundsOf(C!Down, n))
    BY CCardinality DEF CInv, C!NoLostUpdate, C!Rounds, RoundsOf
  <2>2. seqno[w] = counter BY <1>0, <1>2 DEF CInv, CLocked
  <2>3. w \in C!Down <=> C!Delta(w) = -1 BY DEF C!Down
  <2>4. C!Started \ C!Down \subseteq Workers BY <1>0
  <2>5. CASE w \in C!Down
    <3>1. w \notin C!Started \ C!Down BY <2>5
    <3>2. /\ Cardinality(RoundsOf(C!Started \ C!Down, n')) = Cardinality(RoundsOf(C!Started \ C!Down, n))
          /\ Cardinality(RoundsOf(C!Down, n')) = Cardinality(RoundsOf(C!Down, n)) + 1
          /\ Cardinality(RoundsOf(C!Down, n)) \in Nat /\ Cardinality(RoundsOf(C!Started \ C!Down, n)) \in Nat
      BY <1>0, <1>6, <2>4, <2>5, <3>1
    <3> QED BY <1>1, <2>1, <2>2, <2>3, <2>5, <3>2
  <2>6. CASE w \notin C!Down
    <3>1. w \in C!Started \ C!Down BY <2>6
    <3>2. /\ Cardinality(RoundsOf(C!Started \ C!Down, n')) = Cardinality(RoundsOf(C!Started \ C!Down, n)) + 1
          /\ Cardinality(RoundsOf(C!Down, n')) = Cardinality(RoundsOf(C!Down, n))
          /\ Cardinality(RoundsOf(C!Down, n)) \in Nat /\ Cardinality(RoundsOf(C!Started \ C!Down, n)) \in Nat
      BY <1>0, <1>6, <2>4, <2>6, <3>1
    <3> QED BY <1>1, <1>3, <2>1, <2>2, <2>3, <2>6, <3>2
  <2> QED BY <2>5, <2>6
<1>11. CIssued'
  <2> SUFFICES ASSUME C!Excludes, counting.workers # "threads"
               PROVE  /\ \A v \in Workers : \A j \in 1..n'[v] : issued[v][j] < counter'
                      /\ \A u, v \in Workers : \A j \in 1..n'[u], k \in 1..n'[v] :
                           issued[u][j] = issued[v][k] => u = v /\ j = k
    BY <1>1 DEF CIssued, C!Excludes
  <2>1. counter' = counter + 1 /\ issued[w][n[w] + 1] = counter
    BY <1>0, <1>1, <1>2, <1>3 DEF CInv, CLocked, C!Delta
  <2>2. \A v \in Workers : \A j \in 1..n'[v] : (v = w /\ j = n[w] + 1) \/ j \in 1..n[v]
    BY <1>3, <1>4
  <2>3. \A v \in Workers : \A j \in 1..n[v] : issued[v][j] \in Int /\ issued[v][j] < counter
    <3>1. \A v \in Workers : issued[v] \in Seq(Int) /\ n[v] <= Len(issued[v]) /\ n[v] \in Nat
      BY DEF CInv, CTypes, CControl
    <3> QED BY <3>1 DEF CInv, CIssued
  <2>4. \A v \in Workers : \A j \in 1..n'[v] : issued[v][j] < counter' BY <1>3, <2>1, <2>2, <2>3
  <2>5. \A u, v \in Workers : \A j \in 1..n[u], k \in 1..n[v] : issued[u][j] = issued[v][k] => u = v /\ j = k
    BY DEF CInv, CIssued
  <2>6. ASSUME NEW u \in Workers, NEW v \in Workers, NEW j \in 1..n'[u], NEW k \in 1..n'[v],
               issued[u][j] = issued[v][k]
        PROVE  u = v /\ j = k
    <3>1. CASE u = w /\ j = n[w] + 1
      <4>1. issued[v][k] = counter BY <2>1, <2>6, <3>1
      <4>2. k \notin 1..n[v] BY <2>3, <4>1, <2>1
      <4> QED BY <2>2, <3>1, <4>2
    <3>2. CASE v = w /\ k = n[w] + 1
      <4>1. issued[u][j] = counter BY <2>1, <2>6, <3>2
      <4>2. j \notin 1..n[u] BY <2>3, <4>1, <2>1
      <4> QED BY <2>2, <3>2, <4>2
    <3>3. CASE j \in 1..n[u] /\ k \in 1..n[v] BY <2>5, <2>6, <3>3
    <3> QED BY <2>2, <3>1, <3>2, <3>3
  <2> QED BY <2>4, <2>6
<1>12. CLagging'
  <2> DEFINE done == Cardinality(RoundsOf(C!Started, n))
  <2>1. done \in Nat /\ Cardinality(RoundsOf(C!Started, n')) = done + 1 BY <1>0, <1>6
  <2>2. /\ Cardinality(C!Rounds(C!Started)) = done
        /\ Cardinality(C!Rounds(C!Started))' = done + 1
    BY <1>5, <2>1 DEF C!Rounds, RoundsOf
  <2> HIDE DEF done
  <2> SUFFICES ASSUME counting.workers # "threads"
               PROVE  /\ counter' \in 0..(done + 1)
                      /\ \A v \in Workers :
                           /\ n'[v] > 0 => counter' >= 1
                           /\ pcC'[v] = "write" => seqno[v] \in 0..(done + 1)
                           /\ pcC'[v] = "write" /\ n'[v] > 0 => seqno[v] >= 1
                      /\ counter' = 1 => \E v \in C!Started : n'[v] = 1
    BY <1>1, <1>5, <2>2 DEF CLagging
  <2>3. counter' = seqno[w] + 1 BY <1>1 DEF C!Delta
  <2>4. \A v \in Workers : /\ pcC[v] = "write" => seqno[v] \in 0..done
                           /\ pcC[v] = "write" /\ n[v] > 0 => seqno[v] >= 1
    BY <2>2 DEF CInv, CLagging
  <2>5. seqno[w] \in 0..done /\ (n[w] > 0 => seqno[w] >= 1) BY <1>0, <1>2, <2>4
  <2>6. counter' = 1 => n'[w] = 1 BY <1>3, <1>4, <2>3, <2>5
  <2>7. \A v \in Workers : pcC'[v] = "write" => v # w /\ pcC[v] = "write" /\ n'[v] = n[v]
    BY <1>2, <1>4
  <2> QED BY <1>0, <2>1, <2>3, <2>4, <2>5, <2>6, <2>7
<1> QED BY <1>7, <1>8, <1>9, <1>10, <1>11, <1>12 DEF CInv

\* A step of the run is a step of the counting program or leaves it alone.
LEMMA CStep == ASSUME CInv, [Next]_vars PROVE CInv'
<1>1. CASE UNCHANGED varsC
  <2>1. UNCHANGED <<counting, counter, holder, seqno, issued, n, pcC, kills>> BY <1>1 DEF varsC
  <2>2. CTypes' /\ CControl' /\ CIssued' BY <2>1 DEF CInv, CTypes, CControl, CIssued, C!Excludes
  <2>3. C!NoLostUpdate' /\ CLocked' /\ CLagging' BY <2>1, CSameRounds DEF CInv, CLocked, CLagging
  <2> QED BY <2>2, <2>3 DEF CInv
<1>2. CASE C!Next
  <2>1. CASE UNCHANGED C!vars BY <1>1, <2>1 DEF C!vars, varsC
  <2>2. ASSUME NEW w \in Workers, C!Worker(w) PROVE CInv'
    <3>1. w \in C!Started /\ UNCHANGED <<counting, kills>> BY <2>2 DEF C!Worker
    <3> QED BY <2>2, <3>1, CAcquireStep, CReadStep, CWriteStep, CReleaseStep DEF C!Worker
  <2> QED BY <1>2, <2>1, <2>2, CKillStep DEF C!Next
<1> QED BY <1>1, <1>2 DEF Next, InM, InC, InL, vars

\* With a common lock no update is lost and no number issued twice, whoever is
\* killed; without one at least two updates survive.
THEOREM CountersCorrect == Spec => []UpdatesCounted
<1>1. Init => CInv BY CInitInv DEF Init
<1>2. CInv /\ [Next]_vars => CInv' BY CStep
<1> QED BY <1>1, <1>2, CInvCounted, PTL DEF Spec

-----------------------------------------------------------------------------
(* server2.c and client2.c of pxshm                                        *)

SemNames == {"mutex", "nempty", "nstroed", "noverflowmutex"}
LogPCs ==
  {"try", "o_lock", "o_incr", "o_unlock", "mutex", "take", "unlock", "copy", "post",
   "nstroed", "print", "nempty", "o_read"}
LogMessages == (Clients \X Nat) \cup {<< >>}

LTypes ==
  /\ started \subseteq Clients
  /\ sem \in [SemNames -> Nat] /\ pcL \in [Clients \cup {"server"} -> LogPCs]
  /\ \A c \in Clients : c \notin started => pcL[c] = "try"
  /\ nputL \in 0..(NMSG - 1) /\ index \in 0..(NMSG - 1)
  /\ msgdata \in [0..(NMSG - 1) -> LogMessages] /\ printed \in Seq(LogMessages)
  /\ loop \in [Clients -> Nat] /\ offset \in [Clients -> 0..(NMSG - 1)]

\* The overflow counts that the server has reported.
LReports ==
  /\ noverflow \in Nat /\ temp \in Nat /\ lastnoverflow \in Nat /\ reports \in Seq(Nat)
  /\ lastnoverflow <= temp /\ temp <= noverflow
  /\ \A k \in 1..Len(reports) : reports[k] <= lastnoverflow
  /\ \A j, k \in 1..Len(reports) : j < k => reports[j] < reports[k]

\* Messages that were announced and are not printed yet; all announced ones.
LWaiting == sem["nstroed"] + IF pcL["server"] \in {"mutex", "print"} THEN 1 ELSE 0
LTotal == Len(printed) + LWaiting
\* The k-th announced message, counted from 0.
LMessage(k) == IF k < Len(printed) THEN printed[k + 1] ELSE msgdata[k % NMSG]

\* A single client: the slots are used in turn and none is used again before it
\* is printed.
LSlots(c) ==
  /\ index = Len(printed) % NMSG
  /\ nputL = (LTotal + IF pcL[c] \in {"unlock", "copy", "post"} THEN 1 ELSE 0) % NMSG
  /\ pcL[c] \in {"unlock", "copy", "post"} => offset[c] = LTotal % NMSG
  /\ NMSG = sem["nempty"] + LWaiting
       + (IF pcL[c] \in {"mutex", "take", "unlock", "copy", "post"} THEN 1 ELSE 0)
       + (IF pcL["server"] \in {"unlock", "nempty"} THEN 1 ELSE 0)

\* What it announced came in the order of its loop.
LOrder(c) ==
  /\ pcL[c] = "post" => msgdata[LTotal % NMSG] = <<c, loop[c]>>
  /\ \A k \in 0..(LTotal - 1) : LMessage(k) \in Clients \X Nat /\ LMessage(k)[2] < loop[c]
  /\ \A j, k \in 0..(LTotal - 1) : j < k => LMessage(j)[2] < LMessage(k)[2]

LInv == LTypes /\ LReports /\ \A c \in Clients : started = {c} => LSlots(c) /\ LOrder(c)

\* ShmLog counts with its own instance of Cardinality.
LEMMA LCardinality == ASSUME NEW S PROVE L!Cardinality(S) = Cardinality(S)
BY DEF L!Cardinality, Cardinality

\* The numbers of waiting and of announced messages.
LEMMA LCounts ==
  ASSUME LTypes
  PROVE  LWaiting \in Nat /\ LTotal \in Nat /\ Len(printed) \in Nat /\ Len(printed) <= LTotal
<1>1. sem["nstroed"] \in Nat /\ Len(printed) \in Nat BY DEF LTypes, SemNames
<1> QED BY <1>1 DEF LWaiting, LTotal

\* The invariant contains the order of the messages and of the counts.
LEMMA LInvOrdered == LInv => LogInOrder
<1> SUFFICES ASSUME LInv PROVE LogInOrder OBVIOUS
<1>1. L!ReportsGrow BY DEF LInv, LReports, L!ReportsGrow
<1>2. ASSUME L!Cardinality(started) = 1
      PROVE  L!PrintsPlacedMessages /\ \A j, k \in 1..Len(printed) : j < k => printed[j][2] < printed[k][2]
  <2>1. IsFiniteSet(started) BY LogAssumption, FS_Subset DEF LInv, LTypes
  <2>2. PICK c \in Clients : started = {c}
    BY <1>2, <2>1, LCardinality, FS_Singleton DEF LInv, LTypes
  <2>3. LWaiting \in Nat /\ LTotal \in Nat /\ Len(printed) \in Nat /\ Len(printed) <= LTotal
    BY LCounts DEF LInv
  <2>4. ASSUME NEW k \in 1..Len(printed) PROVE k - 1 \in 0..(LTotal - 1) /\ LMessage(k - 1) = printed[k]
    BY <2>3, <2>4 DEF LMessage
  <2>5. LOrder(c) BY <2>2 DEF LInv
  <2>6. \A k \in 1..Len(printed) : printed[k] \in Clients \X Nat /\ printed[k] # << >>
    BY <2>4, <2>5 DEF LOrder
  <2>7. ASSUME NEW j \in 1..Len(printed), NEW k \in 1..Len(printed), j < k
        PROVE  printed[j][2] < printed[k][2]
    <3>1. j - 1 \in 0..(LTotal - 1) /\ k - 1 \in 0..(LTotal - 1) /\ j - 1 < k - 1 BY <2>3, <2>4, <2>7
    <3>2. LMessage(j - 1)[2] < LMessage(k - 1)[2] BY <2>5, <3>1 DEF LOrder
    <3> QED BY <2>4, <3>2
  <2>8. ASSUME NEW j \in 1..Len(printed), NEW k \in 1..Len(printed), printed[j] = printed[k] PROVE j = k
    <3>1. printed[j][2] \in Nat /\ printed[j][2] = printed[k][2] BY <2>6, <2>8
    <3>2. ~ (j < k) /\ ~ (k < j) BY <2>7, <3>1
    <3> QED BY <3>2, <2>3
  <2>9. DOMAIN printed = 1..Len(printed) BY DEF LInv, LTypes
  <2> QED BY <2>6, <2>7, <2>8, <2>9 DEF L!PrintsPlacedMessages, L!IsInjective, L!Zero
<1> QED BY <1>1, <1>2 DEF LogInOrder, L!OneClientInOrder

\* The server has initialised the shared memory, no client has run yet.
LEMMA LInitInv == L!Init => LInv
<1> SUFFICES ASSUME L!Init PROVE LInv OBVIOUS
<1>1. /\ sem["nstroed"] = 0 /\ sem["nempty"] = NMSG /\ printed = << >> /\ Len(printed) = 0
      /\ pcL["server"] = "nstroed" /\ \A c \in Clients : pcL[c] = "try"
  BY LogAssumption DEF L!Init, L!Server
<1>2. LTypes
  BY <1>1, LogAssumption DEF L!Init, L!Server, L!Zero, LTypes, SemNames, LogPCs, LogMessages
<1>3. LReports BY DEF L!Init, LReports
<1>4. LWaiting = 0 /\ LTotal = 0 BY <1>1 DEF LWaiting, LTotal
<1>5. 0 % NMSG = 0 BY LogAssumption
<1>6. \A c \in Clients : LSlots(c) /\ LOrder(c)
  BY <1>1, <1>4, <1>5, LogAssumption DEF L!Init, LSlots, LOrder
<1> QED BY <1>2, <1>3, <1>6 DEF LInv

\* What a move of one process leaves of the control state.
LEMMA LMoved ==
  ASSUME LTypes, NEW t \in Clients \cup {"server"}, NEW a, NEW b \in LogPCs, L!Move(t, a, b)
  PROVE  /\ pcL[t] = a /\ pcL'[t] = b /\ pcL' \in [Clients \cup {"server"} -> LogPCs]
         /\ \A u \in Clients \cup {"server"} : u # t => pcL'[u] = pcL[u]
BY DEF LTypes, L!Move

\* At most one semaphore is posted, or positive and waited for.
SemStep ==
  \/ sem' = sem
  \/ \E z \in SemNames : sem' = [sem EXCEPT ![z] = @ + 1]
  \/ \E z \in SemNames : sem[z] > 0 /\ sem' = [sem EXCEPT ![z] = @ - 1]

\* The semaphores keep their type.
LEMMA LSemType == ASSUME LTypes, SemStep PROVE sem' \in [SemNames -> Nat]
<1>1. sem \in [SemNames -> Nat] BY DEF LTypes
<1>2. ASSUME NEW z \in SemNames, sem' = [sem EXCEPT ![z] = @ + 1] PROVE sem' \in [SemNames -> Nat]
  BY <1>1, <1>2
<1>3. ASSUME NEW z \in SemNames, sem[z] > 0, sem' = [sem EXCEPT ![z] = @ - 1]
      PROVE  sem' \in [SemNames -> Nat]
  <2>1. sem[z] - 1 \in Nat BY <1>1, <1>3
  <2> QED BY <1>1, <1>3, <2>1
<1> QED BY <1>1, <1>2, <1>3 DEF SemStep

\* The announced messages are those of before.
LEMMA LSameOrder ==
  ASSUME LTypes, LTypes', NEW c \in Clients, LOrder(c), LTotal' = LTotal,
         \A k \in 0..(LTotal - 1) : LMessage(k)' = LMessage(k),
         loop'[c] >= loop[c],
         pcL'[c] = "post" => msgdata'[LTotal % NMSG] = <<c, loop'[c]>>
  PROVE  LOrder(c)'
<1>1. loop[c] \in Nat /\ loop'[c] \in Nat BY DEF LTypes
<1>2. LTotal \in Nat BY LCounts
<1>3. ASSUME NEW k \in 0..(LTotal - 1) PROVE LMessage(k)' \in Clients \X Nat /\ LMessage(k)'[2] < loop'[c]
  BY <1>1, <1>2, <1>3 DEF LOrder
<1>4. ASSUME NEW j \in 0..(LTotal - 1), NEW k \in 0..(LTotal - 1), j < k
      PROVE  LMessage(j)'[2] < LMessage(k)'[2]
  BY <1>2, <1>4 DEF LOrder
<1> QED BY <1>3, <1>4 DEF LOrder

\* No slot is overwritten while it holds a message that is to be printed.
LEMMA LFreeSlot ==
  ASSUME LTypes, NEW c \in Clients, LSlots(c), pcL[c] = "copy", NEW k \in 0..(LTotal - 1), k >= Len(printed)
  PROVE  k % NMSG # LTotal % NMSG
<1>1. LWaiting \in Nat /\ LTotal \in Nat /\ Len(printed) \in Nat /\ LTotal = Len(printed) + LWaiting
  BY LCounts DEF LTotal
<1>2. sem["nempty"] \in Nat BY DEF LTypes, SemNames
<1>3. LWaiting < NMSG
  <2>1. NMSG = sem["nempty"] + LWaiting + 1 + (IF pcL["server"] \in {"unlock", "nempty"} THEN 1 ELSE 0)
    BY DEF LSlots
  <2> QED BY <1>1, <1>2, <2>1, LogAssumption
<1>4. k \in Nat /\ k < LTotal /\ LTotal < k + NMSG BY <1>1, <1>3, LogAssumption
<1> QED BY <1>1, <1>4, LogAssumption, ModDistinct

\* A step of client2.c preserves the invariant.
LEMMA LClientStep == ASSUME LInv, NEW c \in Clients, L!Client(c) PROVE LInv'
<1> USE LogAssumption
<1>0. LTypes /\ c # "server" /\ c \in Clients \cup {"server"} BY DEF LInv
<1>1. UNCHANGED <<started, index, temp, lastnoverflow, printed, reports>>
  BY DEF L!Client, L!Trywait, L!Overflow, L!TakeSlot, L!Place, L!shm, L!cli, L!srv
<1>2. PICK a, b \in LogPCs : L!Move(c, a, b)
  BY DEF L!Client, L!Trywait, L!Overflow, L!TakeSlot, L!Place, L!Wait, L!Step, L!Post, LogPCs
<1>3. /\ pcL[c] = a /\ pcL'[c] = b /\ pcL' \in [Clients \cup {"server"} -> LogPCs]
      /\ \A u \in Clients \cup {"server"} : u # c => pcL'[u] = pcL[u]
  BY <1>0, <1>2, LMoved
<1>4. c \in started BY <1>0, <1>3 DEF LTypes, L!Client, L!Trywait, L!Overflow, L!TakeSlot, L!Place,
        L!Wait, L!Step, L!Post, L!Move
<1>5. pcL'["server"] = pcL["server"] BY <1>0, <1>3
<1>6. LReports' 
  <2>1. noverflow' = noverflow \/ noverflow' = noverflow + 1
    BY DEF L!Client, L!Trywait, L!Overflow, L!TakeSlot, L!Place, L!shm
  <2> QED BY <1>1, <2>1 DEF LInv, LReports
<1>7. LWaiting \in Nat /\ LTotal \in Nat /\ Len(printed) \in Nat /\ Len(printed) <= LTotal
  BY <1>0, LCounts
<1>8. LTypes'
  <2>1. sem' \in [SemNames -> Nat]
    <3>1. SemStep
      BY DEF SemStep, SemNames, L!Client, L!Trywait, L!Overflow, L!TakeSlot, L!Place, L!Wait, L!Step, L!Post
    <3> QED BY <1>0, <3>1, LSemType
  <2>2. nputL' \in 0..(NMSG - 1) /\ offset' \in [Clients -> 0..(NMSG - 1)]
    BY <1>0 DEF LTypes, L!Client, L!Trywait, L!Overflow, L!TakeSlot, L!Place, L!shm, L!cli
  <2>3. loop' \in [Clients -> Nat]
    BY <1>0 DEF LTypes, L!Client, L!Trywait, L!Overflow, L!TakeSlot, L!Place, L!shm, L!cli
  <2>4. msgdata' \in [0..(NMSG - 1) -> LogMessages]
    <3>1. msgdata' = msgdata \/ msgdata' = [msgdata EXCEPT ![offset[c]] = <<c, loop[c]>>]
      BY DEF L!Client, L!Trywait, L!Overflow, L!TakeSlot, L!Place, L!shm
    <3>2. <<c, loop[c]>> \in LogMessages BY <1>0 DEF LTypes, LogMessages
    <3> QED BY <1>0, <3>1, <3>2 DEF LTypes
  <2> QED BY <1>0, <1>1, <1>3, <1>4, <2>1, <2>2, <2>3, <2>4 DEF LTypes
<1>9. ASSUME started = {c} PROVE LSlots(c)' /\ LOrder(c)'
  <2>0. LSlots(c) /\ LOrder(c) BY <1>9 DEF LInv
  <2>1. ASSUME LTotal' = LTotal, msgdata' = msgdata PROVE \A k \in 0..(LTotal - 1) : LMessage(k)' = LMessage(k)
    BY <1>1, <2>1 DEF LMessage
  <2>2. loop'[c] \in Nat /\ loop[c] \in Nat BY <1>0, <1>8 DEF LTypes
  <2>3. CASE L!Trywait(c)
    <3>1. sem'["nstroed"] = sem["nstroed"] /\ UNCHANGED <<nputL, msgdata, loop, offset>>
      BY <1>0, <2>3 DEF L!Trywait, L!Wait, L!Step, LTypes, SemNames, L!shm, L!cli
    <3>2. LWaiting' = LWaiting /\ LTotal' = LTotal BY <1>1, <1>5, <3>1 DEF LWaiting, LTotal
    <3>3. pcL[c] = "try" /\ \/ pcL'[c] = "mutex" /\ sem'["nempty"] = sem["nempty"] - 1
                            \/ pcL'[c] = "o_lock" /\ sem'["nempty"] = sem["nempty"]
      BY <1>0, <2>3 DEF L!Trywait, L!Wait, L!Step, L!Move, LTypes, SemNames
    <3>4. sem["nempty"] \in Nat BY <1>0 DEF LTypes, SemNames
    <3>5. LSlots(c)'
      <4>1. CASE pcL'[c] = "mutex" BY <1>1, <1>5, <1>7, <2>0, <3>1, <3>2, <3>3, <3>4, <4>1 DEF LSlots
      <4>2. CASE pcL'[c] = "o_lock" BY <1>1, <1>5, <1>7, <2>0, <3>1, <3>2, <3>3, <3>4, <4>2 DEF LSlots
      <4> QED BY <3>3, <4>1, <4>2
    <3> QED BY <1>0, <1>8, <2>0, <2>1, <2>2, <3>1, <3>2, <3>3, <3>5, LSameOrder
  <2>4. CASE L!Overflow(c)
    <3>1. /\ sem'["nstroed"] = sem["nstroed"] /\ sem'["nempty"] = sem["nempty"]
          /\ UNCHANGED <<nputL, msgdata, offset>>
      BY <1>0, <2>4 DEF L!Overflow, L!Wait, L!Step, L!Post, LTypes, SemNames
    <3>2. LWaiting' = LWaiting /\ LTotal' = LTotal BY <1>1, <1>5, <3>1 DEF LWaiting, LTotal
    <3>3. /\ pcL[c] \in {"o_lock", "o_incr", "o_unlock"} /\ pcL'[c] \in {"o_incr", "o_unlock", "try"}
          /\ loop'[c] >= loop[c]
      BY <1>0, <2>2, <2>4 DEF L!Overflow, L!Wait, L!Step, L!Post, L!Move, LTypes
    <3>5. LSlots(c)' BY <1>1, <1>5, <1>7, <2>0, <3>1, <3>2, <3>3 DEF LSlots
    <3> QED BY <1>0, <1>8, <2>0, <2>1, <2>2, <3>1, <3>2, <3>3, <3>5, LSameOrder
  <2>5. CASE L!TakeSlot(c)
    <3>1. /\ sem'["nstroed"] = sem["nstroed"] /\ sem'["nempty"] = sem["nempty"]
          /\ UNCHANGED <<msgdata, loop>>
      BY <1>0, <2>5 DEF L!TakeSlot, L!Wait, L!Step, L!Post, LTypes, SemNames
    <3>2. LWaiting' = LWaiting /\ LTotal' = LTotal BY <1>1, <1>5, <3>1 DEF LWaiting, LTotal
    <3>3. \/ pcL[c] = "mutex" /\ pcL'[c] = "take" /\ UNCHANGED <<nputL, offset>>
          \/ /\ pcL[c] = "take" /\ pcL'[c] = "unlock" /\ offset'[c] = nputL
             /\ nputL' = IF nputL + 1 >= NMSG THEN 0 ELSE nputL + 1
          \/ pcL[c] = "unlock" /\ pcL'[c] = "copy" /\ UNCHANGED <<nputL, offset>>
      BY <1>0, <2>5 DEF L!TakeSlot, L!Wait, L!Step, L!Post, L!Move, LTypes
    <3>4. (LTotal + 1) % NMSG = IF (LTotal % NMSG) + 1 >= NMSG THEN 0 ELSE (LTotal % NMSG) + 1
      BY <1>7, ModSucc
    <3>5. LSlots(c)'
      <4>1. CASE pcL[c] = "mutex" BY <1>1, <1>5, <1>7, <2>0, <3>1, <3>2, <3>3, <4>1 DEF LSlots
      <4>2. CASE pcL[c] = "unlock" BY <1>1, <1>5, <1>7, <2>0, <3>1, <3>2, <3>3, <4>2 DEF LSlots
      <4>3. CASE pcL[c] = "take"
        <5>1. nputL = LTotal % NMSG BY <1>7, <2>0, <4>3 DEF LSlots
        <5> QED BY <1>1, <1>5, <1>7, <2>0, <3>1, <3>2, <3>3, <3>4, <4>3, <5>1 DEF LSlots
      <4> QED BY <3>3, <4>1, <4>2, <4>3
    <3> QED BY <1>0, <1>8, <2>0, <2>1, <2>2, <3>1, <3>2, <3>3, <3>5, LSameOrder
  <2>6. CASE pcL[c] = "copy"
    <3>1. /\ pcL'[c] = "post" /\ UNCHANGED <<sem, nputL, loop, offset>>
          /\ msgdata' = [msgdata EXCEPT ![offset[c]] = <<c, loop[c]>>]
      BY <1>0, <2>6 DEF L!Client, L!Trywait, L!Overflow, L!TakeSlot, L!Place, L!Wait, L!Step, L!Post, L!Move, LTypes
    <3>2. LWaiting' = LWaiting /\ LTotal' = LTotal BY <1>1, <1>5, <3>1 DEF LWaiting, LTotal
    <3>3. offset[c] = LTotal % NMSG BY <2>0, <2>6 DEF LSlots
    <3>4. LSlots(c)' BY <1>1, <1>5, <1>7, <2>0, <2>6, <3>1, <3>2 DEF LSlots
    <3>5. \A k \in 0..(LTotal - 1) : k >= Len(printed) => k % NMSG \in 0..(NMSG - 1) /\ k % NMSG # offset[c]
      BY <1>0, <1>7, <2>0, <2>6, <3>3, LFreeSlot, ModIn
    <3>6. ASSUME NEW k \in 0..(LTotal - 1) PROVE LMessage(k)' = LMessage(k)
      <4>1. CASE k < Len(printed) BY <1>1, <4>1 DEF LMessage
      <4>2. CASE k >= Len(printed)
        <5>1. msgdata'[k % NMSG] = msgdata[k % NMSG] BY <1>0, <3>1, <3>5, <4>2 DEF LTypes
        <5> QED BY <1>1, <1>7, <4>2, <5>1 DEF LMessage
      <4> QED BY <1>7, <4>1, <4>2
    <3>7. msgdata'[LTotal % NMSG] = <<c, loop[c]>>
      <4>1. LTotal % NMSG \in 0..(NMSG - 1) BY <1>7, ModIn
      <4> QED BY <1>0, <3>1, <3>3, <4>1 DEF LTypes
    <3> QED BY <1>0, <1>8, <2>0, <2>2, <3>1, <3>2, <3>4, <3>6, <3>7, LSameOrder
  <2>7. CASE pcL[c] = "post"
    <3>1. /\ pcL'[c] = "try" /\ sem'["nstroed"] = sem["nstroed"] + 1 /\ sem'["nempty"] = sem["nempty"]
          /\ UNCHANGED <<nputL, offset, msgdata>> /\ loop'[c] = loop[c] + 1
      BY <1>0, <2>7 DEF L!Client, L!Trywait, L!Overflow, L!TakeSlot, L!Place, L!Wait, L!Step, L!Post, L!Move,
         LTypes, SemNames
    <3>2. LWaiting' = LWaiting + 1 /\ LTotal' = LTotal + 1
      <4>1. sem["nstroed"] \in Nat BY <1>0 DEF LTypes, SemNames
      <4> QED BY <1>1, <1>5, <1>7, <3>1, <4>1 DEF LWaiting, LTotal
    <3>3. sem["nempty"] \in Nat BY <1>0 DEF LTypes, SemNames
    <3>4. LSlots(c)'
      <4>1. index' = Len(printed') % NMSG BY <1>1, <2>0 DEF LSlots
      <4>2. nputL' = LTotal' % NMSG BY <1>7, <2>0, <2>7, <3>1, <3>2 DEF LSlots
      <4>3. NMSG = (sem["nempty"] + LWaiting + 1) + (IF pcL["server"] \in {"unlock", "nempty"} THEN 1 ELSE 0)
        BY <2>0, <2>7 DEF LSlots
      <4> QED BY <1>5, <1>7, <3>1, <3>2, <3>3, <4>1, <4>2, <4>3 DEF LSlots
    <3>5. ASSUME NEW k PROVE LMessage(k)' = LMessage(k) BY <1>1, <3>1 DEF LMessage
    <3>6. LMessage(LTotal) = <<c, loop[c]>> BY <1>7, <2>0, <2>7 DEF LMessage, LOrder
    <3>7. ASSUME NEW k \in 0..LTotal PROVE LMessage(k) \in Clients \X Nat /\ LMessage(k)[2] < loop[c] + 1
      <4>1. CASE k = LTotal BY <2>2, <3>6, <4>1
      <4>2. CASE k \in 0..(LTotal - 1)
        <5>1. LMessage(k) \in Clients \X Nat /\ LMessage(k)[2] < loop[c] BY <2>0, <4>2 DEF LOrder
        <5>2. LMessage(k)[2] \in Nat BY <5>1
        <5> QED BY <2>2, <5>1, <5>2
      <4> QED BY <1>7, <4>1, <4>2
    <3>8. ASSUME NEW j \in 0..LTotal, NEW k \in 0..LTotal, j < k PROVE LMessage(j)[2] < LMessage(k)[2]
      <4>1. j \in 0..(LTotal - 1) BY <1>7, <3>8
      <4>2. CASE k = LTotal
        <5>1. LMessage(j)[2] < loop[c] BY <2>0, <4>1 DEF LOrder
        <5> QED BY <3>6, <4>2, <5>1
      <4>3. CASE k \in 0..(LTotal - 1) BY <2>0, <3>8, <4>1, <4>3 DEF LOrder
      <4> QED BY <1>7, <4>2, <4>3
    <3>9. LTotal' - 1 = LTotal BY <1>7, <3>2
    <3> QED BY <3>1, <3>4, <3>5, <3>7, <3>8, <3>9 DEF LOrder
  <2> QED BY <2>3, <2>4, <2>5, <2>6, <2>7 DEF L!Client, L!Place, L!Step, L!Post, L!Move
<1>10. \A d \in Clients : started = {d} => d = c BY <1>4
<1> QED BY <1>1, <1>6, <1>8, <1>9, <1>10 DEF LInv

\* A step of server2.c preserves the invariant.
LEMMA LServerStep == ASSUME LInv, L!ServerStep PROVE LInv'
<1> USE LogAssumption
<1>0. LTypes /\ "server" \in Clients \cup {"server"} BY DEF LInv
<1>1. UNCHANGED <<started, nputL, noverflow, msgdata, loop, offset>>
  BY DEF L!ServerStep, L!PrintMessage, L!ReportOverflow, L!shm, L!cli
<1>2. PICK a, b \in LogPCs : L!Move("server", a, b)
  BY DEF L!ServerStep, L!PrintMessage, L!ReportOverflow, L!Wait, L!Step, L!Post, LogPCs, L!Server
<1>3. /\ pcL["server"] = a /\ pcL'["server"] = b /\ pcL' \in [Clients \cup {"server"} -> LogPCs]
      /\ \A c \in Clients : pcL'[c] = pcL[c]
  BY <1>0, <1>2, LMoved
<1>4. sem' \in [SemNames -> Nat]
  <2>1. SemStep
    BY DEF SemStep, SemNames, L!ServerStep, L!PrintMessage, L!ReportOverflow, L!Wait, L!Step, L!Post
  <2> QED BY <1>0, <2>1, LSemType
<1>5. LWaiting \in Nat /\ LTotal \in Nat /\ Len(printed) \in Nat /\ Len(printed) <= LTotal
  BY <1>0, LCounts
<1>6. sem["nstroed"] \in Nat /\ sem["nempty"] \in Nat BY <1>0 DEF LTypes, SemNames
<1>7. CASE pcL["server"] = "print"
  <2>1. /\ UNCHANGED <<sem, temp, lastnoverflow, reports>> /\ pcL'["server"] = "unlock"
        /\ printed' = Append(printed, msgdata[index]) /\ index' = (index + 1) % NMSG
    BY <1>0, <1>7 DEF L!ServerStep, L!PrintMessage, L!ReportOverflow, L!Wait, L!Step, L!Post, L!Move,
       L!Server, LTypes
  <2>2. msgdata[index] \in LogMessages /\ printed \in Seq(LogMessages) /\ index \in Nat BY <1>0 DEF LTypes
  <2>3. /\ printed' \in Seq(LogMessages) /\ Len(printed') = Len(printed) + 1
        /\ \A k \in 1..Len(printed) : printed'[k] = printed[k]
        /\ printed'[Len(printed) + 1] = msgdata[index]
    BY <2>1, <2>2
  <2>4. index' \in 0..(NMSG - 1) BY <2>1, <2>2, ModIn
  <2>5. LTypes' BY <1>0, <1>1, <1>3, <1>4, <2>3, <2>4 DEF LTypes
  <2>6. LReports' BY <1>1, <2>1 DEF LInv, LReports
  <2>7. LWaiting' = LWaiting - 1 /\ LTotal' = LTotal
    <3>1. LWaiting = sem["nstroed"] + 1 /\ LWaiting' = sem["nstroed"] BY <1>6, <1>7, <2>1 DEF LWaiting
    <3>2. LWaiting' = LWaiting - 1 /\ LWaiting \in Int BY <1>6, <3>1
    <3>3. Len(printed) \in Nat /\ Len(printed') = Len(printed) + 1 BY <2>2, <2>3
    <3> QED BY <3>2, <3>3 DEF LTotal
  <2>8. ASSUME NEW c \in Clients, started = {c} PROVE LSlots(c)' /\ LOrder(c)'
    <3>0. LSlots(c) /\ LOrder(c) BY <2>8 DEF LInv
    <3>1. index = Len(printed) % NMSG BY <3>0 DEF LSlots
    <3>2. index' = (Len(printed) + 1) % NMSG BY <1>5, <2>1, <3>1, ModSucc
    <3>3. LSlots(c)'
      <4>1. UNCHANGED <<nputL, offset, sem>> /\ pcL'[c] = pcL[c] BY <1>1, <1>3, <2>1
      <4>2. index' = Len(printed') % NMSG BY <2>3, <3>2
      <4> DEFINE taken == IF pcL[c] \in {"mutex", "take", "unlock", "copy", "post"} THEN 1 ELSE 0
      <4>3. NMSG = sem["nempty"] + LWaiting + taken BY <1>5, <1>6, <1>7, <3>0 DEF LSlots
      <4>4. NMSG = sem'["nempty"] + LWaiting' + taken + 1 BY <1>5, <1>6, <2>7, <4>1, <4>3
      <4>5. /\ nputL' = (LTotal' + IF pcL'[c] \in {"unlock", "copy", "post"} THEN 1 ELSE 0) % NMSG
            /\ pcL'[c] \in {"unlock", "copy", "post"} => offset'[c] = LTotal' % NMSG
        BY <2>7, <3>0, <4>1 DEF LSlots
      <4> QED BY <2>1, <4>1, <4>2, <4>4, <4>5 DEF LSlots
    <3>4. ASSUME NEW k \in 0..(LTotal - 1) PROVE LMessage(k)' = LMessage(k)
      <4>1. CASE k < Len(printed) BY <1>5, <2>3, <4>1 DEF LMessage
      <4>2. CASE k = Len(printed) BY <1>5, <2>3, <3>1, <4>2 DEF LMessage
      <4>3. CASE k > Len(printed) BY <1>1, <1>5, <2>3, <4>3 DEF LMessage
      <4> QED BY <1>5, <4>1, <4>2, <4>3
    <3>5. loop'[c] >= loop[c] BY <1>0, <1>1 DEF LTypes
    <3>6. pcL'[c] = "post" => msgdata'[LTotal % NMSG] = <<c, loop'[c]>> BY <1>1, <1>3, <3>0 DEF LOrder
    <3> QED BY <1>0, <2>5, <2>7, <3>0, <3>3, <3>4, <3>5, <3>6, LSameOrder
  <2> QED BY <1>1, <2>5, <2>6, <2>8 DEF LInv
<1>8. CASE pcL["server"] # "print"
  <2>1. UNCHANGED <<index, printed>>
    BY <1>8 DEF L!ServerStep, L!PrintMessage, L!ReportOverflow, L!Wait, L!Step, L!Post, L!Move, L!Server
  <2>2. LTypes' BY <1>0, <1>1, <1>3, <1>4, <2>1 DEF LTypes
  <2>3. LReports'
    <3>1. \/ UNCHANGED <<temp, lastnoverflow, reports>>
          \/ temp' = noverflow /\ UNCHANGED <<lastnoverflow, reports>>
          \/ lastnoverflow' = temp /\ reports' = Append(reports, temp) /\ temp # lastnoverflow /\ UNCHANGED temp
      BY DEF L!ServerStep, L!PrintMessage, L!ReportOverflow
    <3>2. CASE UNCHANGED <<temp, lastnoverflow, reports>> BY <1>1, <3>2 DEF LInv, LReports
    <3>3. CASE temp' = noverflow /\ UNCHANGED <<lastnoverflow, reports>> BY <1>1, <3>3 DEF LInv, LReports
    <3>4. CASE /\ lastnoverflow' = temp /\ reports' = Append(reports, temp) /\ temp # lastnoverflow
               /\ UNCHANGED temp
      <4>1. temp \in Nat /\ lastnoverflow \in Nat /\ noverflow \in Nat /\ reports \in Seq(Nat)
            /\ lastnoverflow < temp /\ temp <= noverflow
        BY <3>4 DEF LInv, LReports
      <4>2. /\ reports' \in Seq(Nat) /\ Len(reports') = Len(reports) + 1 /\ Len(reports) \in Nat
            /\ \A k \in 1..Len(reports) : reports'[k] = reports[k] /\ reports[k] \in Nat
            /\ reports'[Len(reports) + 1] = temp
        BY <3>4, <4>1
      <4>3. \A k \in 1..Len(reports) : reports[k] <= lastnoverflow BY DEF LInv, LReports
      <4>4. \A j, k \in 1..Len(reports) : j < k => reports[j] < reports[k] BY DEF LInv, LReports
      <4>5. \A k \in 1..Len(reports') : reports'[k] <= temp 
        <5> SUFFICES ASSUME NEW k \in 1..Len(reports') PROVE reports'[k] <= temp OBVIOUS
        <5>1. CASE k \in 1..Len(reports)
          <6>1. reports'[k] = reports[k] /\ reports[k] \in Nat /\ reports[k] <= lastnoverflow
            BY <4>2, <4>3, <5>1
          <6> QED BY <4>1, <6>1
        <5>2. CASE k = Len(reports) + 1 BY <4>1, <4>2, <5>2
        <5> QED BY <4>2, <5>1, <5>2
      <4>6. \A j, k \in 1..Len(reports') : j < k => reports'[j] < reports'[k] 
        <5> SUFFICES ASSUME NEW j \in 1..Len(reports'), NEW k \in 1..Len(reports'), j < k
                     PROVE  reports'[j] < reports'[k]
          OBVIOUS
        <5>1. j \in 1..Len(reports) BY <4>2
        <5>2. CASE k \in 1..Len(reports) BY <4>2, <4>4, <5>1, <5>2
        <5>3. CASE k = Len(reports) + 1
          <6>1. reports'[j] <= lastnoverflow /\ reports'[j] \in Nat BY <4>2, <4>3, <5>1
          <6> QED BY <4>1, <4>2, <5>3, <6>1
        <5> QED BY <4>2, <5>2, <5>3
      <4> QED BY <1>1, <3>4, <4>1, <4>2, <4>5, <4>6 DEF LReports
    <3> QED BY <3>1, <3>2, <3>3, <3>4
  <2>4. LWaiting' = LWaiting
    <3>1. \/ pcL["server"] = "nstroed" /\ pcL'["server"] = "mutex" /\ sem'["nstroed"] = sem["nstroed"] - 1
          \/ /\ pcL["server"] = "mutex" <=> pcL'["server"] = "print"
             /\ pcL["server"] # "nstroed" /\ pcL'["server"] # "mutex" /\ sem'["nstroed"] = sem["nstroed"]
      BY <1>0, <1>8 DEF L!ServerStep, L!PrintMessage, L!ReportOverflow, L!Wait, L!Step, L!Post, L!Move, L!Server,
         LTypes, SemNames
    <3> QED BY <1>6, <1>8, <3>1 DEF LWaiting
  <2>5. sem'["nempty"] + (IF pcL'["server"] \in {"unlock", "nempty"} THEN 1 ELSE 0)
          = sem["nempty"] + (IF pcL["server"] \in {"unlock", "nempty"} THEN 1 ELSE 0)
    <3>1. \/ pcL["server"] = "nempty" /\ pcL'["server"] = "o_lock" /\ sem'["nempty"] = sem["nempty"] + 1
          \/ pcL["server"] = "unlock" /\ pcL'["server"] = "nempty" /\ sem'["nempty"] = sem["nempty"]
          \/ /\ pcL["server"] \notin {"unlock", "nempty"} /\ pcL'["server"] \notin {"unlock", "nempty"}
             /\ sem'["nempty"] = sem["nempty"]
      BY <1>0, <1>8 DEF L!ServerStep, L!PrintMessage, L!ReportOverflow, L!Wait, L!Step, L!Post, L!Move, L!Server,
         LTypes, SemNames
    <3> QED BY <1>6, <3>1
  <2>6. LTotal' = LTotal BY <2>1, <2>4 DEF LTotal
  <2>7. ASSUME NEW c \in Clients, started = {c} PROVE LSlots(c)' /\ LOrder(c)'
    <3>0. LSlots(c) /\ LOrder(c) BY <2>7 DEF LInv
    <3>1. UNCHANGED <<nputL, offset, index, printed>> /\ pcL'[c] = pcL[c] BY <1>1, <1>3, <2>1
    <3>2. sem'["nempty"] \in Nat BY <1>4 DEF SemNames
    <3>3. LSlots(c)'
      <4> DEFINE taken == IF pcL[c] \in {"mutex", "take", "unlock", "copy", "post"} THEN 1 ELSE 0
                 given == IF pcL["server"] \in {"unlock", "nempty"} THEN 1 ELSE 0
      <4>1. NMSG = sem["nempty"] + LWaiting + taken + given BY <3>0 DEF LSlots
      <4>2. taken \in Nat /\ given \in Nat /\ given' \in Nat /\ sem'["nempty"] + given' = sem["nempty"] + given
        BY <2>5
      <4>3. taken' = taken BY <3>1
      <4>4. /\ index' = Len(printed') % NMSG
            /\ nputL' = (LTotal' + IF pcL'[c] \in {"unlock", "copy", "post"} THEN 1 ELSE 0) % NMSG
            /\ pcL'[c] \in {"unlock", "copy", "post"} => offset'[c] = LTotal' % NMSG
        BY <2>6, <3>0, <3>1 DEF LSlots
      <4> HIDE DEF taken, given
      <4>5. sem["nempty"] \in Nat /\ LWaiting \in Nat BY <1>5, <1>6
      <4>6. NMSG = sem'["nempty"] + LWaiting + taken + given'
        <5>1. sem["nempty"] + LWaiting + taken + given = (sem["nempty"] + given) + (LWaiting + taken)
          BY <4>2, <4>5
        <5>2. sem'["nempty"] + LWaiting + taken + given' = (sem'["nempty"] + given') + (LWaiting + taken)
          BY <3>2, <4>2, <4>5
        <5> QED BY <4>1, <4>2, <5>1, <5>2
      <4> QED BY <2>4, <4>3, <4>4, <4>6 DEF LSlots, taken, given
    <3>4. ASSUME NEW k \in 0..(LTotal - 1) PROVE LMessage(k)' = LMessage(k) BY <1>1, <2>1 DEF LMessage
    <3>5. loop'[c] >= loop[c] BY <1>0, <1>1 DEF LTypes
    <3>6. pcL'[c] = "post" => msgdata'[LTotal % NMSG] = <<c, loop'[c]>> BY <1>1, <1>3, <3>0 DEF LOrder
    <3> QED BY <1>0, <2>2, <2>6, <3>0, <3>3, <3>4, <3>5, <3>6, LSameOrder
  <2> QED BY <1>1, <2>2, <2>3, <2>7 DEF LInv
<1> QED BY <1>7, <1>8

\* A step of the run is a step of the log programs or leaves them alone.
LEMMA LStep == ASSUME LInv, [Next]_vars PROVE LInv'
<1>1. CASE UNCHANGED varsL
  <2>1. UNCHANGED <<sem, pcL, started, nputL, noverflow, msgdata, loop, offset, index, temp, lastnoverflow,
                    printed, reports>>
    BY <1>1 DEF varsL
  <2>2. LTypes' /\ LReports' BY <2>1 DEF LInv, LTypes, LReports
  <2>3. ASSUME NEW c \in Clients, started = {c} PROVE LSlots(c)' /\ LOrder(c)'
    BY <2>1, <2>3 DEF LInv, LSlots, LOrder, LTotal, LWaiting, LMessage
  <2> QED BY <2>1, <2>2, <2>3 DEF LInv
<1>2. CASE L!Next
  <2>1. CASE UNCHANGED L!vars BY <1>1, <2>1 DEF L!vars, L!shm, L!cli, L!srv, varsL
  <2> QED BY <1>2, <2>1, LClientStep, LServerStep DEF L!Next
<1> QED BY <1>1, <1>2 DEF Next, InM, InC, InL, vars

\* With any number of slots, the messages of a single client are printed in the
\* order they were sent, none twice and none that was not sent; and with any
\* clients the reported overflow counts only grow.
THEOREM LogOrdered == Spec => []LogInOrder
<1>1. Init => LInv BY LInitInv DEF Init
<1>2. LInv /\ [Next]_vars => LInv' BY LStep
<1> QED BY <1>1, <1>2, LInvOrdered, PTL DEF Spec
=============================================================================
