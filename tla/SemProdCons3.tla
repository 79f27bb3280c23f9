---------------------------- MODULE SemProdCons3 ----------------------------
(***************************************************************************)
(* src/ipc/src/pxsem/sem_prodcons3.c: any number of producers, and one     *)
(* consumer whose loop index i is private.  A producer that finds all      *)
(* items put gives its slot back before it unlocks.                        *)
(***************************************************************************)
EXTENDS Integers, Sequences, FiniteSets, Semaphores

CONSTANTS Producers, NBUFF, nitems

VARIABLES buf, nput, nputval, i, count, main
data == <<buf, nput, nputval, i, count>>
vars == <<sem, pc, data, main>>

Consumer == "consumer"
Threads == Producers \cup {Consumer}

\* Mutants: no lock around the store; the slot is not given back on leaving.
AcquireNoLock(t) ==
  (Wait(t, "nempty", "nempty", "mutex") \/ Step(t, "mutex", "test")) /\ UNCHANGED <<data, main>>
ExitKeepsSlot(t) ==
  (Step(t, "x_nempty", "x_mutex") \/ Post(t, "x_mutex", "mutex", "done")) /\ UNCHANGED <<data, main>>

P_Acquire(t) ==
  /\ Wait(t, "nempty", "nempty", "mutex") \/ Wait(t, "mutex", "mutex", "test")
  /\ UNCHANGED <<data, main>>

P_Test(t) ==
  /\ Step(t, "test", IF nput >= nitems THEN "x_nempty" ELSE "store")
  /\ UNCHANGED <<data, main>>

P_Exit(t) ==
  /\ Post(t, "x_nempty", "nempty", "x_mutex") \/ Post(t, "x_mutex", "mutex", "done")
  /\ UNCHANGED <<data, main>>

P_Store(t) ==
  /\ Step(t, "store", "incr")
  /\ buf' = [buf EXCEPT ![nput % NBUFF] = nputval]
  /\ UNCHANGED <<nput, nputval, i, count, main>>

P_Incr(t) ==
  /\ Step(t, "incr", "unlock")
  /\ nput' = nput + 1 /\ nputval' = nputval + 1
  /\ UNCHANGED <<buf, i, count, main>>

\* The count of the thread is incremented after the last sem_post.
P_Release(t) ==
  \/ Post(t, "unlock", "mutex", "nstored") /\ UNCHANGED <<data, main>>
  \/ /\ Post(t, "nstored", "nstored", "nempty")
     /\ count' = [count EXCEPT ![t] = @ + 1]
     /\ UNCHANGED <<buf, nput, nputval, i, main>>

Producer(t) ==
  P_Acquire(t) \/ P_Test(t) \/ P_Exit(t) \/ P_Store(t) \/ P_Incr(t) \/ P_Release(t)

\* for(i = 0; i < nitems; ++i): the comparison of buf[i % NBUFF] with i is the
\* step from "check"; the loop ends when i reaches nitems.
C_Loop ==
  \/ /\ \/ i < nitems /\ Wait(Consumer, "c_nstored", "nstored", "c_mutex")
        \/ i >= nitems /\ Step(Consumer, "c_nstored", "done")
        \/ Wait(Consumer, "c_mutex", "mutex", "c_check")
        \/ Step(Consumer, "c_check", "c_unlock")
        \/ Post(Consumer, "c_unlock", "mutex", "c_nempty")
     /\ UNCHANGED <<data, main>>
  \/ /\ Post(Consumer, "c_nempty", "nempty", "c_nstored")
     /\ i' = i + 1
     /\ UNCHANGED <<buf, nput, nputval, count, main>>

Init ==
  /\ sem = [s \in {"mutex", "nempty", "nstored"} |->
              CASE s = "mutex" -> 1 [] s = "nempty" -> NBUFF [] s = "nstored" -> 0]
  /\ buf = [k \in 0..(NBUFF - 1) |-> 0]
  /\ nput = 0 /\ nputval = 0 /\ i = 0
  /\ count = [t \in Producers |-> 0]
  /\ pc = [t \in Threads |-> "unborn"]
  /\ main = "create"

M_Create ==
  /\ main = "create"
  /\ \/ \E t \in Producers : Step(t, "unborn", "nempty")
     \/ (\A t \in Producers : pc[t] # "unborn") /\ Step(Consumer, "unborn", "c_nstored")
  /\ UNCHANGED <<data, main>>

M_Join ==
  /\ main = "create" /\ \A t \in Threads : pc[t] = "done"
  /\ main' = "returned"
  /\ UNCHANGED <<sem, pc, data>>

Returned == main = "returned" /\ UNCHANGED vars

Next == (\E t \in Producers : Producer(t)) \/ C_Loop \/ M_Create \/ M_Join \/ Returned

\* Threads are scheduled; nothing is assumed about the order of wake-ups.
Spec ==
  /\ Init /\ [][Next]_vars
  /\ \A t \in Producers : WF_vars(Producer(t))
  /\ WF_vars(C_Loop) /\ WF_vars(M_Create) /\ WF_vars(M_Join)

-----------------------------------------------------------------------------
\* An item leaves the queue when the consumer has compared it.
taken == IF pc[Consumer] \in {"c_unlock", "c_nempty"} THEN i + 1 ELSE i

Fifo == INSTANCE BoundedFifo WITH
  Capacity <- NBUFF, NumItems <- nitems, nextPut <- nputval, nextGet <- taken,
  queue <- [k \in 1..(nput - taken) |-> buf[(taken + k - 1) % NBUFF]]

\* sem_prodcons3 hands over the items in order and exactly once: the
\* comparison of buf[i % NBUFF] with i never fails.
FifoSpec == Fifo!Spec

\* Although producers leave while others sleep on nempty, every producer and
\* the consumer finish, all items have been taken, and the slots are all free
\* when main() returns.
AllFinish == <>(main = "returned" /\ taken = nitems /\ sem["nempty"] = NBUFF /\ sem["mutex"] = 1)
=============================================================================
