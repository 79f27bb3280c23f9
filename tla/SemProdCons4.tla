---------------------------- MODULE SemProdCons4 ----------------------------
(***************************************************************************)
(* src/ipc/src/pxsem/sem_prodcons4.c: any number of producer and consumer  *)
(* threads share a circular buffer guarded by the semaphores mutex, nempty *)
(* and nstored.  A control point stands before each access to shared       *)
(* state; `*arg += 1` touches only the thread's own slot of prodcount or   *)
(* conscount and is done with the sem_post before it.                      *)
(***************************************************************************)
EXTENDS Integers, Sequences, FiniteSets, Semaphores

CONSTANTS Producers, Consumers, NBUFF, nitems

ASSUME ThreadsAssumption ==     \* at most MAXNTHREADS of each
  IsFiniteSet(Producers) /\ IsFiniteSet(Consumers) /\ Producers \cap Consumers = {}
ASSUME NBUFFAssumption == NBUFF \in Nat \ {0}
ASSUME NitemsAssumption == nitems \in Int     \* whatever atoi(argv[1]) yields

VARIABLES
  buf, nput, nputval, nget, ngetval,   \* struct shared
  count,                               \* prodcount[] and conscount[]
  main                                 \* control point of main()

data == <<buf, nput, nputval, nget, ngetval, count>>
vars == <<sem, pc, data, main>>

Threads == Producers \cup Consumers

-----------------------------------------------------------------------------
(* producer() *)

\* Mutant: the producer takes no free slot.
P_AcquireNoSlot(t) ==
  /\ Step(t, "p_nempty", "p_mutex") \/ Wait(t, "p_mutex", "mutex", "p_test")
  /\ UNCHANGED <<data, main>>

P_Acquire(t) ==
  /\ \/ Wait(t, "p_nempty", "nempty", "p_mutex")
     \/ Wait(t, "p_mutex", "mutex", "p_test")
  /\ UNCHANGED <<data, main>>

P_Test(t) ==
  /\ Step(t, "p_test", IF nput >= nitems THEN "p_x_nstored" ELSE "p_store")
  /\ UNCHANGED <<data, main>>

P_Store(t) ==
  /\ Step(t, "p_store", "p_incr")
  /\ buf' = [buf EXCEPT ![nput % NBUFF] = nputval]
  /\ UNCHANGED <<nput, nputval, nget, ngetval, count, main>>

P_Incr(t) ==
  /\ Step(t, "p_incr", "p_unlock")
  /\ nput' = nput + 1 /\ nputval' = nputval + 1
  /\ UNCHANGED <<buf, nget, ngetval, count, main>>

P_Unlock(t) == Post(t, "p_unlock", "mutex", "p_nstored") /\ UNCHANGED <<data, main>>

P_Stored(t) ==
  /\ Post(t, "p_nstored", "nstored", "p_nempty")
  /\ count' = [count EXCEPT ![t] = @ + 1]
  /\ UNCHANGED <<buf, nput, nputval, nget, ngetval, main>>

\* Mutants: the leaving producer forgets the consumers; it keeps its slot.
P_ExitSilent(t) ==
  /\ \/ Step(t, "p_x_nstored", "p_x_mutex")
     \/ Post(t, "p_x_mutex", "mutex", "p_x_nempty")
     \/ Post(t, "p_x_nempty", "nempty", "done")
  /\ UNCHANGED <<data, main>>
P_ExitKeepsSlot(t) ==
  /\ \/ Post(t, "p_x_nstored", "nstored", "p_x_mutex")
     \/ Post(t, "p_x_mutex", "mutex", "p_x_nempty")
     \/ Step(t, "p_x_nempty", "done")
  /\ UNCHANGED <<data, main>>

\* Everything is put: let the consumers terminate, then the next producer.
P_Exit(t) ==
  /\ \/ Post(t, "p_x_nstored", "nstored", "p_x_mutex")
     \/ Post(t, "p_x_mutex", "mutex", "p_x_nempty")
     \/ Post(t, "p_x_nempty", "nempty", "done")
  /\ UNCHANGED <<data, main>>

Producer(t) ==
  P_Acquire(t) \/ P_Test(t) \/ P_Store(t) \/ P_Incr(t) \/ P_Unlock(t) \/ P_Stored(t) \/ P_Exit(t)

-----------------------------------------------------------------------------
(* consumer() *)

\* Mutant: the consumer does not wait for a stored item.
C_AcquireNoItem(t) ==
  /\ Step(t, "c_nstored", "c_mutex") \/ Wait(t, "c_mutex", "mutex", "c_test")
  /\ UNCHANGED <<data, main>>

C_Acquire(t) ==
  /\ \/ Wait(t, "c_nstored", "nstored", "c_mutex")
     \/ Wait(t, "c_mutex", "mutex", "c_test")
  /\ UNCHANGED <<data, main>>

C_Test(t) ==
  /\ Step(t, "c_test", IF nget >= nitems THEN "c_x_nstored" ELSE "c_check")
  /\ UNCHANGED <<data, main>>

\* Compare buf[nget % NBUFF] with ngetval (the outcome is only printed, and is
\* what ReadsExpectedItem is about), then move on.
C_Check(t) ==
  /\ Step(t, "c_check", "c_unlock")
  /\ nget' = nget + 1 /\ ngetval' = ngetval + 1
  /\ UNCHANGED <<buf, nput, nputval, count, main>>

C_Unlock(t) == Post(t, "c_unlock", "mutex", "c_nempty") /\ UNCHANGED <<data, main>>

C_Emptied(t) ==
  /\ Post(t, "c_nempty", "nempty", "c_nstored")
  /\ count' = [count EXCEPT ![t] = @ + 1]
  /\ UNCHANGED <<buf, nput, nputval, nget, ngetval, main>>

C_Exit(t) ==
  /\ \/ Post(t, "c_x_nstored", "nstored", "c_x_mutex")
     \/ Post(t, "c_x_mutex", "mutex", "done")
  /\ UNCHANGED <<data, main>>

Consumer(t) ==
  C_Acquire(t) \/ C_Test(t) \/ C_Check(t) \/ C_Unlock(t) \/ C_Emptied(t) \/ C_Exit(t)

-----------------------------------------------------------------------------
(* main() *)

Init ==
  /\ sem = [s \in {"mutex", "nempty", "nstored"} |->
              CASE s = "mutex" -> 1 [] s = "nempty" -> NBUFF [] s = "nstored" -> 0]
  /\ buf = [i \in 0..(NBUFF - 1) |-> 0]
  /\ nput = 0 /\ nputval = 0 /\ nget = 0 /\ ngetval = 0
  /\ count = [t \in Threads |-> 0]
  /\ pc = [t \in Threads |-> "unborn"]
  /\ main = "create"

\* pthread_create, every producer before the first consumer.
M_Create ==
  /\ main = "create"
  /\ \/ \E t \in Producers : Step(t, "unborn", "p_nempty")
     \/ /\ \A p \in Producers : pc[p] # "unborn"
        /\ \E t \in Consumers : Step(t, "unborn", "c_nstored")
  /\ UNCHANGED <<data, main>>

\* pthread_join of every thread, then sem_destroy of the semaphores.
M_Join ==
  /\ main = "create" /\ \A t \in Threads : pc[t] = "done"
  /\ main' = "returned"
  /\ UNCHANGED <<sem, pc, data>>

Returned == main = "returned" /\ UNCHANGED vars

Next ==
  \/ \E t \in Producers : Producer(t)
  \/ \E t \in Consumers : Consumer(t)
  \/ M_Create \/ M_Join \/ Returned

Spec == Init /\ [][Next]_vars

\* A thread that can run is eventually scheduled; nothing is assumed about
\* which waiter a sem_post wakes.
Fairness ==
  /\ \A t \in Producers : WF_vars(Producer(t))
  /\ \A t \in Consumers : WF_vars(Consumer(t))
  /\ WF_vars(M_Create) /\ WF_vars(M_Join)

LiveSpec == Spec /\ Fairness

-----------------------------------------------------------------------------
(* Properties *)

InMutex == {"p_test", "p_store", "p_incr", "p_unlock", "p_x_nstored", "p_x_mutex",
            "c_test", "c_check", "c_unlock", "c_x_nstored", "c_x_mutex"}

ProducerPCs == {"unborn", "p_nempty", "p_mutex", "p_test", "p_store", "p_incr", "p_unlock",
                "p_nstored", "p_x_nstored", "p_x_mutex", "p_x_nempty", "done"}
ConsumerPCs == {"unborn", "c_nstored", "c_mutex", "c_test", "c_check", "c_unlock", "c_nempty",
                "c_x_nstored", "c_x_mutex", "done"}

TypeOK ==
  /\ sem \in [{"mutex", "nempty", "nstored"} -> Nat]
  /\ buf \in [0..(NBUFF - 1) -> Nat]
  /\ nput \in Nat /\ nputval \in Nat /\ nget \in Nat /\ ngetval \in Nat
  /\ count \in [Threads -> Nat]
  /\ pc \in [Threads -> ProducerPCs \cup ConsumerPCs]
  /\ \A t \in Producers : pc[t] \in ProducerPCs
  /\ \A t \in Consumers : pc[t] \in ConsumerPCs
  /\ main \in {"create", "returned"}

\* No two threads are between sem_wait(&mutex) and the matching sem_post
\* (producer lines 94-104, consumer lines 116-126).
MutualExclusion ==
  \A s, t \in Threads : pc[s] \in InMutex /\ pc[t] \in InMutex => s = t

\* The error message of line 123 is never printed: the item a consumer is
\* about to take is already stored and is the one it expects, although a
\* producer that leaves posts nstored without having stored anything.
ReadsExpectedItem ==
  \A t \in Consumers : pc[t] = "c_check" => nget < nput /\ buf[nget % NBUFF] = ngetval

\* The shared buffer as the abstract queue: everything between nget and nput.
fifoQueue == [i \in 1..(nput - nget) |-> buf[(nget + i - 1) % NBUFF]]

Fifo == INSTANCE BoundedFifo WITH
  Capacity <- NBUFF, NumItems <- nitems, nextPut <- nputval, nextGet <- ngetval,
  queue <- fifoQueue

\* sem_prodcons4 hands over the items in order and exactly once.
FifoSpec == Fifo!Spec

\* main() returns: every thread learns that the work is finished.
Termination == <>(main = "returned")
=============================================================================
