--------------------------- MODULE MutexProdCons ----------------------------
(***************************************************************************)
(* src/ipc/src/mutex/mutex_prodcons1.c, 2.c and 3.c: several producers     *)
(* fill an array under a mutex, one consumer checks it.  The variable      *)
(* `variant` is the program that runs; they differ in how the consumer     *)
(* learns that buf[i] is stored:                                           *)
(*   "join"  it is created after all producers were joined   (1.c)         *)
(*   "spin"  it polls nput under the mutex                   (2.c)         *)
(*   "cond"  it waits on a condition variable for nready > 0 (3.c)         *)
(* In all three it then reads buf[i] without holding any mutex.            *)
(***************************************************************************)
EXTENDS Integers, Sequences, FiniteSets

CONSTANTS Producers, nitems

C == "consumer"
Threads == Producers \cup {C}
Free == "free"
Empty == -1        \* an array element nobody has stored into

VARIABLES
  variant,   \* never changes
  put,       \* holder of shared.mutex (put.mutex in 3.c)
  ready,     \* holder of nready.mutex
  waiting,   \* the consumer sleeps in pthread_cond_wait
  buf, nput, nval, nready, i, pc
items == <<buf, nput, nval>>
vars == <<variant, put, ready, waiting, items, nready, i, pc>>

Go(t, a, b) == pc[t] = a /\ pc' = [pc EXCEPT ![t] = b]
Lock(m, t) == m = Free /\ m' = t
Unlock(m, t) == m' = Free

-----------------------------------------------------------------------------
\* What producer() stores: shared.nval in 1.c and 2.c, put.nput in 3.c.
Value == IF variant = "cond" THEN nput ELSE nval

\* Mutant: a signal that is sent when nobody can be waiting.
P_AnnounceLate(t) ==
  \/ Go(t, "r_lock", "r_signal") /\ Lock(ready, t) /\ UNCHANGED <<waiting, nready>>
  \/ Go(t, "r_signal", "r_incr") /\ waiting' = (waiting /\ nready = 0) /\ UNCHANGED <<ready, nready>>
  \/ Go(t, "r_incr", "lock") /\ nready' = nready + 1 /\ Unlock(ready, t) /\ UNCHANGED waiting

\* The part of producer() that all programs share: one item, or the end.
P_Put(t) ==
  \/ Go(t, "lock", "test") /\ Lock(put, t) /\ UNCHANGED items
  \/ /\ Go(t, "test", IF nput >= nitems THEN "done" ELSE "store")
     /\ IF nput >= nitems THEN Unlock(put, t) ELSE UNCHANGED put
     /\ UNCHANGED items
  \/ Go(t, "store", "incr") /\ buf' = [buf EXCEPT ![nput] = Value] /\ UNCHANGED <<put, nput, nval>>
  \/ /\ Go(t, "incr", IF variant = "cond" THEN "r_lock" ELSE "lock")
     /\ nput' = nput + 1 /\ nval' = nval + 1 /\ Unlock(put, t) /\ UNCHANGED buf

\* 3.c: signal only when the consumer may be waiting, then count the item.
P_Announce(t) ==
  \/ Go(t, "r_lock", "r_signal") /\ Lock(ready, t) /\ UNCHANGED <<waiting, nready>>
  \/ Go(t, "r_signal", "r_incr") /\ waiting' = (waiting /\ nready # 0) /\ UNCHANGED <<ready, nready>>
  \/ Go(t, "r_incr", "lock") /\ nready' = nready + 1 /\ Unlock(ready, t) /\ UNCHANGED waiting

Producer(t) ==
  \/ P_Put(t) /\ UNCHANGED <<ready, waiting, nready, i>>
  \/ P_Announce(t) /\ UNCHANGED <<put, items, i>>

-----------------------------------------------------------------------------
\* pthread_create of the consumer: at once, or in 1.c after the joins.
M_CreateConsumer ==
  /\ variant = "join" => \A t \in Producers : pc[t] = "done"
  /\ Go(C, "unborn", "loop")
  /\ UNCHANGED <<put, ready, waiting, items, nready, i>>

\* for(i = 0; i < nitems; ++i)
C_Loop ==
  /\ Go(C, "loop", IF i >= nitems THEN "done" ELSE
         CASE variant = "join" -> "check" [] variant = "spin" -> "c_lock" [] variant = "cond" -> "r_lock")
  /\ UNCHANGED <<put, ready, waiting, items, nready, i>>

\* 2.c, consumer_wait(i): poll nput under the mutex.
ConsumerWait ==
  /\ \/ Go(C, "c_lock", "c_test") /\ Lock(put, C)
     \/ Go(C, "c_test", IF i < nput THEN "check" ELSE "c_lock") /\ Unlock(put, C)
  /\ UNCHANGED <<ready, waiting, items, nready, i>>

\* Mutant: `if` instead of `while` around pthread_cond_wait.
C_CondWaitIf ==
  /\ \/ Go(C, "r_lock", "r_test") /\ Lock(ready, C) /\ UNCHANGED <<waiting, nready>>
     \/ nready = 0 /\ Go(C, "r_test", "asleep") /\ Unlock(ready, C) /\ waiting' = TRUE /\ UNCHANGED nready
     \/ nready # 0 /\ Go(C, "r_test", "r_unlock") /\ nready' = nready - 1 /\ UNCHANGED <<ready, waiting>>
     \/ Go(C, "asleep", "r_unlock") /\ ~waiting /\ Lock(ready, C) /\ nready' = nready - 1 /\ UNCHANGED waiting
     \/ Go(C, "r_unlock", "check") /\ Unlock(ready, C) /\ UNCHANGED <<waiting, nready>>
  /\ UNCHANGED <<put, items, i>>

\* 3.c: while(nready.nready == 0) pthread_cond_wait(...); --nready.nready
C_CondWait ==
  /\ \/ Go(C, "r_lock", "r_test") /\ Lock(ready, C) /\ UNCHANGED <<waiting, nready>>
     \/ nready = 0 /\ Go(C, "r_test", "asleep") /\ Unlock(ready, C) /\ waiting' = TRUE /\ UNCHANGED nready
     \/ nready # 0 /\ Go(C, "r_test", "r_unlock") /\ nready' = nready - 1 /\ UNCHANGED <<ready, waiting>>
     \/ Go(C, "asleep", "r_test") /\ ~waiting /\ Lock(ready, C) /\ UNCHANGED <<waiting, nready>>
     \/ Go(C, "r_unlock", "check") /\ Unlock(ready, C) /\ UNCHANGED <<waiting, nready>>
  /\ UNCHANGED <<put, items, i>>

\* pthread_cond_wait may return although nobody has signalled.
SpuriousWakeup ==
  /\ waiting /\ waiting' = FALSE
  /\ UNCHANGED <<put, ready, items, nready, i, pc>>

\* Compare buf[i] with i (see ReadsStoredItem) and go on.
C_Check ==
  /\ Go(C, "check", "loop") /\ i' = i + 1
  /\ UNCHANGED <<put, ready, waiting, items, nready>>

Consumer == C_Loop \/ ConsumerWait \/ C_CondWait \/ C_Check

Init ==
  /\ variant \in {"join", "spin", "cond"}
  /\ put = Free /\ ready = Free /\ waiting = FALSE
  /\ buf = [k \in 0..(nitems - 1) |-> Empty]
  /\ nput = 0 /\ nval = 0 /\ nready = 0 /\ i = 0
  /\ pc = [t \in Threads |-> IF t = C THEN "unborn" ELSE "lock"]

\* main() has joined every thread.
Joined == \A t \in Threads : pc[t] = "done"

Next ==
  \/ /\ (\E t \in Producers : Producer(t)) \/ M_CreateConsumer \/ Consumer \/ SpuriousWakeup
     /\ UNCHANGED variant
  \/ Joined /\ UNCHANGED vars

\* Threads are scheduled; a producer that keeps asking for a mutex that the
\* polling consumer releases again and again gets it in the end; a wake-up
\* without a signal may never come.
Spec ==
  /\ Init /\ [][Next]_vars
  /\ \A t \in Producers : SF_vars(Producer(t) /\ UNCHANGED variant)
  /\ WF_vars(M_CreateConsumer /\ UNCHANGED variant) /\ WF_vars(Consumer /\ UNCHANGED variant)

-----------------------------------------------------------------------------
\* buf[i] is stored when the consumer reads it, though it holds no mutex, the
\* producers announce their items in another order than they stored them, and
\* pthread_cond_wait may wake up for nothing.
ReadsStoredItem == pc[C] = "check" => i < nput /\ buf[i] = i

\* No wake-up is lost: every thread finishes.
Termination == <>Joined
=============================================================================
