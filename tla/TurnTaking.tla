----------------------------- MODULE TurnTaking ------------------------------
(***************************************************************************)
(* src/tcp-ip/socket/src/semaphore.c: read() puts one number after the     *)
(* other into the single variable num, accu() adds them up; two semaphores *)
(* pass the turn.  The k-th number typed is k - 1: what counts is which    *)
(* one is added.                                                           *)
(***************************************************************************)
EXTENDS Integers, Sequences, Semaphores

CONSTANT Numbers      \* numbers typed (5)

VARIABLES
  num,
  typed, added        \* the loop variables of read() and accu()
vars == <<sem, pc, num, typed, added>>

\* sem_init of both semaphores, pthread_create of both threads.
Init ==
  /\ sem = [s \in {"sem_one", "sem_two"} |-> IF s = "sem_two" THEN 1 ELSE 0]
  /\ pc = [t \in {"read", "accu"} |-> "loop"]
  /\ num = 0 /\ typed = 0 /\ added = 0

\* Mutant: read() does not wait for its turn.
ReadNoTurn ==
  /\ \/ typed < Numbers /\ Step("read", "loop", "scanf") /\ UNCHANGED <<num, typed>>
     \/ Step("read", "scanf", "post") /\ num' = typed /\ typed' = typed + 1
     \/ Post("read", "post", "sem_one", "loop") /\ UNCHANGED <<num, typed>>
     \/ typed = Numbers /\ Step("read", "loop", "done") /\ UNCHANGED <<num, typed>>
  /\ UNCHANGED added

Read ==
  /\ \/ typed < Numbers /\ Wait("read", "loop", "sem_two", "scanf") /\ UNCHANGED <<num, typed>>
     \/ Step("read", "scanf", "post") /\ num' = typed /\ typed' = typed + 1
     \/ Post("read", "post", "sem_one", "loop") /\ UNCHANGED <<num, typed>>
     \/ typed = Numbers /\ Step("read", "loop", "done") /\ UNCHANGED <<num, typed>>
  /\ UNCHANGED added

\* sum += num
Accu ==
  /\ \/ added < Numbers /\ Wait("accu", "loop", "sem_one", "add") /\ UNCHANGED added
     \/ Step("accu", "add", "post") /\ added' = added + 1
     \/ Post("accu", "post", "sem_two", "loop") /\ UNCHANGED added
     \/ added = Numbers /\ Step("accu", "loop", "done") /\ UNCHANGED added
  /\ UNCHANGED <<num, typed>>

\* main() has joined both threads.
Joined == \A t \in {"read", "accu"} : pc[t] = "done"
Next == Read \/ Accu \/ (Joined /\ UNCHANGED vars)
Spec == Init /\ [][Next]_vars /\ WF_vars(Read) /\ WF_vars(Accu)

-----------------------------------------------------------------------------
\* The variable num is a queue of one number.
Fifo == INSTANCE BoundedFifo WITH
  Capacity <- 1, NumItems <- Numbers,
  queue <- IF typed > added THEN <<num>> ELSE << >>, nextPut <- typed, nextGet <- added

\* Every number is added exactly once and in order, none is overwritten before
\* it was added ...
TurnsTaken == Fifo!Spec

\* ... and both threads are joined.
Termination == <>Joined
=============================================================================
