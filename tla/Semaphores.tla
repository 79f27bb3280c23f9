----------------------------- MODULE Semaphores -----------------------------
(***************************************************************************)
(* Threads and POSIX semaphores as the programs under src/ipc/src use      *)
(* them.  Every thread stands at a control point; a blocking call is an    *)
(* action that is not enabled until the call can return.  Waiters are not  *)
(* served in any order: whoever finds the semaphore positive may take it.  *)
(***************************************************************************)
EXTENDS Naturals

VARIABLES
  sem,   \* the value of every semaphore, by name
  pc     \* the control point of every thread

\* Thread t goes from control point a to control point b.
Move(t, a, b) == pc[t] = a /\ pc' = [pc EXCEPT ![t] = b]

\* A step that touches no semaphore.
Step(t, a, b) == Move(t, a, b) /\ UNCHANGED sem

\* sem_wait(s): blocks while the value is zero.
Wait(t, a, s, b) == Move(t, a, b) /\ sem[s] > 0 /\ sem' = [sem EXCEPT ![s] = @ - 1]

\* sem_post(s): never blocks.
Post(t, a, s, b) == Move(t, a, b) /\ sem' = [sem EXCEPT ![s] = @ + 1]
=============================================================================
