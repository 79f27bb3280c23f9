------------------------------- MODULE Loops --------------------------------
(***************************************************************************)
(* The loops of TimerHeap and LoserTree, which work on a structure until   *)
(* it is in order.                                                         *)
(***************************************************************************)
EXTENDS Integers

\* A loop that ends after at most n rounds; when its condition fails, Round(t)
\* is t.
Loop(Round(_), t, n) == LET after[k \in 0..n] == IF k = 0 THEN t ELSE Round(after[k - 1]) IN after[n]
=============================================================================
