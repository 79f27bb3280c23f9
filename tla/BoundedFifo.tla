---------------------------- MODULE BoundedFifo -----------------------------
(***************************************************************************)
(* What every producer/consumer program of src/ipc/src promises: the items *)
(* 0, 1, 2, ... are handed over through a queue of at most Capacity items, *)
(* each exactly once and in order.  A consumer checks that the item it     *)
(* takes is the one it expects (`buf[i] != i` prints an error), so Get is  *)
(* only allowed when the head of the queue is that item.                   *)
(***************************************************************************)
EXTENDS Naturals, Sequences

CONSTANTS Capacity, NumItems
VARIABLES queue, nextPut, nextGet

fifoVars == <<queue, nextPut, nextGet>>

Init == queue = <<>> /\ nextPut = 0 /\ nextGet = 0

Put ==
  /\ nextPut < NumItems /\ Len(queue) < Capacity
  /\ queue' = Append(queue, nextPut)
  /\ nextPut' = nextPut + 1
  /\ UNCHANGED nextGet

Get ==
  /\ queue # <<>> /\ Head(queue) = nextGet
  /\ queue' = Tail(queue)
  /\ nextGet' = nextGet + 1
  /\ UNCHANGED nextPut

Next == Put \/ Get

Spec == Init /\ [][Next]_fifoVars
=============================================================================
