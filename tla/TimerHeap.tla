----------------------------- MODULE TimerHeap ------------------------------
(***************************************************************************)
(* src/ds/timer-heap/timer_heap.cc: timers in a binary heap ordered by     *)
(* deadline; every timer knows its own place in the heap (heap_index_), so *)
(* that it can be cancelled without a search.  A timer is its unique id.   *)
(* The heap is the function 0..size-1 of C++, here a sequence shifted by   *)
(* one.                                                                    *)
(***************************************************************************)
EXTENDS Integers, Sequences, FiniteSets, SequencesExt, Loops

CONSTANTS
  Times,       \* deadlines, and the values of `now`
  MaxTimers    \* bound: timers ever added

VARIABLES
  heap_,           \* ids, heap_[i + 1] is the C++ heap_[i]
  active_timers_,  \* ids of the timers in the heap
  deadline_, heap_index_,   \* members of the timers made so far
  op               \* the last call: its arguments and its result
vars == <<heap_, active_timers_, deadline_, heap_index_, op>>

Gone == 0

\* A heap being worked on: the ids and the places the timers remember.
State(h, x) == [h |-> h, x |-> x]
Deadline(s, i) == deadline_[s.h[i + 1]]

\* SwapHeap(i, j), with both heap_index_ updates.
SwapHeap(s, i, j) ==
  State([s.h EXCEPT ![i + 1] = s.h[j + 1], ![j + 1] = s.h[i + 1]],
        [s.x EXCEPT ![s.h[j + 1]] = i, ![s.h[i + 1]] = j])

\* The timer at `index` of heap s is being moved.
Moving(s, index) == [s |-> s, index |-> index]

\* One round of UpHeap.  d is the table of deadlines: AddTimer sifts a timer it
\* has just made.
UpRound(t, d) ==
  LET parent == (t.index - 1) \div 2 IN
  IF t.index = 0 \/ d[t.s.h[t.index + 1]] >= d[t.s.h[parent + 1]] THEN t
  ELSE Moving(SwapHeap(t.s, t.index, parent), parent)

UpHeap(s, index, d) == Loop(LAMBDA t : UpRound(t, d), Moving(s, index), index).s

\* Mutant: the left child is always taken for the smaller one.
DownRoundLeft(t) ==
  LET child == t.index * 2 + 1 IN
  IF child >= Len(t.s.h) \/ Deadline(t.s, t.index) < Deadline(t.s, child) THEN t
  ELSE Moving(SwapHeap(t.s, t.index, child), child)

\* One round of DownHeap.
DownRound(t) ==
  LET child == t.index * 2 + 1
      min_child == IF child + 1 = Len(t.s.h) \/ Deadline(t.s, child) < Deadline(t.s, child + 1)
                     THEN child ELSE child + 1 IN
  IF child >= Len(t.s.h) \/ Deadline(t.s, t.index) < Deadline(t.s, min_child) THEN t
  ELSE Moving(SwapHeap(t.s, t.index, min_child), min_child)

DownHeap(s, index) == Loop(DownRound, Moving(s, index), Len(s.h)).s

PopBack(s) == State(Front(s.h), s.x)

\* Mutant: the last timer is moved to the hole and only sifted down.
RemoveFromDown(s, id) ==
  LET index == s.x[id]  last == Len(s.h) - 1 IN
  IF index = last THEN PopBack(s) ELSE DownHeap(PopBack(SwapHeap(s, index, last)), index)

\* The heap part of RemoveTimer.
RemoveFrom(s, id) ==
  LET index == s.x[id]
      last == Len(s.h) - 1
      moved == PopBack(SwapHeap(s, index, last))
      parent == (index - 1) \div 2 IN
  IF index = last THEN PopBack(s)
  ELSE IF index > 0 /\ Deadline(moved, index) < Deadline(moved, parent)
         THEN UpHeap(moved, index, deadline_)
         ELSE DownHeap(moved, index)

Current == State(heap_, heap_index_)

\* Store the heap s, given the deadlines d; a timer that is no longer in it is
\* destroyed, its members with it.
Becomes(s, d) ==
  LET Kept(f) == [id \in DOMAIN f |-> IF id \in Range(s.h) THEN f[id] ELSE Gone] IN
  heap_' = s.h /\ heap_index_' = Kept(s.x) /\ deadline_' = Kept(d)

-----------------------------------------------------------------------------
\* The result says that the new timer is the first to expire.
AddTimer ==
  /\ Len(deadline_) < MaxTimers
  /\ \E deadline \in Times : LET id == Len(deadline_) + 1 IN
       /\ active_timers_' = active_timers_ \cup {id}
       /\ LET d == Append(deadline_, deadline)
              s == State(Append(heap_, id), Append(heap_index_, Len(heap_))) IN
          Becomes(UpHeap(s, Len(heap_), d), d)
       /\ op' = [name |-> "AddTimer", id |-> id,
                 ret |-> heap_ # <<>> /\ deadline < deadline_[heap_[1]]]

\* Mutant: active_timers_ is not asked; a timer that is gone is looked for at
\* the place it remembers.
CancelTimerStale ==
  \E id \in 1..Len(deadline_) :
    /\ IF heap_ # <<>>
         THEN Becomes(RemoveFrom(Current, id), deadline_) /\ active_timers_' = active_timers_ \ {id}
         ELSE UNCHANGED <<heap_, heap_index_, deadline_, active_timers_>>
    /\ op' = [name |-> "CancelTimer", id |-> id]

\* Any id handed out so far, also one that has expired or was cancelled through
\* a copy of the TimerID.
CancelTimer ==
  \E id \in 1..Len(deadline_) :
    /\ IF heap_ # <<>> /\ id \in active_timers_
         THEN Becomes(RemoveFrom(Current, id), deadline_) /\ active_timers_' = active_timers_ \ {id}
         ELSE UNCHANGED <<heap_, heap_index_, deadline_, active_timers_>>
    /\ op' = [name |-> "CancelTimer", id |-> id]

\* One round of while(!heap_.empty() && now >= heap_.front()->deadline_): the
\* timers taken out, in order, and what is left.
ExpireRound(t, now) ==
  IF t.left.h = <<>> \/ now < Deadline(t.left, 0) THEN t
  ELSE [left |-> RemoveFrom(t.left, t.left.h[1]), expired |-> Append(t.expired, t.left.h[1])]

TakeExpired(s, now) ==
  Loop(LAMBDA t : ExpireRound(t, now), [left |-> s, expired |-> <<>>], Len(s.h))

GetExpiredTimers ==
  \E now \in Times : LET r == TakeExpired(Current, now) IN
    /\ Becomes(r.left, deadline_)
    /\ active_timers_' = active_timers_ \ Range(r.expired)
    /\ op' = [name |-> "GetExpiredTimers", now |-> now, ret |-> r.expired]

Init ==
  /\ heap_ = <<>> /\ active_timers_ = {} /\ deadline_ = <<>> /\ heap_index_ = <<>>
  /\ op = [name |-> "TimerHeap"]

Next == AddTimer \/ CancelTimer \/ GetExpiredTimers
Spec == Init /\ [][Next]_vars

-----------------------------------------------------------------------------
\* The heap is a heap, every timer in it knows its place, and active_timers_
\* is what it holds: after any sequence of additions, cancellations and
\* expirations, with equal deadlines too.
HeapConsistent ==
  /\ \A i \in 1..(Len(heap_) - 1) : Deadline(Current, (i - 1) \div 2) <= Deadline(Current, i)
  /\ \A i \in 0..(Len(heap_) - 1) : heap_index_[heap_[i + 1]] = i
  /\ Range(heap_) = active_timers_ /\ IsInjective(heap_)

\* GetExpiredTimers hands out exactly the active timers that are due, in the
\* order of their deadlines; the other timers stay.
ExpiresDueTimers ==
  [][op'.name = "GetExpiredTimers" =>
       LET due == {id \in active_timers_ : deadline_[id] <= op'.now} IN
       /\ Range(op'.ret) = due /\ IsInjective(op'.ret)
       /\ active_timers_' = active_timers_ \ due
       /\ \A j, k \in 1..Len(op'.ret) : j < k => deadline_[op'.ret[j]] <= deadline_[op'.ret[k]]]_vars

\* A cancelled timer is never handed out afterwards, and a cancellation takes
\* no other timer with it.
CancelsOnlyThat ==
  [][op'.name = "CancelTimer" => Range(heap_') = Range(heap_) \ {op'.id}]_vars
=============================================================================
