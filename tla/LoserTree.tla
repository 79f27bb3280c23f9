------------------------------ MODULE LoserTree ------------------------------
(***************************************************************************)
(* The k-way merge of src/ds/loser-tree/loser-tree.hpp.  A list is the     *)
(* sequence of its values; positions are numbered from 0, as in the code.  *)
(* INT_MIN and INT_MAX are sentinels: the leaf that nobody loses to while  *)
(* the tree is built, and the value of a list that is used up.  Both can   *)
(* also be values of a list.                                               *)
(***************************************************************************)
EXTENDS Integers, Sequences, SequencesExt, FiniteSetsExt, Loops

CONSTANTS
  Top,       \* INT_MAX; INT_MIN is 0
  MaxWays,   \* bound: lists
  MaxNodes   \* bound: nodes of all lists together

INT_MIN == 0
INT_MAX == Top
Values == INT_MIN..INT_MAX

VARIABLES
  given,     \* the lists as they were
  lists,     \* what is left of them
  leaf_, loser_,
  out,       \* values linked behind the dummy node so far
  last,      \* list that the tail of the result belongs to, or -1
  pc         \* "call", "loop", "returned", "undefined"
vars == <<given, lists, leaf_, loser_, out, last, pc>>

kWays == Len(given)
Positions == 0..(kWays - 1)

\* The leaf of a list: its first value, or INT_MAX.
input(list) == IF list = << >> THEN INT_MAX ELSE Head(list)

\* Leaf s climbs and has come to node p.
Climbing(p, s, loser) == [p |-> p, s |-> s, loser |-> loser]

\* One match: the loser stays, the winner goes on to the next node.
Match(leaf, t) ==
  IF t.p = 0 THEN t
  ELSE IF leaf[t.s] > leaf[t.loser[t.p]]
    THEN Climbing(t.p \div 2, t.loser[t.p], [t.loser EXCEPT ![t.p] = t.s])
    ELSE Climbing(t.p \div 2, t.s, t.loser)

\* Mutant: the parent of the leaf is left out.
AdjustHigh(leaf, loser, s) ==
  LET t == Loop(LAMBDA u : Match(leaf, u), Climbing((s + kWays) \div 4, s, loser), kWays)
  IN [t.loser EXCEPT ![0] = t.s]

\* The loser tree after leaf s has climbed.
Adjust(leaf, loser, s) ==
  LET t == Loop(LAMBDA u : Match(leaf, u), Climbing((s + kWays) \div 2, s, loser), kWays)
  IN [t.loser EXCEPT ![0] = t.s]

\* All nodes hold the sentinel, then the leaves climb from the last to the first.
CreateLoserTree(leaf) ==
  LET after[i \in 0..kWays] ==
        IF i = 0 THEN [p \in Positions |-> kWays] ELSE Adjust(leaf, after[i - 1], kWays - i)
  IN after[kWays]

-----------------------------------------------------------------------------
\* The lists come sorted; between them they have at most MaxNodes nodes.
Sorted(s) == \A j \in 1..(Len(s) - 1) : s[j] <= s[j + 1]
Nodes(ls) == FoldLeft(LAMBDA n, l : n + Len(l), 0, ls)
SortedLists == {s \in BoundedSeq(Values, MaxNodes) : Sorted(s)}

Init ==
  /\ given = << >> /\ lists = << >> /\ leaf_ = << >> /\ loser_ = << >> /\ out = << >>
  /\ last = -1 /\ pc = "call"

\* The caller makes up his vector, before the call.
PushBack ==
  /\ pc = "call" /\ kWays < MaxWays
  /\ \E l \in SortedLists :
       Nodes(given) + Len(l) <= MaxNodes /\ given' = Append(given, l) /\ lists' = given'
  /\ UNCHANGED <<leaf_, loser_, out, last, pc>>

\* mergeKLists() up to its loop.
Begin ==
  /\ pc = "call"
  /\ IF kWays = 0 THEN pc' = "returned" /\ UNCHANGED <<leaf_, loser_>>
     ELSE /\ leaf_' = [i \in 0..kWays |-> IF i = kWays THEN INT_MIN ELSE input(given[i + 1])]
          /\ loser_' = CreateLoserTree(leaf_')
          /\ pc' = "loop"
  /\ UNCHANGED <<given, lists, out, last>>

\* One node: output(), input(), Adjust().
Round ==
  LET w == loser_[0] IN
  /\ pc = "loop" /\ leaf_[w] # INT_MAX /\ w \in Positions
  /\ out' = Append(out, Head(lists[w + 1])) /\ last' = w
  /\ lists' = [lists EXCEPT ![w + 1] = Tail(@)]
  /\ leaf_' = [leaf_ EXCEPT ![w] = input(lists'[w + 1])]
  /\ loser_' = Adjust(leaf_', loser_, w)
  /\ UNCHANGED <<given, pc>>

\* The winner is the sentinel: output() reads lists[kWays].
OutOfRange ==
  /\ pc = "loop" /\ loser_[0] = kWays /\ pc' = "undefined"
  /\ UNCHANGED <<given, lists, leaf_, loser_, out, last>>

\* The last node still has its own successors.
Return ==
  /\ pc = "loop" /\ leaf_[loser_[0]] = INT_MAX /\ pc' = "returned"
  /\ out' = IF last = -1 THEN out ELSE out \o lists[last + 1]
  /\ UNCHANGED <<given, lists, leaf_, loser_, last>>

Next == PushBack \/ Begin \/ Round \/ OutOfRange \/ Return
Spec == Init /\ [][Next]_vars

-----------------------------------------------------------------------------
Occurrences(s, v) == Cardinality({j \in 1..Len(s) : s[j] = v})
InGiven(v) ==
  Cardinality(UNION {{<<i, j>> : j \in {j \in 1..Len(given[i]) : given[i][j] = v}} : i \in 1..kWays})

\* The merged list is sorted and has every value as often as the lists had it;
\* nodes with the value INT_MAX may be missing, and a list with INT_MIN that is
\* not the first one may make the sentinel win.
MergesSorted ==
  /\ pc = "returned" =>
       /\ Sorted(out)
       /\ \A v \in Values \ {INT_MAX} : Occurrences(out, v) = InGiven(v)
       /\ Occurrences(out, INT_MAX) <= InGiven(INT_MAX)
  /\ pc = "undefined" => \E i \in 2..kWays : given[i] # << >> /\ Head(given[i]) = INT_MIN
=============================================================================
