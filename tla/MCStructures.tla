---------------------------- MODULE MCStructures -----------------------------
(***************************************************************************)
(* Data structures used in sequence or by several threads, in one run:     *)
(* the Singletons, the timer heap, the loser tree and the client list of   *)
(* the chat server.  `program` says which one is used.                     *)
(***************************************************************************)
EXTENDS Integers, FiniteSets, TLC

CONSTANTS
  Threads, MaxCalls,         \* Singleton
  Times, MaxTimers,          \* TimerHeap
  Top, MaxWays, MaxNodes,    \* LoserTree
  Clients                    \* ChatServer
ASSUME SingletonAssumption == "free" \notin Threads /\ MaxCalls \in Nat
ASSUME HeapAssumption == Times \subseteq Nat /\ MaxTimers \in Nat
ASSUME MergeAssumption == {MaxWays, MaxNodes} \subseteq Nat /\ Top \in Nat \ {0}
ASSUME ChatAssumption == IsFiniteSet(Clients) /\ "none" \notin Clients

VARIABLES
  program,
  variant, instance_, mutex_, made, constructed, tmp, returned, calls, pcS,   \* Singleton
  heap_, active_timers_, deadline_, heap_index_, op,                          \* TimerHeap
  given, lists, leaf_, loser_, out, last, pcL,                                \* LoserTree
  clnt_sockfdvec, clnt_cnt, mutex, clnt_sockfd, mpc, hpc, hfd, hmsg, hi,      \* ChatServer
  harg, sock, accepted, cl, outbox, got, members, orderly

varsS == <<variant, instance_, mutex_, made, constructed, tmp, returned, calls, pcS>>
varsT == <<heap_, active_timers_, deadline_, heap_index_, op>>
varsL == <<given, lists, leaf_, loser_, out, last, pcL>>
varsC == <<clnt_sockfdvec, clnt_cnt, mutex, clnt_sockfd, mpc, hpc, hfd, hmsg, hi,
           harg, sock, accepted, cl, outbox, got, members, orderly>>
vars == <<program, varsS, varsT, varsL, varsC>>

S == INSTANCE Singleton WITH pc <- pcS
T == INSTANCE TimerHeap
L == INSTANCE LoserTree WITH pc <- pcL
C == INSTANCE ChatServer

\* What is not used has one state.
Init ==
  /\ program \in {"singleton", "timer-heap", "loser-tree", "chat"}
  /\ S!Init /\ T!Init /\ L!Init /\ C!Init
  /\ program # "singleton" => variant = "alpha"

InS(A) == program = "singleton" /\ A /\ UNCHANGED <<program, varsT, varsL, varsC>>
InT(A) == program = "timer-heap" /\ A /\ UNCHANGED <<program, varsS, varsL, varsC>>
InL(A) == program = "loser-tree" /\ A /\ UNCHANGED <<program, varsS, varsT, varsC>>
InC(A) == program = "chat" /\ A /\ UNCHANGED <<program, varsS, varsT, varsL>>

Next == InS(S!Next) \/ InT(T!Next) \/ InL(L!Next) \/ InC(C!Next)
Spec == Init /\ [][Next]_vars

\* The clients are interchangeable.
Symmetry == Permutations(Clients)

-----------------------------------------------------------------------------
\* beta and gamma make one object and give it to every caller; beta and
\* release give nobody an object that is not constructed.
OneInstance == S!OneInstance /\ S!ReturnsConstructed

\* The heap of timers is a heap, and every timer knows its place in it.
HeapConsistent == T!HeapConsistent

\* GetExpiredTimers hands out the timers that are due, in order, and no other.
ExpiresDueTimers == T!ExpiresDueTimers

\* CancelTimer takes out that timer and no other.
CancelsOnlyThat == T!CancelsOnlyThat

\* mergeKLists() merges: sorted, and nothing lost but INT_MAX.
MergesSorted == L!MergesSorted

\* In an orderly history the list of the chat server is its members.
ListIsMembers == C!ListIsMembers

\* ... and a message goes to every member but the sender, once.
BroadcastReachesMembers == C!BroadcastReachesMembers
=============================================================================
