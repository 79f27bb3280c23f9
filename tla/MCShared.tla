------------------------------ MODULE MCShared -------------------------------
(***************************************************************************)
(* The programs that share memory or a file and their locks, in one run:   *)
(* MutexProdCons, SharedCounter and ShmLog.  `program` says which one is   *)
(* executed; the others are not started.                                   *)
(***************************************************************************)
EXTENDS Integers, Sequences, FiniteSets

CONSTANTS
  Producers, nitems,                                  \* mutex_prodcons1.c to 3.c
  Workers, Pair, Decrementers, Increments, MaxKills,  \* the counting programs
  Clients, NMSG, MaxLoops                             \* server2.c, client2.c
ASSUME MutexAssumption ==           \* the numbers on the command line; 1.c needs a producer
  /\ nitems \in Int /\ IsFiniteSet(Producers) /\ Producers # {}
  /\ "consumer" \notin Producers /\ "free" \notin Producers
ASSUME CounterAssumption ==
  /\ IsFiniteSet(Workers) /\ "free" \notin Workers
  /\ Increments \in Nat \ {0} /\ MaxKills \in Nat
  /\ Pair \subseteq Workers /\ Cardinality(Pair) = 2 /\ Decrementers \subseteq Workers
ASSUME LogAssumption ==
  NMSG \in Nat \ {0} /\ MaxLoops \in Nat /\ IsFiniteSet(Clients) /\ "server" \notin Clients

VARIABLES
  program,
  variant, put, ready, waiting, buf, nputM, nval, nready, i, pcM,     \* MutexProdCons
  counting, counter, holder, seqno, issued, n, pcC, kills,            \* SharedCounter
  sem, pcL, started, nloop, nputL, noverflow, msgdata, loop, offset,  \* ShmLog
  index, temp, lastnoverflow, printed, reports

varsM == <<variant, put, ready, waiting, buf, nputM, nval, nready, i, pcM>>
varsC == <<counting, counter, holder, seqno, issued, n, pcC, kills>>
varsL == <<sem, pcL, started, nloop, nputL, noverflow, msgdata, loop, offset,
           index, temp, lastnoverflow, printed, reports>>
vars == <<program, varsM, varsC, varsL>>

M == INSTANCE MutexProdCons WITH nput <- nputM, pc <- pcM
C == INSTANCE SharedCounter WITH program <- counting, nloop <- Increments, pc <- pcC
L == INSTANCE ShmLog WITH nput <- nputL, pc <- pcL

\* The programs that are not executed have one state.
Init ==
  /\ program \in {"mutex", "counter", "log"}
  /\ M!Init /\ C!Init /\ L!Init
  /\ program # "mutex" => variant = "join"
  /\ program # "counter" => counting = C!lockfcntl
  /\ program # "log" => started = Clients /\ nloop = 1

InM(A) == program = "mutex" /\ A /\ UNCHANGED <<program, varsC, varsL>>
InC(A) == program = "counter" /\ A /\ UNCHANGED <<program, varsM, varsL>>
InL(A) == program = "log" /\ A /\ UNCHANGED <<program, varsM, varsC>>

Next == InM(M!Next) \/ InC(C!Next) \/ InL(L!Next)

\* The fairness of the models.
Spec ==
  /\ Init /\ [][Next]_vars
  /\ \A t \in Producers : SF_vars(InM(M!Producer(t) /\ UNCHANGED variant))
  /\ WF_vars(InM(M!M_CreateConsumer /\ UNCHANGED variant))
  /\ WF_vars(InM(M!Consumer /\ UNCHANGED variant))
  /\ \A w \in Workers : WF_vars(InC(C!Worker(w)))
  /\ \A c \in Clients : WF_vars(InL(L!Client(c)))
  /\ WF_vars(InL(L!ServerStep))

-----------------------------------------------------------------------------
\* The consumer of the mutex programs reads buf[i] only once it is stored, with
\* wake-ups for nothing and items announced out of order too.
ReadsStoredItem == M!ReadsStoredItem

\* Programs whose workers share a lock lose no update and issue no number
\* twice; the others lose some updates but never all.
UpdatesCounted == C!NoLostUpdate /\ C!NumbersUnique /\ C!SomeUpdatesSurvive

\* No wake-up is lost: the mutex programs end.
MutexEnds == program = "mutex" => M!Termination

\* Of the counting programs only those whose semaphore is held by a dead
\* process do not end.
CountersEnd == program = "counter" => C!Progress

\* The log server prints the messages of a single client in their order, and
\* overflow counts that only grow.
LogInOrder == L!OneClientInOrder /\ L!ReportsGrow

\* Every message is printed or counted as overflow.
AllAccounted == program = "log" => L!AllAccounted
=============================================================================
