------------------------------- MODULE MCPxSem -------------------------------
(***************************************************************************)
(* The programs of src/ipc/src/pxsem that are modelled besides             *)
(* sem_prodcons4.c, and tcp-ip/socket/src/semaphore.c, in one run:         *)
(* `program` says which one is executed; the others are not started.       *)
(***************************************************************************)
EXTENDS Integers, Sequences, FiniteSets

CONSTANTS
  Producers, Slots, NItems,                   \* sem_prodcons3.c
  Runs, MemoryRuns, RunSlots, RunItems, MaxKills,   \* sem_prodcons1.c, sem_prodcons2.c
  Buffers, NBlocks,                           \* sem_multibuffer.c
  Numbers                                     \* semaphore.c

ASSUME ManyToOneAssumption ==
  IsFiniteSet(Producers) /\ "consumer" \notin Producers /\ Slots \in Nat \ {0} /\ NItems \in Int
ASSUME RunsAssumption == "none" \notin Runs /\ RunSlots \in Nat \ {0} /\ RunItems \in Int
ASSUME CopyAssumption == Buffers \in Nat \ {0} /\ NBlocks \in Nat
ASSUME TurnsAssumption == Numbers \in Nat

VARIABLES
  program,
  sem3, pc3, buf, nput, nputval, i, count, main,             \* SemProdCons3
  sem1, pc1, bufs, pi, ci, names, handle, mains, kills,      \* SemProdCons1
  semM, pcM, buff, offset, ip, ic, out,                      \* SemMultiBuffer
  semT, pcT, num, typed, added                               \* TurnTaking

vars3 == <<sem3, pc3, buf, nput, nputval, i, count, main>>
vars1 == <<sem1, pc1, bufs, pi, ci, names, handle, mains, kills>>
varsM == <<semM, pcM, buff, offset, ip, ic, out>>
varsT == <<semT, pcT, num, typed, added>>
vars == <<program, vars3, vars1, varsM, varsT>>

S3 == INSTANCE SemProdCons3 WITH NBUFF <- Slots, nitems <- NItems, sem <- sem3, pc <- pc3
S1 == INSTANCE SemProdCons1 WITH NBUFF <- RunSlots, nitems <- RunItems, sem <- sem1, pc <- pc1,
                                 buf <- bufs, main <- mains
MB == INSTANCE SemMultiBuffer WITH NBUFF <- Buffers, sem <- semM, pc <- pcM
TT == INSTANCE TurnTaking WITH sem <- semT, pc <- pcT

Init ==
  /\ program \in {"sem_prodcons3", "sem_prodcons1", "sem_multibuffer", "semaphore"}
  /\ S3!Init /\ S1!Init /\ MB!Init /\ TT!Init

In3(A) == program = "sem_prodcons3" /\ A /\ UNCHANGED <<program, vars1, varsM, varsT>>
In1(A) == program = "sem_prodcons1" /\ A /\ UNCHANGED <<program, vars3, varsM, varsT>>
InM(A) == program = "sem_multibuffer" /\ A /\ UNCHANGED <<program, vars3, vars1, varsT>>
InT(A) == program = "semaphore" /\ A /\ UNCHANGED <<program, vars3, vars1, varsM>>

Next == In3(S3!Next) \/ In1(S1!Next) \/ InM(MB!Next) \/ InT(TT!Next)

\* The fairness of the four models.
Spec ==
  /\ Init /\ [][Next]_vars
  /\ \A t \in Producers : WF_vars(In3(S3!Producer(t)))
  /\ WF_vars(In3(S3!C_Loop)) /\ WF_vars(In3(S3!M_Create)) /\ WF_vars(In3(S3!M_Join))
  /\ \A r \in Runs : /\ WF_vars(In1(S1!Main(r)))
                     /\ WF_vars(In1(S1!Producer(r))) /\ WF_vars(In1(S1!Consumer(r)))
  /\ WF_vars(InM(MB!Producer)) /\ WF_vars(InM(MB!Consumer))
  /\ WF_vars(InT(TT!Read)) /\ WF_vars(InT(TT!Accu))

-----------------------------------------------------------------------------
\* sem_prodcons3.c hands over the items in order and exactly once: the
\* comparison of buf[i % NBUFF] with i (line 107) never fails.
ManyToOneFifo == S3!FifoSpec

\* sem_prodcons3.c ends although producers leave while others sleep on nempty,
\* with every item taken and every slot free again.
ManyToOneEnds == program = "sem_prodcons3" => S3!AllFinish

\* Overlapping runs of sem_prodcons1.c: a consumer reads only what its own
\* producer stored (line 87), and no run removes another one's names.
RunsStayApart == S1!RunsStayApart

\* A run of sem_prodcons1.c ends even when an earlier one was killed or a
\* concurrent one holds the names.
RunsEnd == S1!EveryRunEnds

\* sem_multibuffer.c copies the whole file, and both of its threads end; so do
\* the two of semaphore.c.
PairsComplete ==
  /\ program = "sem_multibuffer" => MB!CopyCompletes
  /\ program = "semaphore" => TT!Termination

\* semaphore.c adds up every number exactly once and in order; none is
\* overwritten before it was added.
TurnsTaken == TT!TurnsTaken
=============================================================================
