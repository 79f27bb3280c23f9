----------------------------- MODULE MCMessages ------------------------------
(***************************************************************************)
(* The message-passing programs of src/ipc/src and the tools for IPC       *)
(* objects in one run: message queues (pxmsg, svmsg), pipes and FIFOs      *)
(* (pipe, fifo), the POSIX and the System V tools.  `program` says which   *)
(* are executed; the others are not started.                               *)
(***************************************************************************)
EXTENDS Integers, Sequences, FiniteSets

CONSTANTS
  Takers, MaxMsg, MaxSends, Rounds,            \* pxmsg
  FileSize, MaxSize, PipeSize,                 \* pipe.c, fifo.c, fifo_server.c
  Clients, Missing, NLines,                    \* fifo_server.c, msgserver1q.c, msgservernq.c
  QueueSize,
  Shells, Values, Lengths, PosixRuns,          \* the POSIX tools
  Sizes, Types, SysvRuns                       \* the System V tools
ASSUME NotifyAssumption ==          \* "main" stands for the receiver itself
  {MaxMsg, MaxSends, Rounds} \subseteq Nat /\ "main" \notin Takers
ASSUME ToolsAssumption ==
  /\ IsFiniteSet(Shells) /\ Values # {}     \* the system has default attributes
  /\ Values \cup Lengths \cup Types \cup Sizes \subseteq Nat /\ 0 \notin Sizes
  /\ {PosixRuns, SysvRuns, QueueSize} \subseteq Nat
ASSUME PipeAssumption ==            \* a pipe has room for the longest write()
  /\ {FileSize, MaxSize, PipeSize} \subseteq Nat /\ MaxSize > 0 /\ PipeSize > MaxSize

VARIABLES
  program,
  receiver, qlen, registered, blocked, pending, mqflag, pipefd, pcN, iN, starting,
  draining, taker, sends, clean,                                            \* MqNotify
  variantP, request, ends, opened, clnt2serv, serv2clnt, cpcP, spcP, sentP, out,   \* PipeTransfer
  serv, writers, spcF, curF, sentF, cpcF, answer, gotF,                     \* FifoServer
  variantM, endtype, requests, lines, junk, spcM, iM, curM, sentM, child, asked, gotM, taken, \* MsgServer
  kindX, runsX, name, madeX, value, start, posts, held, leaked, pages, written, toolX, atX,
  argX, hX, seenX, iX, calm, whole, trouble,                                \* PosixTools
  kindV, runsV, key, madeV, alive, size, values, attached, toolV, atV, argV, hV,
  seenV                                                                     \* SysvTools

varsN == <<receiver, qlen, registered, blocked, pending, mqflag, pipefd, pcN, iN, starting,
           draining, taker, sends, clean>>
varsP == <<variantP, request, ends, opened, clnt2serv, serv2clnt, cpcP, spcP, sentP, out>>
varsF == <<serv, writers, spcF, curF, sentF, cpcF, answer, gotF>>
varsM == <<variantM, endtype, requests, lines, junk, spcM, iM, curM, sentM, child, asked, gotM, taken>>
varsX == <<kindX, runsX, name, madeX, value, start, posts, held, leaked, pages, written, toolX,
           atX, argX, hX, seenX, iX, calm, whole, trouble>>
varsV == <<kindV, runsV, key, madeV, alive, size, values, attached, toolV, atV, argV, hV, seenV>>
vars == <<program, varsN, varsP, varsF, varsM, varsX, varsV>>

N == INSTANCE MqNotify WITH pc <- pcN, i <- iN
P == INSTANCE PipeTransfer WITH
  variant <- variantP, cpc <- cpcP, spc <- spcP, sent <- sentP
F == INSTANCE FifoServer WITH
  spc <- spcF, cur <- curF, sent <- sentF, cpc <- cpcF, got <- gotF
M == INSTANCE MsgServer WITH
  variant <- variantM, spc <- spcM, i <- iM, cur <- curM, sent <- sentM, got <- gotM
X == INSTANCE PosixTools WITH
  MaxRuns <- PosixRuns, kind <- kindX, runs <- runsX, made <- madeX, tool <- toolX, at <- atX,
  arg <- argX, h <- hX, seen <- seenX, i <- iX
V == INSTANCE SysvTools WITH
  MaxRuns <- SysvRuns, kind <- kindV, runs <- runsV, made <- madeV, tool <- toolV, at <- atV,
  arg <- argV, h <- hV, seen <- seenV

\* The programs that are not executed have one state.
Init ==
  /\ program \in {"pxmsg", "pipe", "fifo", "svmsg", "posix", "sysv"}
  /\ N!Init /\ P!Init /\ F!Init /\ M!Init /\ X!Init /\ V!Init
  /\ program # "pxmsg" => receiver = "sig1"
  /\ program # "pipe" => variantP = "pipe" /\ request = "file"
  /\ program # "svmsg" => variantM = "1q" /\ endtype = "zero"
  /\ program # "posix" => kindX = "sem"
  /\ program # "sysv" => kindV = "sem"

InN(A) == program = "pxmsg" /\ A /\ UNCHANGED <<program, varsP, varsF, varsM, varsX, varsV>>
InP(A) == program = "pipe" /\ A /\ UNCHANGED <<program, varsN, varsF, varsM, varsX, varsV>>
InF(A) == program = "fifo" /\ A /\ UNCHANGED <<program, varsN, varsP, varsM, varsX, varsV>>
InM(A) == program = "svmsg" /\ A /\ UNCHANGED <<program, varsN, varsP, varsF, varsX, varsV>>
InX(A) == program = "posix" /\ A /\ UNCHANGED <<program, varsN, varsP, varsF, varsM, varsV>>
InV(A) == program = "sysv" /\ A /\ UNCHANGED <<program, varsN, varsP, varsF, varsM, varsX>>

Next ==
  \/ InN(N!Next) \/ InP(P!Next) \/ InF(F!Next) \/ InM(M!Next)
  \/ InX(X!Next) \/ InV(V!Next)

\* The fairness of the models.
Spec ==
  /\ Init /\ [][Next]_vars
  /\ WF_vars(InP(P!Client)) /\ WF_vars(InP(P!Server))
  /\ WF_vars(InF(F!Server)) /\ \A c \in Clients : WF_vars(InF(F!Client(c)))
  /\ WF_vars(InM(M!Server))
  /\ \A c \in Clients : WF_vars(InM(M!Child(c))) /\ WF_vars(InM(M!ReceiveLine(c)))
  /\ \A p \in Shells : WF_vars(InV(V!Step(p)))

-----------------------------------------------------------------------------
\* The receivers of pxmsg that read until EAGAIN never sleep while there is a
\* message in the queue, and none calls mq_notify while it is registered.
NeverSleepsOnMessage == N!NeverSleepsOnMessage /\ N!RegistersWhenFree

\* pipe.c and fifo.c deliver the answer and end, unless the pathname is empty
\* or the client is killed; pipe.c prints nothing that it read together with
\* the NUL of the header.
TransferEnds == program = "pipe" => P!TransferEnds


\* msgserver1q.c and msgservernq.c answer every request they take completely,
\* to its own client, unless requests jam the one queue of the former.
RequestsAnswered == program = "svmsg" => M!RequestsAnswered

\* Whatever the POSIX tools do to a name, its semaphore gives out what it began
\* with and what was posted, and a reader of its memory meets SIGBUS or wrong
\* bytes only when it was resized, or was not written yet, under its hands.
ObjectsIntact == X!UnitsConserved /\ X!ReadersSafe

\* The System V tools rely on no size that another tool may have changed.
StaysInside == V!StaysInside

\* They end, or wait for something that is not there yet.
ToolsEnd == V!ToolsEnd
=============================================================================
