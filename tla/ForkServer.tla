----------------------------- MODULE ForkServer ------------------------------
(***************************************************************************)
(* The programs of src/tcp-ip/socket/src that fork: one child per client   *)
(* in echo_mpserver.c and echo_storeserver.c (whose first child stores     *)
(* what a pipe brings), and remove_zombie.c, wait.c, waitpid.c, pipe1.c.   *)
(* `program` is the one that runs.  Children become zombies when they end; *)
(* the servers and remove_zombie.c collect them in a SIGCHLD handler,      *)
(* which the kernel calls once for signals that arrive together.           *)
(***************************************************************************)
EXTENDS Integers, FiniteSets

CONSTANTS
  Clients,    \* clients of the servers; a client and its child have one name
  Messages,   \* messages of a client
  PipeSize,   \* messages that fit into the pipe
  Stores,     \* read() calls of the storing child (3)
  Naps        \* sleep() calls of remove_zombie.c (5)

Pair == {"first", "second"}         \* the children of the programs without clients
Storer == "storer"
Kids == Clients \cup Pair \cup {Storer}
Nobody == "nobody"

VARIABLES
  program,
  pc, cur, n,         \* the parent: where it is, the client it serves, a counter
  kid,                \* of a child: "none", "run", "zombie", "reaped", "orphan"
  pending, handler,   \* SIGCHLD is pending; the parent is inside the handler
  merged,             \* signals that found one pending
  conn,               \* of a client: "out", "queued", "accepted", "closed", "gone"
  holders,            \* who has the server's end of its connection open
  sent, echoed,       \* messages of a client, and those echoed to it
  storing,            \* children that have echoed and not yet written to the pipe
  pipe, stored        \* messages in the pipe; read() calls the storer has made
parent == <<pc, cur, n>>
signals == <<pending, handler, merged>>
network == <<conn, holders, sent, echoed>>
store == <<storing, pipe, stored>>
vars == <<program, parent, kid, signals, network, store>>

Servers == {"mpserver", "storeserver"}
Handled == Servers \cup {"remove_zombie"}
Zombies == {k \in Kids : kid[k] = "zombie"}
Goto(l) == pc' = l

-----------------------------------------------------------------------------
\* A child ends.  SIGCHLD is ignored where no handler was set.
Exit(k) ==
  /\ kid' = [kid EXCEPT ![k] = IF pc = "done" THEN "orphan" ELSE "zombie"]
  /\ pending' = (pending \/ (program \in Handled /\ pc # "done"))
  /\ merged' = IF pending /\ pc # "done" THEN merged + 1 ELSE merged
  /\ UNCHANGED handler

\* The kernel calls read_childproc(), and blocks the signal until it returns.
Deliver ==
  /\ pending /\ ~handler /\ pc # "done" /\ pending' = FALSE /\ handler' = TRUE
  /\ UNCHANGED <<parent, kid, merged, network, store>>

\* Mutant: a handler that only reports.
read_childprocPrints == handler /\ handler' = FALSE /\ UNCHANGED <<parent, kid, pending, merged, network, store>>

\* waitpid(-1, &status, WNOHANG) of whichever child has ended.
read_childproc ==
  /\ handler /\ handler' = FALSE
  /\ IF Zombies = {} THEN UNCHANGED kid ELSE \E k \in Zombies : kid' = [kid EXCEPT ![k] = "reaped"]
  /\ UNCHANGED <<parent, pending, merged, network, store>>

\* The parent goes on only outside of the handler.
Step(a) == pc = a /\ ~handler /\ UNCHANGED <<signals, store>>

\* fork() of child k, which may fail.
Fork(k) == kid' = [kid EXCEPT ![k] = "run"] \/ UNCHANGED kid

-----------------------------------------------------------------------------
(* echo_mpserver.c and echo_storeserver.c                                  *)

\* The storing child is created before the first accept(), or the server exits.
ForkStorer ==
  /\ Step("storer") /\ Fork(Storer)
  /\ Goto(IF kid'[Storer] = "run" THEN "accept" ELSE "done")
  /\ UNCHANGED <<cur, n, network>>

\* accept(); when a signal interrupts it the loop just calls it again.
Accept ==
  /\ Step("accept") /\ \E c \in Clients :
       /\ conn[c] = "queued" /\ cur' = c /\ Goto("fork")
       /\ conn' = [conn EXCEPT ![c] = "accepted"] /\ holders' = [holders EXCEPT ![c] = {"parent"}]
  /\ UNCHANGED <<n, kid, sent, echoed>>

\* fork(): the child has its own copy of the descriptor.
ForkChild ==
  /\ Step("fork") /\ Fork(cur) /\ Goto("close")
  /\ holders' = [holders EXCEPT ![cur] = IF kid'[cur] = "run" THEN @ \cup {"child"} ELSE @]
  /\ UNCHANGED <<cur, n, conn, sent, echoed>>

\* Mutant: the parent keeps its copy.
CloseForget ==
  /\ Step("close") /\ Goto("accept") /\ cur' = Nobody
  /\ UNCHANGED <<n, kid, network>>

\* The parent closes its copy, also when fork() has failed.
Close ==
  /\ Step("close") /\ Goto("accept") /\ cur' = Nobody
  /\ holders' = [holders EXCEPT ![cur] = @ \ {"parent"}]
  /\ UNCHANGED <<n, kid, conn, sent, echoed>>

\* The child echoes one message; in echo_storeserver.c it then stores it.
EchoMessage(c) ==
  /\ kid[c] = "run" /\ c \notin storing /\ echoed[c] < sent[c]
  /\ echoed' = [echoed EXCEPT ![c] = @ + 1]
  /\ storing' = IF program = "storeserver" THEN storing \cup {c} ELSE storing
  /\ UNCHANGED <<parent, kid, signals, conn, holders, sent, pipe, stored>>

\* write(fds[1], ...) waits while the pipe is full: the parent has its reading
\* end open as well, so there is always a reader.
StoreMessage(c) ==
  /\ c \in storing /\ pipe < PipeSize
  /\ storing' = storing \ {c} /\ pipe' = pipe + 1
  /\ UNCHANGED <<parent, kid, signals, network, stored>>

\* read() returns 0, or the connection is lost and write() kills the child.
ChildEnds(c) ==
  /\ kid[c] = "run" /\ c \notin storing /\ conn[c] \in {"closed", "gone"}
  /\ echoed[c] = sent[c] \/ conn[c] = "gone"
  /\ Exit(c) /\ holders' = [holders EXCEPT ![c] = @ \ {"child"}]
  /\ UNCHANGED <<parent, conn, sent, echoed, store>>

\* The storing child: read() takes what there is, and the child ends after
\* Stores of them.
StorerReads ==
  /\ kid[Storer] = "run" /\ stored < Stores /\ pipe > 0
  /\ \E k \in 1..pipe : pipe' = pipe - k
  /\ stored' = stored + 1 /\ UNCHANGED <<parent, kid, signals, network, storing>>
StorerEnds ==
  /\ kid[Storer] = "run" /\ stored = Stores /\ Exit(Storer)
  /\ UNCHANGED <<parent, network, store>>

\* A client: connect, send a message when the last one has come back, close
\* the writing direction, leave at the end of file; or leave at any time.
Connect(c) ==
  /\ program \in Servers /\ conn[c] = "out" /\ conn' = [conn EXCEPT ![c] = "queued"]
  /\ UNCHANGED <<parent, kid, signals, holders, sent, echoed, store>>
Send(c) ==
  /\ conn[c] \in {"queued", "accepted"} /\ sent[c] < Messages /\ echoed[c] = sent[c]
  /\ sent' = [sent EXCEPT ![c] = @ + 1]
  /\ UNCHANGED <<parent, kid, signals, conn, holders, echoed, store>>
Shutdown(c) ==
  /\ conn[c] = "accepted" /\ sent[c] = Messages /\ echoed[c] = Messages
  /\ conn' = [conn EXCEPT ![c] = "closed"]
  /\ UNCHANGED <<parent, kid, signals, holders, sent, echoed, store>>
SeeEof(c) ==
  /\ conn[c] \in {"accepted", "closed"} /\ holders[c] = {} /\ conn' = [conn EXCEPT ![c] = "gone"]
  /\ UNCHANGED <<parent, kid, signals, holders, sent, echoed, store>>
Leave(c) ==
  /\ conn[c] \in {"accepted", "closed"} /\ conn' = [conn EXCEPT ![c] = "gone"]
  /\ UNCHANGED <<parent, kid, signals, holders, sent, echoed, store>>

-----------------------------------------------------------------------------
(* remove_zombie.c, wait.c, waitpid.c                                      *)

ForkFirst == Step("fork1") /\ Fork("first") /\ UNCHANGED <<cur, n, network>>
  /\ Goto(CASE program = "waitpid" -> "poll" [] program = "pipe1" -> "read" [] OTHER -> "fork2")
ForkSecond == Step("fork2") /\ Fork("second") /\ UNCHANGED <<cur, n, network>>
  /\ Goto(IF program = "wait" THEN "wait1" ELSE "sleep")

\* The children sleep and return.
PairEnds(k) == kid[k] = "run" /\ program # "pipe1" /\ Exit(k) /\ UNCHANGED <<parent, network, store>>

\* pipe1.c: the child writes one message and returns, the parent reads it.
\* Both ends stay open in both processes, so read() never meets an end of file.
WriterEnds ==
  /\ kid["first"] = "run" /\ program = "pipe1" /\ Exit("first") /\ pipe' = pipe + 1
  /\ UNCHANGED <<parent, network, storing, stored>>
ReadPipe ==
  /\ pc = "read" /\ pipe > 0 /\ pipe' = 0 /\ Goto("return")
  /\ UNCHANGED <<cur, n, kid, signals, network, storing, stored>>

\* sleep(5) in a loop; a signal ends the nap early.
Nap == Step("sleep") /\ ~pending /\ UNCHANGED <<cur, kid, network>>
  /\ n' = n + 1 /\ Goto(IF n + 1 = Naps THEN "return" ELSE "sleep")

\* wait(&status), twice: sleeps while no child has ended; fails without children.
Wait ==
  \E l \in {"wait1", "wait2"} :
    /\ Step(l) /\ Goto(IF l = "wait1" THEN "wait2" ELSE "return")
    /\ IF Zombies # {} THEN \E k \in Zombies : kid' = [kid EXCEPT ![k] = "reaped"]
       ELSE {k \in Kids : kid[k] = "run"} = {} /\ UNCHANGED kid
    /\ UNCHANGED <<cur, n, network>>

\* while(!waitpid(-1, &status, WNOHANG)) sleep(3);
Poll ==
  /\ Step("poll")
  /\ \/ Zombies # {} /\ Goto("return") /\ \E k \in Zombies : kid' = [kid EXCEPT ![k] = "reaped"]
     \/ {k \in Kids : kid[k] \in {"run", "zombie"}} = {} /\ Goto("return") /\ UNCHANGED kid
  /\ UNCHANGED <<cur, n, network>>

\* The parent returns; init inherits its children.
Return ==
  /\ Step("return") /\ Goto("done")
  /\ kid' = [k \in Kids |-> IF kid[k] = "zombie" THEN "orphan" ELSE kid[k]]
  /\ UNCHANGED <<cur, n, network>>

-----------------------------------------------------------------------------
Init ==
  /\ program \in Servers \cup {"remove_zombie", "wait", "waitpid", "pipe1"}
  /\ pc = CASE program = "mpserver" -> "accept" [] program = "storeserver" -> "storer" [] OTHER -> "fork1"
  /\ cur = Nobody /\ n = 0 /\ kid = [k \in Kids |-> "none"]
  /\ pending = FALSE /\ handler = FALSE /\ merged = 0
  /\ conn = [c \in Clients |-> "out"] /\ holders = [c \in Clients |-> {}]
  /\ sent = [c \in Clients |-> 0] /\ echoed = [c \in Clients |-> 0]
  /\ storing = {} /\ pipe = 0 /\ stored = 0

Signals == Deliver \/ read_childproc
MpServer == program = "mpserver" /\ (Accept \/ ForkChild \/ Close)
StoreServer == program = "storeserver" /\ (ForkStorer \/ Accept \/ ForkChild \/ Close)
RemoveZombie == program = "remove_zombie" /\ (ForkFirst \/ ForkSecond \/ Nap \/ Return)
WaitTwice == program = "wait" /\ (ForkFirst \/ ForkSecond \/ Wait \/ Return)
WaitPolling == program = "waitpid" /\ (ForkFirst \/ Poll \/ Return)
PipeParent == program = "pipe1" /\ (ForkFirst \/ ReadPipe \/ Return)
Parent == MpServer \/ StoreServer \/ RemoveZombie \/ WaitTwice \/ WaitPolling \/ PipeParent
Child(c) == EchoMessage(c) \/ StoreMessage(c) \/ ChildEnds(c)
StorerStep == StorerReads \/ StorerEnds \/ WriterEnds
User(c) == Send(c) \/ Shutdown(c) \/ SeeEof(c)

Next ==
  /\ \/ Signals \/ Parent \/ StorerStep
     \/ \E c \in Clients : Child(c) \/ User(c) \/ Connect(c) \/ Leave(c)
     \/ \E k \in Pair : PairEnds(k)
  /\ UNCHANGED program

Keep(A) == A /\ UNCHANGED program

\* Processes are scheduled, signals delivered and users go on; a client need
\* not come, nor leave early.
Spec ==
  /\ Init /\ [][Next]_vars
  /\ WF_vars(Keep(Signals)) /\ WF_vars(Keep(Parent)) /\ WF_vars(Keep(StorerStep))
  /\ \A c \in Clients : WF_vars(Keep(Child(c))) /\ WF_vars(Keep(User(c)))
  /\ \A k \in Pair : WF_vars(Keep(PairEnds(k)))

-----------------------------------------------------------------------------
\* The handler finds a child whenever it runs (otherwise remove_zombie.c reads
\* a status that waitpid() never wrote), and the zombies it leaves are exactly
\* the children whose SIGCHLD was merged with another one.
ZombiesAreMerged ==
  program \in Handled /\ pc # "done" =>
    Cardinality(Zombies) = merged + Cardinality({s \in {1} : pending}) + Cardinality({s \in {1} : handler})

\* wait.c and waitpid.c collect every child they have forked themselves, and
\* pipe1.c gets its message unless fork() has failed.
ForkersEnd ==
  /\ program \in {"wait", "waitpid"} => <>(pc = "done" /\ \A k \in Pair : kid[k] \in {"none", "reaped"})
  /\ program = "pipe1" => <>(pc = "done" \/ (pc = "read" /\ kid["first"] = "none"))

\* Every client that connects comes to the end of its connection, although
\* two processes hold it; in echo_storeserver.c unless the storing child has
\* made its last read() and the pipe is full.
ClientsEnd ==
  \A c \in Clients : conn[c] = "queued" ~>
    (conn[c] = "gone" \/ pc = "done" \/ (stored = Stores /\ pipe = PipeSize))

\* remove_zombie.c says that its handler eliminates zombies, and the servers
\* use the same one: no zombie would stay for ever.
ZombiesVanish == \A k \in Kids : kid[k] = "zombie" ~> kid[k] # "zombie"
=============================================================================
