------------------------------ MODULE MCSockets ------------------------------
(***************************************************************************)
(* The socket programs of src/tcp-ip/socket/src that do not multiplex, in  *)
(* one run: StreamPair, ForkServer and Datagrams.  `family` says which of  *)
(* them is executed; the programs of the others are not started.           *)
(***************************************************************************)
EXTENDS Integers, FiniteSets

CONSTANTS
  Clients,
  Sizes, Cap, BufSize, ClientBuf, StdBuf, Rounds,   \* StreamPair
  Messages, PipeSize, Stores, Naps,           \* ForkServer
  Datagrams, Lines, Long, MaxDups, MaxStrangers     \* Datagrams
ASSUME StreamAssumption ==
  /\ Sizes \subseteq Nat \ {0} /\ {Cap, BufSize, ClientBuf, Rounds} \subseteq Nat \ {0}
  /\ StdBuf \in Nat /\ StdBuf > 1                      \* fgets() keeps a byte for the NUL
ASSUME ForkAssumption ==
  /\ IsFiniteSet(Clients) /\ Clients \cap {"first", "second", "storer"} = {}     \* other children
  /\ {Messages, PipeSize, Stores, Naps} \subseteq Nat \ {0}
ASSUME DatagramAssumption ==
  /\ {Datagrams, Lines, MaxDups, MaxStrangers} \subseteq Nat /\ Long \subseteq 1..Lines
  /\ Clients \cap {"server", "host2", "stranger"} = {}                          \* other hosts

VARIABLES
  family,
  pair, m, stP, pcP, part, hold, got, net, rx, fin, err, open, shut, victim, runs,   \* StreamPair
  forking, pcF, cur, n, kid, pending, handler, merged, conn, holders, sent, echoed,  \* ForkServer
  storing, pipe, stored,
  protocol, air, up, stD, i, newline, heard, lost, refused, dups, strangers          \* Datagrams

varsP == <<pair, m, stP, pcP, part, hold, got, net, rx, fin, err, open, shut, victim, runs>>
varsF == <<forking, pcF, cur, n, kid, pending, handler, merged, conn, holders, sent, echoed,
           storing, pipe, stored>>
varsD == <<protocol, air, up, stD, i, newline, heard, lost, refused, dups, strangers>>
vars == <<family, varsP, varsF, varsD>>

P == INSTANCE StreamPair WITH st <- stP, pc <- pcP
F == INSTANCE ForkServer WITH program <- forking, pc <- pcF
D == INSTANCE Datagrams WITH program <- protocol, st <- stD, Rounds <- Datagrams

\* The programs that are not executed have one state.
Init ==
  /\ family \in {"stream", "fork", "datagram"}
  /\ P!Init /\ F!Init /\ D!Init
  /\ family # "stream" => pair = "hello" /\ m = CHOOSE k \in Sizes : TRUE
  /\ family # "fork" => forking = "mpserver"
  /\ family # "datagram" => protocol = "echo"

InP(A) == family = "stream" /\ A /\ UNCHANGED <<family, varsF, varsD>>
InF(A) == family = "fork" /\ A /\ UNCHANGED <<family, varsP, varsD>>
InD(A) == family = "datagram" /\ A /\ UNCHANGED <<family, varsP, varsF>>

Next == InP(P!Next) \/ InF(F!Next) \/ InD(D!Next)

\* The fairness of the models.
Spec ==
  /\ Init /\ [][Next]_vars
  /\ \A p \in P!Procs : WF_vars(InP(P!Proc(p)))
  /\ WF_vars(InF(F!Keep(F!Signals))) /\ WF_vars(InF(F!Keep(F!Parent)))
  /\ WF_vars(InF(F!Keep(F!StorerStep)))
  /\ \A c \in Clients : WF_vars(InF(F!Keep(F!Child(c)))) /\ WF_vars(InF(F!Keep(F!User(c))))
  /\ \A k \in F!Pair : WF_vars(InF(F!Keep(F!PairEnds(k))))
  /\ WF_vars(InD(D!Bind)) /\ WF_vars(InD(D!ServerEcho))
  /\ WF_vars(InD(D!Host2Send)) /\ WF_vars(InD(D!Host1Receive))
  /\ \A c \in Clients : WF_vars(InD(D!Client(c)))

-----------------------------------------------------------------------------
\* However TCP cuts the bytes, a program that returns has read what its peer
\* sent, but for the echo of a last line that filled the buffer of echo_client.c
\* and for three programs that call read() once.
Delivered == P!Delivered

\* A connected pair of programs ends, but for messages that fill the buffers of
\* both directions and lines that echo_stdclient.c sends in pieces.
PairsEnd == P!PairsEnd

\* When one of the two is killed the other one ends, but for two loops that
\* ignore the end of file.
SurvivorEnds == P!SurvivorEnds

\* The zombies that the SIGCHLD handlers leave are the children whose signal
\* was merged with another one.
ZombiesAreMerged == F!ZombiesAreMerged

\* The programs that fork once or twice collect their children and end; a
\* client of the forking servers gets to the end of its connection, but for a
\* pipe that nobody reads any more.
ForkersEnd == (family = "fork" => F!ForkersEnd) /\ F!ClientsEnd

\* Clients and receivers print what was sent to them, however the datagrams
\* are lost, repeated and reordered, and as often when none is lost or repeated;
\* news_receiver.c cuts the lines that are longer than its buffer.
PrintsWhatWasSent == D!PrintsWhatWasSent

\* They wait for ever only when a datagram was lost.
WaitsOnlyForLost == D!WaitsOnlyForLost
=============================================================================
