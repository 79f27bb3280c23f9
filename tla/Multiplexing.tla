---------------------------- MODULE Multiplexing -----------------------------
(***************************************************************************)
(* The echo servers of src/tcp-ip/socket/src that serve all clients in one *)
(* thread: echo_selectserver.c, echo_epollserver.c, echo_EPLTserver.c      *)
(* (level-triggered) and echo_EPETserver.c (edge-triggered, non-blocking); *)
(* `program` is the one that runs.  The clients behave as echo_client.c:   *)
(* write a whole message, then read as many bytes back, or quit behind a   *)
(* line that fills the buffer, without reading; one of them may be killed. *)
(* Bytes are counted, descriptors are numbers, the lowest free one is      *)
(* given out first.                                                        *)
(***************************************************************************)
EXTENDS Integers, Sequences, FiniteSetsExt

CONSTANTS
  Clients,
  Sizes,     \* lengths of a message
  Cap,       \* bytes a socket buffers for its reader
  ClientBuf, \* BUF_SIZE of echo_client.c (30)
  Rounds     \* messages of a client
ASSUME ServersAssumption ==
  /\ IsFiniteSet(Clients) /\ "none" \notin Clients
  /\ Sizes \subseteq Nat \ {0} /\ {Cap, ClientBuf, Rounds} \subseteq Nat \ {0}

Listening == 3                                      \* serv_sockfd
Fds == (Listening + 1)..(Listening + Cardinality(Clients))
None == "none"

VARIABLES
  program,
  backlog,    \* connections that wait for accept()
  table,      \* client behind a descriptor, or None; the interest set
  edge,       \* descriptors with news since the last epoll_wait() (EPOLLET)
  pc,         \* "loop", "write", "dead"
  events,     \* descriptors of the last answer that are still to be handled
  cur, hold,  \* the descriptor being served and the bytes read from it
  cst,        \* of a client: "out", "open", "closed", "reset"
  size, wleft, rleft, round,   \* its message, the bytes it still writes and reads
  rx, tx,     \* bytes on their way to the server and to the client
  broken,     \* connections on which a write() has met a closed peer
  killed      \* clients that were killed, at most one
server == <<backlog, table, edge, pc, events, cur, hold>>
client == <<cst, size, wleft, rleft, round, killed>>
vars == <<program, server, client, rx, tx, broken>>

ET == program = "EPET"
BufSize == IF program \in {"select", "epoll"} THEN 2 ELSE 1   \* 100 and 4

-----------------------------------------------------------------------------
Readable(c) == rx[c] > 0 \/ cst[c] \in {"closed", "reset"}
FdOf(c) == {f \in Fds : table[f] = c}
News(c) == edge' = IF ET THEN edge \cup FdOf(c) ELSE edge

\* Mutant: the set of descriptors is handed out as it is, ready or not.
ReadyAll == {f \in Fds : table[f] # None} \cup {f \in {Listening} : backlog # << >>}

\* What select() and epoll_wait() report.
Ready ==
  {f \in Fds : table[f] # None /\ (IF ET THEN f \in edge ELSE Readable(table[f]))}
    \cup {f \in {Listening} : backlog # << >>}

\* The loop over the last events is through; the time-out of select() only
\* starts the next call.
Wait ==
  /\ pc = "loop" /\ events = {} /\ Ready # {} /\ events' = Ready
  /\ edge' = edge \ Ready
  /\ UNCHANGED <<backlog, table, pc, cur, hold, client, rx, tx, broken>>

\* accept() and the new descriptor's entry in the interest set.
Accept(f) ==
  /\ f = Listening /\ backlog # << >>
  /\ LET new == Min({g \in Fds : table[g] = None})
     IN /\ table' = [table EXCEPT ![new] = Head(backlog)]
        /\ edge' = IF ET /\ Readable(Head(backlog)) THEN edge \cup {new} ELSE edge
  /\ backlog' = Tail(backlog) /\ events' = events \ {f}
  /\ UNCHANGED <<pc, cur, hold, client, rx, tx, broken>>

\* read() brings bytes to be echoed.
ReadData(f) ==
  /\ f \in Fds /\ rx[table[f]] > 0
  /\ hold' = Min({rx[table[f]], BufSize}) /\ rx' = [rx EXCEPT ![table[f]] = @ - hold']
  /\ cur' = f /\ pc' = "write"
  /\ UNCHANGED <<backlog, table, edge, events, client, tx, broken>>

\* Mutant: the descriptor leaves the interest set but is not closed.
ReadEofNoClose(f) ==
  /\ f \in Fds /\ rx[table[f]] = 0 /\ cst[table[f]] = "closed"
  /\ events' = events \ {f} /\ edge' = edge \ {f} /\ cur' = Listening
  /\ UNCHANGED <<backlog, table, pc, hold, client, rx, tx, broken>>

\* read() returns 0: close and forget the descriptor.
ReadEof(f) ==
  /\ f \in Fds /\ rx[table[f]] = 0 /\ cst[table[f]] = "closed"
  /\ table' = [table EXCEPT ![f] = None] /\ events' = events \ {f} /\ edge' = edge \ {f}
  /\ cur' = Listening
  /\ UNCHANGED <<backlog, pc, hold, client, rx, tx, broken>>

\* read() returns -1 for a connection that was reset: select and epoll pass
\* it to write(), which fails, and meet the end of file in the next round; the
\* edge-triggered server takes it for EAGAIN, and there is no next event.
ReadReset(f) ==
  /\ f \in Fds /\ rx[table[f]] = 0 /\ cst[table[f]] = "reset"
  /\ cst' = [cst EXCEPT ![table[f]] = "closed"] /\ events' = events \ {f}
  /\ cur' = Listening
  /\ UNCHANGED <<backlog, table, edge, pc, hold, size, wleft, rleft, round, killed, rx, tx, broken>>

\* EAGAIN: nothing to read, the edge-triggered server leaves its loop.
ReadAgain(f) ==
  /\ ET /\ f \in Fds /\ ~Readable(table[f])
  /\ events' = events \ {f} /\ cur' = Listening
  /\ UNCHANGED <<backlog, table, edge, pc, hold, client, rx, tx, broken>>

Handle(f) == pc = "loop" /\ f \in events /\
  (Accept(f) \/ ReadData(f) \/ ReadEof(f) \/ ReadReset(f) \/ ReadAgain(f))

\* Mutant: one read() for each event of the edge-triggered server as well.
EchoedOnce == pc' = "loop" /\ hold' = 0 /\ events' = events \ {cur}

\* After the echo: the next event, or, edge-triggered, the next read().
Echoed == pc' = "loop" /\ hold' = 0 /\ events' = IF ET THEN events ELSE events \ {cur}

\* write() to a client that is there; a blocking one waits until all bytes are
\* taken, the non-blocking one drops what does not fit.
WriteData ==
  /\ pc = "write" /\ cst[table[cur]] = "open"
  /\ LET c == table[cur]
         k == Min({hold, Cap - tx[c]})
     IN /\ ET \/ k > 0
        /\ tx' = [tx EXCEPT ![c] = @ + k]
        /\ IF ET \/ k = hold THEN Echoed ELSE hold' = hold - k /\ UNCHANGED <<pc, events>>
  /\ UNCHANGED <<backlog, table, edge, cur, client, rx, broken>>

\* write() to a client that has gone, which takes the error of a reset; the
\* second one raises SIGPIPE.
WriteLost ==
  /\ pc = "write" /\ cst[table[cur]] # "open"
  /\ IF table[cur] \in broken
     THEN pc' = "dead" /\ UNCHANGED <<hold, events, broken, cst>>
     ELSE /\ broken' = broken \cup {table[cur]} /\ Echoed
          /\ cst' = [cst EXCEPT ![table[cur]] = "closed"]
  /\ UNCHANGED <<backlog, table, edge, cur, size, wleft, rleft, round, killed, rx, tx>>

\* Events in the order of the descriptors, or in the kernel's order; the
\* edge-triggered server first reads on from the one it is serving.
InTurn(f) ==
  CASE program = "select" -> f = Min(events)
    [] ET /\ cur \in events \ {Listening} -> f = cur
    [] OTHER -> TRUE

Serve == Wait \/ (\E f \in events : InTurn(f) /\ Handle(f)) \/ WriteData \/ WriteLost
SelectServer == program = "select" /\ Serve
EpollServer == program = "epoll" /\ Serve
EPLTServer == program = "EPLT" /\ Serve
EPETServer == program = "EPET" /\ Serve
Server == SelectServer \/ EpollServer \/ EPLTServer \/ EPETServer

-----------------------------------------------------------------------------
Connect(c) ==
  /\ cst[c] = "out" /\ cst' = [cst EXCEPT ![c] = "open"] /\ backlog' = Append(backlog, c)
  /\ UNCHANGED <<table, edge, pc, events, cur, hold, size, wleft, rleft, round, killed, rx, tx, broken>>

\* The next message is typed; it ends with a read() that does not fill the
\* buffer.
Type(c) ==
  /\ cst[c] = "open" /\ wleft[c] = 0 /\ rleft[c] = 0 /\ round[c] < Rounds
  /\ round' = [round EXCEPT ![c] = @ + 1]
  /\ wleft' = [wleft EXCEPT ![c] = size[c]] /\ rleft' = [rleft EXCEPT ![c] = size[c]]
  /\ UNCHANGED <<server, cst, size, killed, rx, tx, broken>>

ClientWrite(c) ==
  /\ cst[c] = "open" /\ wleft[c] > 0
  /\ \E k \in 1..Min({wleft[c], Cap - rx[c]}) :
       rx' = [rx EXCEPT ![c] = @ + k] /\ wleft' = [wleft EXCEPT ![c] = @ - k]
  /\ News(c)
  /\ UNCHANGED <<backlog, table, pc, events, cur, hold, cst, size, rleft, round, killed, tx, broken>>

ClientRead(c) ==
  /\ cst[c] = "open" /\ wleft[c] = 0 /\ rleft[c] > 0 /\ tx[c] > 0
  /\ tx' = [tx EXCEPT ![c] = 0] /\ rleft' = [rleft EXCEPT ![c] = @ - tx[c]]
  /\ UNCHANGED <<server, cst, size, wleft, round, killed, rx, broken>>

\* A line that fills the buffer is typed: it is sent, and the client reads stdin
\* again, where it finds "q": it does not come to reading the echo.
Fill(c) ==
  /\ cst[c] = "open" /\ wleft[c] = 0 /\ rleft[c] = 0 /\ round[c] = Rounds
  /\ \A d \in Clients \ {c} : size[d] <= Cap /\ round[d] <= Rounds     \* bound: one long message
  /\ round' = [round EXCEPT ![c] = @ + 1] /\ wleft' = [wleft EXCEPT ![c] = ClientBuf]
  /\ UNCHANGED <<server, cst, size, rleft, killed, rx, tx, broken>>

\* Bytes left unread make the connection a reset one.
Leave(c) == cst' = [cst EXCEPT ![c] = IF tx[c] > 0 THEN "reset" ELSE "closed"] /\ News(c)

\* "q": close() and return.
Quit(c) ==
  /\ cst[c] = "open" /\ wleft[c] = 0 /\ rleft[c] = 0 /\ round[c] >= Rounds /\ Leave(c)
  /\ UNCHANGED <<backlog, table, pc, events, cur, hold, size, wleft, rleft, round, killed, rx, tx, broken>>

Kill(c) ==
  /\ killed = {} /\ cst[c] = "open" /\ killed' = {c} /\ Leave(c)
  /\ UNCHANGED <<backlog, table, pc, events, cur, hold, size, wleft, rleft, round, rx, tx, broken>>

\* socket(), bind(), listen(), and the listening socket in the interest set.
Init ==
  /\ program \in {"select", "epoll", "EPLT", "EPET"}
  /\ backlog = << >> /\ table = [f \in Fds |-> None] /\ edge = {}
  /\ pc = "loop" /\ events = {} /\ cur = Listening /\ hold = 0
  /\ cst = [c \in Clients |-> "out"] /\ size \in [Clients -> {k \in Sizes : k % ClientBuf # 0}]
  /\ {c \in Clients : size[c] > Cap} \subseteq {CHOOSE c \in Clients : TRUE}   \* bound: one long message
  /\ wleft = [c \in Clients |-> 0] /\ rleft = wleft /\ round = wleft /\ rx = wleft /\ tx = wleft
  /\ broken = {} /\ killed = {}

User(c) == Type(c) \/ ClientWrite(c) \/ ClientRead(c) \/ Fill(c) \/ Quit(c)
Next ==
  /\ Server \/ \E c \in Clients : Connect(c) \/ User(c) \/ Kill(c)
  /\ UNCHANGED program

\* The server is scheduled, TCP delivers and users go on.
Spec ==
  /\ Init /\ [][Next]_vars /\ WF_vars(Server /\ UNCHANGED program)
  /\ \A c \in Clients : WF_vars(User(c) /\ UNCHANGED program)

-----------------------------------------------------------------------------
\* A descriptor whose event waits to be handled is open and has something to
\* say, although others are closed and given out again in the same round: no
\* read() of a server with blocking sockets can block.
NeverBlocksInRead ==
  ~ET => \A f \in events \ {Listening} : table[f] # None /\ (Readable(table[f]) \/ (pc = "write" /\ f = cur))

\* A client that writes more than the buffers on the way before it reads or
\* leaves: stops a server that blocks in write(), loses bytes at the other one.
TooLong(c) ==
  LET room == IF ET THEN Cap ELSE 2 * Cap + 1
  IN  size[c] > room \/ (round[c] > Rounds /\ ClientBuf > room)

\* Every message that a client waits for comes back, unless one client's
\* message is too long; the edge-triggered server even then serves the others.
\* A server that was killed by SIGPIPE serves nobody.
MessagesEchoed ==
  \A c \in Clients : rleft[c] > 0 ~>
    \/ rleft[c] = 0 \/ pc = "dead" \/ c \in killed
    \/ IF ET THEN TooLong(c) ELSE \E d \in Clients : TooLong(d)

\* The descriptor of a client that has left is closed, whether it quit, with or
\* without bytes unread, or was killed.  The edge-triggered server keeps the one
\* of a connection that was reset, because bytes were left unread, unless a
\* write() met the reset before its read() did.
DescriptorsFreed ==
  \A c \in Clients : cst[c] \in {"closed", "reset"} ~>
    \/ FdOf(c) = {} /\ \A k \in DOMAIN backlog : backlog[k] # c
    \/ pc = "dead" \/ (~ET /\ \E d \in Clients : TooLong(d))
    \/ ET /\ tx[c] > 0 /\ c \notin broken
=============================================================================
