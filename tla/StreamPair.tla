----------------------------- MODULE StreamPair ------------------------------
(***************************************************************************)
(* The pairs of src/tcp-ip/socket/src that talk over one TCP connection:   *)
(* hello_*.c, tcp_*.c, file_*.c, sep_*.c, echo_server.c and echo_client.c, *)
(* reuseaddr_eserver.c, echo_std*.c, op_*.c, echo_mpclient.c.  main() of   *)
(* each is straight-line code around a few loops, so a program is written  *)
(* as the sequence of its calls; the actions below say what a call does.   *)
(* Bytes are counted: a call can be cut at any of them.                    *)
(*                                                                         *)
(* Processes: S the server, C the client, W the writing child that         *)
(* echo_mpclient.c forks, which shares the client's end.                   *)
(***************************************************************************)
EXTENDS Integers, Sequences, FiniteSetsExt

CONSTANTS
  Sizes,    \* lengths of a message
  Cap,      \* bytes a socket buffers for its reader
  BufSize,  \* BUF_SIZE of the echo servers
  ClientBuf, StdBuf,   \* BUF_SIZE of echo_client.c (30) and of echo_stdclient.c (1024)
  Rounds    \* messages typed by the user; clients that op_server.c serves (5)

Procs == {"S", "C", "W"}
Ends == {"S", "C"}
End(p) == IF p = "S" THEN "S" ELSE "C"
Peer(e) == IF e = "S" THEN "C" ELSE "S"
Thanks == 2     \* "Thank You" and the four bytes of op_server's result

VARIABLES
  pair, m,      \* the programs that run and the length of their messages
  st,           \* of a process: "run", "done", "exited" by itself, "killed"
  pc, part,     \* the call it is in, and the bytes of it that are done
  hold,         \* bytes an echo server has read and not yet written
  got,          \* bytes read so far
  net,          \* "down", "listening", "queued" for accept(), "up", "over"
  rx, fin, err, open, shut,   \* of an end; see ReadResult and WriteStep
  victim,       \* process that was killed, or "none"
  runs          \* clients started
tcp == <<rx, fin, err, open, shut>>
vars == <<pair, m, st, pc, part, hold, got, net, tcp, victim, runs>>

-----------------------------------------------------------------------------
(* The calls.  "eof" and "bad" say what the program does when read()       *)
(* returns 0 or -1: go to the next call, read again, leave.                *)

Call(op, n, eof, bad) == [op |-> op, n |-> n, eof |-> eof, bad |-> bad]
Simple(op) == Call(op, 0, "next", "next")
Write(n) == Call("write", n, "next", "next")
ReadOnce(n, bad) == Call("once", n, "next", bad)
ReadExact(n, eof, bad) == Call("exact", n, eof, bad)
ReadAll(bad) == Call("all", Cap, "next", bad)
Echo == Call("echo", BufSize, "next", "again")
EchoLines(n) == Call("line", n, "next", "line")
Start == <<Simple("listen"), Simple("accept")>>
Repeat(k, calls) == [j \in 1..(k * Len(calls)) |-> calls[((j - 1) % Len(calls)) + 1]]

HelloServer == Start \o <<Write(m)>>
HelloClient == <<Simple("connect"), ReadOnce(m, "exit")>>
TcpServer == Start \o <<Write(m)>>
TcpClient == <<Simple("connect"), ReadAll("exit")>>

\* Mutant: the direction to the client stays open.
FileServerNoShutdown == Start \o <<Write(m), ReadOnce(Thanks, "next")>>

\* The file, half-close, then one read() for the answer.
FileServer == Start \o <<Write(m), Simple("shutdown"), ReadOnce(Thanks, "next")>>
\* After -1 fwrite() runs through (size_t)-1 bytes: the process dies.
FileClient == <<Simple("connect"), ReadAll("exit"), Write(Thanks)>>

\* shutdown() acts on the connection, whatever dup() has made of its descriptor.
SepServer == Start \o <<Write(m), Simple("shutdown"), ReadExact(Thanks, "next", "next")>>
SepClient == <<Simple("connect"), ReadAll("next"), Write(Thanks)>>

\* Mutant: the loop does not stop at the end of file.
EchoServerNoEof == Start \o <<Call("echo", BufSize, "again", "again")>>

EchoServer == Start \o <<Echo>>
ReuseaddrServer == Start \o <<Echo>>

\* Mutant: the loop stops one byte before the end of the answer.
EchoClientShort ==
  <<Simple("connect")>> \o
  Repeat(Rounds, <<Write(m)>> \o IF m = 1 THEN << >> ELSE <<ReadExact(m - 1, "again", "exit")>>)

\* The whole message is written before the first byte is read back; a read()
\* that returns 0 does not end the loop.  The message ends with the read() of
\* stdin that does not fill the buffer: m is no multiple of ClientBuf.
EchoClient == <<Simple("connect")>> \o Repeat(Rounds, <<Write(m), ReadExact(m, "again", "exit")>>)
\* The user goes on with a line that fills the buffer.  stdin is read again
\* before the echo, finds "q", and the client leaves.
EchoClientQuit == EchoClient \o <<Write(ClientBuf)>>

\* A line of up to StdBuf - 1 bytes is sent at once, a longer one in pieces; an
\* answer is awaited after each of them.
Pieces == (m - 1) \div (StdBuf - 1)     \* without the last one
PieceSize(k) == IF k <= Pieces THEN StdBuf - 1 ELSE m - Pieces * (StdBuf - 1)
StdLine ==
  [k \in 1..(2 * (Pieces + 1)) |->
     LET n == PieceSize((k + 1) \div 2) IN IF k % 2 = 1 THEN Write(n) ELSE ReadExact(n, "next", "next")]
EchoStdClient == <<Simple("connect")>> \o Repeat(Rounds, StdLine)
\* fgets() waits for the newline: its limit (BUFSIZ, 8192) is more than this
\* client sends without an answer.  feof() is tested too late: the last line
\* is sent a second time.
EchoStdServer == Start \o <<EchoLines(m), Write(m)>>

\* One byte with the number of operands, then all of them and the operator.
OpServer ==
  <<Simple("listen")>> \o
  Repeat(Rounds, <<Simple("accept"), ReadOnce(1, "next"), ReadExact(m, "again", "again"),
                   Write(Thanks), Simple("close")>>)
OpClient == <<Simple("connect"), Write(m + 1), ReadOnce(Thanks, "next")>>

\* The parent reads; the child writes, and writes once more after "q".
MpReader == <<Simple("connect"), ReadAll("again")>>
MpWriter == <<Simple("forked")>> \o Repeat(Rounds, <<Write(m)>>) \o <<Simple("shutdown"), Write(1)>>

Script(p) ==
  CASE pair = "hello" -> (IF p = "S" THEN HelloServer ELSE HelloClient)
    [] pair = "tcp"   -> (IF p = "S" THEN TcpServer ELSE TcpClient)
    [] pair = "file"  -> (IF p = "S" THEN FileServer ELSE FileClient)
    [] pair = "sep"   -> (IF p = "S" THEN SepServer ELSE SepClient)
    [] pair = "echo"  -> (IF p = "S" THEN EchoServer ELSE EchoClient)
    [] pair = "reuse" -> (IF p = "S" THEN ReuseaddrServer ELSE EchoClient)
    [] pair = "quit"  -> (IF p = "S" THEN EchoServer ELSE EchoClientQuit)
    [] pair = "std"   -> (IF p = "S" THEN EchoStdServer ELSE EchoStdClient)
    [] pair = "op"    -> (IF p = "S" THEN OpServer ELSE OpClient)
    [] pair = "mp"    -> (CASE p = "S" -> EchoServer [] p = "C" -> MpReader [] p = "W" -> MpWriter)

Op(p) == Script(p)[pc[p]]
At(p, op) == st[p] = "run" /\ pc[p] <= Len(Script(p)) /\ Op(p).op = op
Advance(p) == pc' = [pc EXCEPT ![p] = @ + 1] /\ part' = [part EXCEPT ![p] = 0]
Stay == UNCHANGED <<pc, part>>
Alive == UNCHANGED st

-----------------------------------------------------------------------------
(* TCP, as the programs use it.                                            *)

\* An end is closed: the other one sees the end of file, or a reset when
\* bytes were left unread or the connection was never accepted.
CloseEnd(e) ==
  /\ open' = [open EXCEPT ![e] = FALSE]
  /\ LET reset == rx[e] > 0 \/ (e = "S" /\ net = "queued")
     IN /\ fin' = [fin EXCEPT ![Peer(e)] = @ \/ ~reset]
        /\ err' = [err EXCEPT ![Peer(e)] = IF reset /\ @ = "ok" THEN "reset" ELSE @]
  /\ rx' = [rx EXCEPT ![e] = 0]
  /\ UNCHANGED shut

\* A process ends; the kernel closes what nobody else holds.
EndProcess(p, how) ==
  /\ st' = [st EXCEPT ![p] = how]
  /\ IF \A q \in Procs \ {p} : End(q) = End(p) => st[q] # "run"
     THEN IF net \in {"queued", "up"} /\ open[End(p)] THEN CloseEnd(End(p)) ELSE UNCHANGED tcp
     ELSE UNCHANGED tcp
  /\ net' = IF p = "S" THEN "over" ELSE net

\* What read() of at most n bytes may return.
ReadResult(e, n) ==
  CASE rx[e] > 0 -> 1..Min({rx[e], n})
    [] rx[e] = 0 /\ err[e] = "reset" -> {-1}
    [] rx[e] = 0 /\ (err[e] = "broken" \/ (err[e] = "ok" /\ fin[e])) -> {0}
    [] OTHER -> {}

\* The bytes the current call still writes.
ToWrite(p) == IF At(p, "write") THEN Op(p).n - part[p] ELSE hold[p]
Wrote(p, k) ==
  IF At(p, "write")
  THEN /\ UNCHANGED hold
       /\ IF part[p] + k >= Op(p).n THEN Advance(p)
          ELSE part' = [part EXCEPT ![p] = @ + k] /\ UNCHANGED pc
  ELSE hold' = [hold EXCEPT ![p] = @ - k] /\ Stay

\* write(): blocks while the peer's buffer is full; nobody tests the result.
WriteStep(p) ==
  LET e == End(p) IN
  /\ At(p, "write") \/ (st[p] = "run" /\ hold[p] > 0)
  /\ \/ /\ shut[e] \/ err[e] = "broken"          \* SIGPIPE
        /\ EndProcess(p, "exited") /\ UNCHANGED <<pc, part, hold>>
     \/ /\ ~shut[e] /\ err[e] = "reset"          \* ECONNRESET
        /\ err' = [err EXCEPT ![e] = "broken"]
        /\ Wrote(p, ToWrite(p)) /\ Alive /\ UNCHANGED <<rx, fin, open, shut, net>>
     \/ /\ ~shut[e] /\ err[e] = "ok" /\ ~open[Peer(e)]
        /\ err' = [err EXCEPT ![e] = "broken"]   \* sent, and answered by a reset
        /\ Wrote(p, ToWrite(p)) /\ Alive /\ UNCHANGED <<rx, fin, open, shut, net>>
     \/ /\ ~shut[e] /\ err[e] = "ok" /\ open[Peer(e)]
        /\ \E k \in 1..Min({ToWrite(p), Cap - rx[Peer(e)]}) :
             rx' = [rx EXCEPT ![Peer(e)] = @ + k] /\ Wrote(p, k)
        /\ Alive /\ UNCHANGED <<fin, err, open, shut, net>>
  /\ UNCHANGED got

-----------------------------------------------------------------------------
(* The calls of a process.                                                 *)

\* What follows a read() that returned k bytes.
AfterData(p, k) ==
  LET o == Op(p)
      whole == part[p] + k = o.n
  IN CASE o.op = "once" -> Advance(p) /\ UNCHANGED hold
       [] o.op = "all" -> Stay /\ UNCHANGED hold
       [] o.op = "echo" -> hold' = [hold EXCEPT ![p] = k] /\ Stay
       [] o.op = "exact" -> /\ UNCHANGED hold
                            /\ IF whole THEN Advance(p) ELSE part' = [part EXCEPT ![p] = @ + k] /\ UNCHANGED pc
       [] o.op = "line" -> /\ part' = [part EXCEPT ![p] = IF whole THEN 0 ELSE @ + k]
                           /\ hold' = [hold EXCEPT ![p] = IF whole THEN o.n ELSE 0] /\ UNCHANGED pc

\* What follows 0 or -1.
AfterFailure(p, reaction) ==
  CASE reaction = "next" -> Advance(p) /\ Alive /\ UNCHANGED <<hold, net>>
    [] reaction = "again" -> Stay /\ Alive /\ UNCHANGED <<hold, net>>
    [] reaction = "line" -> hold' = [hold EXCEPT ![p] = Op(p).n] /\ Stay /\ Alive /\ UNCHANGED net

ReadStep(p) ==
  LET e == End(p) IN
  /\ \E op \in {"once", "exact", "all", "echo", "line"} : At(p, op)
  /\ hold[p] = 0
  /\ \E k \in ReadResult(e, Op(p).n - part[p]) :
       \/ /\ k > 0
          /\ rx' = [rx EXCEPT ![e] = @ - k] /\ got' = [got EXCEPT ![p] = @ + k]
          /\ AfterData(p, k) /\ Alive /\ UNCHANGED <<fin, err, open, shut, net>>
       \/ /\ k = 0 /\ AfterFailure(p, Op(p).eof) /\ UNCHANGED <<tcp, got>>
       \/ /\ k = -1 /\ Op(p).bad # "exit" /\ AfterFailure(p, Op(p).bad)
          /\ err' = [err EXCEPT ![e] = "broken"] /\ UNCHANGED <<rx, fin, open, shut, got>>
       \/ /\ k = -1 /\ Op(p).bad = "exit" /\ EndProcess(p, "exited")
          /\ UNCHANGED <<pc, part, hold, got>>

\* socket(), bind(), listen(): each may fail, and error_handler() exits.
ListenStep(p) ==
  /\ At(p, "listen")
  /\ \/ net' = "listening" /\ Advance(p) /\ Alive /\ UNCHANGED tcp
     \/ EndProcess(p, "exited") /\ UNCHANGED <<pc, part>>
  /\ UNCHANGED <<hold, got>>

ConnectStep(p) ==
  /\ At(p, "connect")
  /\ \/ net = "listening" /\ net' = "queued" /\ Advance(p) /\ Alive
        /\ rx' = [e \in Ends |-> 0] /\ fin' = [e \in Ends |-> FALSE] /\ err' = [e \in Ends |-> "ok"]
        /\ open' = [e \in Ends |-> TRUE] /\ shut' = [e \in Ends |-> FALSE]
     \/ net # "listening" /\ EndProcess(p, "exited") /\ UNCHANGED <<pc, part>>
  /\ UNCHANGED <<hold, got>>

AcceptStep(p) ==
  /\ At(p, "accept") /\ net = "queued" /\ net' = "up" /\ Advance(p) /\ Alive
  /\ UNCHANGED <<hold, got, tcp>>

ShutdownStep(p) ==
  /\ At(p, "shutdown") /\ Advance(p) /\ Alive
  /\ shut' = [shut EXCEPT ![End(p)] = TRUE]
  /\ fin' = [fin EXCEPT ![Peer(End(p))] = TRUE]
  /\ UNCHANGED <<hold, got, rx, err, open, net>>

\* close() inside a loop: op_server.c goes back to accept().
CloseStep(p) ==
  /\ At(p, "close") /\ Advance(p) /\ Alive /\ CloseEnd(End(p)) /\ net' = "listening"
  /\ UNCHANGED <<hold, got>>

\* The child of echo_mpclient.c exists once its parent is connected.
ForkedStep(p) ==
  /\ At(p, "forked")
  /\ \/ pc["C"] > 1 /\ Advance(p) /\ Alive
     \/ pc["C"] = 1 /\ st["C"] # "run" /\ st' = [st EXCEPT ![p] = "done"] /\ Stay
  /\ UNCHANGED <<hold, got, net, tcp>>

\* main() returns, or closes its descriptor and returns.
Return(p) ==
  /\ st[p] = "run" /\ pc[p] > Len(Script(p)) /\ EndProcess(p, "done")
  /\ UNCHANGED <<pc, part, hold, got>>

Proc(p) ==
  /\ \/ WriteStep(p) \/ ReadStep(p) \/ ListenStep(p) \/ ConnectStep(p) \/ AcceptStep(p)
     \/ ShutdownStep(p) \/ CloseStep(p) \/ ForkedStep(p) \/ Return(p)
  /\ UNCHANGED <<pair, m, victim, runs>>

\* A process is killed at any moment, one in a behaviour.
Kill(p) ==
  /\ victim = "none" /\ st[p] = "run" /\ (p = "W" => pc[p] > 1)
  /\ victim' = p /\ EndProcess(p, "killed")
  /\ UNCHANGED <<pair, m, pc, part, hold, got, runs>>

\* The next client of op_server.c, when the server is back in accept().
NextClient ==
  /\ pair = "op" /\ st["C"] # "run" /\ At("S", "accept") /\ net = "listening" /\ runs < Rounds
  /\ runs' = runs + 1
  /\ st' = [st EXCEPT !["C"] = "run"] /\ pc' = [pc EXCEPT !["C"] = 1] /\ part' = [part EXCEPT !["C"] = 0]
  /\ got' = [got EXCEPT !["C"] = 0]
  /\ UNCHANGED <<pair, m, hold, net, tcp, victim>>

Init ==
  /\ pair \in {"hello", "tcp", "file", "sep", "echo", "reuse", "quit", "std", "op", "mp"}
  /\ m \in Sizes /\ (pair \in {"echo", "reuse", "quit"} => m % ClientBuf # 0)
  /\ st = [p \in Procs |-> IF p = "W" /\ pair # "mp" THEN "done" ELSE "run"]
  /\ pc = [p \in Procs |-> 1] /\ part = [p \in Procs |-> 0]
  /\ hold = [p \in Procs |-> 0] /\ got = [p \in Procs |-> 0]
  /\ net = "down" /\ victim = "none" /\ runs = 1
  /\ rx = [e \in Ends |-> 0] /\ fin = [e \in Ends |-> FALSE] /\ err = [e \in Ends |-> "ok"]
  /\ open = [e \in Ends |-> FALSE] /\ shut = [e \in Ends |-> FALSE]

Next == (\E p \in Procs : Proc(p) \/ Kill(p)) \/ NextClient

\* Processes are scheduled, users type and TCP delivers; nobody need be
\* killed, and the next client need not come.
Spec == Init /\ [][Next]_vars /\ \A p \in Procs : WF_vars(Proc(p))

-----------------------------------------------------------------------------
Ended(p) == st[p] # "run"
Connected == net \in {"queued", "up"}

\* The loops of echo_client.c and op_server.c that take 0 for progress.
Spins(p) == At(p, "exact") /\ Op(p).eof = "again" /\ 0 \in ReadResult(End(p), 1)

\* A client that writes the whole message first fills the buffers of both
\* directions and the server's: then each waits for the other to read.  The
\* stdio client waits for the echo of a piece, its server for the newline.
TooLong ==
  \/ pair \in {"echo", "reuse", "quit"} /\ m > 2 * Cap + 1
  \/ pair = "quit" /\ ClientBuf > 2 * Cap + 1
  \/ pair = "std" /\ m >= StdBuf

\* The bytes a program has read when it returns, the connection undisturbed.
Promise(p) ==
  CASE pair = "hello" -> (IF p = "S" THEN {0} ELSE 1..m)
    [] pair = "tcp" -> (IF p = "S" THEN {0} ELSE {m})
    [] pair \in {"file", "sep"} -> (IF p = "C" THEN {m} ELSE IF pair = "sep" THEN {Thanks} ELSE 1..Thanks)
    [] pair = "op" -> (IF p = "C" THEN 1..Thanks ELSE {Rounds * (m + 1)})
    [] pair = "quit" -> (IF p = "C" THEN {Rounds * m} ELSE {Rounds * m + ClientBuf})
    [] OTHER -> {Rounds * m}

\* However TCP cuts and joins the bytes, a program that returns has read what
\* its peer sent: all of it, except the single read() of hello_client.c,
\* file_server.c and op_client.c, which may stop after the first bytes, and
\* echo_client.c when its user quits behind a line that filled the buffer:
\* then it has read the echo of every message before that line.
Delivered ==
  \A p \in {"S", "C"} : victim = "none" /\ st[p] = "done" => got[p] \in Promise(p)

\* A connected pair of programs ends, unless a message is too long for the
\* client that does not read before it has written everything, or for the
\* buffer of the client that waits for an answer to each piece of a line;
\* op_server.c answers its client and is free for the next one.
PairsEnd ==
  Connected ~>
    \/ victim # "none" \/ TooLong
    \/ \A p \in Procs : Ended(p)
    \/ pair = "op" /\ Ended("C") /\ net # "up"

\* When one of two connected processes is killed the other one ends, unless
\* it is in one of the two loops that ignore the end of file; the reader of
\* echo_mpclient.c also waits for ever when its writer is killed.
SurvivorEnds ==
  victim \in {"S", "C"} /\ open[End(victim)] = FALSE /\ net # "listening" ~>
    \/ \A p \in Procs : Ended(p) \/ Spins(p)
    \/ At("S", "accept") /\ net = "listening"
=============================================================================
