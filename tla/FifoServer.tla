----------------------------- MODULE FifoServer -----------------------------
(***************************************************************************)
(* src/ipc/src/fifo/fifo_server.c and fifo_client.c: clients write their   *)
(* pid and a pathname to the server's FIFO (256 bytes, less than PIPE_BUF, *)
(* so a request is written and read as a whole) and read the answer from a *)
(* FIFO of their own, which holds bytes: a read() takes what several       *)
(* writes left there.  The server reads requests until end of file, which  *)
(* is the moment when no client has its FIFO open.                         *)
(***************************************************************************)
EXTENDS Integers, Sequences, FiniteSetsExt

CONSTANTS
  Clients,
  Missing,     \* clients whose file does not exist
  FileSize,    \* units (of some bytes) of a file
  MaxSize,     \* MAXSIZE: units of a read() at most
  PipeSize     \* units that a client's FIFO holds; a write() waits for room

None == "none"

VARIABLES
  serv,        \* SERV_FIFO: requests not yet read, by client
  writers,     \* clients that have SERV_FIFO open, or wait in open()
  spc, cur, sent,      \* server: state, client being served, units written
  cpc, answer, got     \* clients: state, units in their FIFO, units printed
server == <<spc, cur, sent>>
client == <<cpc, answer, got>>
vars == <<serv, writers, server, client>>

Reading == spc \notin {"open", "left"}
Go(c, a, b) == cpc[c] = a /\ cpc' = [cpc EXCEPT ![c] = b]
\* Units of the answer: the header and the file, or one error message.
Answer(c) == IF c \in Missing THEN 1 ELSE FileSize + 1

-----------------------------------------------------------------------------
(* fifo_client.c *)

\* mkfifo, ask for the pathname, open SERV_FIFO: open() waits for the server,
\* which waits in its own open() for a first writer.
C_Open(c) ==
  /\ \/ Go(c, "start", "opening") /\ writers' = writers \cup {c}
     \/ Go(c, "opening", "write") /\ Reading /\ UNCHANGED writers
  /\ UNCHANGED <<serv, server, answer, got>>

C_Write(c) ==
  /\ Go(c, "write", "openown") /\ serv' = Append(serv, c)
  /\ UNCHANGED <<writers, server, answer, got>>

\* open() of its own FIFO waits until the server opens it for writing.
C_OpenOwn(c) ==
  /\ Go(c, "openown", "read") /\ cur = c /\ spc = "opencl"
  /\ spc' = "answer"
  /\ UNCHANGED <<serv, writers, cur, sent, answer, got>>

\* read() takes what is there, across the bounds of writes; fputs() prints it up
\* to a NUL.  The header of a file is written with its NUL (sizeof(tmp)), so of
\* the read that begins with it only the header is printed.
Printed(c, n) == IF got[c] = 0 /\ c \notin Missing THEN 1 ELSE n

\* Print until end of file: nothing left and the server has closed its end.
C_Read(c) ==
  /\ \/ /\ cpc[c] = "read" /\ answer[c] > 0
        /\ LET n == Min({answer[c], MaxSize})
           IN  /\ answer' = [answer EXCEPT ![c] = @ - n]
               /\ got' = [got EXCEPT ![c] = @ + Printed(c, n)]
        /\ UNCHANGED cpc
     \/ Go(c, "read", "close") /\ answer[c] = 0 /\ cur # c /\ UNCHANGED <<answer, got>>
  /\ UNCHANGED <<serv, writers, server>>

\* close(readfd), unlink, close(writefd).
C_Close(c) ==
  /\ Go(c, "close", "done") /\ writers' = writers \ {c}
  /\ UNCHANGED <<serv, server, answer, got>>

Client(c) == C_Open(c) \/ C_Write(c) \/ C_OpenOwn(c) \/ C_Read(c) \/ C_Close(c)

-----------------------------------------------------------------------------
(* fifo_server.c *)

S_Open ==
  /\ spc = "open" /\ writers # {} /\ spc' = "read"
  /\ UNCHANGED <<serv, writers, cur, sent, client>>

\* while(read(readfd, buf, MAXSIZE) > 0): a request, or end of file.
S_Read ==
  /\ spc = "read"
  /\ \/ /\ serv # <<>> /\ cur' = Head(serv) /\ serv' = Tail(serv)
        /\ spc' = "opencl" /\ sent' = 0
     \/ /\ serv = <<>> /\ writers = {} /\ spc' = "left"
        /\ UNCHANGED <<serv, cur, sent>>
  /\ UNCHANGED <<writers, client>>

\* One write() to the client: the header or the error message, then what each
\* read() of the file gives.
S_Write ==
  /\ spc = "answer" /\ sent < Answer(cur)
  /\ sent' = IF sent = 0 THEN 1 ELSE Min({sent + MaxSize, Answer(cur)})
  /\ answer[cur] + sent' - sent <= PipeSize
  /\ answer' = [answer EXCEPT ![cur] = @ + sent' - sent]
  /\ UNCHANGED <<serv, writers, spc, cur, cpc, got>>


\* close(writefd), in both branches.
S_Close ==
  /\ spc = "answer" /\ sent = Answer(cur) /\ spc' = "read" /\ cur' = None
  /\ UNCHANGED <<serv, writers, sent, client>>

Server == S_Open \/ S_Read \/ S_Write \/ S_Close

Init ==
  /\ serv = <<>> /\ writers = {}
  /\ spc = "open" /\ cur = None /\ sent = 0
  /\ cpc = [c \in Clients |-> "start"] /\ answer = [c \in Clients |-> 0] /\ got = [c \in Clients |-> 0]

Next == (\E c \in Clients : Client(c)) \/ Server
Spec == Init /\ [][Next]_vars /\ WF_vars(Server) /\ \A c \in Clients : WF_vars(Client(c))

-----------------------------------------------------------------------------
\* A client gets its answer whole, except for what it read together with the
\* NUL of the header: less than one read().
GotAnswer(c) ==
  got[c] \in (IF c \in Missing THEN {1} ELSE (Answer(c) - Min({MaxSize - 1, FileSize}))..Answer(c))

=============================================================================
