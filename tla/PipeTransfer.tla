---------------------------- MODULE PipeTransfer ----------------------------
(***************************************************************************)
(* src/ipc/src/pipe/pipe.c and src/ipc/src/fifo/fifo.c: the parent sends a *)
(* pathname to the child, the child sends the file back; two pipes, or two *)
(* FIFOs that each process opens in its own order.  A pipe is a sequence   *)
(* of units of some bytes, in which the bounds of the writes are lost, end *)
(* of file is "no writer left", open() of a FIFO waits for the other end.  *)
(***************************************************************************)
EXTENDS Integers, Sequences, FiniteSetsExt

CONSTANTS
  FileSize,    \* units 1..FileSize of the file, which is text
  MaxSize,     \* MAXSIZE: units of a read() at most
  PipeSize     \* units that a pipe holds; a write() waits for room

VARIABLES
  variant,     \* "pipe" or "fifo"; never changes
  request,     \* pathname: "file", "missing", or "empty" (just a newline)
  ends,        \* open descriptors: <<process, pipe, "r" or "w">>
  opened,      \* those that open() has ever announced
  clnt2serv, serv2clnt,        \* contents
  cpc, spc, sent, out          \* client, server; units of the file sent; what the client printed
input == <<variant, request>>
pipes == <<clnt2serv, serv2clnt>>
vars == <<input, ends, opened, pipes, cpc, spc, sent, out>>

HasEnd(pipe, dir) == \E p \in {"client", "server"} : <<p, pipe, dir>> \in ends

\* What goes through: the header (or the error message), the file, a newline;
\* and the bytes of an earlier read that fifo.c may send behind a block.
Header == 0
Newline == FileSize + 1
Stale == -1

-----------------------------------------------------------------------------
\* After fork() both processes have all four descriptors of pipe.c.
C_Close ==
  /\ cpc = "close" /\ cpc' = "write"
  /\ ends' = ends \ {<<"client", "serv2clnt", "w">>, <<"client", "clnt2serv", "r">>}
  /\ UNCHANGED <<input, opened, pipes, spc, sent, out>>
S_Close ==
  /\ spc = "close" /\ spc' = "read"
  /\ ends' = ends \ {<<"server", "clnt2serv", "w">>, <<"server", "serv2clnt", "r">>}
  /\ UNCHANGED <<input, opened, pipes, cpc, sent, out>>

\* open() of a FIFO: the end is announced, then the other end is waited for.
Opening(p, fifo, dir) == ends' = ends \cup {<<p, fifo, dir>>} /\ opened' = opened \cup {<<p, fifo, dir>>}
Met(p, fifo, dir) == <<p, fifo, dir>> \in opened /\ UNCHANGED <<ends, opened>>

\* Mutant: the client opens its FIFOs in the opposite order.
C_OpenReversed ==
  /\ \/ cpc = "open1" /\ cpc' = "wait1" /\ Opening("client", "serv2clnt", "r")
     \/ cpc = "wait1" /\ Met("server", "serv2clnt", "w") /\ cpc' = "open2"
     \/ cpc = "open2" /\ cpc' = "wait2" /\ Opening("client", "clnt2serv", "w")
     \/ cpc = "wait2" /\ Met("server", "clnt2serv", "r") /\ cpc' = "write"
  /\ UNCHANGED <<input, pipes, spc, sent, out>>

\* The client opens FIFO1 for writing, then FIFO2 for reading; the server opens
\* FIFO1 for reading, then FIFO2 for writing.
C_Open ==
  /\ \/ cpc = "open1" /\ cpc' = "wait1" /\ Opening("client", "clnt2serv", "w")
     \/ cpc = "wait1" /\ Met("server", "clnt2serv", "r") /\ cpc' = "open2"
     \/ cpc = "open2" /\ cpc' = "wait2" /\ Opening("client", "serv2clnt", "r")
     \/ cpc = "wait2" /\ Met("server", "serv2clnt", "w") /\ cpc' = "write"
  /\ UNCHANGED <<input, pipes, spc, sent, out>>
S_Open ==
  /\ \/ spc = "open1" /\ spc' = "wait1" /\ Opening("server", "clnt2serv", "r")
     \/ spc = "wait1" /\ Met("client", "clnt2serv", "w") /\ spc' = "open2"
     \/ spc = "open2" /\ spc' = "wait2" /\ Opening("server", "serv2clnt", "w")
     \/ spc = "wait2" /\ Met("client", "serv2clnt", "r") /\ spc' = "read"
  /\ UNCHANGED <<input, pipes, cpc, sent, out>>

-----------------------------------------------------------------------------
\* client(): a pathname of length 0 writes nothing.
C_Write ==
  /\ cpc = "write" /\ cpc' = "read"
  /\ clnt2serv' = IF request = "empty" THEN clnt2serv ELSE Append(clnt2serv, request)
  /\ UNCHANGED <<input, ends, opened, serv2clnt, spc, sent, out>>

\* The header of pipe.c is written with the NUL at its end (sizeof(msg)), that
\* of fifo.c and the error messages are not (strlen(buf)).
EndsInNul(unit) == unit = Header /\ variant = "pipe" /\ request = "file"

\* fputs(buf, stdout): up to the first NUL; what was read behind it is lost.
Printed(buf) == SubSeq(buf, 1, Min({Len(buf)} \cup {k \in DOMAIN buf : EndsInNul(buf[k])}))

\* Read what is there, across the bounds of writes, and print it until end of
\* file, then wait(NULL).
C_Read ==
  /\ \/ /\ cpc = "read" /\ serv2clnt # <<>>
        /\ LET n == Min({Len(serv2clnt), MaxSize})
           IN  /\ out' = out \o Printed(SubSeq(serv2clnt, 1, n))
               /\ serv2clnt' = SubSeq(serv2clnt, n + 1, Len(serv2clnt))
        /\ UNCHANGED cpc
     \/ /\ cpc = "read" /\ serv2clnt = <<>> /\ ~HasEnd("serv2clnt", "w")
        /\ cpc' = "wait" /\ UNCHANGED <<out, serv2clnt>>
     \/ cpc = "wait" /\ spc = "done" /\ cpc' = "done" /\ UNCHANGED <<out, serv2clnt>>
  /\ UNCHANGED <<input, ends, opened, clnt2serv, spc, sent>>

\* server(): read the pathname, or exit at end of file.
S_Read ==
  /\ spc = "read"
  /\ \/ /\ clnt2serv # <<>> /\ clnt2serv' = Tail(clnt2serv)
        /\ spc' = "header"
     \/ /\ clnt2serv = <<>> /\ ~HasEnd("clnt2serv", "w")
        /\ spc' = "exit" /\ UNCHANGED clnt2serv
  /\ UNCHANGED <<input, ends, opened, serv2clnt, cpc, sent, out>>

\* A write() of at most MAXSIZE + 1 bytes is not divided (PIPE_BUF).
Put(units) ==
  /\ HasEnd("serv2clnt", "r") /\ Len(serv2clnt) + Len(units) <= PipeSize
  /\ serv2clnt' = serv2clnt \o units

\* The answer, one write() at a time.  pipe.c writes the n bytes it has read;
\* fifo.c writes strlen(buf) bytes, so what an earlier read left behind the
\* block may follow it.  Without a reader SIGPIPE ends the server.
S_Write ==
  /\ \/ /\ spc = "header" /\ Put(<<Header>>) /\ UNCHANGED sent
        /\ spc' = IF request = "file" THEN "copy" ELSE "exit"
     \/ /\ spc = "copy" /\ sent < FileSize /\ UNCHANGED spc
        /\ sent' = Min({sent + MaxSize, FileSize})
        /\ \E tail \in {<<>>} \cup (IF variant = "fifo" THEN {<<Stale>>} ELSE {}) :
             Put([k \in 1..(sent' - sent) |-> sent + k] \o tail)
     \/ spc = "copy" /\ sent = FileSize /\ Put(<<Newline>>) /\ spc' = "exit" /\ UNCHANGED sent
     \/ /\ spc \in {"header", "copy"} /\ ~HasEnd("serv2clnt", "r")
        /\ spc' = "exit" /\ UNCHANGED <<sent, serv2clnt>>
  /\ UNCHANGED <<input, ends, opened, clnt2serv, cpc, out>>

\* The child returns from main(): its descriptors are closed.
S_Exit ==
  /\ spc = "exit" /\ spc' = "done"
  /\ ends' = {e \in ends : e[1] # "server"}
  /\ UNCHANGED <<input, opened, pipes, cpc, sent, out>>

\* The user interrupts the client that asks for the pathname or prints.
C_Killed ==
  /\ cpc \in {"write", "read"} /\ cpc' = "killed"
  /\ ends' = {e \in ends : e[1] # "client"}
  /\ UNCHANGED <<input, opened, pipes, spc, sent, out>>

Client == C_Close \/ C_Open \/ C_Write \/ C_Read
Server == S_Close \/ S_Open \/ S_Read \/ S_Write \/ S_Exit

Init ==
  /\ variant \in {"pipe", "fifo"} /\ request \in {"file", "missing", "empty"}
  /\ ends = IF variant = "pipe"
              THEN {"client", "server"} \X {"clnt2serv", "serv2clnt"} \X {"r", "w"} ELSE {}
  /\ opened = {} /\ clnt2serv = <<>> /\ serv2clnt = <<>> /\ sent = 0 /\ out = <<>>
  /\ cpc = IF variant = "pipe" THEN "close" ELSE "open1"
  /\ spc = IF variant = "pipe" THEN "close" ELSE "open1"

Next == Client \/ Server \/ C_Killed
Spec == Init /\ [][Next]_vars /\ WF_vars(Client) /\ WF_vars(Server)

-----------------------------------------------------------------------------
\* Each process waits for a read, an open() or the end of the other.
BothWait ==
  cpc = "read" /\ serv2clnt = <<>> /\ spc = "read" /\ clnt2serv = <<>>

\* What follows the header or the error message.
Rest == IF request = "file" THEN Newline ELSE 0
\* What a read() can take along with the header and its NUL.
MayLose == IF variant = "pipe" THEN Min({MaxSize - 1, Rest}) ELSE 0

\* Both are done and the answer is printed in order: completely in fifo.c (and
\* perhaps with stale bytes), without anything else in pipe.c, where less than
\* one read, directly behind the header, may be missing.
Delivered ==
  /\ cpc = "done" /\ spc = "done"
  /\ variant = "pipe" => Stale \notin {out[k] : k \in DOMAIN out}
  /\ \E lost \in 0..MayLose :
       SelectSeq(out, LAMBDA u : u # Stale) = <<Header>> \o [k \in 1..(Rest - lost) |-> lost + k]

\* The transfer ends with the answer delivered, however the processes open and
\* close their ends and however the reads cut the writes; of a file that pipe.c
\* sends, nothing is lost but what was read together with the NUL behind the
\* header.  The exceptions are the empty pathname, where the child waits for a
\* name and the parent for an answer, and a parent that is killed, whose child
\* then ends, too.
TransferEnds ==
  \/ <>[]Delivered
  \/ request = "empty" /\ <>[]BothWait
  \/ <>[](cpc = "killed" /\ spc = "done")
=============================================================================
