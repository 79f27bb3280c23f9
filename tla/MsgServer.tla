----------------------------- MODULE MsgServer ------------------------------
(***************************************************************************)
(* The file servers on System V message queues, src/ipc/src/svmsg:         *)
(*   "1q"  msgserver1q.c: one queue for everything, an answer has the pid  *)
(*         of its client as type                                           *)
(*   "nq"  msgservernq.c: a queue per client, and a child process per      *)
(*         request                                                         *)
(* msgrcv with a type takes the first message of that type, so a queue is  *)
(* kept as one sequence of requests (type 1) and, for each client, the     *)
(* number of lines under way to it.  A line is only counted: they are sent *)
(* and taken in order.  A full queue blocks msgsnd.                        *)
(***************************************************************************)
EXTENDS Integers, Sequences, FiniteSets, FiniteSetsExt

CONSTANTS
  Clients,
  NLines,      \* lines of a file
  Missing,     \* clients whose file cannot be opened: one line of error
  QueueSize,   \* messages that fit into a queue
  Rounds       \* the 5 of for(i = 0; i < 5; ++i)

None == "none"

VARIABLES
  variant,
  endtype,     \* the type of the end message: see SendEnd
  requests,    \* type 1 in the well-known queue
  lines,       \* per client: lines for it that it has not received
  junk,        \* messages of a type nobody asks for, in the well-known queue
  spc, i, cur, sent,   \* server; in "1q" also the client it serves, lines sent
  child,       \* "nq", per client: lines sent by its child, or -1
  asked, got, taken    \* clients: request sent; lines received; server has the request
queues == <<requests, lines, junk>>
serv == <<spc, i, cur, sent, child>>
input == <<variant, endtype>>
vars == <<input, queues, serv, asked, got, taken>>

Answer(c) == IF c \in Missing THEN 1 ELSE NLines
Lines(c) == lines[c]
InQueue == Len(requests) + junk + (IF variant = "1q" THEN MapThenSumSet(Lines, Clients) ELSE 0)

\* Room for a line to client c.
Room(c) == IF variant = "1q" THEN InQueue < QueueSize ELSE lines[c] < QueueSize

-----------------------------------------------------------------------------
\* client(): send pid (or queue identifier) and pathname.
Ask(c) ==
  /\ c \notin asked /\ asked' = asked \cup {c} /\ InQueue < QueueSize
  /\ requests' = Append(requests, c)
  /\ UNCHANGED <<input, lines, junk, serv, got, taken>>

\* while((n = msgrcv(...)) > 0): no message ends this loop.
ReceiveLine(c) ==
  /\ c \in asked /\ lines[c] > 0
  /\ lines' = [lines EXCEPT ![c] = @ - 1] /\ got' = [got EXCEPT ![c] = @ + 1]
  /\ UNCHANGED <<input, requests, junk, serv, asked, taken>>

Client(c) == Ask(c) \/ ReceiveLine(c)

-----------------------------------------------------------------------------
NextRound == i' = i + 1 /\ spc' = IF i + 1 >= Rounds THEN "done" ELSE "receive"

\* msgrcv of type 1; "nq" forks a child for the answer.
TakeRequest ==
  /\ spc = "receive" /\ requests # <<>>
  /\ requests' = Tail(requests) /\ taken' = taken \cup {Head(requests)}
  /\ IF variant = "1q" THEN /\ cur' = Head(requests) /\ sent' = 0 /\ spc' = "answer"
                            /\ UNCHANGED <<i, child>>
     ELSE /\ child' = [child EXCEPT ![Head(requests)] = 0]
          /\ NextRound /\ UNCHANGED <<cur, sent>>
  /\ UNCHANGED <<input, lines, junk, asked, got>>

\* Mutant: the type of the request is kept for the answer.
SendLineAsRequest ==
  /\ spc = "answer" /\ sent < Answer(cur) /\ Room(cur)
  /\ sent' = sent + 1 /\ requests' = Append(requests, cur)
  /\ UNCHANGED <<input, lines, junk, spc, i, cur, child, asked, got, taken>>

\* "1q": one line of the file, or the error message.
SendLine ==
  /\ spc = "answer" /\ sent < Answer(cur) /\ Room(cur)
  /\ sent' = sent + 1 /\ lines' = [lines EXCEPT ![cur] = @ + 1]
  /\ UNCHANGED <<input, requests, junk, spc, i, cur, child, asked, got, taken>>

\* msgsnd(writefd, "", 0, 0): the type is read from the bytes that the program
\* has behind its empty string.  They are zero, which msgsnd refuses, or text, a
\* number far above any pid: a message that stays in the queue.
SendEnd ==
  /\ spc = "answer" /\ sent = Answer(cur)
  /\ \/ endtype = "zero" /\ UNCHANGED junk
     \/ endtype = "text" /\ InQueue < QueueSize /\ junk' = junk + 1
  /\ NextRound
  /\ UNCHANGED <<input, requests, lines, cur, sent, child, asked, got, taken>>

\* "nq": one line by the child of client c.
ChildSend(c) ==
  /\ child[c] \in 0..(Answer(c) - 1) /\ Room(c)
  /\ child' = [child EXCEPT ![c] = @ + 1] /\ lines' = [lines EXCEPT ![c] = @ + 1]
  /\ UNCHANGED <<input, requests, junk, spc, i, cur, sent, asked, got, taken>>

\* "nq": the child ends.  SIGCHLD interrupts a msgrcv in which the server is
\* blocked already; its result -1 is not tested, the old contents of the buffer have no
\* blank any more and are taken for a bogus request: a round is lost.
ChildExit(c) ==
  /\ child[c] = Answer(c) /\ child' = [child EXCEPT ![c] = -1]
  /\ \/ spc = "receive" /\ requests = <<>> /\ NextRound
     \/ UNCHANGED <<i, spc>>
  /\ UNCHANGED <<input, queues, cur, sent, asked, got, taken>>

Server == TakeRequest \/ SendLine \/ SendEnd
Child(c) == ChildSend(c) \/ ChildExit(c)

Init ==
  /\ variant \in {"1q", "nq"} /\ endtype \in {"zero", "text"}
  /\ requests = <<>> /\ lines = [c \in Clients |-> 0] /\ junk = 0
  /\ spc = "receive" /\ i = 0 /\ cur = None /\ sent = 0 /\ child = [c \in Clients |-> -1]
  /\ asked = {} /\ got = [c \in Clients |-> 0] /\ taken = {}

Next == Server \/ \E c \in Clients : Client(c) \/ Child(c)
Spec ==
  /\ Init /\ [][Next]_vars /\ WF_vars(Server)
  /\ \A c \in Clients : WF_vars(Child(c)) /\ WF_vars(ReceiveLine(c))

-----------------------------------------------------------------------------
\* The queue is full, and of nothing that anybody is waiting for: the server
\* waits for room, the clients for answers.
Jammed ==
  /\ variant = "1q" /\ spc = "answer" /\ InQueue = QueueSize
  /\ \A c \in Clients : lines[c] = 0

\* Every request that the server takes is answered completely, to the client
\* that sent it and to nobody else, unless the one queue of msgserver1q.c is
\* jammed by requests.
RequestsAnswered ==
  <>[]((\A c \in Clients : got[c] = IF c \in taken THEN Answer(c) ELSE 0) \/ Jammed)
=============================================================================
