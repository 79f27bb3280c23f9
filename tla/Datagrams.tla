------------------------------ MODULE Datagrams ------------------------------
(***************************************************************************)
(* The UDP programs of src/tcp-ip/socket/src.  `program` is                *)
(*   "echo"  uecho_server.c with clients uecho_client.c                    *)
(*   "con"   uecho_server.c with clients uecho_con_client.c                *)
(*   "bound" bound_host2.c sends to bound_host1.c                          *)
(*   "news", "brd"  news_sender.c or news_sender_brd.c, to news_receiver.c *)
(* The network may lose a datagram, deliver it twice or out of order, and  *)
(* somebody else may write to a client's port.                             *)
(***************************************************************************)
EXTENDS Integers, Sequences, FiniteSets

CONSTANTS
  Clients,       \* echo clients, or receivers of news
  Rounds,        \* messages of a client; datagrams of bound_host2.c (3)
  Lines,         \* lines of news.txt, as fgets() reads them: up to 63 bytes
  Long,          \* those of them that have more than the receiver's 29 bytes
  MaxDups,       \* bound: datagrams delivered twice
  MaxStrangers   \* bound: datagrams from somebody else

Server == "server"   \* uecho_server.c or bound_host1.c
Hosts == Clients \cup {Server}

VARIABLES
  program,
  air,          \* datagrams on their way
  up,           \* the server has called bind()
  st,           \* of a host: "type", "wait", "off" (not joined), "done"
  i,            \* messages of a client, datagrams of a sender; of a receiver of
                \* news, those that were sent before it joined
  newline,      \* news.txt ends with a newline
  heard,        \* of a host: what it has printed
  lost,         \* hosts that a lost datagram was sent to or came from
  refused,      \* clients with a pending ECONNREFUSED
  dups, strangers
vars == <<program, air, up, st, i, newline, heard, lost, refused, dups, strangers>>

Datagram(to, from, n, copy) == [to |-> to, from |-> from, n |-> n, copy |-> copy]
Echoing == program \in {"echo", "con"}
News == program \in {"news", "brd"}

\* recvfrom() takes d; the network may deliver it once more later.
Take(d) ==
  \/ air' = air \ {d} /\ UNCHANGED dups
  \/ dups < MaxDups /\ dups' = dups + 1 /\ UNCHANGED air

-----------------------------------------------------------------------------
(* uecho_server.c                                                          *)

Bind ==
  /\ ~News /\ ~up /\ up' = TRUE
  /\ UNCHANGED <<program, air, st, i, newline, heard, lost, refused, dups, strangers>>

\* Mutant: the server returns after its first answer.
ServerEchoOnce ==
  /\ up /\ Echoing /\ st[Server] = "wait" /\ st' = [st EXCEPT ![Server] = "done"]
  /\ \E d \in air : d.to = Server /\ air' = (air \ {d}) \cup {Datagram(d.from, Server, d.n, d.copy)}
  /\ UNCHANGED <<program, up, i, newline, heard, lost, refused, dups, strangers>>

\* recvfrom(), and sendto() to the address it has returned.
ServerEcho ==
  /\ up /\ Echoing
  /\ \E d \in air : d.to = Server
       /\ \E rest \in {air, air \ {d}} :
            /\ rest = air => dups < MaxDups
            /\ dups' = IF rest = air THEN dups + 1 ELSE dups
            /\ air' = rest \cup {Datagram(d.from, Server, d.n, d.copy)}
  /\ UNCHANGED <<program, up, st, i, newline, heard, lost, refused, strangers>>

(* uecho_client.c, uecho_con_client.c                                      *)

\* sendto(); write() of a connected socket reports an error that is pending
\* and sends nothing.
C_Send(c) ==
  /\ Echoing /\ st[c] = "type" /\ i[c] < Rounds
  /\ i' = [i EXCEPT ![c] = @ + 1] /\ st' = [st EXCEPT ![c] = "wait"]
  /\ IF c \in refused THEN UNCHANGED air ELSE air' = air \cup {Datagram(Server, c, i'[c], 0)}
  /\ refused' = refused \ {c}
  /\ UNCHANGED <<program, up, newline, heard, lost, dups, strangers>>

HeardAs(h, d, cut) == heard' = [heard EXCEPT ![h] = Append(@, [from |-> d.from, n |-> d.n, cut |-> cut])]
Heard(h, d) == HeardAs(h, d, FALSE)

\* recvfrom() of uecho_client.c takes a datagram from anybody.
C_RecvFrom(c) ==
  /\ program = "echo" /\ st[c] = "wait"
  /\ \E d \in air : d.to = c /\ Take(d) /\ Heard(c, d)
  /\ st' = [st EXCEPT ![c] = "type"]
  /\ UNCHANGED <<program, up, i, newline, lost, refused, strangers>>

\* Mutant: connect() is left out.
C_ReadAnybody(c) ==
  /\ program = "con" /\ st[c] = "wait"
  /\ \E d \in air : d.to = c /\ Take(d) /\ Heard(c, d)
  /\ st' = [st EXCEPT ![c] = "type"]
  /\ UNCHANGED <<program, up, i, newline, lost, refused, strangers>>

\* read() of a connected socket: only from the server; or -1, after which the
\* buffer still holds the client's own message and is printed.
C_Read(c) ==
  /\ program = "con" /\ st[c] = "wait"
  /\ \/ /\ c \notin refused /\ UNCHANGED refused
        /\ \E d \in air : d.to = c /\ d.from = Server /\ Take(d) /\ Heard(c, d)
     \/ /\ c \in refused /\ refused' = refused \ {c}
        /\ Heard(c, [from |-> c, n |-> i[c]]) /\ UNCHANGED <<air, dups>>
  /\ st' = [st EXCEPT ![c] = "type"]
  /\ UNCHANGED <<program, up, i, newline, lost, strangers>>

C_Quit(c) ==
  /\ Echoing /\ st[c] = "type" /\ i[c] = Rounds /\ st' = [st EXCEPT ![c] = "done"]
  /\ UNCHANGED <<program, air, up, i, newline, heard, lost, refused, dups, strangers>>

-----------------------------------------------------------------------------
(* bound_host1.c, bound_host2.c                                            *)

\* Three sendto() calls of different lengths, and three recvfrom() calls with
\* room for each: a datagram is never cut or joined.
Host2Send ==
  /\ program = "bound" /\ i[Server] < Rounds
  /\ i' = [i EXCEPT ![Server] = @ + 1]
  /\ air' = air \cup {Datagram(Server, "host2", i'[Server], 0)}
  /\ UNCHANGED <<program, up, st, newline, heard, lost, refused, dups, strangers>>
Host1Receive ==
  /\ program = "bound" /\ up /\ st[Server] = "wait"
  /\ \E d \in air : d.to = Server /\ Take(d) /\ Heard(Server, d)
  /\ st' = [st EXCEPT ![Server] = IF Len(heard'[Server]) = Rounds THEN "done" ELSE "wait"]
  /\ UNCHANGED <<program, up, i, newline, lost, refused, strangers>>

(* news_sender.c, news_sender_brd.c, news_receiver.c                       *)

\* feof() is true only after fgets() has met the end: behind a last newline
\* the loop sends the last line once more.
Sends == IF newline THEN Lines + 1 ELSE Lines
Line(k) == IF k > Lines THEN Lines ELSE k
SendLine ==
  /\ i[Server] < Sends /\ i' = [i EXCEPT ![Server] = @ + 1]
  /\ LET k == i'[Server]
     IN air' = air \cup {Datagram(r, Server, Line(k), k) : r \in {r \in Clients : st[r] = "wait"}}
  /\ UNCHANGED <<program, up, st, newline, heard, lost, refused, dups, strangers>>
NewsSend == program = "news" /\ SendLine
NewsSendBrd == program = "brd" /\ SendLine
Join(r) ==
  /\ News /\ st[r] = "off" /\ st' = [st EXCEPT ![r] = "wait"]
  /\ i' = [i EXCEPT ![r] = i[Server]]
  /\ UNCHANGED <<program, air, up, newline, heard, lost, refused, dups, strangers>>
\* recvfrom() of 29 bytes: what a longer datagram has behind them is dropped.
NewsReceive(r) ==
  /\ News /\ st[r] = "wait" /\ \E d \in air : d.to = r /\ Take(d) /\ HeardAs(r, d, d.n \in Long)
  /\ UNCHANGED <<program, up, st, i, newline, lost, refused, strangers>>

-----------------------------------------------------------------------------
(* The network.                                                            *)

Lose(d) ==
  /\ air' = air \ {d} /\ lost' = lost \cup {d.to, d.from}
  /\ UNCHANGED <<program, up, st, i, newline, heard, refused, dups, strangers>>

\* Nobody has bound the port: a connected sender is told.
Unreachable(d) ==
  /\ d.to = Server /\ ~up /\ air' = air \ {d} /\ lost' = lost \cup {d.to, d.from}
  /\ refused' = IF program = "con" THEN refused \cup {d.from} ELSE refused
  /\ UNCHANGED <<program, up, st, i, newline, heard, dups, strangers>>

Stranger(c) ==
  /\ Echoing /\ strangers < MaxStrangers /\ strangers' = strangers + 1
  /\ air' = air \cup {Datagram(c, "stranger", 0, 0)}
  /\ UNCHANGED <<program, up, st, i, newline, heard, lost, refused, dups>>

Init ==
  /\ program \in {"echo", "con", "bound", "news", "brd"}
  /\ air = {} /\ up = FALSE /\ lost = {} /\ refused = {} /\ dups = 0 /\ strangers = 0
  /\ st = [h \in Hosts |-> IF h = Server THEN "wait" ELSE IF Echoing THEN "type" ELSE "off"]
  /\ i = [h \in Hosts |-> 0] /\ heard = [h \in Hosts |-> << >>]
  /\ newline \in IF News THEN BOOLEAN ELSE {TRUE}

UechoServer == Bind \/ ServerEcho
UechoClient(c) == program = "echo" /\ (C_Send(c) \/ C_RecvFrom(c) \/ C_Quit(c))
UechoConClient(c) == program = "con" /\ (C_Send(c) \/ C_Read(c) \/ C_Quit(c))
Client(c) == UechoClient(c) \/ UechoConClient(c) \/ NewsReceive(c)
Next ==
  \/ UechoServer \/ Host2Send \/ Host1Receive \/ NewsSend \/ NewsSendBrd
  \/ \E c \in Clients : Client(c) \/ Stranger(c) \/ Join(c)
  \/ \E d \in air : Lose(d) \/ Unreachable(d)

\* Processes are scheduled; what is not lost is delivered.
Spec ==
  /\ Init /\ [][Next]_vars
  /\ WF_vars(Bind) /\ WF_vars(ServerEcho) /\ WF_vars(Host2Send) /\ WF_vars(Host1Receive)
  /\ \A c \in Clients : WF_vars(Client(c))

-----------------------------------------------------------------------------
\* The news and the datagrams of bound_host2.c: how often n was sent to a host
\* that listens, is on its way to it, and was printed: whole, or cut if the
\* buffer of news_receiver.c is too short.
SentTo(h, n) ==
  IF News
  THEN IF h = Server \/ st[h] = "off" THEN 0
       ELSE Cardinality({k \in 1..i[Server] : k > i[h] /\ Line(k) = n})
  ELSE IF h = Server /\ n <= i[Server] THEN 1 ELSE 0
OnItsWay(h, n) == Cardinality({d \in air : d.to = h /\ d.n = n})
Count(h, n) ==
  Cardinality({k \in 1..Len(heard[h]) : heard[h][k].n = n /\ (heard[h][k].cut <=> (News /\ n \in Long))})

\* Whatever the network does, clients print answers to messages they have
\* sent, uecho_con_client.c never a stranger's; without duplicates and
\* strangers the k-th answer is that to the k-th message.  A line of news, cut
\* to the receiver's buffer, or a datagram of bound_host2.c is printed at most
\* as often as it was sent since the receiver joined, and was duplicated; and
\* exactly as often, but for what is on its way, when none was duplicated and
\* none was lost.
PrintsWhatWasSent ==
  /\ Echoing => \A c \in Clients : \A k \in 1..Len(heard[c]) :
       /\ program = "con" => heard[c][k].from \in {Server, c}
       /\ heard[c][k].from = Server => heard[c][k].n <= k
       /\ dups = 0 /\ strangers = 0 => heard[c][k].n = k
  /\ ~Echoing => \A h \in Hosts : \A n \in 1..(Rounds + Lines) :
       /\ Count(h, n) + OnItsWay(h, n) <= SentTo(h, n) + dups
       /\ dups = 0 /\ h \notin lost => Count(h, n) + OnItsWay(h, n) = SentTo(h, n)

\* A program that waits for a datagram gets it, unless one was lost; there is
\* no time-out.  A duplicate or a stranger's datagram taken for the answer
\* does no harm here, but an error reported to write() leaves nothing to wait
\* for.
WaitsOnlyForLost ==
  /\ \A c \in Clients : Echoing /\ st[c] = "wait" ~> st[c] # "wait" \/ c \in lost
  /\ program = "bound" => <>(st[Server] = "done" \/ Server \in lost)
=============================================================================
