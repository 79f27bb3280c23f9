---------------------------- MODULE ChatServer ------------------------------
(***************************************************************************)
(* src/tcp-ip/socket/src/mthread_server.c with clients that behave like    *)
(* mthread_client.c: main() accepts connections and lists their            *)
(* descriptors, one detached thread per connection passes each message on  *)
(* to all listed descriptors but its own, and takes its descriptor off the *)
(* list when its client leaves.  The critical sections of main() and of    *)
(* the removal are one step each; a broadcast is one step per write().     *)
(* The kernel gives a new connection the lowest free descriptor.           *)
(* A message is named by its sender; a client sends at most one.           *)
(***************************************************************************)
EXTENDS Integers, FiniteSets, FiniteSetsExt

CONSTANTS Clients

N == Cardinality(Clients)
Fds == 1..N
None == "none"
Free == 0            \* nobody holds the mutex

VARIABLES
  clnt_sockfdvec, clnt_cnt, mutex,      \* globals of the server
  clnt_sockfd, mpc,                     \* main()
  hpc, hfd, hmsg, hi, harg,             \* handler threads: state, descriptor, message, i,
                                        \*   and (history) the client they were created for
  sock,                                 \* descriptor table: the client at the other end
  accepted, cl, outbox,                 \* clients: accepted so far, state, message not yet read
  got,                                  \* got[c][m]: copies of m's message written to c
  members,                              \* history: listed by main() and not yet taken off
  orderly                               \* history: defined before ListIsMembers
server == <<clnt_sockfdvec, clnt_cnt, mutex>>
handlers == <<hpc, hfd, hmsg, hi, harg>>
world == <<sock, accepted, cl, outbox, got>>
vars == <<server, clnt_sockfd, mpc, handlers, world, members, orderly>>

Handlers == 1..N
Go(h, a, b) == hpc[h] = a /\ hpc' = [hpc EXCEPT ![h] = b]
Listed == {clnt_sockfdvec[i] : i \in 0..(clnt_cnt - 1)}

-----------------------------------------------------------------------------
(* The clients, mthread_client.c *)

Connect(c) ==
  /\ cl[c] = "new" /\ cl' = [cl EXCEPT ![c] = "connected"]
  /\ UNCHANGED <<server, clnt_sockfd, mpc, handlers, sock, accepted, outbox, got, members, orderly>>

SendOnce(c) ==
  /\ cl[c] = "connected" /\ cl' = [cl EXCEPT ![c] = "sent"]
  /\ outbox' = outbox \cup {c}
  /\ UNCHANGED <<server, clnt_sockfd, mpc, handlers, sock, accepted, got, members, orderly>>

\* "q": close(sockfd); exit(0)
Quit(c) ==
  /\ cl[c] \in {"connected", "sent"} /\ cl' = [cl EXCEPT ![c] = "left"]
  /\ UNCHANGED <<server, clnt_sockfd, mpc, handlers, sock, accepted, outbox, got, members, orderly>>

-----------------------------------------------------------------------------
(* main() *)

Accept ==
  /\ mpc = "accept"
  /\ \E c \in Clients :
       /\ cl[c] # "new" /\ c \notin accepted /\ accepted' = accepted \cup {c}
       /\ LET f == Min({g \in Fds : sock[g] = None}) IN
            sock' = [sock EXCEPT ![f] = c] /\ clnt_sockfd' = f
  /\ mpc' = "store"
  /\ UNCHANGED <<server, handlers, cl, outbox, got, members, orderly>>

StoreClient ==
  /\ mpc = "store" /\ mpc' = "create" /\ mutex = Free
  /\ clnt_sockfdvec' = [clnt_sockfdvec EXCEPT ![clnt_cnt] = clnt_sockfd]
  /\ clnt_cnt' = clnt_cnt + 1
  /\ members' = members \cup {sock[clnt_sockfd]}
  /\ UNCHANGED <<mutex, clnt_sockfd, handlers, world, orderly>>

\* pthread_create passes the address of clnt_sockfd, not its value.
CreateHandler ==
  /\ mpc = "create" /\ mpc' = "accept"
  /\ \E h \in Handlers :
       /\ hpc[h] = "unborn" /\ \A g \in Handlers : hpc[g] = "unborn" => h <= g
       /\ hpc' = [hpc EXCEPT ![h] = "start"]
       /\ harg' = [harg EXCEPT ![h] = sock[clnt_sockfd]]
  /\ UNCHANGED <<server, clnt_sockfd, hfd, hmsg, hi, world, members, orderly>>

-----------------------------------------------------------------------------
(* clnt_handler() and send_msg() *)

\* int clnt_sockfd = *((int*)arg): whatever main() has there by now.
H_Start(h) ==
  /\ Go(h, "start", "read") /\ hfd' = [hfd EXCEPT ![h] = clnt_sockfd]
  /\ orderly' = (orderly /\ sock[clnt_sockfd] = harg[h])
  /\ UNCHANGED <<server, clnt_sockfd, mpc, hmsg, hi, harg, world, members>>

\* read() returns a message, or 0 once the client has left.  On a descriptor
\* that another thread has closed it fails, and the thread goes round in its
\* loop for ever.
H_Read(h) ==
  LET c == sock[hfd[h]] IN
  /\ \/ /\ c \in outbox /\ Go(h, "read", "lock")
        /\ hmsg' = [hmsg EXCEPT ![h] = c] /\ outbox' = outbox \ {c}
     \/ /\ c # None /\ c \notin outbox /\ cl[c] = "left"
        /\ Go(h, "read", "remove") /\ UNCHANGED <<hmsg, outbox>>
  /\ UNCHANGED <<server, clnt_sockfd, mpc, hfd, hi, harg, sock, accepted, cl, got, members, orderly>>

\* Mutant: send_msg does not lock.
H_LockNot(h) ==
  /\ Go(h, "lock", "write")
  /\ hi' = [hi EXCEPT ![h] = 0]
  /\ UNCHANGED <<server, clnt_sockfd, mpc, hfd, hmsg, harg, world, members, orderly>>

H_Lock(h) ==
  /\ Go(h, "lock", "write") /\ mutex = Free /\ mutex' = h
  /\ hi' = [hi EXCEPT ![h] = 0]
  /\ UNCHANGED <<clnt_sockfdvec, clnt_cnt, clnt_sockfd, mpc, hfd, hmsg, harg, world, members, orderly>>

\* One round of the loop in send_msg; write() to a closed descriptor fails.
H_Write(h) ==
  /\ hpc[h] = "write" /\ hi[h] < clnt_cnt
  /\ LET f == clnt_sockfdvec[hi[h]] IN
       got' = IF f # hfd[h] /\ sock[f] # None
                THEN [got EXCEPT ![sock[f]][hmsg[h]] = @ + 1] ELSE got
  /\ hi' = [hi EXCEPT ![h] = @ + 1]
  /\ UNCHANGED <<server, clnt_sockfd, mpc, hpc, hfd, hmsg, harg, sock, accepted, cl, outbox, members, orderly>>

H_Unlock(h) ==
  /\ Go(h, "write", "read") /\ hi[h] >= clnt_cnt /\ mutex' = Free
  /\ UNCHANGED <<clnt_sockfdvec, clnt_cnt, clnt_sockfd, mpc, hfd, hmsg, hi, harg, world, members, orderly>>

Position(f) == {i \in 0..(clnt_cnt - 1) : clnt_sockfdvec[i] = f}

\* Mutant: the count does not go down.
H_RemoveKeepsCount(h) ==
  /\ Go(h, "remove", "close") /\ mutex = Free
  /\ members' = members \ {harg[h]}
  /\ orderly' = (orderly /\ Position(hfd[h]) = {clnt_cnt - 1})
  /\ UNCHANGED <<server, clnt_sockfd, mpc, hfd, hmsg, hi, harg, world>>

\* while(i++ < clnt_cnt-1) vec[i] = vec[i+1]: i is incremented before the body,
\* so the elements after the next one move and the found one stays.
H_Remove(h) ==
  /\ Go(h, "remove", "close") /\ mutex = Free
  /\ clnt_sockfdvec' = IF Position(hfd[h]) = {} THEN clnt_sockfdvec
       ELSE [i \in 0..N |-> IF Min(Position(hfd[h])) < i /\ i < clnt_cnt
                              THEN clnt_sockfdvec[i + 1] ELSE clnt_sockfdvec[i]]
  /\ clnt_cnt' = clnt_cnt - 1
  /\ members' = members \ {harg[h]}
  /\ orderly' = (orderly /\ Position(hfd[h]) = {clnt_cnt - 1})
  /\ UNCHANGED <<mutex, clnt_sockfd, mpc, hfd, hmsg, hi, harg, world>>

H_Close(h) ==
  /\ Go(h, "close", "done") /\ sock' = [sock EXCEPT ![hfd[h]] = None]
  /\ UNCHANGED <<server, clnt_sockfd, mpc, hfd, hmsg, hi, harg, accepted, cl, outbox, got, members, orderly>>

Handler(h) ==
  \/ H_Start(h) \/ H_Read(h) \/ H_Lock(h) \/ H_Write(h) \/ H_Unlock(h)
  \/ H_Remove(h) \/ H_Close(h)

Init ==
  /\ clnt_sockfdvec = [i \in 0..N |-> 0] /\ clnt_cnt = 0 /\ mutex = Free
  /\ clnt_sockfd = 0 /\ mpc = "accept"
  /\ hpc = [h \in Handlers |-> "unborn"] /\ hfd = [h \in Handlers |-> 0]
  /\ hmsg = [h \in Handlers |-> None] /\ hi = [h \in Handlers |-> 0]
  /\ harg = [h \in Handlers |-> None]
  /\ sock = [f \in 0..N |-> None] /\ accepted = {}
  /\ cl = [c \in Clients |-> "new"] /\ outbox = {}
  /\ got = [c \in Clients |-> [m \in Clients |-> 0]]
  /\ members = {} /\ orderly = TRUE

Main == Accept \/ StoreClient \/ CreateHandler
ClientStep == \E c \in Clients : Connect(c) \/ SendOnce(c) \/ Quit(c)

Next == ClientStep \/ Main \/ (\E h \in Handlers : Handler(h))
Spec == Init /\ [][Next]_vars

-----------------------------------------------------------------------------
\* `orderly` holds as long as every thread found in clnt_sockfd the descriptor
\* it was created for, and clients left in the reverse order of their arrival.

\* The list holds exactly the members, each once, in an orderly history.
ListIsMembers ==
  orderly => /\ clnt_cnt = Cardinality(members)
             /\ {sock[f] : f \in Listed} = members

\* "send to all excepth itself" (line 86): when a thread of an orderly server
\* has finished its loop, each member but the sender has the message once.
BroadcastReachesMembers ==
  \A h \in Handlers : orderly /\ hpc[h] = "write" /\ hi[h] >= clnt_cnt =>
    \A c \in members : got[c][hmsg[h]] = IF c = hmsg[h] THEN 0 ELSE 1

\* "remove disconnected client" (line 73): once a thread has done that, its
\* descriptor is no longer listed.
RemovesDisconnected ==
  \A h \in Handlers : hpc[h] = "close" => hfd[h] \notin Listed
=============================================================================
