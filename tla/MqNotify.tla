------------------------------ MODULE MqNotify ------------------------------
(***************************************************************************)
(* src/ipc/src/pxmsg: the receivers mqnotifysig1.c ... mqnotifysig5.c and  *)
(* mqnotifythread.c on one message queue, with runs of mqsend.c that fill  *)
(* it and of mqreceive.c that take messages away.  mq_notify registers for *)
(* one notification, sent when a message arrives at an empty queue and     *)
(* nobody is blocked in mq_receive; sending it removes the registration.   *)
(* SIGUSR1 is not queued: it is pending or not.  Only the number of        *)
(* messages matters.                                                       *)
(***************************************************************************)
EXTENDS Integers, FiniteSets

CONSTANTS
  Takers,      \* runs of mqreceive.c
  MaxMsg,      \* mq_maxmsg: mq_send blocks on a full queue
  MaxSends,    \* bound: runs of mqsend.c
  Rounds       \* the 3 of for(i = 0; i < 3; ++i)

VARIABLES
  receiver,     \* which program runs; never changes
  qlen, registered, blocked,   \* the queue, and who is blocked in mq_receive
  pending,      \* SIGUSR1 is pending
  mqflag,       \* mqnotifysig2.c, 3.c
  pipefd,       \* bytes in the pipe of mqnotifysig5.c
  pc, i,
  starting, draining,          \* mqnotifythread.c: threads before and after mq_notify
  taker, sends,
  clean         \* history: the first mq_notify found an empty queue
queue == <<qlen, registered, blocked>>
proc == <<pending, mqflag, pipefd, pc, i, starting, draining>>
vars == <<receiver, queue, proc, taker, sends, clean>>

Go(a, b) == pc = a /\ pc' = b
Flagged == receiver \in {"sig2", "sig3"}

-----------------------------------------------------------------------------
(* The queue *)

\* mq_send: to a blocked reader if there is one, else into the queue, with a
\* notification when it was empty.
Send ==
  /\ sends < MaxSends /\ sends' = sends + 1 /\ qlen < MaxMsg
  /\ \/ \E r \in blocked :
          /\ blocked' = blocked \ {r}
          /\ taker' = IF r \in Takers THEN [taker EXCEPT ![r] = "done"] ELSE taker
          /\ pc' = IF r \in Takers THEN pc ELSE "received"
          /\ UNCHANGED <<qlen, registered, pending, starting>>
     \/ /\ blocked = {} /\ qlen' = qlen + 1
        /\ registered' = (registered /\ qlen # 0)
        /\ LET notify == registered /\ qlen = 0 IN
             /\ pending' = (pending \/ (notify /\ receiver # "thread"))
             /\ starting' = IF notify /\ receiver = "thread" THEN starting + 1 ELSE starting
        /\ UNCHANGED <<blocked, taker, pc>>
  /\ UNCHANGED <<receiver, mqflag, pipefd, i, draining, clean>>

\* mqreceive.c, with or without -n.
Take(t) ==
  /\ taker[t] = "idle"
  /\ \/ qlen > 0 /\ qlen' = qlen - 1 /\ taker' = [taker EXCEPT ![t] = "done"] /\ UNCHANGED blocked
     \/ qlen = 0 /\ taker' = [taker EXCEPT ![t] = "done"] /\ UNCHANGED <<qlen, blocked>>
     \/ qlen = 0 /\ taker' = [taker EXCEPT ![t] = "blocked"] /\ blocked' = blocked \cup {t} /\ UNCHANGED qlen
  /\ UNCHANGED <<receiver, registered, proc, sends, clean>>

-----------------------------------------------------------------------------
(* The receivers *)

\* The first mq_notify; whatever is in the queue by then is not announced.
Register ==
  /\ Go("register", CASE Flagged -> "block" [] receiver = "sig4" -> "wait" [] receiver = "sig5" -> "select"
                      [] receiver = "sig1" -> "running" [] receiver = "thread" -> "paused")
  /\ registered' = TRUE /\ clean' = (qlen = 0)
  /\ UNCHANGED <<receiver, qlen, blocked, pending, mqflag, pipefd, i, starting, draining, taker, sends>>

\* sig_usr1 of 2.c and 3.c sets the flag, that of 5.c writes into the pipe.
\* 2.c and 3.c let it run before sigprocmask and in sigsuspend only.
Handler ==
  /\ pending /\ pending' = FALSE
  /\ \/ /\ Flagged /\ (pc = "block" \/ (pc = "test" /\ ~mqflag))
        /\ mqflag' = TRUE /\ UNCHANGED pipefd
     \/ receiver = "sig5" /\ pc # "done" /\ pipefd' = pipefd + 1 /\ UNCHANGED mqflag
  /\ UNCHANGED <<receiver, queue, pc, i, starting, draining, taker, sends, clean>>

\* 2.c and 3.c: block the signal, sigsuspend until the flag is set, reset it.
AwaitFlag ==
  /\ Flagged
  /\ \/ Go("block", "test") /\ UNCHANGED mqflag
     \/ mqflag /\ Go("test", "notify") /\ mqflag' = FALSE
  /\ UNCHANGED <<receiver, queue, pending, pipefd, i, starting, draining, taker, sends, clean>>

\* 4.c: sigwait takes the pending signal.
AwaitSignal ==
  /\ pending /\ Go("wait", "notify") /\ pending' = FALSE
  /\ UNCHANGED <<receiver, queue, mqflag, pipefd, i, starting, draining, taker, sends, clean>>

\* 5.c: select and read on the pipe.  A select interrupted by the handler
\* leaves rdset as it was, and the byte is there.
AwaitPipe ==
  /\ pipefd > 0 /\ Go("select", "notify") /\ pipefd' = pipefd - 1
  /\ UNCHANGED <<receiver, queue, pending, mqflag, i, starting, draining, taker, sends, clean>>

\* Register again, before reading.
Renotify ==
  /\ Go("notify", "receive") /\ registered' = TRUE
  /\ UNCHANGED <<receiver, qlen, blocked, pending, mqflag, pipefd, i, starting, draining, taker, sends, clean>>

\* The end of a round; 2.c and 3.c unblock SIGUSR1.  A process that ends loses
\* its registration.
NextRound ==
  /\ i' = i + 1 /\ registered' = (registered /\ i + 1 < Rounds)
  /\ pc' = IF i + 1 >= Rounds THEN "done"
           ELSE CASE Flagged -> "block" [] receiver = "sig4" -> "wait" [] OTHER -> "select"

rest == <<receiver, pending, mqflag, pipefd, starting, draining, taker, sends, clean>>

\* 2.c reads one message, and blocks until there is one.
ReceiveMessage ==
  /\ receiver = "sig2"
  /\ \/ pc = "receive" /\ qlen > 0 /\ qlen' = qlen - 1 /\ NextRound /\ UNCHANGED blocked
     \/ /\ Go("receive", "receiving") /\ qlen = 0 /\ blocked' = blocked \cup {"main"}
        /\ UNCHANGED <<qlen, registered, i>>
     \/ pc = "received" /\ NextRound /\ UNCHANGED <<qlen, blocked>>
  /\ UNCHANGED rest

\* Mutant: only one message is read, as in 2.c.
DrainOne ==
  /\ pc = "receive" /\ receiver # "sig2" /\ NextRound
  /\ qlen' = IF qlen > 0 THEN qlen - 1 ELSE 0
  /\ UNCHANGED <<rest, blocked>>

\* 3.c, 4.c and 5.c read until EAGAIN.
Drain ==
  /\ pc = "receive" /\ receiver # "sig2"
  /\ \/ qlen > 0 /\ qlen' = qlen - 1 /\ UNCHANGED <<pc, i, registered>>
     \/ qlen = 0 /\ NextRound /\ UNCHANGED qlen
  /\ UNCHANGED <<rest, blocked>>

\* mqnotifysig1.c: the handler does everything; i is 1 once pause() is called,
\* and the program ends when a handler returns into it.  SIGUSR1 is blocked in
\* the handler; one that is pending when it returns runs it again at once.
Handle1 ==
  /\ receiver = "sig1"
  /\ \/ Go("running", "paused") /\ i' = 1 /\ UNCHANGED <<pending, queue>>
     \/ /\ pc \in {"running", "paused"} /\ pending /\ pending' = FALSE
        /\ pc' = "notify1" /\ UNCHANGED <<i, queue>>
     \/ Go("notify1", "receive1") /\ registered' = TRUE /\ UNCHANGED <<i, pending, qlen, blocked>>
     \/ Go("receive1", "received") /\ qlen > 0 /\ qlen' = qlen - 1 /\ UNCHANGED <<i, pending, registered, blocked>>
     \/ Go("receive1", "receiving") /\ qlen = 0 /\ blocked' = blocked \cup {"main"}
        /\ UNCHANGED <<i, pending, qlen, registered>>
     \/ /\ Go("received", IF pending THEN "notify1" ELSE IF i = 1 THEN "done" ELSE "running")
        /\ pending' = FALSE /\ registered' = (registered /\ pc' # "done") /\ UNCHANGED <<i, qlen, blocked>>
  /\ UNCHANGED <<receiver, mqflag, pipefd, starting, draining, taker, sends, clean>>

\* mqnotifythread.c: each notification starts a thread, which registers again
\* and reads until EAGAIN, perhaps next to an earlier one; main() only pauses.
NotifyThread ==
  /\ \/ starting > 0 /\ starting' = starting - 1 /\ draining' = draining + 1 /\ registered' = TRUE /\ UNCHANGED qlen
     \/ draining > 0 /\ qlen > 0 /\ qlen' = qlen - 1 /\ UNCHANGED <<starting, draining, registered>>
     \/ draining > 0 /\ qlen = 0 /\ draining' = draining - 1 /\ UNCHANGED <<starting, qlen, registered>>
  /\ UNCHANGED <<receiver, blocked, pending, mqflag, pipefd, pc, i, taker, sends, clean>>

\* The programs.
Sig1 == receiver = "sig1" /\ (Register \/ Handle1)
Sig2 == receiver = "sig2" /\ (Register \/ Handler \/ AwaitFlag \/ Renotify \/ ReceiveMessage)
Sig3 == receiver = "sig3" /\ (Register \/ Handler \/ AwaitFlag \/ Renotify \/ Drain)
Sig4 == receiver = "sig4" /\ (Register \/ AwaitSignal \/ Renotify \/ Drain)
Sig5 == receiver = "sig5" /\ (Register \/ Handler \/ AwaitPipe \/ Renotify \/ Drain)
Thread == receiver = "thread" /\ (Register \/ NotifyThread)

Init ==
  /\ receiver \in {"sig1", "sig2", "sig3", "sig4", "sig5", "thread"}
  /\ qlen = 0 /\ registered = FALSE /\ blocked = {}
  /\ pending = FALSE /\ mqflag = FALSE /\ pipefd = 0 /\ pc = "register" /\ i = 0
  /\ starting = 0 /\ draining = 0
  /\ taker = [t \in Takers |-> "idle"] /\ sends = 0 /\ clean = TRUE

Next ==
  \/ Send \/ (\E t \in Takers : Take(t))
  \/ Sig1 \/ Sig2 \/ Sig3 \/ Sig4 \/ Sig5 \/ Thread

-----------------------------------------------------------------------------
\* A receiver that waits, with no notification on its way to it.
Asleep ==
  /\ pc \in {"test", "wait", "select", "paused"}
  /\ ~pending /\ ~mqflag /\ pipefd = 0 /\ starting = 0 /\ draining = 0

\* The receivers that read until EAGAIN never sleep while there is a message,
\* provided that the queue was empty when they first registered: they are
\* registered, and the queue is empty.
NeverSleepsOnMessage ==
  receiver \in {"sig3", "sig4", "sig5", "thread"} /\ clean /\ Asleep => registered /\ qlen = 0

\* mq_notify is only called when nobody is registered, so it does not fail with
\* EBUSY (an error exit in 1.c, 2.c and 4.c, a lost registration in the others).
RegistersWhenFree ==
  pc \in {"register", "notify", "notify1"} \/ starting > 0 => ~registered /\ starting <= 1
=============================================================================
