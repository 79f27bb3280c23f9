--------------------------- MODULE MessagesProofs ----------------------------
(***************************************************************************)
(* Proofs about the programs of MCMessages, for any numbers of processes,  *)
(* messages and objects.                                                   *)
(***************************************************************************)
EXTENDS MCMessages, ProdConsLemmas

-----------------------------------------------------------------------------
(* The receivers of pxmsg                                                  *)

Receivers == {"sig1", "sig2", "sig3", "sig4", "sig5", "thread"}
\* Those that read until EAGAIN.
Drainers == {"sig3", "sig4", "sig5", "thread"}
\* About to call mq_notify.
Registering == {"register", "notify", "notify1"}

NTypes ==
  /\ receiver \in Receivers /\ qlen \in Nat
  /\ registered \in BOOLEAN /\ pending \in BOOLEAN /\ mqflag \in BOOLEAN /\ clean \in BOOLEAN
  /\ iN \in Nat /\ pipefd \in Nat /\ starting \in Nat /\ draining \in Nat
  /\ blocked \subseteq Takers \cup {"main"}
  /\ "main" \in blocked => pcN = "receiving"

\* The notification that is on its way to the receiver: as a signal, as the
\* flag, in the pipe, as a thread that starts, or as the call of mq_notify that
\* is due.  At most one is, and none while the receiver is registered.
One(b) == IF b THEN 1 ELSE 0
Underway == One(pending) + One(mqflag) + pipefd + starting + One(pcN \in Registering)
NOneToken == Underway + One(registered) <= 1

\* A receiver that reads until EAGAIN is registered or notified, and unless it
\* is reading, or missed the start, the queue is empty or it is notified.
NAwake ==
  receiver \in Drainers /\ pcN # "done" =>
    /\ registered \/ Underway > 0
    /\ clean => qlen = 0 \/ Underway > 0 \/ pcN = "receive" \/ draining > 0

NInv == NTypes /\ NOneToken /\ NAwake

\* The invariant contains the property.
LEMMA NInvAwake == NInv => NeverSleepsOnMessage
<1> SUFFICES ASSUME NInv PROVE N!NeverSleepsOnMessage /\ N!RegistersWhenFree
  BY DEF NeverSleepsOnMessage
<1>1. NTypes /\ Underway \in Nat BY DEF NInv, NTypes, Underway, One
<1>2. ASSUME receiver \in Drainers, clean, N!Asleep PROVE registered /\ qlen = 0
  <2>1. Underway = 0 /\ pcN \notin {"done", "receive"} /\ draining = 0
    BY <1>1, <1>2 DEF N!Asleep, Underway, One, Registering
  <2> QED BY <1>2, <2>1 DEF NInv, NAwake
<1>3. ASSUME pcN \in Registering \/ starting > 0 PROVE ~registered /\ starting <= 1
  <2>1. Underway > 0 /\ starting <= Underway BY <1>1, <1>3 DEF NTypes, Underway, One
  <2> QED BY <1>1, <2>1 DEF NInv, NOneToken, NTypes, One
<1> QED BY <1>2, <1>3 DEF N!NeverSleepsOnMessage, N!RegistersWhenFree, Drainers, Registering

\* The receiver has not registered yet.
LEMMA NInitInv == N!Init => NInv
<1> SUFFICES ASSUME N!Init PROVE NInv OBVIOUS
<1>1. NTypes BY DEF N!Init, NTypes, Receivers
<1>2. Underway = 1
  <2>1. One(pending) = 0 /\ One(mqflag) = 0 /\ One(pcN \in Registering) = 1 BY DEF N!Init, One, Registering
  <2> QED BY <2>1 DEF N!Init, Underway
<1>3. One(registered) = 0 BY DEF N!Init, One
<1> QED BY <1>1, <1>2, <1>3 DEF NInv, NOneToken, NAwake

\* mq_send preserves the invariant: it notifies the registered receiver.
LEMMA NSendStep == ASSUME NInv, N!Send PROVE NInv'
<1> USE NotifyAssumption
<1>0. NTypes BY DEF NInv
<1>1. UNCHANGED <<receiver, mqflag, pipefd, iN, draining, clean>> BY DEF N!Send
<1>2. CASE blocked # {}
  <2>1. /\ UNCHANGED <<qlen, registered, pending, starting>> /\ blocked' \subseteq blocked
        /\ \/ pcN' = pcN
           \/ pcN = "receiving" /\ pcN' = "received" /\ "main" \notin blocked'
    <3>1. PICK r \in blocked :
            /\ blocked' = blocked \ {r} /\ pcN' = IF r \in Takers THEN pcN ELSE "received"
            /\ UNCHANGED <<qlen, registered, pending, starting>>
      BY <1>2 DEF N!Send
    <3>2. r \notin Takers => r = "main" BY <1>0 DEF NTypes
    <3> QED BY <1>0, <3>1, <3>2 DEF NTypes
  <2>2. NTypes' BY <1>0, <1>1, <2>1 DEF NTypes
  <2>3. Underway' = Underway BY <1>1, <2>1 DEF Underway, One, Registering
  <2> QED BY <1>1, <2>1, <2>2, <2>3 DEF NInv, NOneToken, NAwake
<1>3. CASE blocked = {}
  <2>1. /\ qlen' = qlen + 1 /\ UNCHANGED <<blocked, pcN>>
        /\ registered' = (registered /\ qlen # 0)
        /\ pending' = (pending \/ (registered /\ qlen = 0 /\ receiver # "thread"))
        /\ starting' = IF registered /\ qlen = 0 /\ receiver = "thread" THEN starting + 1 ELSE starting
    BY <1>3 DEF N!Send
  <2>2. NTypes' BY <1>0, <1>1, <2>1 DEF NTypes
  <2>3. CASE registered /\ qlen = 0
    <3>1. ~registered' BY <2>1, <2>3
    <3>2. Underway = 0 /\ pending = FALSE BY <1>0, <2>3 DEF NInv, NOneToken, Underway, NTypes, One
    <3>3. Underway' = 1
      <4>1. CASE receiver = "thread"
        <5>1. pending' = FALSE /\ starting' = starting + 1 BY <2>1, <2>3, <3>2, <4>1
        <5> QED BY <1>0, <1>1, <2>1, <3>2, <5>1 DEF Underway, One, NTypes
      <4>2. CASE receiver # "thread"
        <5>1. pending' = TRUE /\ starting' = starting BY <2>1, <2>3, <4>2
        <5> QED BY <1>0, <1>1, <2>1, <3>2, <5>1 DEF Underway, One, NTypes
      <4> QED BY <4>1, <4>2
    <3> QED BY <2>2, <3>1, <3>3 DEF NInv, NOneToken, NAwake, One
  <2>4. CASE ~(registered /\ qlen = 0)
    <3>1. registered' = registered /\ pending' = pending /\ starting' = starting
      <4>1. registered' <=> registered BY <2>1, <2>4
      <4>2. pending' <=> pending BY <2>1, <2>4
      <4> QED BY <1>0, <2>1, <2>2, <2>4, <4>1, <4>2 DEF NTypes
    <3>2. Underway' = Underway BY <1>1, <2>1, <3>1 DEF Underway
    <3> QED BY <1>0, <1>1, <2>1, <2>2, <2>4, <3>1, <3>2 DEF NInv, NOneToken, NAwake, NTypes
  <2> QED BY <2>3, <2>4
<1> QED BY <1>2, <1>3

\* mqreceive.c preserves the invariant.
LEMMA NTakeStep == ASSUME NInv, NEW t \in Takers, N!Take(t) PROVE NInv'
<1> USE NotifyAssumption
<1>1. UNCHANGED <<receiver, registered, pending, mqflag, pipefd, pcN, iN, starting, draining, clean>>
  BY DEF N!Take, N!proc
<1>2. /\ qlen' = qlen \/ (qlen > 0 /\ qlen' = qlen - 1)
      /\ blocked' = blocked \/ blocked' = blocked \cup {t}
  <2>1. \/ qlen > 0 /\ qlen' = qlen - 1 /\ UNCHANGED blocked
        \/ UNCHANGED <<qlen, blocked>>
        \/ blocked' = blocked \cup {t} /\ UNCHANGED qlen
    BY DEF N!Take
  <2> QED BY <2>1
<1>3. NTypes /\ t # "main" BY DEF NInv
<1>4. NTypes' BY <1>1, <1>2, <1>3 DEF NTypes
<1>5. Underway' = Underway BY <1>1 DEF Underway
<1>6. qlen = 0 => qlen' = 0 BY <1>2, <1>3 DEF NTypes
<1> QED BY <1>1, <1>4, <1>5, <1>6 DEF NInv, NOneToken, NAwake

\* What the end of a round does.
LEMMA NRoundEnds ==
  ASSUME NTypes, N!NextRound
  PROVE  \/ pcN' = "done" /\ registered' = FALSE
         \/ pcN' \in {"block", "wait", "select"} /\ registered' = registered
<1>0. iN \in Nat /\ Rounds \in Nat /\ registered \in BOOLEAN BY NotifyAssumption DEF NTypes
<1>1. registered' = (registered /\ iN + 1 < Rounds) BY DEF N!NextRound
<1>2. CASE iN + 1 >= Rounds
  <2>1. pcN' = "done" BY <1>2 DEF N!NextRound
  <2>2. ~(iN + 1 < Rounds) BY <1>0, <1>2
  <2> QED BY <1>1, <2>1, <2>2
<1>3. CASE ~(iN + 1 >= Rounds)
  <2>1. pcN' \in {"block", "wait", "select"} BY <1>3 DEF N!NextRound
  <2>2. iN + 1 < Rounds BY <1>0, <1>3
  <2>3. registered' <=> registered BY <1>1, <2>2
  <2> QED BY <1>0, <1>1, <2>1, <2>2, <2>3
<1> QED BY <1>2, <1>3

\* mq_notify preserves the invariant, whoever calls it: the call that was due
\* becomes the registration.
LEMMA NRegisterStep ==
  ASSUME NInv, pcN \in Registering, pcN' \notin Registering, NTypes', pcN' # "done",
         registered' = TRUE, UNCHANGED <<receiver, pending, mqflag, pipefd, starting>>,
         clean' => qlen' = 0 \/ pcN' = "receive" \/ receiver \notin Drainers
  PROVE  NInv'
<1>1. Underway = 1 + Underway' BY DEF NInv, NTypes, Underway, One
<1>2. Underway \in Nat /\ Underway' \in Nat BY DEF NInv, NTypes, Underway, One
<1>3. One(registered) \in Nat /\ One(registered)' = 1 BY DEF NInv, NTypes, One
<1>4. One(registered) + Underway <= 1 BY <1>2, <1>3 DEF NInv, NOneToken
<1>5. Underway' = 0 BY <1>1, <1>2, <1>3, <1>4
<1>6. NOneToken' BY <1>3, <1>5 DEF NOneToken
<1>7. NAwake' BY DEF NAwake
<1> QED BY <1>6, <1>7 DEF NInv

\* A notification that only changes its form preserves the invariant.
LEMMA NTokenStep ==
  ASSUME NInv, NTypes', Underway' = Underway,
         UNCHANGED <<receiver, registered, qlen, clean, draining>>,
         receiver \in Drainers => pcN # "done" /\ (pcN' = "receive" <=> pcN = "receive")
  PROVE  NInv'
BY DEF NInv, NOneToken, NAwake

\* The steps of the receivers that wait for a signal preserve the invariant.
LEMMA NSignalStep ==
  ASSUME NInv, N!Register \/ N!Handler \/ N!AwaitFlag \/ N!AwaitSignal \/ N!AwaitPipe \/ N!Renotify
  PROVE  NInv'
<1> USE NotifyAssumption
<1>0. NTypes BY DEF NInv
<1>1. CASE N!Register
  <2>1. /\ pcN = "register" /\ pcN' \in {"block", "wait", "select", "running", "paused"}
        /\ registered' = TRUE /\ clean' = (qlen = 0)
        /\ UNCHANGED <<receiver, qlen, blocked, pending, mqflag, pipefd, iN, starting, draining>>
    BY <1>0, <1>1 DEF N!Register, N!Go, N!Flagged, NTypes, Receivers
  <2>2. clean' \in BOOLEAN /\ (clean' => qlen' = 0) BY <2>1
  <2>3. NTypes' BY <1>0, <2>1, <2>2 DEF NTypes
  <2> QED BY <2>1, <2>2, <2>3, NRegisterStep DEF Registering
<1>2. CASE N!Renotify
  <2>1. /\ pcN = "notify" /\ pcN' = "receive" /\ registered' = TRUE
        /\ UNCHANGED <<receiver, qlen, blocked, pending, mqflag, pipefd, iN, starting, draining, clean>>
    BY <1>2 DEF N!Renotify, N!Go
  <2>3. NTypes' BY <1>0, <2>1 DEF NTypes
  <2> QED BY <2>1, <2>3, NRegisterStep DEF Registering
<1>3. CASE N!Handler
  <2>1. /\ pending = TRUE /\ pending' = FALSE
        /\ UNCHANGED <<receiver, qlen, registered, blocked, pcN, iN, starting, draining, clean>>
        /\ \/ mqflag' = TRUE /\ UNCHANGED pipefd
           \/ pipefd' = pipefd + 1 /\ UNCHANGED mqflag
    BY <1>0, <1>3 DEF N!Handler, N!queue, NTypes
  <2>2. pcN # "done" BY <1>3 DEF N!Handler
  <2>3. mqflag = FALSE
    <3>1. One(pending) = 1 BY <2>1 DEF One
    <3>2. One(mqflag) = 0
      <4>1. /\ One(mqflag) \in {0, 1} /\ pipefd \in Nat /\ starting \in Nat
            /\ One(pcN \in Registering) \in {0, 1} /\ One(registered) \in {0, 1}
        BY <1>0 DEF NTypes, One
      <4> QED BY <3>1, <4>1 DEF NInv, NOneToken, Underway
    <3> QED BY <1>0, <3>2 DEF NTypes, One
  <2>4. NTypes'
    <3>1. pipefd' \in Nat BY <1>0, <2>1 DEF NTypes
    <3>2. pending' \in BOOLEAN /\ mqflag' \in BOOLEAN BY <1>0, <2>1, Zenon DEF NTypes
    <3> QED BY <1>0, <2>1, <3>1, <3>2 DEF NTypes
  <2>5. Underway' = Underway
    <3>1. One(pending) = 1 /\ One(pending)' = 0 /\ One(mqflag) = 0 BY <2>1, <2>3 DEF One
    <3>2. One(pcN \in Registering) \in Nat BY DEF One
    <3>3. CASE mqflag' = TRUE /\ UNCHANGED pipefd
      <4>1. One(mqflag)' = 1 BY <3>3 DEF One
      <4> QED BY <1>0, <2>1, <3>1, <3>2, <3>3, <4>1 DEF Underway, NTypes
    <3>4. CASE pipefd' = pipefd + 1 /\ UNCHANGED mqflag
      <4>1. One(mqflag)' = 0 BY <3>1, <3>4 DEF One
      <4> QED BY <1>0, <2>1, <3>1, <3>2, <3>4, <4>1 DEF Underway, NTypes
    <3> QED BY <2>1, <3>3, <3>4
  <2> QED BY <2>1, <2>2, <2>4, <2>5, NTokenStep
<1>4. CASE N!AwaitFlag \/ N!AwaitSignal \/ N!AwaitPipe
  <2>0. UNCHANGED <<receiver, qlen, registered, blocked, iN, starting, draining, clean>>
    BY <1>4 DEF N!AwaitFlag, N!AwaitSignal, N!AwaitPipe, N!queue
  <2>1. \/ pcN = "block" /\ pcN' = "test" /\ UNCHANGED <<pending, mqflag, pipefd>>
        \/ pcN = "test" /\ pcN' = "notify" /\ mqflag /\ mqflag' = FALSE /\ UNCHANGED <<pending, pipefd>>
        \/ pcN = "wait" /\ pcN' = "notify" /\ pending /\ pending' = FALSE /\ UNCHANGED <<mqflag, pipefd>>
        \/ pcN = "select" /\ pcN' = "notify" /\ pipefd > 0 /\ pipefd' = pipefd - 1 /\ UNCHANGED <<pending, mqflag>>
    BY <1>4 DEF N!AwaitFlag, N!AwaitSignal, N!AwaitPipe, N!Go
  <2>2. NTypes'
    <3>1. pending' \in BOOLEAN /\ mqflag' \in BOOLEAN BY <1>0, <2>1, Zenon DEF NTypes
    <3>2. pipefd' \in Nat BY <1>0, <2>1 DEF NTypes
    <3>3. "main" \notin blocked BY <1>0, <2>1 DEF NTypes
    <3> QED BY <1>0, <2>0, <3>1, <3>2, <3>3 DEF NTypes
  <2>3. Underway' = Underway
    <3>1. /\ One(mqflag) = (IF mqflag THEN 1 ELSE 0) /\ One(pending) = (IF pending THEN 1 ELSE 0)
          /\ One(mqflag)' = (IF mqflag' THEN 1 ELSE 0) /\ One(pending)' = (IF pending' THEN 1 ELSE 0)
          /\ One(pcN \in Registering) = 0 /\ One(pcN \in Registering)' = (IF pcN' = "notify" THEN 1 ELSE 0)
      BY <2>1 DEF One, Registering
    <3> QED BY <1>0, <2>0, <2>1, <3>1 DEF Underway, NTypes
  <2>4. pcN \notin {"done", "receive"} /\ pcN' # "receive" BY <2>1
  <2> QED BY <2>0, <2>2, <2>3, <2>4, NTokenStep
<1> QED BY <1>1, <1>2, <1>3, <1>4

\* Reading, and the end of a round, preserve the invariant.
LEMMA NReadStep == ASSUME NInv, N!ReceiveMessage \/ N!Drain PROVE NInv'
<1> USE NotifyAssumption
<1>0. NTypes BY DEF NInv
<1>1. UNCHANGED <<receiver, pending, mqflag, pipefd, starting, draining, clean>>
  BY DEF N!ReceiveMessage, N!Drain, N!rest
<1>2. \/ N!NextRound
      \/ UNCHANGED <<registered, iN>> /\ pcN' \in {"receive", "receiving"}
  BY DEF N!ReceiveMessage, N!Drain, N!Go
<1>3. pcN \in {"receive", "received"} BY DEF N!ReceiveMessage, N!Drain, N!Go
<1>4. \/ pcN' = "done" /\ registered' = FALSE
      \/ pcN' \in {"block", "wait", "select", "receive", "receiving"} /\ registered' = registered
  BY <1>0, <1>2, NRoundEnds
<1>5. NTypes'
  <2>1. iN' \in Nat BY <1>0, <1>2 DEF NTypes, N!NextRound
  <2>2. registered' \in BOOLEAN BY <1>0, <1>4, Zenon DEF NTypes
  <2>3. qlen' \in Nat BY <1>0 DEF NTypes, N!ReceiveMessage, N!Drain
  <2>4. "main" \notin blocked BY <1>0, <1>3 DEF NTypes
  <2>5. /\ blocked' \subseteq Takers \cup {"main"}
        /\ "main" \in blocked' => pcN' = "receiving"
    BY <1>0, <2>4 DEF NTypes, N!ReceiveMessage, N!Drain, N!Go
  <2> QED BY <1>0, <1>1, <2>1, <2>2, <2>3, <2>5 DEF NTypes
<1>6. Underway' = Underway /\ Underway \in Nat
  <2>1. One(pcN \in Registering) = 0 /\ One(pcN \in Registering)' = 0 BY <1>3, <1>4 DEF One, Registering
  <2> QED BY <1>0, <1>1, <2>1 DEF Underway, One, NTypes
<1>7. NOneToken'
  <2>1. One(registered) \in Nat /\ One(registered)' \in Nat /\ One(registered)' <= One(registered)
    BY <1>0, <1>4 DEF One, NTypes
  <2> QED BY <1>6, <2>1 DEF NInv, NOneToken
<1>8. CASE N!ReceiveMessage
  <2>1. receiver' \notin Drainers BY <1>1, <1>8 DEF N!ReceiveMessage, Drainers
  <2> QED BY <1>5, <1>7, <2>1 DEF NInv, NAwake
<1>9. CASE N!Drain
  <2>1. pcN' = "receive" \/ qlen' = 0
    BY <1>9 DEF N!Drain
  <2>2. pcN' # "done" => registered' = registered BY <1>4
  <2> QED BY <1>1, <1>3, <1>5, <1>6, <1>7, <2>1, <2>2 DEF NInv, NAwake
<1> QED BY <1>8, <1>9

\* The handler of mqnotifysig1.c preserves the invariant.
LEMMA NHandle1Step == ASSUME NInv, N!Handle1 PROVE NInv'
<1> USE NotifyAssumption
<1>0. NTypes BY DEF NInv
<1>1. UNCHANGED <<receiver, mqflag, pipefd, starting, draining, clean>> /\ receiver = "sig1"
  BY DEF N!Handle1
<1>2. \/ pcN = "running" /\ pcN' = "paused" /\ UNCHANGED <<pending, registered, blocked>>
      \/ /\ pcN \in {"running", "paused", "received"} /\ pcN' = "notify1" /\ pending /\ pending' = FALSE
         /\ UNCHANGED <<registered, blocked>>
      \/ pcN = "notify1" /\ pcN' = "receive1" /\ registered' = TRUE /\ UNCHANGED <<pending, blocked>>
      \/ pcN = "receive1" /\ pcN' = "received" /\ UNCHANGED <<pending, registered, blocked>>
      \/ /\ pcN = "receive1" /\ pcN' = "receiving" /\ blocked' = blocked \cup {"main"}
         /\ UNCHANGED <<pending, registered>>
      \/ /\ pcN = "received" /\ pcN' \in {"done", "running"} /\ registered' = (registered /\ pcN' # "done")
         /\ UNCHANGED <<pending, blocked>>
  <2>1. registered \in BOOLEAN /\ pending \in BOOLEAN BY <1>0 DEF NTypes
  <2>2. CASE pcN = "received"
    <3>1. /\ pcN' = (IF pending THEN "notify1" ELSE IF iN = 1 THEN "done" ELSE "running")
          /\ pending' = FALSE /\ registered' = (registered /\ pcN' # "done") /\ UNCHANGED blocked
      BY <2>2 DEF N!Handle1, N!Go
    <3>2. CASE pending
      <4>1. pcN' = "notify1" BY <3>1, <3>2
      <4>2. registered' = registered BY <2>1, <3>1, <4>1
      <4> QED BY <2>2, <3>1, <3>2, <4>1, <4>2
    <3>3. CASE ~pending
      <4>1. pcN' \in {"done", "running"} BY <3>1, <3>3
      <4>2. pending' = pending BY <2>1, <3>1, <3>3
      <4> QED BY <2>2, <3>1, <4>1, <4>2
    <3> QED BY <3>2, <3>3
  <2>3. CASE pcN # "received" BY <2>3 DEF N!Handle1, N!Go, N!queue
  <2> QED BY <2>2, <2>3
<1>3. NTypes'
  <2>1. iN' \in Nat BY <1>0 DEF NTypes, N!Handle1
  <2>2. registered' \in BOOLEAN /\ pending' \in BOOLEAN BY <1>0, <1>2, Zenon DEF NTypes
  <2>3. qlen' \in Nat BY <1>0 DEF NTypes, N!Handle1, N!queue
  <2>4. "main" \notin blocked BY <1>0, <1>2 DEF NTypes
  <2>5. /\ blocked' \subseteq Takers \cup {"main"}
        /\ "main" \in blocked' => pcN' = "receiving"
    BY <1>0, <1>2, <2>4 DEF NTypes
  <2> QED BY <1>0, <1>1, <2>1, <2>2, <2>3, <2>5 DEF NTypes
<1>4. NOneToken'
  <2>1. Underway' + One(registered)' <= Underway + One(registered)
    <3>1. /\ One(pending) = (IF pending THEN 1 ELSE 0) /\ One(pending)' = (IF pending' THEN 1 ELSE 0)
          /\ One(registered) = (IF registered THEN 1 ELSE 0) /\ One(registered)' = (IF registered' THEN 1 ELSE 0)
      BY DEF One
    <3>2. /\ One(pcN \in Registering) = (IF pcN = "notify1" THEN 1 ELSE 0)
          /\ One(pcN \in Registering)' = (IF pcN' = "notify1" THEN 1 ELSE 0)
      BY <1>2 DEF One, Registering
    <3>3. One(mqflag)' = One(mqflag) /\ One(mqflag) \in Nat BY <1>1 DEF One
    <3> DEFINE a == One(pending) + One(pcN \in Registering) + One(registered)
               b == One(mqflag) + pipefd + starting
    <3>4. a' <= a /\ a \in Nat /\ a' \in Nat
      <4>1. CASE pcN = "notify1"
        <5>1. registered = FALSE
          <6>1. One(pcN \in Registering) = 1 /\ One(pending) \in Nat BY <3>1, <3>2, <4>1
          <6>2. Underway >= 1 BY <1>0, <3>3, <6>1 DEF Underway, NTypes
          <6>3. Underway \in Nat BY <1>0, <3>3, <6>1 DEF Underway, NTypes
          <6> QED BY <1>0, <3>1, <6>2, <6>3 DEF NInv, NOneToken, NTypes
        <5> QED BY <1>2, <3>1, <3>2, <4>1, <5>1
      <4>2. CASE pcN # "notify1"
        <5>1. registered' => registered BY <1>2, <4>2, Zenon
        <5>2. One(registered)' <= One(registered) /\ One(registered) \in {0, 1} /\ One(registered)' \in {0, 1}
          BY <3>1, <5>1
        <5>3. \/ pending /\ ~pending' /\ pcN' = "notify1"
              \/ (pending' <=> pending) /\ pcN' # "notify1"
          BY <1>2, <4>2
        <5>4. One(pending)' + One(pcN \in Registering)' = One(pending) + One(pcN \in Registering)
          BY <3>1, <3>2, <4>2, <5>3
        <5>5. /\ One(pending) \in {0, 1} /\ One(pending)' \in {0, 1}
              /\ One(pcN \in Registering) \in {0, 1} /\ One(pcN \in Registering)' \in {0, 1}
          BY <3>1, <3>2
        <5> QED BY <5>2, <5>4, <5>5
      <4> QED BY <4>1, <4>2
    <3>5. b' = b /\ b \in Nat BY <1>0, <1>1, <3>3 DEF NTypes
    <3>6. Underway + One(registered) = a + b BY <1>0, <3>1, <3>2, <3>3 DEF Underway, NTypes
    <3>7. Underway' + One(registered)' = a' + b' BY <1>3, <3>1, <3>2, <3>3 DEF Underway, NTypes
    <3> HIDE DEF a, b
    <3> QED BY <3>4, <3>5, <3>6, <3>7
  <2>2. /\ Underway + One(registered) \in Nat /\ Underway' + One(registered)' \in Nat
    <3>1. /\ \A b \in BOOLEAN : One(b) \in Nat
          /\ One(pcN \in Registering) \in Nat /\ One(pcN' \in Registering) \in Nat
      BY DEF One
    <3>2. Underway \in Nat BY <1>0, <3>1 DEF NTypes, Underway
    <3>3. Underway' \in Nat BY <1>3, <3>1 DEF NTypes, Underway
    <3>4. One(registered) \in Nat /\ One(registered)' \in Nat BY DEF One
    <3> QED BY <3>2, <3>3, <3>4
  <2> QED BY <2>1, <2>2 DEF NInv, NOneToken
<1> QED BY <1>1, <1>3, <1>4 DEF NInv, NAwake, Drainers

\* The threads of mqnotifythread.c preserve the invariant.
LEMMA NThreadStep == ASSUME NInv, N!NotifyThread PROVE NInv'
<1>0. NTypes BY DEF NInv
<1>1. UNCHANGED <<receiver, blocked, pending, mqflag, pipefd, pcN, iN, clean>>
  BY DEF N!NotifyThread
<1>2. CASE starting > 0 /\ starting' = starting - 1 /\ draining' = draining + 1 /\ registered' = TRUE /\ UNCHANGED qlen
  <2>1. NTypes' BY <1>0, <1>1, <1>2 DEF NTypes
  <2>2. Underway = 1 + Underway'
    <3>1. One(mqflag) \in Nat /\ One(pending) \in Nat /\ One(pcN \in Registering) \in Nat BY DEF One
    <3> QED BY <1>0, <1>1, <1>2, <3>1 DEF NTypes, Underway
  <2>3. Underway \in Nat /\ Underway' \in Nat
    <3>1. One(mqflag) \in Nat /\ One(pending) \in Nat /\ One(pcN \in Registering) \in Nat BY DEF One
    <3>2. Underway \in Nat BY <1>0, <3>1 DEF NTypes, Underway
    <3>3. starting' \in Nat BY <2>1 DEF NTypes
    <3> QED BY <1>0, <1>1, <3>1, <3>2, <3>3 DEF NTypes, Underway
  <2>4. One(registered) \in Nat /\ One(registered)' = 1 BY <1>2 DEF One
  <2>5. Underway' = 0 BY <2>2, <2>3, <2>4 DEF NInv, NOneToken
  <2>6. NOneToken' BY <2>4, <2>5 DEF NOneToken
  <2>7. draining' > 0 BY <1>0, <1>2 DEF NTypes
  <2> QED BY <1>2, <2>1, <2>6, <2>7 DEF NInv, NAwake
<1>3. CASE draining > 0 /\ qlen > 0 /\ qlen' = qlen - 1 /\ UNCHANGED <<starting, draining, registered>>
  <2>1. NTypes' BY <1>0, <1>1, <1>3 DEF NTypes
  <2>2. Underway' = Underway BY <1>1, <1>3 DEF Underway
  <2> QED BY <1>1, <1>3, <2>1, <2>2 DEF NInv, NOneToken, NAwake
<1>4. CASE draining > 0 /\ qlen = 0 /\ draining' = draining - 1 /\ UNCHANGED <<starting, qlen, registered>>
  <2>1. NTypes' BY <1>0, <1>1, <1>4 DEF NTypes
  <2>2. Underway' = Underway BY <1>1, <1>4 DEF Underway
  <2> QED BY <1>1, <1>4, <2>1, <2>2 DEF NInv, NOneToken, NAwake
<1> QED BY <1>2, <1>3, <1>4 DEF N!NotifyThread

\* A step of the run is a step of the queue and its users or leaves them alone.
LEMMA NStep == ASSUME NInv, [Next]_vars PROVE NInv'
<1>1. CASE UNCHANGED varsN
  BY <1>1 DEF varsN, NInv, NTypes, NOneToken, NAwake, Underway
<1>2. CASE N!Next
  BY <1>2, NSendStep, NTakeStep, NSignalStep, NReadStep, NHandle1Step, NThreadStep
  DEF N!Next, N!Sig1, N!Sig2, N!Sig3, N!Sig4, N!Sig5, N!Thread
<1> QED BY <1>1, <1>2 DEF Next, InN, InP, InF, InM, InX, InV, vars

\* Whatever is sent and taken, a receiver that reads until EAGAIN never sleeps
\* on a message and none registers twice.
THEOREM ReceiversAwake == Spec => []NeverSleepsOnMessage
<1>1. Init => NInv BY NInitInv DEF Init
<1>2. NInv /\ [Next]_vars => NInv' BY NStep
<1> QED BY <1>1, <1>2, NInvAwake, PTL DEF Spec

-----------------------------------------------------------------------------
(* The System V tools                                                      *)

SemTools == {"semcreate", "semsetvalues", "semgetvalues", "semops", "semrmid"}
ShmTools == {"shmget", "shmread", "shmwrite", "shmrmid"}
MsgTools == {"msgcreate", "msgsnd", "msgrcv", "msgrmid"}
CommandLines == [excl : BOOLEAN, n : Int, list : Seq(Int)]

VTypes ==
  /\ kindV \in {"sem", "shm", "msg"} /\ runsV \in 0..SysvRuns /\ madeV \in Nat /\ key \in 0..madeV
  /\ size \in [V!Ids -> Nat] /\ values \in [V!Ids -> Seq(Int)] /\ attached \in [V!Ids -> SUBSET Shells]
  /\ DOMAIN toolV = Shells /\ DOMAIN atV = Shells /\ DOMAIN hV = Shells
  /\ argV \in [Shells -> CommandLines] /\ seenV \in [Shells -> Nat]

\* Every shell runs a tool for the sort of object that there is.
Creators == {"semcreate", "shmget", "msgcreate"}
VTool(p) ==
  /\ kindV = "sem" => toolV[p] \in SemTools \cup {"shell"}
  /\ kindV = "shm" => toolV[p] \in ShmTools \cup {"shell"}
  /\ kindV = "msg" => toolV[p] \in MsgTools \cup {"shell"}
  /\ toolV[p] \in Creators => argV[p].n >= 0

\* A tool makes at most one object, so that there is an identifier for it.
Creating == {p \in Shells : toolV[p] \in Creators /\ atV[p] = "get"}
VCount == madeV + Cardinality(Creating) <= runsV

\* A set of semaphores has as many values as its size says.
VSizes == kindV = "sem" => \A o \in 1..madeV : Len(values[o]) = size[o]

\* An object with a key, or with a process attached to it, exists.
VAlive ==
  /\ key # 0 => key \in alive
  /\ \A o \in V!Ids : attached[o] # {} => o \in alive

\* What a tool knows of its object after the calls it has made.
VKnown(p) ==
  /\ toolV[p] = "shell" => atV[p] = "get"
  /\ toolV[p] # "shell" /\ atV[p] # "get" => hV[p] \in 1..madeV
  /\ toolV[p] # "shell" /\ atV[p] \in {"count", "set", "getall", "loop"} => seenV[p] = size[hV[p]]
  /\ V!At(p, "semsetvalues", "set") => Len(argV[p].list) = seenV[p]
  /\ toolV[p] \in {"shmread", "shmwrite"} /\ atV[p] \in {"stat", "loop"} => p \in attached[hV[p]]
  /\ toolV[p] = "shmget" /\ atV[p] = "end" => p \in attached[hV[p]]

VInv == VTypes /\ VCount /\ VSizes /\ VAlive /\ \A p \in Shells : VTool(p) /\ VKnown(p)

\* Identifiers that were given out are among all identifiers.
LEMMA VIds == ASSUME VInv PROVE madeV \in 0..SysvRuns /\ 1..madeV \subseteq V!Ids
<1>1. Creating \subseteq Shells BY DEF Creating
<1>2. IsFiniteSet(Creating) BY <1>1, ToolsAssumption, FS_Subset
<1>3. Cardinality(Creating) \in Nat BY <1>2, FS_CardinalityType
<1>4. madeV <= runsV /\ runsV <= SysvRuns /\ SysvRuns \in Nat
  BY <1>3, ToolsAssumption DEF VInv, VTypes, VCount
<1> QED BY <1>4 DEF VInv, VTypes, V!Ids

\* The invariant contains the property.
LEMMA VInvInside == VInv => StaysInside
<1> SUFFICES ASSUME VInv, NEW p \in Shells
             PROVE  /\ (V!At(p, "semgetvalues", "getall") \/ V!At(p, "semsetvalues", "set")) =>
                         seenV[p] = Len(values[hV[p]])
                    /\ (V!At(p, "shmread", "loop") \/ V!At(p, "shmwrite", "loop")) =>
                         ~V!Removed(p) /\ seenV[p] = size[hV[p]]
  BY DEF StaysInside, V!StaysInside
<1>1. VTool(p) /\ VKnown(p) BY DEF VInv
<1>2. ASSUME V!At(p, "semgetvalues", "getall") \/ V!At(p, "semsetvalues", "set")
      PROVE  seenV[p] = Len(values[hV[p]])
  <2>1. hV[p] \in 1..madeV /\ seenV[p] = size[hV[p]] BY <1>1, <1>2 DEF VKnown, V!At
  <2>2. kindV = "sem" BY <1>1, <1>2 DEF VTool, V!At, ShmTools, MsgTools, VInv, VTypes
  <2> QED BY <2>1, <2>2 DEF VInv, VSizes
<1>3. ASSUME V!At(p, "shmread", "loop") \/ V!At(p, "shmwrite", "loop")
      PROVE  ~V!Removed(p) /\ seenV[p] = size[hV[p]]
  <2>1. hV[p] \in 1..madeV /\ seenV[p] = size[hV[p]] /\ p \in attached[hV[p]]
    BY <1>1, <1>3 DEF VKnown, V!At
  <2>2. hV[p] \in V!Ids BY <2>1, VIds
  <2> QED BY <2>1, <2>2 DEF VInv, VAlive, V!Removed
<1> QED BY <1>2, <1>3

\* No tool has run yet.
LEMMA VInitInv == V!Init => VInv
<1> SUFFICES ASSUME V!Init PROVE VInv OBVIOUS
<1> USE ToolsAssumption
<1>1. VTypes
  <2>1. V!NoLine \in CommandLines BY DEF V!NoLine, V!Line, CommandLines
  <2> QED BY <2>1 DEF V!Init, VTypes, V!None
<1>2. VCount
  <2>1. Creating = {} BY DEF V!Init, Creating, Creators
  <2> QED BY <2>1, FS_EmptySet DEF V!Init, VCount
<1>3. VSizes /\ VAlive BY DEF V!Init, VSizes, VAlive, V!None
<1>4. \A p \in Shells : VTool(p) /\ VKnown(p) BY DEF V!Init, VTool, VKnown, V!At, Creators
<1> QED BY <1>1, <1>2, <1>3, <1>4 DEF VInv

\* Only the process of shell p goes on.
VProcess(p) ==
  /\ DOMAIN toolV' = Shells /\ DOMAIN atV' = Shells /\ DOMAIN hV' = Shells
  /\ argV' \in [Shells -> CommandLines] /\ seenV' \in [Shells -> Nat]
  /\ \A q \in Shells \ {p} :
       /\ toolV'[q] = toolV[q] /\ atV'[q] = atV[q] /\ hV'[q] = hV[q]
       /\ argV'[q] = argV[q] /\ seenV'[q] = seenV[q]

\* The process of shell p ends.
LEMMA VExited ==
  ASSUME VInv, NEW p \in Shells, V!Exit(p)
  PROVE  VProcess(p) /\ toolV'[p] = "shell" /\ atV'[p] = "get" /\ Creating' \subseteq Creating \ {p}
<1>1. V!NoLine \in CommandLines BY DEF V!NoLine, V!Line, CommandLines
<1>2. /\ toolV' = [toolV EXCEPT ![p] = "shell"] /\ atV' = [atV EXCEPT ![p] = "get"]
      /\ argV' = [argV EXCEPT ![p] = V!NoLine]
      /\ hV' = [hV EXCEPT ![p] = 0] /\ seenV' = [seenV EXCEPT ![p] = 0]
  BY DEF V!Exit, V!None
<1>3. VProcess(p) BY <1>1, <1>2 DEF VProcess, VInv, VTypes
<1>4. toolV'[p] = "shell" /\ atV'[p] = "get" BY <1>2 DEF VInv, VTypes
<1> QED BY <1>3, <1>4 DEF VProcess, Creating, Creators

\* The process of shell p goes on to its next call.
LEMMA VGone ==
  ASSUME VInv, NEW p \in Shells, NEW a, V!Goto(p, a), a # "get",
         DOMAIN hV' = Shells, seenV' \in [Shells -> Nat],
         \A q \in Shells \ {p} : hV'[q] = hV[q] /\ seenV'[q] = seenV[q]
  PROVE  /\ VProcess(p) /\ toolV'[p] = toolV[p] /\ atV'[p] = a /\ argV'[p] = argV[p]
         /\ Creating' \subseteq Creating \ {p}
<1>1. atV' = [atV EXCEPT ![p] = a] /\ UNCHANGED <<toolV, argV>> BY DEF V!Goto
<1>2. VProcess(p) BY <1>1 DEF VProcess, VInv, VTypes
<1>3. atV'[p] = a BY <1>1 DEF VInv, VTypes
<1> QED BY <1>1, <1>2, <1>3 DEF VProcess, Creating

\* A step of one process that keeps what the others rely on.
LEMMA VProcessStep ==
  ASSUME VInv, NEW p \in Shells, VProcess(p), VTypes', VCount', VSizes', VAlive',
         VTool(p)', VKnown(p)', kindV' = kindV, madeV <= madeV',
         \A o \in 1..madeV : size'[o] = size[o],
         \A o \in 1..madeV : \A q \in attached[o] : q # p => q \in attached'[o]
  PROVE  VInv'
<1>1. ASSUME NEW q \in Shells, q # p PROVE VTool(q)' /\ VKnown(q)'
  <2>1. /\ toolV'[q] = toolV[q] /\ atV'[q] = atV[q] /\ hV'[q] = hV[q]
        /\ argV'[q] = argV[q] /\ seenV'[q] = seenV[q]
    BY <1>1 DEF VProcess
  <2>2. VTool(q) /\ VKnown(q) BY DEF VInv
  <2>3. VTool(q)' BY <2>1, <2>2 DEF VTool
  <2>4. madeV \in Nat /\ madeV' \in Nat BY DEF VInv, VTypes
  <2>5. toolV[q] # "shell" /\ atV[q] # "get" =>
          /\ hV[q] \in 1..madeV /\ hV[q] \in 1..madeV' /\ size'[hV[q]] = size[hV[q]]
          /\ q \in attached[hV[q]] => q \in attached'[hV[q]]
    BY <1>1, <2>2, <2>4 DEF VKnown
  <2> QED BY <2>1, <2>2, <2>3, <2>5 DEF VKnown, V!At
<1> QED BY <1>1 DEF VInv

\* The count of creating tools after a step.
LEMMA VCounted ==
  ASSUME VInv, VTypes', NEW p \in Shells, runsV' = runsV,
         Creating' \subseteq Creating \ {p}, madeV' = madeV \/ (madeV' = madeV + 1 /\ p \in Creating)
  PROVE  VCount'
<1>1. Creating \subseteq Shells BY DEF Creating
<1>2. /\ Cardinality(Creating) \in Nat /\ Cardinality(Creating') \in Nat
      /\ Cardinality(Creating') <= Cardinality(Creating)
      /\ p \in Creating => Cardinality(Creating') + 1 <= Cardinality(Creating)
  BY <1>1, ToolsAssumption, CountChange
<1>3. madeV \in Nat /\ runsV \in Nat /\ madeV + Cardinality(Creating) <= runsV BY DEF VInv, VTypes, VCount
<1>4. madeV' + Cardinality(Creating') <= runsV BY <1>2, <1>3
<1> QED BY <1>4 DEF VCount

\* A step that leaves the objects alone.
LEMMA VQuietStep ==
  ASSUME VInv, NEW p \in Shells, VProcess(p), UNCHANGED <<kindV, runsV, V!object>>,
         Creating' \subseteq Creating \ {p}, VTool(p)', VKnown(p)'
  PROVE  VInv'
<1>1. UNCHANGED <<kindV, runsV, key, madeV, alive, size, values, attached>> BY DEF V!object
<1>2. VTypes' BY <1>1 DEF VInv, VTypes, VProcess
<1>3. VCount' BY <1>1, <1>2, VCounted
<1>4. VSizes' /\ VAlive' BY <1>1 DEF VInv, VSizes, VAlive
<1>5. madeV <= madeV' BY <1>1 DEF VInv, VTypes
<1> QED BY <1>1, <1>2, <1>3, <1>4, <1>5, VProcessStep

\* The end of a process, in success or failure.
LEMMA VExitStep ==
  ASSUME VInv, NEW p \in Shells, V!Exit(p), UNCHANGED <<kindV, runsV, V!object>> PROVE VInv'
<1>1. VProcess(p) /\ toolV'[p] = "shell" /\ atV'[p] = "get" /\ Creating' \subseteq Creating \ {p} BY VExited
<1>2. VTool(p)' /\ VKnown(p)' BY <1>1 DEF VTool, VKnown, V!At, Creators
<1> QED BY <1>1, <1>2, VQuietStep

\* semget(), shmget(), msgget() of an existing object.
LEMMA VGetStep ==
  ASSUME VInv, NEW p \in Shells, NEW t, NEW a \in {"stat", "rmid", "semop", "attach", "snd", "rcv"},
         V!Get(p, t, a), t # "shell", t \in {"shmread", "shmwrite"} => a # "stat", UNCHANGED <<kindV, runsV>>
  PROVE  VInv'
<1>1. CASE key = 0
  <2>1. V!Exit(p) BY <1>1 DEF V!Get, V!None
  <2> QED BY <2>1, VExitStep DEF V!Get
<1>2. CASE key # 0
  <2>1. V!Goto(p, a) /\ hV' = [hV EXCEPT ![p] = key] /\ UNCHANGED seenV BY <1>2 DEF V!Get, V!None
  <2>2. DOMAIN hV' = Shells /\ hV'[p] = key /\ \A q \in Shells \ {p} : hV'[q] = hV[q]
    BY <2>1 DEF VInv, VTypes
  <2>3. /\ VProcess(p) /\ toolV'[p] = toolV[p] /\ atV'[p] = a /\ argV'[p] = argV[p]
        /\ Creating' \subseteq Creating \ {p}
    <3>1. seenV' \in [Shells -> Nat] /\ \A q \in Shells \ {p} : hV'[q] = hV[q] /\ seenV'[q] = seenV[q]
      BY <2>1, <2>2 DEF VInv, VTypes
    <3> QED BY <2>1, <2>2, <3>1, VGone
  <2>4. UNCHANGED <<key, madeV>> /\ toolV[p] = t BY DEF V!Get, V!object, V!At
  <2>5. key \in 1..madeV BY <1>2 DEF VInv, VTypes
  <2>6. VTool(p)' BY <2>3 DEF VInv, VTool
  <2>7. VKnown(p)' BY <2>2, <2>3, <2>4, <2>5 DEF VKnown, V!At
  <2> QED BY <2>3, <2>6, <2>7, VQuietStep DEF V!Get
<1> QED BY <1>1, <1>2

\* IPC_STAT
LEMMA VStatStep ==
  ASSUME VInv, NEW p \in Shells, NEW t, NEW a \in {"count", "getall", "loop"}, t # "shell",
         V!Stat(p, t, a), UNCHANGED <<kindV, runsV>>
  PROVE  VInv'
<1>1. /\ V!Goto(p, a) /\ seenV' = [seenV EXCEPT ![p] = size[hV[p]]] /\ UNCHANGED hV
      /\ toolV[p] = t /\ atV[p] = "stat" /\ UNCHANGED V!object
  BY DEF V!Stat, V!At
<1>2. VTool(p) /\ VKnown(p) BY DEF VInv
<1>3. hV[p] \in 1..madeV /\ (t \in {"shmread", "shmwrite"} => p \in attached[hV[p]])
  BY <1>1, <1>2 DEF VKnown
<1>4. size[hV[p]] \in Nat BY <1>3, VIds DEF VInv, VTypes
<1>5. seenV' \in [Shells -> Nat] /\ seenV'[p] = size[hV[p]] /\ \A q \in Shells \ {p} : seenV'[q] = seenV[q]
  BY <1>1, <1>4 DEF VInv, VTypes
<1>6. /\ VProcess(p) /\ toolV'[p] = toolV[p] /\ atV'[p] = a /\ argV'[p] = argV[p]
      /\ Creating' \subseteq Creating \ {p}
  <2>1. DOMAIN hV' = Shells /\ \A q \in Shells \ {p} : hV'[q] = hV[q] /\ seenV'[q] = seenV[q]
    BY <1>1, <1>5 DEF VInv, VTypes
  <2> QED BY <1>1, <1>5, <2>1, VGone
<1>7. UNCHANGED <<madeV, size, attached, hV>> BY <1>1 DEF V!object
<1>8. VTool(p)' BY <1>2, <1>6 DEF VTool
<1>9. VKnown(p)' BY <1>1, <1>3, <1>5, <1>6, <1>7 DEF VKnown, V!At
<1> QED BY <1>1, <1>6, <1>8, <1>9, VQuietStep

\* A process that changes the contents of its object and ends.
LEMMA VValuesStep ==
  ASSUME VInv, NEW p \in Shells, V!Exit(p), UNCHANGED <<kindV, runsV, key, madeV, alive, size, attached>>,
         toolV[p] # "shell", atV[p] # "get", NEW v \in Seq(Int), values' = [values EXCEPT ![hV[p]] = v],
         kindV = "sem" => Len(v) = size[hV[p]]
  PROVE  VInv'
<1>1. VProcess(p) /\ toolV'[p] = "shell" /\ atV'[p] = "get" /\ Creating' \subseteq Creating \ {p} BY VExited
<1>2. VTool(p)' /\ VKnown(p)' BY <1>1 DEF VTool, VKnown, V!At, Creators
<1>3. hV[p] \in 1..madeV BY DEF VInv, VKnown
<1>4. /\ values' \in [V!Ids -> Seq(Int)] /\ values'[hV[p]] = v
      /\ \A o \in V!Ids : o # hV[p] => values'[o] = values[o]
  BY <1>3, VIds DEF VInv, VTypes
<1>5. VTypes' BY <1>1, <1>4 DEF VInv, VTypes, VProcess
<1>6. VCount' BY <1>1, <1>5, VCounted
<1>7. VSizes'
  <2> SUFFICES ASSUME kindV = "sem", NEW o \in 1..madeV PROVE Len(values'[o]) = size[o] BY DEF VSizes
  <2>1. o \in V!Ids BY VIds
  <2> QED BY <1>4, <2>1 DEF VInv, VSizes
<1>8. VAlive' BY DEF VInv, VAlive
<1>9. madeV <= madeV' BY DEF VInv, VTypes
<1> QED BY <1>1, <1>2, <1>5, <1>6, <1>7, <1>8, <1>9, VProcessStep

\* There is an identifier for a new object.
LEMMA VRoom == ASSUME VInv, NEW p \in Creating PROVE madeV + 1 \in V!Ids
<1>1. Creating \subseteq Shells BY DEF Creating
<1>2. IsFiniteSet(Creating) BY <1>1, ToolsAssumption, FS_Subset
<1>3. Cardinality(Creating) \in Nat /\ Cardinality(Creating) # 0 BY <1>2, FS_CardinalityType, FS_EmptySet
<1> QED BY <1>3, ToolsAssumption DEF VInv, VTypes, VCount, V!Ids

\* IPC_CREAT makes an object or finds one, and the tool ends or attaches it.
LEMMA VCreateStep ==
  ASSUME VInv, NEW p \in Creating, NEW v \in Seq(Int), V!Create(p, v),
         kindV = "sem" => Len(v) = argV[p].n, UNCHANGED <<kindV, runsV>>,
         \/ V!Exit(p)
         \/ V!Goto(p, "attach") /\ hV' = [hV EXCEPT ![p] = key'] /\ UNCHANGED seenV
  PROVE  VInv'
<1>0. p \in Shells /\ toolV[p] \in Creators /\ atV[p] = "get" BY DEF Creating
<1>1. madeV + 1 \in V!Ids /\ madeV \in Nat BY VRoom DEF VInv, VTypes
<1>2. argV[p].n \in Nat BY <1>0 DEF VInv, VTypes, VTool, CommandLines
<1>3. \/ /\ key = 0 /\ madeV' = madeV + 1 /\ key' = madeV + 1 /\ alive' = alive \cup {madeV + 1}
         /\ size' = [size EXCEPT ![madeV + 1] = argV[p].n] /\ values' = [values EXCEPT ![madeV + 1] = v]
         /\ UNCHANGED attached
      \/ key # 0 /\ UNCHANGED <<key, madeV, alive, size, values, attached>>
  BY DEF V!Create, V!None, V!object
<1>4. /\ madeV' \in Nat /\ madeV <= madeV' /\ key' \in 1..madeV' /\ UNCHANGED attached
      /\ madeV' = madeV \/ madeV' = madeV + 1
  BY <1>1, <1>3 DEF VInv, VTypes
<1>5. VProcess(p) /\ Creating' \subseteq Creating \ {p} /\ VTool(p)' /\ VKnown(p)'
  <2>1. CASE V!Exit(p)
    <3>1. VProcess(p) /\ toolV'[p] = "shell" /\ atV'[p] = "get" /\ Creating' \subseteq Creating \ {p} BY <1>0, <2>1, VExited
    <3> QED BY <3>1 DEF VTool, VKnown, V!At, Creators
  <2>2. CASE V!Goto(p, "attach") /\ hV' = [hV EXCEPT ![p] = key'] /\ UNCHANGED seenV
    <3>1. /\ DOMAIN hV' = Shells /\ hV'[p] = key' /\ seenV' \in [Shells -> Nat]
          /\ \A q \in Shells \ {p} : hV'[q] = hV[q] /\ seenV'[q] = seenV[q]
      BY <1>0, <2>2 DEF VInv, VTypes
    <3>2. /\ VProcess(p) /\ toolV'[p] = toolV[p] /\ atV'[p] = "attach" /\ argV'[p] = argV[p]
          /\ Creating' \subseteq Creating \ {p}
      BY <1>0, <2>2, <3>1, VGone
    <3>3. VTool(p)' BY <1>0, <3>2 DEF VInv, VTool
    <3>4. VKnown(p)' BY <1>0, <1>4, <3>1, <3>2 DEF VKnown, V!At, Creators
    <3> QED BY <3>2, <3>3, <3>4
  <2> QED BY <2>1, <2>2
<1>6. /\ size' \in [V!Ids -> Nat] /\ values' \in [V!Ids -> Seq(Int)]
      /\ \A o \in 1..madeV : size'[o] = size[o] /\ values'[o] = values[o]
      /\ madeV' = madeV + 1 => size'[madeV + 1] = argV[p].n /\ values'[madeV + 1] = v
  <2>1. size \in [V!Ids -> Nat] /\ values \in [V!Ids -> Seq(Int)] BY DEF VInv, VTypes
  <2>2. \A o \in 1..madeV : o # madeV + 1 /\ o \in V!Ids BY <1>1, VIds
  <2>3. CASE UNCHANGED <<madeV, size, values>> BY <1>1, <2>1, <2>3
  <2>4. CASE size' = [size EXCEPT ![madeV + 1] = argV[p].n] /\ values' = [values EXCEPT ![madeV + 1] = v]
    BY <1>1, <1>2, <2>1, <2>2, <2>4
  <2> QED BY <1>3, <2>3, <2>4
<1>7. VTypes' BY <1>4, <1>5, <1>6 DEF VInv, VTypes, VProcess
<1>8. VCount' BY <1>0, <1>4, <1>5, <1>7, VCounted
<1>9. VSizes'
  <2> SUFFICES ASSUME kindV = "sem", NEW o \in 1..madeV' PROVE Len(values'[o]) = size'[o] BY DEF VSizes
  <2>1. CASE o \in 1..madeV BY <1>6, <2>1 DEF VInv, VSizes
  <2>2. CASE o = madeV + 1 /\ madeV' = madeV + 1 BY <1>6, <2>2
  <2> QED BY <1>1, <1>4, <2>1, <2>2
<1>10. VAlive' BY <1>1, <1>3 DEF VInv, VAlive
<1> QED BY <1>0, <1>4, <1>5, <1>6, <1>7, <1>8, <1>9, <1>10, VProcessStep

\* IPC_RMID
LEMMA VRmidStep ==
  ASSUME VInv, NEW p \in Shells, NEW t, t \notin {"shell", "shmread", "shmwrite"}, V!Rmid(p, t),
         UNCHANGED <<kindV, runsV>>
  PROVE  VInv'
<1>1. CASE V!Get(p, t, "rmid") BY <1>1, VGetStep
<1>2. CASE V!Fails(p, t, "rmid") BY <1>2, VExitStep DEF V!Fails
<1>3. CASE /\ V!At(p, t, "rmid") /\ V!Exit(p)
           /\ key' = IF key = hV[p] THEN 0 ELSE key
           /\ alive' = IF attached[hV[p]] = {} THEN alive \ {hV[p]} ELSE alive
           /\ UNCHANGED <<madeV, size, values, attached>>
  <2>1. VProcess(p) /\ toolV'[p] = "shell" /\ atV'[p] = "get" /\ Creating' \subseteq Creating \ {p} BY <1>3, VExited
  <2>2. VTool(p)' /\ VKnown(p)' BY <2>1 DEF VTool, VKnown, V!At, Creators
  <2>3. VTypes' BY <1>3, <2>1 DEF VInv, VTypes, VProcess
  <2>4. VCount' BY <1>3, <2>1, <2>3, VCounted
  <2>5. VSizes' BY <1>3 DEF VInv, VSizes
  <2>6. VAlive' BY <1>3 DEF VInv, VAlive
  <2>7. madeV <= madeV' BY <1>3 DEF VInv, VTypes
  <2> QED BY <1>3, <2>1, <2>2, <2>3, <2>4, <2>5, <2>6, <2>7, VProcessStep
<1> QED BY <1>1, <1>2, <1>3 DEF V!Rmid, V!None

\* shmat()
LEMMA VAttachStep ==
  ASSUME VInv, NEW p \in Shells, NEW t, NEW a,
         (t \in {"shmread", "shmwrite"} /\ a = "stat") \/ (t = "shmget" /\ a = "end"),
         V!Attach(p, t, a), UNCHANGED <<kindV, runsV>>
  PROVE  VInv'
<1>1. /\ V!Goto(p, a) /\ UNCHANGED <<hV, seenV, key, madeV, alive, size, values>>
      /\ toolV[p] = t /\ atV[p] = "attach" /\ hV[p] \in alive
      /\ attached' = [attached EXCEPT ![hV[p]] = @ \cup {p}]
  BY DEF V!Attach, V!At, V!Removed
<1>2. VTool(p) /\ VKnown(p) BY DEF VInv
<1>3. hV[p] \in 1..madeV /\ hV[p] \in V!Ids BY <1>1, <1>2, VIds DEF VKnown
<1>4. /\ attached' \in [V!Ids -> SUBSET Shells] /\ p \in attached'[hV[p]]
      /\ \A o \in V!Ids : attached[o] \subseteq attached'[o] /\ (o # hV[p] => attached'[o] = attached[o])
  BY <1>1, <1>3 DEF VInv, VTypes
<1>5. /\ VProcess(p) /\ toolV'[p] = toolV[p] /\ atV'[p] = a /\ argV'[p] = argV[p]
      /\ Creating' \subseteq Creating \ {p}
  <2>1. DOMAIN hV' = Shells /\ seenV' \in [Shells -> Nat] BY <1>1 DEF VInv, VTypes
  <2>2. \A q \in Shells \ {p} : hV'[q] = hV[q] /\ seenV'[q] = seenV[q] BY <1>1
  <2>3. a # "get" OBVIOUS
  <2> QED BY <1>1, <2>1, <2>2, <2>3, VGone
<1>6. VTool(p)' BY <1>2, <1>5 DEF VTool
<1>7. VKnown(p)' BY <1>1, <1>3, <1>4, <1>5 DEF VKnown, V!At
<1>8. VTypes' BY <1>1, <1>4, <1>5 DEF VInv, VTypes, VProcess
<1>9. VCount' BY <1>1, <1>5, <1>8, VCounted
<1>10. VSizes' BY <1>1 DEF VInv, VSizes
<1>11. VAlive' BY <1>1, <1>4 DEF VInv, VAlive
<1>12. madeV <= madeV' BY <1>1 DEF VInv, VTypes
<1>13. \A o \in 1..madeV : size'[o] = size[o] /\ attached[o] \subseteq attached'[o] BY <1>1, <1>4, VIds
<1> QED BY <1>5, <1>6, <1>7, <1>8, <1>9, <1>10, <1>11, <1>12, <1>13, VProcessStep

\* The process with the segment ends and is detached.
LEMMA VDetachStep ==
  ASSUME VInv, NEW p \in Shells, kindV # "sem", toolV[p] # "shell", atV[p] # "get",
         NEW v \in Seq(Int), V!Detach(p, v), UNCHANGED <<kindV, runsV>>
  PROVE  VInv'
<1>1. /\ V!Exit(p) /\ values' = [values EXCEPT ![hV[p]] = v]
      /\ attached' = [attached EXCEPT ![hV[p]] = @ \ {p}]
      /\ alive' = IF key # hV[p] /\ attached'[hV[p]] = {} THEN alive \ {hV[p]} ELSE alive
      /\ UNCHANGED <<key, madeV, size>>
  BY DEF V!Detach
<1>2. hV[p] \in 1..madeV /\ hV[p] \in V!Ids BY VIds DEF VInv, VKnown
<1>3. VProcess(p) /\ toolV'[p] = "shell" /\ atV'[p] = "get" /\ Creating' \subseteq Creating \ {p} BY <1>1, VExited
<1>4. VTool(p)' /\ VKnown(p)' BY <1>3 DEF VTool, VKnown, V!At, Creators
<1>5. /\ attached' \in [V!Ids -> SUBSET Shells] /\ attached'[hV[p]] = attached[hV[p]] \ {p}
      /\ \A o \in V!Ids : o # hV[p] => attached'[o] = attached[o]
  BY <1>1, <1>2 DEF VInv, VTypes
<1>6. values' \in [V!Ids -> Seq(Int)] BY <1>1, <1>2 DEF VInv, VTypes
<1>7. VTypes' BY <1>1, <1>3, <1>5, <1>6 DEF VInv, VTypes, VProcess
<1>8. VCount' BY <1>1, <1>3, <1>7, VCounted
<1>9. VSizes' BY DEF VSizes
<1>10. VAlive' BY <1>1, <1>2, <1>5 DEF VInv, VAlive
<1>11. madeV <= madeV' BY <1>1 DEF VInv, VTypes
<1>12. \A o \in 1..madeV : size'[o] = size[o] /\ \A q \in attached[o] : q # p => q \in attached'[o]
  BY <1>1, <1>5, VIds
<1> QED BY <1>3, <1>4, <1>7, <1>8, <1>9, <1>10, <1>11, <1>12, VProcessStep

\* A shell starts a tool.
LEMMA VRunStep == ASSUME VInv, NEW p \in Shells, V!Run(p) PROVE VInv'
<1> USE ToolsAssumption
<1>1. /\ toolV[p] = "shell" /\ runsV < SysvRuns /\ runsV' = runsV + 1
      /\ UNCHANGED <<kindV, key, madeV, alive, size, values, attached, atV, hV, seenV>>
  BY DEF V!Run, V!object
<1>2. PICK t \in V!Tools : /\ toolV' = [toolV EXCEPT ![p] = t]
                            /\ \E b \in V!Arguments(t) : argV' = [argV EXCEPT ![p] = b]
  BY DEF V!Run
<1>3. PICK a \in V!Arguments(t) : argV' = [argV EXCEPT ![p] = a] BY <1>2
<1>4. a \in CommandLines /\ (t \in Creators => a.n >= 0)
  <2>1. << >> \in Seq(Int) /\ <<1>> \in Seq(Int) /\ << -1 >> \in Seq(Int) OBVIOUS
  <2>2. ASSUME NEW l \in V!Lists PROVE l \in Seq(Int)
    <3>1. PICK k \in Sizes, v \in {0, 1} : l = [z \in 1..k |-> v] BY DEF V!Lists
    <3> QED BY <3>1
  <2>3. CASE t \in {"semcreate", "shmget"}
    <3>1. V!Arguments(t) = {V!Line(e, k, << >>) : e \in BOOLEAN, k \in Sizes}
      <4>1. CASE t = "semcreate" BY <4>1 DEF V!Arguments
      <4>2. CASE t = "shmget" BY <4>2 DEF V!Arguments
      <4> QED BY <2>3, <4>1, <4>2
    <3>2. PICK e \in BOOLEAN, k \in Sizes : a = V!Line(e, k, << >>) BY <3>1
    <3>3. k \in Nat /\ e \in BOOLEAN OBVIOUS
    <3> QED BY <2>1, <3>2, <3>3 DEF V!Line, CommandLines
  <2>4. CASE t = "msgcreate"
    <3>1. V!Arguments(t) = {V!Line(e, 0, << >>) : e \in BOOLEAN} BY <2>4 DEF V!Arguments
    <3>2. PICK e \in BOOLEAN : a = V!Line(e, 0, << >>) BY <3>1
    <3>3. e \in BOOLEAN OBVIOUS
    <3> QED BY <2>1, <3>2, <3>3 DEF V!Line, CommandLines
  <2>5. CASE t = "semsetvalues"
    <3>1. V!Arguments(t) = {V!Line(FALSE, 0, l) : l \in V!Lists} BY <2>5 DEF V!Arguments
    <3>2. PICK l \in V!Lists : a = V!Line(FALSE, 0, l) BY <3>1
    <3>3. l \in Seq(Int) BY <2>2
    <3> QED BY <2>5, <3>2, <3>3 DEF V!Line, CommandLines, Creators
  <2>6. CASE t = "semops"
    <3>1. V!Arguments(t) = {V!Line(e, 0, <<v>>) : e \in BOOLEAN, v \in {1, -1}} BY <2>6 DEF V!Arguments
    <3>2. PICK e \in BOOLEAN, v \in {1, -1} : a = V!Line(e, 0, <<v>>) BY <3>1
    <3>3. e \in BOOLEAN /\ <<v>> \in Seq(Int) BY <2>1
    <3> QED BY <2>6, <3>2, <3>3 DEF V!Line, CommandLines, Creators
  <2>7. CASE t = "msgsnd"
    <3>1. V!Arguments(t) = {V!Line(FALSE, k, << >>) : k \in Types} BY <2>7 DEF V!Arguments
    <3>2. PICK k \in Types : a = V!Line(FALSE, k, << >>) BY <3>1
    <3>3. k \in Int OBVIOUS
    <3> QED BY <2>1, <2>7, <3>2, <3>3 DEF V!Line, CommandLines, Creators
  <2>8. CASE t = "msgrcv"
    <3>1. V!Arguments(t) = {V!Line(e, k, << >>) : e \in BOOLEAN, k \in Types \cup {-k : k \in Types}}
      BY <2>8 DEF V!Arguments
    <3>2. PICK e \in BOOLEAN, k \in Types \cup {-k : k \in Types} : a = V!Line(e, k, << >>) BY <3>1
    <3>3. k \in Int /\ e \in BOOLEAN OBVIOUS
    <3> QED BY <2>1, <2>8, <3>2, <3>3 DEF V!Line, CommandLines, Creators
  <2>9. CASE t \notin Creators \cup {"semsetvalues", "semops", "msgsnd", "msgrcv"}
    <3>1. V!Arguments(t) = {V!Line(FALSE, 0, << >>)}
      <4>1. CASE t = "semgetvalues" BY <4>1 DEF V!Arguments
      <4>2. CASE t = "semrmid" BY <4>2 DEF V!Arguments
      <4>3. CASE t = "shmread" BY <4>3 DEF V!Arguments
      <4>4. CASE t = "shmwrite" BY <4>4 DEF V!Arguments
      <4>5. CASE t = "shmrmid" BY <4>5 DEF V!Arguments
      <4>6. CASE t = "msgrmid" BY <4>6 DEF V!Arguments
      <4>7. t \in SemTools \cup ShmTools \cup MsgTools
        BY <1>2 DEF V!Tools, SemTools, ShmTools, MsgTools, VInv, VTypes
      <4> QED BY <2>9, <4>1, <4>2, <4>3, <4>4, <4>5, <4>6, <4>7 DEF SemTools, ShmTools, MsgTools, Creators
    <3>2. a = V!Line(FALSE, 0, << >>) BY <3>1
    <3> QED BY <2>1, <2>9, <3>2 DEF V!Line, CommandLines
  <2> QED BY <2>3, <2>4, <2>5, <2>6, <2>7, <2>8, <2>9 DEF Creators
<1>5. atV[p] = "get" BY <1>1 DEF VInv, VKnown
<1>6. VProcess(p) /\ toolV'[p] = t /\ atV'[p] = "get" /\ argV'[p] = a
  BY <1>1, <1>2, <1>3, <1>4, <1>5 DEF VProcess, VInv, VTypes
<1>7. VTool(p)'
  <2>1. t \in CASE kindV = "sem" -> SemTools [] kindV = "shm" -> ShmTools [] kindV = "msg" -> MsgTools
    BY <1>2 DEF V!Tools, SemTools, ShmTools, MsgTools
  <2>2. kindV' = kindV BY <1>1
  <2> QED BY <1>4, <1>6, <2>1, <2>2 DEF VTool
<1>8. t # "shell" BY <1>2 DEF V!Tools, VInv, VTypes
<1>9. VKnown(p)' BY <1>6, <1>8 DEF VKnown, V!At
<1>10. VTypes' BY <1>1, <1>6 DEF VInv, VTypes, VProcess
<1>11. VCount'
  <2>1. Creating' \subseteq Creating \cup {p} BY <1>6 DEF Creating, VProcess
  <2>2. Creating \subseteq Shells BY DEF Creating
  <2>3. /\ Cardinality(Creating) \in Nat /\ Cardinality(Creating') \in Nat
        /\ Cardinality(Creating') <= Cardinality(Creating) + 1
    BY <2>1, <2>2, CountChange
  <2> QED BY <1>1, <2>3 DEF VCount, VInv, VTypes
<1>12. VSizes' /\ VAlive' BY <1>1 DEF VInv, VSizes, VAlive
<1>13. madeV <= madeV' BY <1>1 DEF VInv, VTypes
<1> QED BY <1>1, <1>6, <1>7, <1>9, <1>10, <1>11, <1>12, <1>13, VProcessStep

\* The tools for semaphores.
LEMMA VSemStep ==
  ASSUME VInv, NEW p \in Shells, UNCHANGED <<kindV, runsV>>,
         V!semcreate(p) \/ V!semsetvalues(p) \/ V!semgetvalues(p) \/ V!semops(p) \/ V!semrmid(p)
  PROVE  VInv'
<1>0. VTool(p) /\ VKnown(p) /\ argV[p] \in CommandLines BY DEF VInv, VTypes
<1>1. CASE V!semcreate(p)
  <2>1. p \in Creating BY <1>1 DEF V!semcreate, V!At, Creating, Creators
  <2>2. argV[p].n \in Nat BY <1>0, <2>1 DEF Creating, VTool, CommandLines
  <2>3. CASE V!Create(p, [k \in 1..argV[p].n |-> 0]) /\ V!Exit(p)
    <3>1. [k \in 1..argV[p].n |-> 0] \in Seq(Int) /\ Len([k \in 1..argV[p].n |-> 0]) = argV[p].n BY <2>2
    <3> QED BY <2>1, <2>3, <3>1, VCreateStep
  <2>4. CASE V!Refused(p) BY <2>4, VExitStep DEF V!Refused
  <2> QED BY <1>1, <2>3, <2>4 DEF V!semcreate
<1>2. CASE V!semsetvalues(p)
  <2>1. CASE V!Get(p, "semsetvalues", "stat") BY <2>1, VGetStep
  <2>2. CASE V!Fails(p, "semsetvalues", "stat") \/ V!Fails(p, "semsetvalues", "set")
    BY <2>2, VExitStep DEF V!Fails
  <2>3. CASE V!Stat(p, "semsetvalues", "count") BY <2>3, VStatStep
  <2>4. CASE V!At(p, "semsetvalues", "count") /\ UNCHANGED V!object /\ V!Exit(p) BY <2>4, VExitStep
  <2>5. CASE /\ V!At(p, "semsetvalues", "count") /\ UNCHANGED V!object
             /\ Len(argV[p].list) = seenV[p] /\ V!Goto(p, "set") /\ UNCHANGED <<hV, seenV>>
    <3>1. /\ VProcess(p) /\ toolV'[p] = toolV[p] /\ atV'[p] = "set" /\ argV'[p] = argV[p]
          /\ Creating' \subseteq Creating \ {p}
      <4>1. DOMAIN hV' = Shells /\ seenV' \in [Shells -> Nat] BY <2>5 DEF VInv, VTypes
      <4>2. \A q \in Shells \ {p} : hV'[q] = hV[q] /\ seenV'[q] = seenV[q] BY <2>5
      <4> QED BY <2>5, <4>1, <4>2, VGone
    <3>2. UNCHANGED <<madeV, size, attached, hV, seenV>> BY <2>5 DEF V!object
    <3>3. VTool(p)' BY <1>0, <3>1 DEF VTool
    <3>4. VKnown(p)' BY <1>0, <2>5, <3>1, <3>2 DEF VKnown, V!At
    <3> QED BY <2>5, <3>1, <3>3, <3>4, VQuietStep
  <2>6. CASE /\ V!At(p, "semsetvalues", "set") /\ V!Exit(p)
             /\ values' = [values EXCEPT ![hV[p]] = argV[p].list]
             /\ UNCHANGED <<key, madeV, alive, size, attached>>
    <3>1. argV[p].list \in Seq(Int) BY <1>0 DEF CommandLines
    <3>2. toolV[p] # "shell" /\ atV[p] # "get" /\ Len(argV[p].list) = size[hV[p]]
      BY <1>0, <2>6 DEF VKnown, V!At
    <3> QED BY <2>6, <3>1, <3>2, VValuesStep
  <2> QED BY <1>2, <2>1, <2>2, <2>3, <2>4, <2>5, <2>6 DEF V!semsetvalues
<1>3. CASE V!semgetvalues(p)
  <2>1. CASE V!Get(p, "semgetvalues", "stat") BY <2>1, VGetStep
  <2>2. CASE V!Fails(p, "semgetvalues", "stat") \/ V!Fails(p, "semgetvalues", "getall")
    BY <2>2, VExitStep DEF V!Fails
  <2>3. CASE V!Stat(p, "semgetvalues", "getall") BY <2>3, VStatStep
  <2>4. CASE V!Exit(p) /\ UNCHANGED V!object BY <2>4, VExitStep
  <2> QED BY <1>3, <2>1, <2>2, <2>3, <2>4 DEF V!semgetvalues
<1>4. CASE V!semops(p)
  <2>1. CASE V!Get(p, "semops", "semop") BY <2>1, VGetStep
  <2>2. CASE V!Fails(p, "semops", "semop") BY <2>2, VExitStep DEF V!Fails
  <2>3. CASE V!Exit(p) /\ UNCHANGED <<values, key, madeV, alive, size, attached>>
    BY <2>3, VExitStep DEF V!object
  <2>4. CASE /\ V!At(p, "semops", "semop") /\ V!Exit(p)
             /\ values' = [values EXCEPT ![hV[p]] = V!Apply(values[hV[p]], V!Operations(p))]
             /\ UNCHANGED <<key, madeV, alive, size, attached>>
    <3>1. hV[p] \in 1..madeV /\ hV[p] \in V!Ids BY <1>0, <2>4, VIds DEF VKnown, V!At
    <3>2. values[hV[p]] \in Seq(Int) BY <3>1 DEF VInv, VTypes
    <3> DEFINE v == values[hV[p]]
               ops == V!Operations(p)
               w == V!Apply(v, ops)
    <3>3. \A k \in 1..Len(ops) : ops[k] \in Int BY <1>0 DEF V!Operations, CommandLines
    <3>4. w \in Seq(Int) /\ Len(w) = Len(v)
      <4>1. Len(v) \in Nat /\ \A k \in 1..Len(v) : v[k] \in Int BY <3>2
      <4>2. Len(ops) \in Nat BY <1>0 DEF V!Operations, CommandLines
      <4> HIDE DEF v, ops
      <4>3. \A k \in 1..Len(v) : (IF k <= Len(ops) THEN v[k] + ops[k] ELSE v[k]) \in Int
        BY <3>3, <4>1, <4>2
      <4> QED BY <4>1, <4>3 DEF V!Apply
    <3>5. kindV = "sem" => Len(v) = size[hV[p]] BY <3>1 DEF VInv, VSizes
    <3>6. toolV[p] # "shell" /\ atV[p] # "get" BY <2>4 DEF V!At
    <3> HIDE DEF w
    <3>7. values' = [values EXCEPT ![hV[p]] = w] BY <2>4 DEF w
    <3>8. kindV = "sem" => Len(w) = size[hV[p]] BY <3>4, <3>5
    <3> QED BY <2>4, <3>4, <3>6, <3>7, <3>8, VValuesStep
  <2> QED BY <1>4, <2>1, <2>2, <2>3, <2>4 DEF V!semops
<1>5. CASE V!semrmid(p) BY <1>5, VRmidStep DEF V!semrmid
<1> QED BY <1>1, <1>2, <1>3, <1>4, <1>5

\* The tools for shared memory.
LEMMA VShmStep ==
  ASSUME VInv, NEW p \in Shells, UNCHANGED <<kindV, runsV>>,
         V!shmget(p) \/ V!shmread(p) \/ V!shmwrite(p) \/ V!shmrmid(p)
  PROVE  VInv'
<1>0. VTool(p) /\ VKnown(p) BY DEF VInv
<1>1. toolV[p] \in ShmTools
  BY DEF V!shmget, V!shmread, V!shmwrite, V!shmrmid, V!Rmid, V!Get, V!Fails, V!Attach, V!Stat, V!At, ShmTools
<1>2. kindV # "sem" /\ toolV[p] # "shell" BY <1>0, <1>1 DEF VTool, SemTools, ShmTools
<1>3. ASSUME NEW a, a # "get", atV[p] = a PROVE values[hV[p]] \in Seq(Int) /\ seenV[p] \in Nat
  <2>1. hV[p] \in V!Ids BY <1>0, <1>2, <1>3, VIds DEF VKnown
  <2> QED BY <2>1 DEF VInv, VTypes
<1>4. CASE V!shmget(p)
  <2>1. CASE V!At(p, "shmget", "get")
    <3>1. p \in Creating BY <2>1 DEF V!At, Creating, Creators
    <3>2. CASE V!Create(p, << >>) /\ V!Goto(p, "attach") /\ hV' = [hV EXCEPT ![p] = key'] /\ UNCHANGED seenV
      <4>1. << >> \in Seq(Int) OBVIOUS
      <4> QED BY <1>2, <3>1, <3>2, <4>1, VCreateStep
    <3>3. CASE V!Refused(p) BY <3>3, VExitStep DEF V!Refused
    <3> QED BY <1>4, <2>1, <3>2, <3>3 DEF V!shmget, V!Fails, V!Attach, V!At
  <2>2. CASE V!Fails(p, "shmget", "attach") BY <2>2, VExitStep DEF V!Fails
  <2>3. CASE V!Attach(p, "shmget", "end") BY <2>3, VAttachStep
  <2>4. CASE V!At(p, "shmget", "end") /\ V!Detach(p, values[hV[p]])
    BY <1>2, <1>3, <2>4, VDetachStep DEF V!At
  <2> QED BY <1>4, <2>1, <2>2, <2>3, <2>4 DEF V!shmget
<1>5. ASSUME NEW t \in {"shmread", "shmwrite"},
             \/ V!Get(p, t, "attach") \/ V!Fails(p, t, "attach") \/ V!Attach(p, t, "stat") \/ V!Stat(p, t, "loop")
      PROVE  VInv'
  <2>1. CASE V!Get(p, t, "attach") BY <2>1, VGetStep
  <2>2. CASE V!Fails(p, t, "attach") BY <2>2, VExitStep DEF V!Fails
  <2>3. CASE V!Attach(p, t, "stat") BY <2>3, VAttachStep
  <2>4. CASE V!Stat(p, t, "loop") BY <2>4, VStatStep
  <2> QED BY <1>5, <2>1, <2>2, <2>3, <2>4
<1>6. CASE V!shmread(p)
  <2>1. CASE V!At(p, "shmread", "loop") /\ V!Detach(p, values[hV[p]])
    BY <1>2, <1>3, <2>1, VDetachStep DEF V!At
  <2> QED BY <1>5, <1>6, <2>1 DEF V!shmread
<1>7. CASE V!shmwrite(p)
  <2>1. CASE V!At(p, "shmwrite", "loop") /\ V!Detach(p, [k \in 1..seenV[p] |-> k])
    <3>1. seenV[p] \in Nat BY <1>3, <2>1 DEF V!At
    <3>2. [k \in 1..seenV[p] |-> k] \in Seq(Int) BY <3>1
    <3> QED BY <1>2, <2>1, <3>2, VDetachStep DEF V!At
  <2> QED BY <1>5, <1>7, <2>1 DEF V!shmwrite
<1>8. CASE V!shmrmid(p) BY <1>8, VRmidStep DEF V!shmrmid
<1> QED BY <1>4, <1>6, <1>7, <1>8

\* The tools for message queues.
LEMMA VMsgStep ==
  ASSUME VInv, NEW p \in Shells, UNCHANGED <<kindV, runsV>>,
         V!msgcreate(p) \/ V!msgsnd(p) \/ V!msgrcv(p) \/ V!msgrmid(p)
  PROVE  VInv'
<1>0. VTool(p) /\ VKnown(p) /\ argV[p] \in CommandLines BY DEF VInv, VTypes
<1>1. toolV[p] \in MsgTools
  BY DEF V!msgcreate, V!msgsnd, V!msgrcv, V!msgrmid, V!Rmid, V!Get, V!Fails, V!At, MsgTools
<1>2. kindV # "sem" /\ toolV[p] # "shell" BY <1>0, <1>1 DEF VTool, SemTools, MsgTools
<1>3. ASSUME atV[p] # "get" PROVE values[hV[p]] \in Seq(Int)
  <2>1. hV[p] \in V!Ids BY <1>0, <1>2, <1>3, VIds DEF VKnown
  <2> QED BY <2>1 DEF VInv, VTypes
<1>4. CASE V!msgcreate(p)
  <2>1. p \in Creating BY <1>4 DEF V!msgcreate, V!At, Creating, Creators
  <2>2. CASE V!Create(p, << >>) /\ V!Exit(p)
    <3>1. << >> \in Seq(Int) OBVIOUS
    <3> QED BY <1>2, <2>1, <2>2, <3>1, VCreateStep
  <2>3. CASE V!Refused(p) BY <2>3, VExitStep DEF V!Refused
  <2> QED BY <1>4, <2>2, <2>3 DEF V!msgcreate
<1>5. CASE V!msgsnd(p)
  <2>1. CASE V!Get(p, "msgsnd", "snd") BY <2>1, VGetStep
  <2>2. CASE V!Fails(p, "msgsnd", "snd") BY <2>2, VExitStep DEF V!Fails
  <2>3. CASE V!Exit(p) /\ UNCHANGED <<values, key, madeV, alive, size, attached>>
    BY <2>3, VExitStep DEF V!object
  <2>4. CASE /\ V!At(p, "msgsnd", "snd") /\ V!Exit(p)
             /\ values' = [values EXCEPT ![hV[p]] = Append(@, argV[p].n)]
             /\ UNCHANGED <<key, madeV, alive, size, attached>>
    <3>1. values[hV[p]] \in Seq(Int) /\ argV[p].n \in Int /\ atV[p] # "get"
      BY <1>0, <1>3, <2>4 DEF V!At, CommandLines
    <3> DEFINE w == Append(values[hV[p]], argV[p].n)
    <3>2. w \in Seq(Int) BY <3>1
    <3>3. values' = [values EXCEPT ![hV[p]] = w] BY <2>4
    <3> HIDE DEF w
    <3> QED BY <1>2, <2>4, <3>1, <3>2, <3>3, VValuesStep
  <2> QED BY <1>5, <2>1, <2>2, <2>3, <2>4 DEF V!msgsnd
<1>6. CASE V!msgrcv(p)
  <2>1. CASE V!Get(p, "msgrcv", "rcv") BY <2>1, VGetStep
  <2>2. CASE V!Fails(p, "msgrcv", "rcv") BY <2>2, VExitStep DEF V!Fails
  <2>3. CASE V!Exit(p) /\ UNCHANGED <<values, key, madeV, alive, size, attached>>
    BY <2>3, VExitStep DEF V!object
  <2>4. ASSUME V!At(p, "msgrcv", "rcv"), V!Exit(p), UNCHANGED <<key, madeV, alive, size, attached>>,
               NEW k \in V!Wanted(values[hV[p]], argV[p].n),
               values' = [values EXCEPT ![hV[p]] = V!Without(values[hV[p]], k)]
        PROVE  VInv'
    <3>1. values[hV[p]] \in Seq(Int) /\ atV[p] # "get" BY <1>3, <2>4 DEF V!At
    <3>2. k \in 1..Len(values[hV[p]]) BY <2>4 DEF V!Wanted
    <3> DEFINE w == V!Without(values[hV[p]], k)
    <3>3. w \in Seq(Int)
      <4>1. SubSeq(values[hV[p]], 1, k - 1) \in Seq(Int) BY <3>1, <3>2, SubSeqProperties
      <4>2. SubSeq(values[hV[p]], k + 1, Len(values[hV[p]])) \in Seq(Int) BY <3>1, <3>2, SubSeqProperties
      <4> QED BY <4>1, <4>2, ConcatProperties DEF V!Without
    <3> HIDE DEF w
    <3>4. values' = [values EXCEPT ![hV[p]] = w] BY <2>4 DEF w
    <3> QED BY <1>2, <2>4, <3>1, <3>3, <3>4, VValuesStep
  <2> QED BY <1>6, <2>1, <2>2, <2>3, <2>4 DEF V!msgrcv
<1>7. CASE V!msgrmid(p) BY <1>7, VRmidStep DEF V!msgrmid
<1> QED BY <1>4, <1>5, <1>6, <1>7

\* A step of the run is a step of the System V tools or leaves them alone.
LEMMA VStep == ASSUME VInv, [Next]_vars PROVE VInv'
<1>1. CASE UNCHANGED varsV
  <2>1. UNCHANGED <<kindV, runsV, key, madeV, alive, size, values, attached, toolV, atV, argV, hV, seenV>>
    BY <1>1 DEF varsV
  <2>2. VTypes' BY <2>1 DEF VInv, VTypes
  <2>3. Creating' = Creating BY <2>1 DEF Creating
  <2>4. VCount' /\ VSizes' /\ VAlive' BY <2>1, <2>3 DEF VInv, VCount, VSizes, VAlive
  <2>5. \A p \in Shells : VTool(p)' /\ VKnown(p)' BY <2>1 DEF VInv, VTool, VKnown, V!At
  <2> QED BY <2>2, <2>4, <2>5 DEF VInv
<1>2. CASE V!Next
  BY <1>2, VRunStep, VSemStep, VShmStep, VMsgStep DEF V!Next, V!Step
<1> QED BY <1>1, <1>2 DEF Next, InN, InP, InF, InM, InX, InV, vars

\* However the System V tools interleave, each relies on sizes that still hold.
THEOREM ToolsStayInside == Spec => []StaysInside
<1>1. Init => VInv BY VInitInv DEF Init
<1>2. VInv /\ [Next]_vars => VInv' BY VStep
<1> QED BY <1>1, <1>2, VInvInside, PTL DEF Spec

-----------------------------------------------------------------------------
(* The POSIX tools                                                         *)

PxSemTools == {"semcreate", "semgetvalue", "sempost", "semwait", "semunlink"}
PxShmTools == {"shmcreate", "shmread", "shmwrite", "shmunlink"}
PxMsgTools == {"mqcreate", "mqcreate1", "mqgetattr", "mqunlink"}
PxCreators == {"semcreate", "shmcreate", "mqcreate", "mqcreate1"}

XTypes ==
  /\ kindX \in {"sem", "shm", "mq"} /\ runsX \in 0..PosixRuns /\ madeX \in Nat /\ name \in 0..madeX
  /\ value \in [X!Objects -> Nat] /\ start \in [X!Objects -> Nat] /\ posts \in [X!Objects -> Nat]
  /\ leaked \in [X!Objects -> Nat] /\ held \in [X!Objects -> SUBSET Shells] /\ pages \in [X!Objects -> SUBSET Nat]
  /\ DOMAIN toolX = Shells /\ DOMAIN atX = Shells /\ DOMAIN hX = Shells
  /\ argX \in [Shells -> [excl : BOOLEAN, n : Nat]] /\ seenX \in [Shells -> Nat] /\ iX \in [Shells -> Nat]
  /\ calm \in [Shells -> BOOLEAN] /\ whole \in [Shells -> BOOLEAN] /\ DOMAIN trouble = Shells

\* Every shell runs a tool for the sort of object that there is.
XTool(p) ==
  /\ kindX = "sem" => toolX[p] \in PxSemTools \cup {"shell"}
  /\ kindX = "shm" => toolX[p] \in PxShmTools \cup {"shell"}
  /\ kindX = "mq" => toolX[p] \in PxMsgTools \cup {"shell"}

\* A tool makes at most one object.
PxCreating == {p \in Shells : toolX[p] \in PxCreators /\ atX[p] = "open"}
XCount == madeX + Cardinality(PxCreating) <= runsX

\* The semaphores: what was taken is held by a semwait that sleeps, or lost.
\* An object that is not made yet counts nothing.
Holding(o) == {p \in Shells : toolX[p] = "semwait" /\ atX[p] = "pause" /\ hX[p] = o}
XHeld ==
  /\ \A o \in X!Objects : held[o] = Holding(o)
  /\ \A o \in X!Objects : o > madeX => posts[o] = 0 /\ leaked[o] = 0
XUnits ==
  kindX = "sem" => \A o \in 1..madeX : value[o] + Cardinality(held[o]) + leaked[o] = start[o] + posts[o]

\* An object that a shmwrite has gone through holds the pattern everywhere.
XWritten == \A o \in written : kindX = "shm" /\ o \in 1..madeX /\ 0..(value[o] - 1) \subseteq pages[o]

\* What a tool knows of its object after the calls it has made, and what can
\* have gone wrong.  In the loop of shmread and shmwrite, nothing has changed if
\* the object was not resized since fstat().
InLoop(p) == toolX[p] \in {"shmread", "shmwrite"} /\ atX[p] = "loop"
XKnown(p) ==
  /\ toolX[p] # "shell" /\ atX[p] # "open" => hX[p] \in 1..madeX
  /\ X!At(p, "mqgetattr", "print") => seenX[p] = value[hX[p]]
  /\ toolX[p] # "shell" /\ atX[p] \in {"open", "fstat"} => trouble[p] = {}
  /\ "bus" \in trouble[p] => ~calm[p]
  /\ "mismatch" \in trouble[p] => ~(calm[p] /\ whole[p])
  /\ InLoop(p) => iX[p] <= seenX[p]
  /\ InLoop(p) /\ calm[p] =>
       /\ seenX[p] = value[hX[p]]
       /\ whole[p] => 0..(value[hX[p]] - 1) \subseteq pages[hX[p]]
       /\ toolX[p] = "shmwrite" => 0..(iX[p] - 1) \subseteq pages[hX[p]]

XInv == XTypes /\ XCount /\ XHeld /\ XUnits /\ XWritten /\ \A p \in Shells : XTool(p) /\ XKnown(p)

\* Objects that were made are among all objects.
LEMMA XIds == ASSUME XInv PROVE madeX \in 0..PosixRuns /\ 1..madeX \subseteq X!Objects
<1>1. PxCreating \subseteq Shells BY DEF PxCreating
<1>2. Cardinality(PxCreating) \in Nat BY <1>1, ToolsAssumption, CountChange
<1>3. madeX <= runsX /\ runsX <= PosixRuns /\ PosixRuns \in Nat
  BY <1>2, ToolsAssumption DEF XInv, XTypes, XCount
<1> QED BY <1>3 DEF XInv, XTypes, X!Objects

\* PosixTools counts with its own instance of Cardinality.
LEMMA XCardinality == ASSUME NEW S PROVE X!Cardinality(S) = Cardinality(S)
BY DEF X!Cardinality, Cardinality

\* The invariant contains the property.
LEMMA XInvIntact == XInv => ObjectsIntact
<1> SUFFICES ASSUME XInv PROVE X!UnitsConserved /\ X!ReadersSafe BY DEF ObjectsIntact
<1>1. X!UnitsConserved BY XCardinality DEF XInv, XUnits, X!UnitsConserved
<1>2. X!ReadersSafe BY DEF XInv, XKnown, X!ReadersSafe
<1> QED BY <1>1, <1>2

\* No tool has run yet.
LEMMA XInitInv == X!Init => XInv
<1> SUFFICES ASSUME X!Init PROVE XInv OBVIOUS
<1> USE ToolsAssumption
<1>1. XTypes BY DEF X!Init, XTypes, X!None
<1>2. XCount
  <2>1. PxCreating = {} BY DEF X!Init, PxCreating, PxCreators
  <2> QED BY <2>1, FS_EmptySet DEF X!Init, XCount
<1>3. \A o \in X!Objects : Holding(o) = {} BY DEF X!Init, Holding
<1>4. XHeld /\ XUnits /\ XWritten BY <1>3 DEF X!Init, XHeld, XUnits, XWritten
<1>5. \A p \in Shells : XTool(p) /\ XKnown(p) BY DEF X!Init, XTool, XKnown, X!At, InLoop
<1> QED BY <1>1, <1>2, <1>4, <1>5 DEF XInv

\* Only the process of shell p goes on; a resize may be noted for the others.
XProcess(p) ==
  /\ DOMAIN toolX' = Shells /\ DOMAIN atX' = Shells /\ DOMAIN hX' = Shells
  /\ argX' \in [Shells -> [excl : BOOLEAN, n : Nat]] /\ seenX' \in [Shells -> Nat] /\ iX' \in [Shells -> Nat]
  /\ calm' \in [Shells -> BOOLEAN] /\ whole' \in [Shells -> BOOLEAN] /\ DOMAIN trouble' = Shells
  /\ \A q \in Shells \ {p} :
       /\ toolX'[q] = toolX[q] /\ atX'[q] = atX[q] /\ hX'[q] = hX[q] /\ seenX'[q] = seenX[q]
       /\ iX'[q] = iX[q] /\ whole'[q] = whole[q] /\ trouble'[q] = trouble[q]
       /\ calm'[q] => calm[q]

Pausing(p) == toolX[p] = "semwait" /\ atX[p] = "pause"

\* The count of creating tools after a step.
LEMMA XCounted ==
  ASSUME XInv, NEW p \in Shells, XProcess(p), runsX' = runsX, toolX'[p] = "shell" \/ atX'[p] # "open",
         madeX' = madeX \/ (madeX' = madeX + 1 /\ p \in PxCreating)
  PROVE  XCount'
<1>1. PxCreating \subseteq Shells BY DEF PxCreating
<1>2. PxCreating' \subseteq PxCreating \ {p} BY DEF PxCreating, PxCreators, XProcess
<1>3. /\ Cardinality(PxCreating) \in Nat /\ Cardinality(PxCreating') \in Nat
      /\ Cardinality(PxCreating') <= Cardinality(PxCreating)
      /\ p \in PxCreating => Cardinality(PxCreating') + 1 <= Cardinality(PxCreating)
  BY <1>1, <1>2, ToolsAssumption, CountChange
<1>4. madeX \in Nat /\ runsX \in Nat /\ madeX + Cardinality(PxCreating) <= runsX BY DEF XInv, XTypes, XCount
<1>5. madeX' + Cardinality(PxCreating') <= runsX BY <1>3, <1>4
<1> QED BY <1>5 DEF XCount

\* A process that neither is nor gets asleep in semwait holds nothing.
LEMMA XNotHolding ==
  ASSUME XInv, NEW p \in Shells, XProcess(p), ~Pausing(p), ~Pausing(p)', NEW o
  PROVE  Holding(o)' = Holding(o)
BY DEF Holding, Pausing, XProcess

\* A step of one process that keeps what the others rely on.
LEMMA XProcessStep ==
  ASSUME XInv, NEW p \in Shells, XProcess(p), XTypes', XCount', XHeld', XUnits', XWritten',
         XTool(p)', XKnown(p)', kindX' = kindX, madeX <= madeX',
         kindX = "mq" => \A o \in 1..madeX : value'[o] = value[o],
         kindX = "shm" => \A q \in Shells \ {p} : calm'[q] /\ hX[q] \in 1..madeX =>
           /\ value'[hX[q]] = value[hX[q]]
           /\ \A k \in 0..(value[hX[q]] - 1) : k \in pages[hX[q]] => k \in pages'[hX[q]]
  PROVE  XInv'
<1>1. ASSUME NEW q \in Shells, q # p PROVE XTool(q)' /\ XKnown(q)'
  <2>1. /\ toolX'[q] = toolX[q] /\ atX'[q] = atX[q] /\ hX'[q] = hX[q] /\ seenX'[q] = seenX[q]
        /\ iX'[q] = iX[q] /\ whole'[q] = whole[q] /\ trouble'[q] = trouble[q]
        /\ calm'[q] => calm[q]
    BY <1>1 DEF XProcess
  <2>2. XTool(q) /\ XKnown(q) BY DEF XInv
  <2>3. XTool(q)' BY <2>1, <2>2 DEF XTool
  <2>4. madeX \in Nat /\ madeX' \in Nat /\ kindX \in {"sem", "shm", "mq"} BY DEF XInv, XTypes
  <2>5. toolX[q] # "shell" /\ atX[q] # "open" => hX[q] \in 1..madeX /\ hX[q] \in 1..madeX'
    BY <2>2, <2>4 DEF XKnown
  <2>6. X!At(q, "mqgetattr", "print")' => seenX'[q] = value'[hX'[q]]
    <3> SUFFICES ASSUME toolX[q] = "mqgetattr", atX[q] = "print" PROVE seenX[q] = value'[hX[q]]
      BY <2>1 DEF X!At
    <3>1. kindX = "mq" BY <2>2, <2>4 DEF XTool, PxSemTools, PxShmTools
    <3>2. hX[q] \in 1..madeX /\ seenX[q] = value[hX[q]] BY <2>2, <2>5 DEF XKnown, X!At
    <3> QED BY <3>1, <3>2
  <2>7. ASSUME InLoop(q)', calm'[q]
        PROVE  /\ seenX'[q] = value'[hX'[q]]
               /\ whole'[q] => 0..(value'[hX'[q]] - 1) \subseteq pages'[hX'[q]]
               /\ toolX'[q] = "shmwrite" => 0..(iX'[q] - 1) \subseteq pages'[hX'[q]]
    <3>1. InLoop(q) /\ calm[q] BY <2>1, <2>7 DEF InLoop
    <3>2. kindX = "shm" /\ hX[q] \in 1..madeX
      BY <2>2, <2>4, <2>5, <3>1 DEF InLoop, XTool, PxSemTools, PxMsgTools
    <3>3. /\ seenX[q] = value[hX[q]] /\ iX[q] <= seenX[q]
          /\ whole[q] => 0..(value[hX[q]] - 1) \subseteq pages[hX[q]]
          /\ toolX[q] = "shmwrite" => 0..(iX[q] - 1) \subseteq pages[hX[q]]
      BY <2>2, <3>1 DEF XKnown
    <3>4. /\ value'[hX[q]] = value[hX[q]]
          /\ \A k \in 0..(value[hX[q]] - 1) : k \in pages[hX[q]] => k \in pages'[hX[q]]
      BY <1>1, <2>7, <3>2
    <3>5. iX[q] \in Nat /\ seenX[q] \in Nat BY DEF XInv, XTypes
    <3>6. toolX[q] = "shmwrite" => 0..(iX[q] - 1) \subseteq pages'[hX[q]] BY <3>3, <3>4, <3>5
    <3> QED BY <2>1, <3>3, <3>4, <3>6
  <2>8. InLoop(q)' => iX'[q] <= seenX'[q] BY <2>1, <2>2 DEF XKnown, InLoop
  <2>9. /\ "bus" \in trouble'[q] => ~calm'[q]
        /\ "mismatch" \in trouble'[q] => ~(calm'[q] /\ whole'[q])
    BY <2>1, <2>2 DEF XKnown
  <2> QED BY <2>1, <2>2, <2>3, <2>5, <2>6, <2>7, <2>8, <2>9 DEF XKnown
<1> QED BY <1>1 DEF XInv

\* A step that leaves the objects alone.
LEMMA XQuietStep ==
  ASSUME XInv, NEW p \in Shells, XProcess(p), UNCHANGED <<kindX, runsX, X!object>>,
         ~Pausing(p), ~Pausing(p)', toolX'[p] = "shell" \/ atX'[p] # "open", XTool(p)', XKnown(p)'
  PROVE  XInv'
<1>1. UNCHANGED <<kindX, runsX, name, madeX, value, start, posts, held, leaked, pages, written>>
  BY DEF X!object
<1>2. XTypes' BY <1>1 DEF XInv, XTypes, XProcess
<1>3. XCount' BY <1>1, XCounted
<1>4. \A o \in X!Objects : Holding(o)' = Holding(o) BY XNotHolding
<1>5. XHeld' BY <1>1, <1>4 DEF XInv, XHeld
<1>6. XUnits' /\ XWritten' BY <1>1 DEF XInv, XUnits, XWritten
<1>7. madeX <= madeX' BY <1>1 DEF XInv, XTypes
<1> QED BY <1>1, <1>2, <1>3, <1>5, <1>6, <1>7, XProcessStep

\* The process of shell p ends.
LEMMA XEnds ==
  ASSUME XInv, NEW p \in Shells, X!Exit(p), XProcess(p),
         "bus" \in trouble'[p] => ~calm'[p], "mismatch" \in trouble'[p] => ~(calm'[p] /\ whole'[p])
  PROVE  toolX'[p] = "shell" /\ ~Pausing(p)' /\ XTool(p)' /\ XKnown(p)'
<1>1. toolX'[p] = "shell" BY DEF X!Exit, XInv, XTypes
<1> QED BY <1>1 DEF Pausing, XTool, XKnown, X!At, InLoop

\* It ends, having changed nothing of its own but the object it works on.
LEMMA XExited ==
  ASSUME XInv, NEW p \in Shells, X!Exit(p), X!Quiet, DOMAIN hX' = Shells,
         \A q \in Shells \ {p} : hX'[q] = hX[q]
  PROVE  XProcess(p) /\ toolX'[p] = "shell" /\ ~Pausing(p)' /\ XTool(p)' /\ XKnown(p)'
<1>1. /\ toolX' = [toolX EXCEPT ![p] = "shell"] /\ UNCHANGED <<atX, argX, seenX, iX, calm, whole, trouble>>
  BY DEF X!Exit, X!Quiet
<1>2. XProcess(p) BY <1>1 DEF XProcess, XInv, XTypes
<1>3. /\ "bus" \in trouble'[p] => ~calm'[p]
      /\ "mismatch" \in trouble'[p] => ~(calm'[p] /\ whole'[p])
  BY <1>1 DEF XInv, XKnown
<1> QED BY <1>2, <1>3, XEnds

\* It goes on to its next call.
LEMMA XGone ==
  ASSUME XInv, NEW p \in Shells, NEW a, X!Goto(p, a), X!Quiet, DOMAIN hX' = Shells,
         \A q \in Shells \ {p} : hX'[q] = hX[q]
  PROVE  /\ XProcess(p) /\ toolX'[p] = toolX[p] /\ atX'[p] = a /\ (kindX' = kindX => XTool(p)')
         /\ UNCHANGED <<argX, seenX, iX, calm, whole, trouble>>
<1>1. /\ atX' = [atX EXCEPT ![p] = a] /\ UNCHANGED <<toolX, argX, seenX, iX, calm, whole, trouble>>
  BY DEF X!Goto, X!Quiet
<1>2. XProcess(p) BY <1>1 DEF XProcess, XInv, XTypes
<1>3. atX'[p] = a BY <1>1 DEF XInv, XTypes
<1> QED BY <1>1, <1>2, <1>3 DEF XInv, XTool

\* Opening an existing object.
LEMMA XOpenStep ==
  ASSUME XInv, NEW p \in Shells, NEW t, t # "shell", NEW a \in {"get", "post", "wait", "fstat"},
         X!Open(p, t, a), UNCHANGED <<kindX, runsX>>
  PROVE  XInv'
<1>0. toolX[p] = t /\ atX[p] = "open" /\ ~Pausing(p) BY DEF X!Open, X!At, Pausing
<1>1. CASE name = 0
  <2>1. X!Exit(p) /\ X!Quiet /\ UNCHANGED <<hX, X!object>> BY <1>1 DEF X!Open, X!None
  <2>2. DOMAIN hX' = Shells /\ \A q \in Shells \ {p} : hX'[q] = hX[q] BY <2>1 DEF XInv, XTypes
  <2> QED BY <1>0, <2>1, <2>2, XExited, XQuietStep
<1>2. CASE name # 0
  <2>1. X!Goto(p, a) /\ X!Quiet /\ hX' = [hX EXCEPT ![p] = name] /\ UNCHANGED X!object
    BY <1>2 DEF X!Open, X!None
  <2>2. DOMAIN hX' = Shells /\ hX'[p] = name /\ \A q \in Shells \ {p} : hX'[q] = hX[q]
    BY <2>1 DEF XInv, XTypes
  <2>3. /\ XProcess(p) /\ toolX'[p] = t /\ atX'[p] = a /\ XTool(p)'
        /\ UNCHANGED <<seenX, iX, calm, whole, trouble>>
    BY <1>0, <2>1, <2>2, XGone
  <2>4. name \in 1..madeX /\ madeX' = madeX BY <1>2, <2>1 DEF XInv, XTypes, X!object
  <2>5. XKnown(p) BY DEF XInv
  <2>6. XKnown(p)' BY <1>0, <2>2, <2>3, <2>4, <2>5 DEF XKnown, X!At, InLoop
  <2>7. ~Pausing(p)' BY <2>3 DEF Pausing
  <2> QED BY <1>0, <2>1, <2>3, <2>6, <2>7, XQuietStep
<1> QED BY <1>1, <1>2

\* Unlinking a name: the object behind it stays with those that have it.
LEMMA XUnlinkStep ==
  ASSUME XInv, NEW p \in Shells, NEW t, X!Unlink(p, t), UNCHANGED <<kindX, runsX>> PROVE XInv'
<1>0. atX[p] = "open" /\ ~Pausing(p) BY DEF X!Unlink, X!At, Pausing
<1>1. /\ X!Exit(p) /\ X!Quiet /\ name' = 0
      /\ UNCHANGED <<hX, madeX, value, start, posts, held, leaked, pages, written>>
  BY DEF X!Unlink, X!None
<1>2. DOMAIN hX' = Shells /\ \A q \in Shells \ {p} : hX'[q] = hX[q] BY <1>1 DEF XInv, XTypes
<1>3. XProcess(p) /\ toolX'[p] = "shell" /\ ~Pausing(p)' /\ XTool(p)' /\ XKnown(p)' BY <1>1, <1>2, XExited
<1>4. XTypes' BY <1>1, <1>3 DEF XInv, XTypes, XProcess
<1>5. XCount' BY <1>1, <1>3, XCounted
<1>6. \A o \in X!Objects : Holding(o)' = Holding(o) BY <1>0, <1>3, XNotHolding
<1>7. XHeld' BY <1>1, <1>6 DEF XInv, XHeld
<1>8. XUnits' /\ XWritten' BY <1>1 DEF XInv, XUnits, XWritten
<1>9. madeX <= madeX' BY <1>1 DEF XInv, XTypes
<1> QED BY <1>1, <1>3, <1>4, <1>5, <1>7, <1>8, <1>9, XProcessStep

\* There is room for a new object.
LEMMA XRoom == ASSUME XInv, NEW p \in PxCreating PROVE madeX + 1 \in X!Objects
<1>1. PxCreating \subseteq Shells BY DEF PxCreating
<1>2. IsFiniteSet(PxCreating) BY <1>1, ToolsAssumption, FS_Subset
<1>3. Cardinality(PxCreating) \in Nat /\ Cardinality(PxCreating) # 0 BY <1>2, FS_CardinalityType, FS_EmptySet
<1> QED BY <1>3, ToolsAssumption DEF XInv, XTypes, XCount, X!Objects

\* O_CREAT makes an object or finds one; the tool ends or goes on to ftruncate.
LEMMA XCreateStep ==
  ASSUME XInv, NEW p \in PxCreating, NEW v \in Nat, X!Create(p, v), X!Quiet, UNCHANGED <<kindX, runsX>>,
         X!Exit(p) \/ X!Goto(p, "truncate")
  PROVE  XInv'
<1>0. p \in Shells /\ toolX[p] \in PxCreators /\ atX[p] = "open" /\ ~Pausing(p) BY DEF PxCreating, Pausing
<1>1. madeX + 1 \in X!Objects /\ madeX \in Nat BY XRoom DEF XInv, XTypes
<1>2. \/ /\ name = 0 /\ madeX' = madeX + 1 /\ name' = madeX + 1 /\ hX' = [hX EXCEPT ![p] = madeX + 1]
         /\ value' = [value EXCEPT ![madeX + 1] = v] /\ start' = [start EXCEPT ![madeX + 1] = v]
         /\ UNCHANGED <<posts, held, leaked, pages, written>>
      \/ /\ name # 0 /\ hX' = [hX EXCEPT ![p] = name]
         /\ UNCHANGED <<name, madeX, value, start, posts, held, leaked, pages, written>>
  BY DEF X!Create, X!None, X!object
<1>3. /\ DOMAIN hX' = Shells /\ hX'[p] \in 1..madeX' /\ \A q \in Shells \ {p} : hX'[q] = hX[q]
      /\ madeX' \in Nat /\ madeX <= madeX' /\ name' \in 0..madeX'
      /\ madeX' = madeX \/ madeX' = madeX + 1
      /\ UNCHANGED <<posts, held, leaked, pages, written>>
  BY <1>0, <1>1, <1>2 DEF XInv, XTypes
<1>4. /\ XProcess(p) /\ XTool(p)' /\ XKnown(p)' /\ ~Pausing(p)'
      /\ toolX'[p] = "shell" \/ atX'[p] # "open"
  <2>1. CASE X!Exit(p) BY <1>0, <1>3, <2>1, XExited
  <2>2. CASE X!Goto(p, "truncate")
    <3>1. /\ XProcess(p) /\ toolX'[p] = toolX[p] /\ atX'[p] = "truncate" /\ XTool(p)'
          /\ UNCHANGED <<seenX, iX, calm, whole, trouble>>
      BY <1>0, <1>3, <2>2, XGone
    <3>2. XKnown(p)' BY <1>0, <1>3, <3>1 DEF XInv, XKnown, X!At, InLoop
    <3> QED BY <3>1, <3>2 DEF Pausing
  <2> QED BY <2>1, <2>2
<1>5. /\ value' \in [X!Objects -> Nat] /\ start' \in [X!Objects -> Nat]
      /\ \A o \in 1..madeX : value'[o] = value[o] /\ start'[o] = start[o]
      /\ madeX' = madeX + 1 => value'[madeX + 1] = v /\ start'[madeX + 1] = v
  <2>1. value \in [X!Objects -> Nat] /\ start \in [X!Objects -> Nat] BY DEF XInv, XTypes
  <2>2. \A o \in 1..madeX : o # madeX + 1 /\ o \in X!Objects BY <1>1, XIds
  <2>3. CASE UNCHANGED <<madeX, value, start>> BY <1>1, <2>1, <2>3
  <2>4. CASE value' = [value EXCEPT ![madeX + 1] = v] /\ start' = [start EXCEPT ![madeX + 1] = v]
    BY <1>1, <2>1, <2>2, <2>4
  <2> QED BY <1>2, <2>3, <2>4
<1>6. XTypes' BY <1>3, <1>4, <1>5 DEF XInv, XTypes, XProcess
<1>7. XCount' BY <1>0, <1>3, <1>4, XCounted
<1>8. \A o \in X!Objects : Holding(o)' = Holding(o) BY <1>0, <1>4, XNotHolding
<1>9. XHeld'
  <2>1. \A o \in X!Objects : o \in Nat /\ (o > madeX' => o > madeX) BY <1>1, <1>3, ToolsAssumption DEF X!Objects
  <2> QED BY <1>3, <1>8, <2>1 DEF XInv, XHeld
<1>10. XUnits'
  <2> SUFFICES ASSUME kindX = "sem", NEW o \in 1..madeX'
               PROVE  value'[o] + Cardinality(held[o]) + leaked[o] = start'[o] + posts[o]
    BY <1>3 DEF XUnits
  <2>1. CASE o \in 1..madeX BY <1>5, <2>1 DEF XInv, XUnits
  <2>2. CASE o = madeX + 1 /\ madeX' = madeX + 1
    <3>1. Holding(o) = {}
      <4>1. \A q \in Shells : toolX[q] # "shell" /\ atX[q] # "open" => hX[q] \in 1..madeX BY DEF XInv, XKnown
      <4>2. \A q \in Shells : toolX[q] = "semwait" /\ atX[q] = "pause" => hX[q] # o BY <1>1, <2>2, <4>1
      <4> QED BY <4>2 DEF Holding
    <3>2. held[o] = {} /\ leaked[o] = 0 /\ posts[o] = 0 BY <1>1, <2>2, <3>1 DEF XInv, XHeld
    <3>3. Cardinality(held[o]) = 0 BY <3>2, FS_EmptySet
    <3> QED BY <1>5, <2>2, <3>2, <3>3
  <2> QED BY <1>1, <1>3, <2>1, <2>2
<1>11. XWritten' BY <1>1, <1>3, <1>5 DEF XInv, XWritten
<1> QED BY <1>0, <1>3, <1>4, <1>5, <1>6, <1>7, <1>9, <1>10, <1>11, XProcessStep

\* The sort of object follows from the tool.
LEMMA XKind ==
  ASSUME XInv, NEW p \in Shells
  PROVE  /\ toolX[p] \in PxSemTools => kindX = "sem"
         /\ toolX[p] \in PxShmTools => kindX = "shm"
         /\ toolX[p] \in PxMsgTools => kindX = "mq"
<1>1. kindX \in {"sem", "shm", "mq"} /\ XTool(p) BY DEF XInv, XTypes
<1>2. CASE kindX = "sem" BY <1>1, <1>2 DEF XTool, PxSemTools, PxShmTools, PxMsgTools
<1>3. CASE kindX = "shm" BY <1>1, <1>3 DEF XTool, PxSemTools, PxShmTools, PxMsgTools
<1>4. CASE kindX = "mq" BY <1>1, <1>4 DEF XTool, PxSemTools, PxShmTools, PxMsgTools
<1> QED BY <1>1, <1>2, <1>3, <1>4

\* A shell starts a tool.
LEMMA XRunStep == ASSUME XInv, NEW p \in Shells, X!Run(p) PROVE XInv'
<1> USE ToolsAssumption
<1>1. /\ toolX[p] = "shell" /\ runsX < PosixRuns /\ runsX' = runsX + 1
      /\ atX' = [atX EXCEPT ![p] = "open"] /\ trouble' = [trouble EXCEPT ![p] = {}]
      /\ UNCHANGED <<kindX, name, madeX, value, start, posts, held, leaked, pages, written,
                     hX, seenX, iX, calm, whole>>
  BY DEF X!Run, X!object
<1>2. PICK t \in X!Tools : /\ toolX' = [toolX EXCEPT ![p] = t]
                            /\ \E b \in X!Arguments(t) : argX' = [argX EXCEPT ![p] = b]
  BY DEF X!Run
<1>3. PICK a \in X!Arguments(t) : argX' = [argX EXCEPT ![p] = a] BY <1>2
<1>4. a \in [excl : BOOLEAN, n : Nat]
  <2>1. CASE t \in {"semcreate", "shmcreate", "mqcreate"}
    <3>1. X!Arguments(t) = [excl : BOOLEAN, n : IF kindX = "shm" THEN Lengths ELSE Values]
      BY <2>1 DEF X!Arguments
    <3>2. (IF kindX = "shm" THEN Lengths ELSE Values) \subseteq Nat OBVIOUS
    <3> QED BY <3>1, <3>2
  <2>2. CASE t \notin {"semcreate", "shmcreate", "mqcreate"}
    <3>1. a = [excl |-> FALSE, n |-> 0] BY <2>2 DEF X!Arguments
    <3>2. FALSE \in BOOLEAN /\ 0 \in Nat OBVIOUS
    <3> QED BY <3>1, <3>2
  <2> QED BY <2>1, <2>2
<1>5. toolX'[p] = t /\ atX'[p] = "open" /\ trouble'[p] = {} BY <1>1, <1>2 DEF XInv, XTypes
<1>6. XProcess(p)
  <2>1. argX' \in [Shells -> [excl : BOOLEAN, n : Nat]] BY <1>3, <1>4 DEF XInv, XTypes
  <2> QED BY <1>1, <1>2, <2>1 DEF XProcess, XInv, XTypes
<1>7. XTypes' BY <1>1, <1>6 DEF XInv, XTypes, XProcess
<1>8. XCount'
  <2>1. PxCreating \subseteq Shells /\ PxCreating' \subseteq PxCreating \cup {p}
    BY <1>6 DEF PxCreating, XProcess
  <2>2. /\ Cardinality(PxCreating) \in Nat /\ Cardinality(PxCreating') \in Nat
        /\ Cardinality(PxCreating') <= Cardinality(PxCreating) + 1
    BY <2>1, CountChange
  <2>3. madeX \in Nat /\ runsX \in Nat /\ madeX + Cardinality(PxCreating) <= runsX BY DEF XInv, XTypes, XCount
  <2>4. madeX' + Cardinality(PxCreating') <= runsX' BY <1>1, <2>2, <2>3
  <2> QED BY <2>4 DEF XCount
<1>9. ~Pausing(p) /\ ~Pausing(p)' BY <1>1, <1>5 DEF Pausing
<1>10. \A o \in X!Objects : Holding(o)' = Holding(o) BY <1>6, <1>9, XNotHolding
<1>11. XHeld' BY <1>1, <1>10 DEF XInv, XHeld
<1>12. XUnits' /\ XWritten' BY <1>1 DEF XInv, XUnits, XWritten
<1>13. XTool(p)'
  <2>1. kindX \in {"sem", "shm", "mq"} BY DEF XInv, XTypes
  <2>2. /\ kindX = "sem" => t \in PxSemTools
        /\ kindX = "shm" => t \in PxShmTools
        /\ kindX = "mq" => t \in PxMsgTools
    BY DEF X!Tools, PxSemTools, PxShmTools, PxMsgTools
  <2> QED BY <1>1, <1>5, <2>1, <2>2 DEF XTool
<1>14. XKnown(p)' BY <1>5 DEF XKnown, X!At, InLoop
<1>15. madeX <= madeX' BY <1>1 DEF XInv, XTypes
<1> QED BY <1>1, <1>6, <1>7, <1>8, <1>11, <1>12, <1>13, <1>14, <1>15, XProcessStep

\* A tool ends without having touched an object.
LEMMA XEndStep ==
  ASSUME XInv, NEW p \in Shells, X!Exit(p), X!Quiet, ~Pausing(p), UNCHANGED <<hX, X!object, kindX, runsX>>
  PROVE  XInv'
<1>1. DOMAIN hX' = Shells /\ \A q \in Shells \ {p} : hX'[q] = hX[q] BY DEF XInv, XTypes
<1> QED BY <1>1, XExited, XQuietStep

\* semgetvalue reads a value.
LEMMA XGetValueStep ==
  ASSUME XInv, NEW p \in Shells, X!At(p, "semgetvalue", "get"), X!Exit(p), NEW v \in Nat,
         seenX' = [seenX EXCEPT ![p] = v],
         UNCHANGED <<X!object, argX, hX, iX, calm, whole, trouble, kindX, runsX>>
  PROVE  XInv'
<1>1. /\ toolX' = [toolX EXCEPT ![p] = "shell"] /\ UNCHANGED atX BY DEF X!Exit
<1>2. XProcess(p) BY <1>1 DEF XProcess, XInv, XTypes
<1>3. /\ "bus" \in trouble'[p] => ~calm'[p]
      /\ "mismatch" \in trouble'[p] => ~(calm'[p] /\ whole'[p])
  BY DEF XInv, XKnown
<1>4. ~Pausing(p) BY DEF Pausing, X!At
<1> QED BY <1>2, <1>3, <1>4, XEnds, XQuietStep

\* A step that changes the state of semaphore w and keeps its balance.
LEMMA XUnitStep ==
  ASSUME XInv, NEW p \in Shells, XProcess(p), XTool(p)', XKnown(p)', toolX'[p] = "shell" \/ atX'[p] # "open",
         kindX = "sem", NEW w \in 1..madeX, UNCHANGED <<name, madeX, start, pages, written, kindX, runsX>>,
         value' \in [X!Objects -> Nat], posts' \in [X!Objects -> Nat], leaked' \in [X!Objects -> Nat],
         held' \in [X!Objects -> SUBSET Shells], \A o \in X!Objects : held'[o] = Holding(o)',
         \A o \in X!Objects \ {w} :
           value'[o] = value[o] /\ posts'[o] = posts[o] /\ leaked'[o] = leaked[o] /\ held'[o] = held[o],
         value'[w] + Cardinality(held'[w]) + leaked'[w] = start[w] + posts'[w]
  PROVE  XInv'
<1>1. XTypes' BY DEF XInv, XTypes, XProcess
<1>2. XCount' BY XCounted
<1>3. madeX \in Nat BY DEF XInv, XTypes
<1>4. XHeld'
  <2>1. \A o \in X!Objects : o > madeX => o # w BY <1>3
  <2> QED BY <2>1 DEF XInv, XHeld
<1>5. XUnits'
  <2> SUFFICES ASSUME NEW o \in 1..madeX
               PROVE  value'[o] + Cardinality(held'[o]) + leaked'[o] = start[o] + posts'[o]
    BY DEF XUnits
  <2>1. o \in X!Objects BY XIds
  <2>2. value[o] + Cardinality(held[o]) + leaked[o] = start[o] + posts[o] BY DEF XInv, XUnits
  <2>3. CASE o # w BY <2>1, <2>2, <2>3
  <2> QED BY <2>3
<1>6. XWritten'
  <2>1. written = {} BY DEF XInv, XWritten
  <2> QED BY <2>1 DEF XWritten
<1> QED BY <1>1, <1>2, <1>3, <1>4, <1>5, <1>6, XProcessStep

\* What a process asleep in semwait, or about to take a unit, works on.
LEMMA XSemaphore ==
  ASSUME XInv, NEW p \in Shells, toolX[p] \in PxSemTools, atX[p] # "open"
  PROVE  /\ kindX = "sem" /\ hX[p] \in 1..madeX /\ hX[p] \in X!Objects
         /\ value[hX[p]] \in Nat /\ posts[hX[p]] \in Nat /\ start[hX[p]] \in Nat /\ leaked[hX[p]] \in Nat
         /\ held[hX[p]] \subseteq Shells /\ IsFiniteSet(held[hX[p]]) /\ Cardinality(held[hX[p]]) \in Nat
         /\ value[hX[p]] + Cardinality(held[hX[p]]) + leaked[hX[p]] = start[hX[p]] + posts[hX[p]]
<1>1. kindX = "sem" BY XKind
<1>2. hX[p] \in 1..madeX BY DEF XInv, XKnown, PxSemTools
<1>3. hX[p] \in X!Objects BY <1>2, XIds
<1>4. held[hX[p]] \subseteq Shells BY <1>3 DEF XInv, XTypes
<1>5. IsFiniteSet(held[hX[p]]) /\ Cardinality(held[hX[p]]) \in Nat
  BY <1>4, ToolsAssumption, FS_Subset, FS_CardinalityType
<1>6. value[hX[p]] \in Nat /\ posts[hX[p]] \in Nat /\ start[hX[p]] \in Nat /\ leaked[hX[p]] \in Nat
  BY <1>3 DEF XInv, XTypes
<1> QED BY <1>1, <1>2, <1>3, <1>4, <1>5, <1>6 DEF XInv, XUnits

\* sem_post() by sempost.
LEMMA XPostStep ==
  ASSUME XInv, NEW p \in Shells, X!At(p, "sempost", "post"), X!Exit(p), X!Quiet,
         value' = [value EXCEPT ![hX[p]] = @ + 1], posts' = [posts EXCEPT ![hX[p]] = @ + 1],
         UNCHANGED <<hX, name, madeX, start, held, leaked, pages, written, kindX, runsX>>
  PROVE  XInv'
<1> DEFINE w == hX[p]
<1>1. DOMAIN hX' = Shells /\ \A q \in Shells \ {p} : hX'[q] = hX[q] BY DEF XInv, XTypes
<1>2. XProcess(p) /\ toolX'[p] = "shell" /\ ~Pausing(p)' /\ XTool(p)' /\ XKnown(p)' BY <1>1, XExited
<1>3. toolX[p] \in PxSemTools /\ atX[p] # "open" /\ ~Pausing(p) BY DEF X!At, Pausing, PxSemTools
<1>4. /\ kindX = "sem" /\ w \in 1..madeX /\ w \in X!Objects
      /\ value[w] \in Nat /\ posts[w] \in Nat /\ start[w] \in Nat /\ leaked[w] \in Nat /\ Cardinality(held[w]) \in Nat
      /\ value[w] + Cardinality(held[w]) + leaked[w] = start[w] + posts[w]
  BY <1>3, XSemaphore
<1>5. /\ value \in [X!Objects -> Nat] /\ posts \in [X!Objects -> Nat]
      /\ leaked \in [X!Objects -> Nat] /\ held \in [X!Objects -> SUBSET Shells]
  BY DEF XInv, XTypes
<1>6. /\ value' \in [X!Objects -> Nat] /\ posts' \in [X!Objects -> Nat]
      /\ value'[w] = value[w] + 1 /\ posts'[w] = posts[w] + 1
      /\ \A o \in X!Objects \ {w} : value'[o] = value[o] /\ posts'[o] = posts[o]
  BY <1>4, <1>5
<1> HIDE DEF w
<1>7. \A o \in X!Objects : held'[o] = Holding(o)' BY <1>2, <1>3, XNotHolding DEF XInv, XHeld
<1>8. value'[w] + Cardinality(held'[w]) + leaked'[w] = start[w] + posts'[w] BY <1>4, <1>6
<1> QED BY <1>2, <1>4, <1>5, <1>6, <1>7, <1>8, XUnitStep

\* semwait takes a unit and goes to sleep.
LEMMA XWaitStep ==
  ASSUME XInv, NEW p \in Shells, X!At(p, "semwait", "wait"), value[hX[p]] > 0, X!Goto(p, "pause"), X!Quiet,
         value' = [value EXCEPT ![hX[p]] = @ - 1], held' = [held EXCEPT ![hX[p]] = @ \cup {p}],
         UNCHANGED <<hX, name, madeX, start, posts, leaked, pages, written, kindX, runsX>>
  PROVE  XInv'
<1> DEFINE w == hX[p]
<1>1. DOMAIN hX' = Shells /\ \A q \in Shells \ {p} : hX'[q] = hX[q] BY DEF XInv, XTypes
<1>2. toolX[p] \in PxSemTools /\ toolX[p] = "semwait" /\ atX[p] = "wait" BY DEF X!At, PxSemTools
<1>3. /\ XProcess(p) /\ toolX'[p] = "semwait" /\ atX'[p] = "pause" /\ XTool(p)'
      /\ UNCHANGED <<seenX, iX, calm, whole, trouble>>
  BY <1>1, <1>2, XGone
<1>4. /\ kindX = "sem" /\ w \in 1..madeX /\ w \in X!Objects
      /\ value[w] \in Nat /\ posts[w] \in Nat /\ start[w] \in Nat /\ leaked[w] \in Nat
      /\ IsFiniteSet(held[w]) /\ held[w] \subseteq Shells /\ Cardinality(held[w]) \in Nat
      /\ value[w] + Cardinality(held[w]) + leaked[w] = start[w] + posts[w]
  BY <1>2, XSemaphore
<1>5. /\ value \in [X!Objects -> Nat] /\ posts \in [X!Objects -> Nat]
      /\ leaked \in [X!Objects -> Nat] /\ held \in [X!Objects -> SUBSET Shells]
  BY DEF XInv, XTypes
<1>6. /\ value' \in [X!Objects -> Nat] /\ held' \in [X!Objects -> SUBSET Shells]
      /\ value'[w] = value[w] - 1 /\ held'[w] = held[w] \cup {p}
      /\ \A o \in X!Objects \ {w} : value'[o] = value[o] /\ held'[o] = held[o]
  BY <1>4, <1>5
<1>7. XKnown(p)' BY <1>2, <1>3 DEF XInv, XKnown, X!At, InLoop
<1>8. hX'[p] = w BY DEF XInv, XTypes
<1> HIDE DEF w
<1>9. \A o \in X!Objects : held[o] = Holding(o) BY DEF XInv, XHeld
<1>10. ASSUME NEW o \in X!Objects PROVE held'[o] = Holding(o)'
  <2>1. CASE o = w
    <3>1. Holding(o)' = Holding(o) \cup {p} BY <1>2, <1>3, <1>8, <2>1 DEF Holding, XProcess
    <3> QED BY <1>6, <1>9, <2>1, <3>1
  <2>2. CASE o # w
    <3>1. Holding(o)' = Holding(o) BY <1>2, <1>3, <1>8, <2>2 DEF Holding, XProcess
    <3> QED BY <1>6, <1>9, <2>2, <3>1
  <2> QED BY <2>1, <2>2
<1>11. p \notin held[w] BY <1>2, <1>4, <1>9 DEF Holding
<1>12. Cardinality(held'[w]) = Cardinality(held[w]) + 1
  <2>1. Cardinality(held[w] \cup {p}) = Cardinality(held[w]) + 1 BY <1>4, <1>11, FS_AddElement
  <2> QED BY <1>6, <2>1
<1>13. value'[w] + Cardinality(held'[w]) + leaked'[w] = start[w] + posts'[w] BY <1>4, <1>6, <1>12
<1> QED BY <1>3, <1>4, <1>5, <1>6, <1>7, <1>10, <1>13, XUnitStep

\* A signal ends semwait; the unit that it had is lost.
LEMMA XInterruptStep == ASSUME XInv, NEW p \in Shells, X!Interrupt(p) PROVE XInv'
<1> DEFINE w == hX[p]
<1>0. /\ toolX[p] = "semwait" /\ atX[p] \in {"wait", "pause"} /\ X!Exit(p) /\ X!Quiet
      /\ leaked' = [leaked EXCEPT ![w] = IF atX[p] = "pause" THEN @ + 1 ELSE @]
      /\ held' = [held EXCEPT ![w] = @ \ {p}]
      /\ UNCHANGED <<kindX, runsX, hX, name, madeX, value, start, posts, pages, written>>
  BY DEF X!Interrupt
<1>1. DOMAIN hX' = Shells /\ \A q \in Shells \ {p} : hX'[q] = hX[q] BY <1>0 DEF XInv, XTypes
<1>2. toolX[p] \in PxSemTools /\ atX[p] # "open" BY <1>0 DEF PxSemTools
<1>3. XProcess(p) /\ toolX'[p] = "shell" /\ ~Pausing(p)' /\ XTool(p)' /\ XKnown(p)' BY <1>0, <1>1, XExited
<1>4. /\ kindX = "sem" /\ w \in 1..madeX /\ w \in X!Objects
      /\ value[w] \in Nat /\ posts[w] \in Nat /\ start[w] \in Nat /\ leaked[w] \in Nat
      /\ IsFiniteSet(held[w]) /\ held[w] \subseteq Shells /\ Cardinality(held[w]) \in Nat
      /\ value[w] + Cardinality(held[w]) + leaked[w] = start[w] + posts[w]
  BY <1>2, XSemaphore
<1>5. /\ value \in [X!Objects -> Nat] /\ posts \in [X!Objects -> Nat]
      /\ leaked \in [X!Objects -> Nat] /\ held \in [X!Objects -> SUBSET Shells]
  BY DEF XInv, XTypes
<1>6. /\ leaked' \in [X!Objects -> Nat] /\ held' \in [X!Objects -> SUBSET Shells]
      /\ leaked'[w] = (IF atX[p] = "pause" THEN leaked[w] + 1 ELSE leaked[w]) /\ held'[w] = held[w] \ {p}
      /\ \A o \in X!Objects \ {w} : leaked'[o] = leaked[o] /\ held'[o] = held[o]
  BY <1>0, <1>4, <1>5
<1>8. \A q \in Shells : hX'[q] = hX[q] BY <1>0
<1>9. \A o \in X!Objects : held[o] = Holding(o) BY DEF XInv, XHeld
<1>10. ASSUME NEW o \in X!Objects PROVE held'[o] = Holding(o)'
  <2>0. Holding(o)' = Holding(o) \ {p} BY <1>3, <1>8 DEF Holding, XProcess
  <2>1. CASE o = w BY <1>6, <1>9, <2>0, <2>1
  <2>2. CASE o # w
    <3>1. p \notin Holding(o) BY <2>2 DEF Holding
    <3> QED BY <1>6, <1>9, <2>0, <2>2, <3>1
  <2> QED BY <2>1, <2>2
<1>11. p \in held[w] <=> atX[p] = "pause" BY <1>0, <1>4, <1>9 DEF Holding
<1> HIDE DEF w
<1>12. Cardinality(held'[w]) = IF atX[p] = "pause" THEN Cardinality(held[w]) - 1 ELSE Cardinality(held[w])
  <2>1. CASE atX[p] = "pause"
    <3>1. Cardinality(held[w] \ {p}) = Cardinality(held[w]) - 1 BY <1>4, <1>11, <2>1, FS_RemoveElement
    <3> QED BY <1>6, <2>1, <3>1
  <2>2. CASE atX[p] # "pause"
    <3>1. held'[w] = held[w] BY <1>6, <1>11, <2>2
    <3> QED BY <2>2, <3>1
  <2> QED BY <2>1, <2>2
<1>13. value'[w] + Cardinality(held'[w]) + leaked'[w] = start[w] + posts'[w] BY <1>0, <1>4, <1>6, <1>12
<1> QED BY <1>0, <1>3, <1>4, <1>5, <1>6, <1>10, <1>13, XUnitStep

\* Each step of the semaphore tools.
LEMMA XSemStep ==
  ASSUME XInv, NEW p \in Shells, UNCHANGED <<kindX, runsX>>,
         X!semcreate(p) \/ X!semgetvalue(p) \/ X!sempost(p) \/ X!semwait(p) \/ X!semunlink(p)
  PROVE  XInv'
<1>1. CASE X!semcreate(p)
  <2>1. X!At(p, "semcreate", "open") /\ X!Quiet BY <1>1 DEF X!semcreate
  <2>2. p \in PxCreating /\ ~Pausing(p) BY <2>1 DEF PxCreating, PxCreators, X!At, Pausing
  <2>3. argX[p].n \in Nat BY DEF XInv, XTypes
  <2>4. CASE X!Create(p, argX[p].n) /\ X!Exit(p) BY <2>1, <2>2, <2>3, <2>4, XCreateStep
  <2>5. CASE X!Refused(p) BY <2>1, <2>2, <2>5, XEndStep DEF X!Refused
  <2> QED BY <1>1, <2>4, <2>5 DEF X!semcreate
<1>2. CASE X!semgetvalue(p)
  <2>1. CASE X!Open(p, "semgetvalue", "get") BY <2>1, XOpenStep
  <2>2. CASE /\ X!At(p, "semgetvalue", "get") /\ X!Exit(p) /\ seenX' = [seenX EXCEPT ![p] = value[hX[p]]]
             /\ UNCHANGED <<X!object, argX, hX, iX, calm, whole, trouble>>
    <3>1. toolX[p] \in PxSemTools /\ atX[p] # "open" BY <2>2 DEF X!At, PxSemTools
    <3>2. value[hX[p]] \in Nat BY <3>1, XSemaphore
    <3> QED BY <2>2, <3>2, XGetValueStep
  <2> QED BY <1>2, <2>1, <2>2 DEF X!semgetvalue
<1>3. CASE X!sempost(p) BY <1>3, XOpenStep, XPostStep DEF X!sempost
<1>4. CASE X!semwait(p) BY <1>4, XOpenStep, XWaitStep DEF X!semwait
<1>5. CASE X!semunlink(p) BY <1>5, XUnlinkStep DEF X!semunlink
<1> QED BY <1>1, <1>2, <1>3, <1>4, <1>5

\* mqcreate1 makes a queue with the default attributes, mqgetattr reads what it
\* prints in the next step.
LEMMA XMqStep ==
  ASSUME XInv, NEW p \in Shells, UNCHANGED <<kindX, runsX>>,
         X!mqcreate(p) \/ X!mqcreate1(p) \/ X!mqgetattr(p) \/ X!mqunlink(p)
  PROVE  XInv'
<1>1. CASE X!mqcreate(p)
  <2>1. X!At(p, "mqcreate", "open") /\ X!Quiet BY <1>1 DEF X!mqcreate
  <2>2. p \in PxCreating /\ ~Pausing(p) BY <2>1 DEF PxCreating, PxCreators, X!At, Pausing
  <2>3. argX[p].n \in Nat BY DEF XInv, XTypes
  <2>4. CASE X!Create(p, argX[p].n) /\ X!Exit(p) BY <2>1, <2>2, <2>3, <2>4, XCreateStep
  <2>5. CASE X!Refused(p) BY <2>1, <2>2, <2>5, XEndStep DEF X!Refused
  <2> QED BY <1>1, <2>4, <2>5 DEF X!mqcreate
<1>2. CASE X!mqcreate1(p)
  <2> DEFINE v == CHOOSE v \in Values : TRUE
  <2>1. X!At(p, "mqcreate1", "open") /\ X!Quiet /\ X!Create(p, v) /\ X!Exit(p) BY <1>2 DEF X!mqcreate1
  <2>2. p \in PxCreating BY <2>1 DEF PxCreating, PxCreators, X!At
  <2>3. v \in Nat
    <3>1. PICK e \in Values : TRUE BY ToolsAssumption
    <3>2. v \in Values BY <3>1
    <3> QED BY <3>2, ToolsAssumption
  <2> HIDE DEF v
  <2> QED BY <2>1, <2>2, <2>3, XCreateStep
<1>3. CASE X!mqgetattr(p)
  <2>1. CASE X!Open(p, "mqgetattr", "get") BY <2>1, XOpenStep
  <2>2. CASE /\ X!At(p, "mqgetattr", "get") /\ X!Goto(p, "print") /\ seenX' = [seenX EXCEPT ![p] = value[hX[p]]]
             /\ UNCHANGED <<X!object, argX, hX, iX, calm, whole, trouble>>
    <3>1. toolX[p] = "mqgetattr" /\ atX[p] = "get" BY <2>2 DEF X!At
    <3>2. hX[p] \in 1..madeX BY <3>1 DEF XInv, XKnown
    <3>3. value[hX[p]] \in Nat BY <3>2, XIds DEF XInv, XTypes
    <3>4. UNCHANGED <<toolX, madeX, value>> /\ atX' = [atX EXCEPT ![p] = "print"] BY <2>2 DEF X!Goto, X!object
    <3>5. atX'[p] = "print" /\ seenX'[p] = value[hX[p]] BY <2>2, <3>4 DEF XInv, XTypes
    <3>6. XProcess(p)
      <4>1. seenX' \in [Shells -> Nat] BY <2>2, <3>3 DEF XInv, XTypes
      <4> QED BY <2>2, <3>4, <4>1 DEF XProcess, XInv, XTypes
    <3>7. XTool(p)' BY <3>4 DEF XInv, XTool
    <3>8. XKnown(p)' BY <2>2, <3>1, <3>2, <3>4, <3>5 DEF XInv, XKnown, InLoop, X!At
    <3>9. ~Pausing(p) /\ ~Pausing(p)' BY <3>1, <3>5 DEF Pausing
    <3> QED BY <2>2, <3>5, <3>6, <3>7, <3>8, <3>9, XQuietStep
  <2>3. CASE X!At(p, "mqgetattr", "print") /\ X!Exit(p) /\ X!Quiet /\ UNCHANGED <<hX, X!object>>
    <3>1. ~Pausing(p) BY <2>3 DEF X!At, Pausing
    <3> QED BY <2>3, <3>1, XEndStep
  <2> QED BY <1>3, <2>1, <2>2, <2>3 DEF X!mqgetattr
<1>4. CASE X!mqunlink(p) BY <1>4, XUnlinkStep DEF X!mqunlink
<1> QED BY <1>1, <1>2, <1>3, <1>4

\* ftruncate() by shmcreate: whoever works on the object takes note of a change.
LEMMA XTruncateStep ==
  ASSUME XInv, NEW p \in Shells, UNCHANGED <<kindX, runsX>>, X!At(p, "shmcreate", "truncate"), X!Exit(p),
         value' = [value EXCEPT ![hX[p]] = argX[p].n],
         pages' = [pages EXCEPT ![hX[p]] = @ \cap 0..(argX[p].n - 1)],
         written' = (IF value[hX[p]] = argX[p].n THEN written ELSE written \ {hX[p]}),
         calm' = [q \in Shells |-> calm[q] /\ (hX[q] = hX[p] => value[hX[p]] = argX[p].n)],
         UNCHANGED <<argX, hX, seenX, iX, whole, trouble, name, madeX, start, posts, held, leaked>>
  PROVE  XInv'
<1> DEFINE w == hX[p]
           n == argX[p].n
<1>1. toolX[p] = "shmcreate" /\ atX[p] = "truncate" /\ kindX = "shm" /\ ~Pausing(p)
  BY XKind DEF X!At, PxShmTools, Pausing
<1>2. w \in 1..madeX /\ madeX \in Nat BY <1>1 DEF XInv, XKnown, XTypes
<1>3. w \in X!Objects /\ n \in Nat BY <1>2, XIds DEF XInv, XTypes
<1>4. value \in [X!Objects -> Nat] /\ pages \in [X!Objects -> SUBSET Nat] BY DEF XInv, XTypes
<1>5. /\ value' \in [X!Objects -> Nat] /\ pages' \in [X!Objects -> SUBSET Nat]
      /\ value'[w] = n /\ pages'[w] = pages[w] \cap 0..(n - 1)
      /\ \A o \in X!Objects \ {w} : value'[o] = value[o] /\ pages'[o] = pages[o]
  BY <1>3, <1>4
<1>6. \A q \in Shells : calm'[q] => calm[q] /\ (hX[q] = w => value[w] = n) OBVIOUS
<1>7. XProcess(p)
  <2>1. calm' \in [Shells -> BOOLEAN] BY Zenon
  <2>2. toolX' = [toolX EXCEPT ![p] = "shell"] /\ UNCHANGED atX BY DEF X!Exit
  <2> QED BY <1>6, <2>1, <2>2 DEF XProcess, XInv, XTypes
<1>8. toolX'[p] = "shell" /\ ~Pausing(p)' /\ XTool(p)' /\ XKnown(p)'
  <2>1. /\ "bus" \in trouble'[p] => ~calm'[p]
        /\ "mismatch" \in trouble'[p] => ~(calm'[p] /\ whole'[p])
    BY <1>6 DEF XInv, XKnown
  <2> QED BY <1>7, <2>1, XEnds
<1> HIDE DEF w, n
<1>9. XTypes' BY <1>5, <1>7 DEF XInv, XTypes, XProcess
<1>10. XCount' BY <1>7, <1>8, XCounted
<1>11. XHeld'
  <2>1. \A o \in X!Objects : Holding(o)' = Holding(o) BY <1>1, <1>7, <1>8, XNotHolding
  <2> QED BY <2>1 DEF XInv, XHeld
<1>12. XUnits' BY <1>1 DEF XUnits
<1>13. XWritten'
  <2> SUFFICES ASSUME NEW o \in written' PROVE o \in 1..madeX /\ 0..(value'[o] - 1) \subseteq pages'[o]
    BY <1>1 DEF XWritten
  <2>1. o \in written /\ (o = w => value[w] = n) BY DEF w, n
  <2>2. o \in 1..madeX /\ 0..(value[o] - 1) \subseteq pages[o] BY <2>1 DEF XInv, XWritten
  <2>3. o \in X!Objects BY <2>2, XIds
  <2>4. CASE o = w BY <1>5, <2>1, <2>2, <2>4
  <2>5. CASE o # w BY <1>5, <2>2, <2>3, <2>5
  <2> QED BY <2>2, <2>4, <2>5
<1>14. ASSUME NEW q \in Shells \ {p}, calm'[q], hX[q] \in 1..madeX
       PROVE  /\ value'[hX[q]] = value[hX[q]]
              /\ \A k \in 0..(value[hX[q]] - 1) : k \in pages[hX[q]] => k \in pages'[hX[q]]
  <2>1. hX[q] \in X!Objects BY <1>14, XIds
  <2>2. CASE hX[q] = w BY <1>5, <1>6, <1>14, <2>2
  <2>3. CASE hX[q] # w BY <1>5, <2>1, <2>3
  <2> QED BY <2>2, <2>3
<1>15. madeX <= madeX' BY <1>2
<1> QED BY <1>1, <1>7, <1>8, <1>9, <1>10, <1>11, <1>12, <1>13, <1>14, <1>15, XProcessStep

\* What a tool of the memory objects works on.
LEMMA XMemory ==
  ASSUME XInv, NEW p \in Shells, toolX[p] \in PxShmTools, atX[p] # "open"
  PROVE  /\ kindX = "shm" /\ hX[p] \in 1..madeX /\ hX[p] \in X!Objects /\ ~Pausing(p)
         /\ value[hX[p]] \in Nat /\ pages[hX[p]] \subseteq Nat
<1>1. kindX = "shm" BY XKind
<1>2. hX[p] \in 1..madeX BY DEF XInv, XKnown, PxShmTools
<1>3. hX[p] \in X!Objects BY <1>2, XIds
<1>4. value[hX[p]] \in Nat /\ pages[hX[p]] \subseteq Nat BY <1>3 DEF XInv, XTypes
<1> QED BY <1>1, <1>2, <1>3, <1>4 DEF Pausing, PxShmTools

\* fstat() and mmap(): from now on a resize is noted.
LEMMA XMapStep ==
  ASSUME XInv, NEW p \in Shells, NEW t \in {"shmread", "shmwrite"}, X!Map(p, t), UNCHANGED <<kindX, runsX>>
  PROVE  XInv'
<1>1. CASE X!Open(p, t, "fstat") BY <1>1, XOpenStep
<1>2. CASE /\ X!At(p, t, "fstat") /\ seenX' = [seenX EXCEPT ![p] = value[hX[p]]] /\ iX' = [iX EXCEPT ![p] = 0]
           /\ calm' = [calm EXCEPT ![p] = TRUE] /\ whole' = [whole EXCEPT ![p] = hX[p] \in written]
           /\ IF value[hX[p]] = 0 THEN X!Exit(p) ELSE X!Goto(p, "loop")
           /\ UNCHANGED <<argX, hX, trouble, X!object>>
  <2>1. toolX[p] = t /\ atX[p] = "fstat" /\ toolX[p] \in PxShmTools BY <1>2 DEF X!At, PxShmTools
  <2>2. hX[p] \in 1..madeX /\ ~Pausing(p) /\ value[hX[p]] \in Nat BY <2>1, XMemory
  <2>3. trouble'[p] = {} BY <1>2, <2>1 DEF XInv, XKnown
  <2>4. UNCHANGED <<madeX, value, pages, written>> BY <1>2 DEF X!object
  <2>5. /\ seenX' \in [Shells -> Nat] /\ iX' \in [Shells -> Nat] /\ seenX'[p] = value[hX[p]] /\ iX'[p] = 0
        /\ \A q \in Shells \ {p} : seenX'[q] = seenX[q] /\ iX'[q] = iX[q]
    BY <1>2, <2>2 DEF XInv, XTypes
  <2>6. /\ calm' \in [Shells -> BOOLEAN] /\ whole' \in [Shells -> BOOLEAN]
        /\ \A q \in Shells \ {p} : whole'[q] = whole[q] /\ (calm'[q] => calm[q])
        /\ whole'[p] => hX[p] \in written
    <3>1. calm \in [Shells -> BOOLEAN] /\ whole \in [Shells -> BOOLEAN] BY DEF XInv, XTypes
    <3>2. /\ (hX[p] \in written) \in BOOLEAN /\ TRUE \in BOOLEAN OBVIOUS
    <3>3. calm' \in [Shells -> BOOLEAN] BY <1>2, <3>1, <3>2, Zenon
    <3>4. whole' \in [Shells -> BOOLEAN] BY <1>2, <3>1, <3>2, Zenon
    <3> QED BY <1>2, <3>1, <3>3, <3>4
  <2>7. CASE X!Exit(p)
    <3>1. toolX' = [toolX EXCEPT ![p] = "shell"] /\ UNCHANGED atX BY <2>7 DEF X!Exit
    <3>2. XProcess(p) BY <1>2, <2>5, <2>6, <3>1 DEF XProcess, XInv, XTypes
    <3>3. toolX'[p] = "shell" /\ ~Pausing(p)' /\ XTool(p)' /\ XKnown(p)' BY <2>3, <2>7, <3>2, XEnds
    <3> QED BY <1>2, <2>2, <3>2, <3>3, XQuietStep
  <2>8. CASE X!Goto(p, "loop")
    <3>1. atX' = [atX EXCEPT ![p] = "loop"] /\ UNCHANGED toolX BY <2>8 DEF X!Goto
    <3>2. XProcess(p) BY <1>2, <2>5, <2>6, <3>1 DEF XProcess, XInv, XTypes
    <3>3. atX'[p] = "loop" /\ toolX'[p] = t /\ hX'[p] = hX[p] BY <1>2, <2>1, <3>1 DEF XInv, XTypes
    <3>4. XTool(p)' BY <1>2, <3>1 DEF XInv, XTool
    <3>5. whole'[p] => 0..(value[hX[p]] - 1) \subseteq pages[hX[p]] BY <2>6 DEF XInv, XWritten
    <3>6. 0..(iX'[p] - 1) = {} BY <2>5
    <3>7. XKnown(p)' BY <2>2, <2>3, <2>4, <2>5, <3>3, <3>5, <3>6 DEF XKnown, InLoop, X!At
    <3>8. ~Pausing(p)' BY <3>3 DEF Pausing
    <3> QED BY <1>2, <2>2, <3>2, <3>3, <3>4, <3>7, <3>8, XQuietStep
  <2> QED BY <1>2, <2>7, <2>8
<1> QED BY <1>1, <1>2 DEF X!Map

\* One page of the loop, read or written.  What goes wrong goes wrong because
\* the object was resized, or was not complete.
LEMMA XAccessStep ==
  ASSUME XInv, NEW p \in Shells, NEW t \in {"shmread", "shmwrite"}, X!Access(p, t), UNCHANGED <<kindX, runsX>>,
         NEW what, X!Trouble(p, what), what \subseteq {"bus", "mismatch"},
         "bus" \in what => iX[p] >= value[hX[p]],
         "mismatch" \in what => iX[p] < value[hX[p]] /\ iX[p] \notin pages[hX[p]],
         UNCHANGED <<name, madeX, value, start, posts, held, leaked, written>>,
         pages' \in [X!Objects -> SUBSET Nat], \A o \in X!Objects : pages[o] \subseteq pages'[o],
         t = "shmwrite" /\ iX[p] < value[hX[p]] => iX[p] \in pages'[hX[p]]
  PROVE  XInv'
<1> DEFINE w == hX[p]
<1>1. /\ toolX[p] = t /\ atX[p] = "loop" /\ toolX[p] \in PxShmTools /\ iX[p] < seenX[p]
      /\ UNCHANGED <<argX, hX, seenX, calm, whole>>
  BY DEF X!Access, X!At, PxShmTools
<1>2. w \in 1..madeX /\ w \in X!Objects /\ ~Pausing(p) /\ value[w] \in Nat /\ kindX = "shm" BY <1>1, XMemory
<1>3. trouble' = [trouble EXCEPT ![p] = @ \cup what] BY DEF X!Trouble
<1>4. trouble'[p] = trouble[p] \cup what BY <1>3 DEF XInv, XTypes
<1>5. InLoop(p) /\ iX[p] \in Nat /\ seenX[p] \in Nat /\ madeX \in Nat BY <1>1 DEF InLoop, XInv, XTypes
<1>6. calm[p] =>
        /\ seenX[p] = value[w]
        /\ whole[p] => 0..(value[w] - 1) \subseteq pages[w]
        /\ t = "shmwrite" => 0..(iX[p] - 1) \subseteq pages[w]
  BY <1>1, <1>5 DEF XInv, XKnown
<1>7. /\ "bus" \in trouble'[p] => ~calm'[p]
      /\ "mismatch" \in trouble'[p] => ~(calm'[p] /\ whole'[p])
  <2>1. XKnown(p) BY DEF XInv
  <2>2. "bus" \in what => ~calm[p] BY <1>1, <1>2, <1>5, <1>6
  <2>3. "mismatch" \in what => ~(calm[p] /\ whole[p])
    <3> SUFFICES ASSUME "mismatch" \in what, calm[p], whole[p] PROVE FALSE OBVIOUS
    <3>1. iX[p] \in 0..(value[w] - 1) BY <1>2, <1>5
    <3> QED BY <1>6, <3>1
  <2> QED BY <1>1, <1>4, <2>1, <2>2, <2>3 DEF XKnown
<1>8. pages[w] \subseteq pages'[w] BY <1>2
<1>9. /\ XProcess(p) /\ XTool(p)' /\ XKnown(p)' /\ ~Pausing(p)' /\ (toolX'[p] = "shell" \/ atX'[p] # "open")
  <2>1. CASE iX[p] < value[w] /\ iX' = [iX EXCEPT ![p] = @ + 1] /\ X!Goto(p, "loop")
    <3>1. atX' = [atX EXCEPT ![p] = "loop"] /\ UNCHANGED toolX BY <2>1 DEF X!Goto
    <3>2. iX' \in [Shells -> Nat] /\ iX'[p] = iX[p] + 1 /\ (\A q \in Shells \ {p} : iX'[q] = iX[q])
      BY <2>1 DEF XInv, XTypes
    <3>3. XProcess(p) BY <1>1, <1>3, <3>1, <3>2 DEF XProcess, XInv, XTypes
    <3>4. atX'[p] = "loop" /\ toolX'[p] = t /\ hX'[p] = w /\ seenX'[p] = seenX[p]
          /\ (calm'[p] <=> calm[p]) /\ (whole'[p] <=> whole[p])
      BY <1>1, <3>1 DEF XInv, XTypes
    <3>5. XTool(p)' BY <3>1 DEF XInv, XTool
    <3>6. calm[p] /\ t = "shmwrite" => 0..(iX'[p] - 1) \subseteq pages'[w]
      <4> SUFFICES ASSUME calm[p], t = "shmwrite", NEW k \in 0..iX[p] PROVE k \in pages'[w]
        BY <1>5, <3>2
      <4>1. CASE k = iX[p] BY <2>1, <4>1
      <4>2. CASE k \in 0..(iX[p] - 1) BY <1>6, <1>8, <4>2
      <4> QED BY <1>5, <4>1, <4>2
    <3>7. calm[p] /\ whole[p] => 0..(value[w] - 1) \subseteq pages'[w] BY <1>6, <1>8
    <3>8. iX'[p] <= seenX[p] BY <1>1, <1>5, <3>2
    <3> HIDE DEF w
    <3>9. XKnown(p)' BY <1>2, <1>6, <1>7, <3>4, <3>6, <3>7, <3>8 DEF XKnown, InLoop, X!At
    <3> QED BY <3>3, <3>4, <3>5, <3>9 DEF Pausing
  <2>2. CASE X!Exit(p) /\ UNCHANGED iX
    <3>1. toolX' = [toolX EXCEPT ![p] = "shell"] /\ UNCHANGED atX BY <2>2 DEF X!Exit
    <3>2. XProcess(p) BY <1>1, <1>3, <2>2, <3>1 DEF XProcess, XInv, XTypes
    <3> QED BY <1>7, <2>2, <3>2, XEnds
  <2> QED BY <2>1, <2>2 DEF X!Access
<1> HIDE DEF w
<1>10. XTypes' BY <1>9 DEF XInv, XTypes, XProcess
<1>11. XCount' BY <1>9, XCounted
<1>12. XHeld'
  <2>1. \A o \in X!Objects : Holding(o)' = Holding(o) BY <1>2, <1>9, XNotHolding
  <2> QED BY <2>1 DEF XInv, XHeld
<1>13. XUnits' BY <1>2 DEF XUnits
<1>14. XWritten' BY XIds DEF XInv, XWritten
<1>15. \A q \in Shells \ {p} : calm'[q] /\ hX[q] \in 1..madeX =>
         /\ value'[hX[q]] = value[hX[q]]
         /\ \A k \in 0..(value[hX[q]] - 1) : k \in pages[hX[q]] => k \in pages'[hX[q]]
  BY XIds
<1>16. madeX <= madeX' BY <1>5
<1> QED BY <1>2, <1>9, <1>10, <1>11, <1>12, <1>13, <1>14, <1>15, <1>16, XProcessStep

\* The end of shmwrite: if nothing was resized, every page holds the pattern.
LEMMA XWriteEndStep ==
  ASSUME XInv, NEW p \in Shells, X!WriteEnd(p), UNCHANGED <<kindX, runsX>> PROVE XInv'
<1> DEFINE w == hX[p]
<1>1. /\ toolX[p] = "shmwrite" /\ atX[p] = "loop" /\ toolX[p] \in PxShmTools /\ iX[p] = seenX[p]
      /\ X!Exit(p) /\ X!Quiet /\ written' = (IF calm[p] THEN written \cup {w} ELSE written)
      /\ UNCHANGED <<hX, name, madeX, value, start, posts, held, leaked, pages>>
  BY DEF X!WriteEnd, X!At, PxShmTools
<1>2. w \in 1..madeX /\ ~Pausing(p) /\ kindX = "shm" /\ madeX \in Nat BY <1>1, XMemory DEF XInv, XTypes
<1>3. DOMAIN hX' = Shells /\ \A q \in Shells \ {p} : hX'[q] = hX[q] BY <1>1 DEF XInv, XTypes
<1>4. XProcess(p) /\ toolX'[p] = "shell" /\ ~Pausing(p)' /\ XTool(p)' /\ XKnown(p)' BY <1>1, <1>3, XExited
<1>5. XTypes' BY <1>1, <1>4 DEF XInv, XTypes, XProcess
<1>6. XCount' BY <1>1, <1>4, XCounted
<1>7. XHeld'
  <2>1. \A o \in X!Objects : Holding(o)' = Holding(o) BY <1>2, <1>4, XNotHolding
  <2> QED BY <1>1, <2>1 DEF XInv, XHeld
<1>8. XUnits' BY <1>2 DEF XUnits
<1>9. calm[p] => 0..(value[w] - 1) \subseteq pages[w] BY <1>1 DEF XInv, XKnown, InLoop
<1>10. XWritten'
  <2> SUFFICES ASSUME NEW o \in written' PROVE o \in 1..madeX /\ 0..(value[o] - 1) \subseteq pages[o]
    BY <1>1, <1>2 DEF XWritten
  <2>1. CASE o \in written BY <2>1 DEF XInv, XWritten
  <2>2. CASE o = w /\ calm[p] BY <1>2, <1>9, <2>2
  <2> QED BY <1>1, <2>1, <2>2
<1>11. madeX <= madeX' BY <1>1, <1>2
<1> QED BY <1>1, <1>2, <1>4, <1>5, <1>6, <1>7, <1>8, <1>10, <1>11, XProcessStep

\* Each step of the tools for memory objects.
LEMMA XShmStep ==
  ASSUME XInv, NEW p \in Shells, UNCHANGED <<kindX, runsX>>,
         X!shmcreate(p) \/ X!shmread(p) \/ X!shmwrite(p) \/ X!shmunlink(p)
  PROVE  XInv'
<1>1. CASE X!shmcreate(p)
  <2>1. CASE X!At(p, "shmcreate", "open")
    <3>1. X!Quiet /\ ((X!Create(p, 0) /\ X!Goto(p, "truncate")) \/ X!Refused(p))
      BY <1>1, <2>1 DEF X!shmcreate, X!At
    <3>2. p \in PxCreating /\ ~Pausing(p) BY <2>1 DEF PxCreating, PxCreators, X!At, Pausing
    <3>3. CASE X!Create(p, 0) /\ X!Goto(p, "truncate") BY <3>1, <3>2, <3>3, XCreateStep
    <3>4. CASE X!Refused(p) BY <3>1, <3>2, <3>4, XEndStep DEF X!Refused
    <3> QED BY <3>1, <3>3, <3>4
  <2>2. CASE X!At(p, "shmcreate", "truncate") BY <1>1, <2>2, XTruncateStep DEF X!shmcreate, X!At
  <2> QED BY <1>1, <2>1, <2>2 DEF X!shmcreate
<1>2. CASE X!shmread(p)
  <2>1. CASE X!Map(p, "shmread") BY <2>1, XMapStep
  <2>2. CASE /\ X!Access(p, "shmread") /\ UNCHANGED X!object
             /\ X!Trouble(p, CASE iX[p] >= value[hX[p]] -> {"bus"} [] iX[p] \in pages[hX[p]] -> {}
                               [] OTHER -> {"mismatch"})
    <3> DEFINE what == CASE iX[p] >= value[hX[p]] -> {"bus"} [] iX[p] \in pages[hX[p]] -> {}
                         [] OTHER -> {"mismatch"}
    <3>1. X!Trouble(p, what) BY <2>2
    <3>2. UNCHANGED <<name, madeX, value, start, posts, held, leaked, written, pages>> BY <2>2 DEF X!object
    <3>3. toolX[p] \in PxShmTools /\ atX[p] # "open" BY <2>2 DEF X!Access, X!At, PxShmTools
    <3>4. hX[p] \in X!Objects /\ value[hX[p]] \in Nat BY <3>3, XMemory
    <3>5. iX[p] \in Nat /\ pages \in [X!Objects -> SUBSET Nat] BY DEF XInv, XTypes
    <3>6. ~(iX[p] < value[hX[p]] /\ iX[p] \in pages[hX[p]] /\ iX[p] >= value[hX[p]]) BY <3>4, <3>5
    <3>7. /\ what \subseteq {"bus", "mismatch"}
          /\ "bus" \in what => iX[p] >= value[hX[p]]
          /\ "mismatch" \in what => iX[p] < value[hX[p]] /\ iX[p] \notin pages[hX[p]]
      <4>1. CASE iX[p] >= value[hX[p]]
        <5>1. what = {"bus"} \/ iX[p] \in pages[hX[p]] BY <4>1
        <5> QED BY <4>1, <5>1
      <4>2. CASE iX[p] < value[hX[p]] BY <3>4, <3>5, <4>2
      <4> QED BY <3>4, <3>5, <4>1, <4>2
    <3> HIDE DEF what
    <3> QED BY <2>2, <3>1, <3>2, <3>4, <3>5, <3>7, XAccessStep
  <2>3. CASE X!At(p, "shmread", "loop") /\ X!Exit(p) /\ X!Quiet /\ UNCHANGED <<hX, X!object>>
    <3>1. ~Pausing(p) BY <2>3 DEF X!At, Pausing
    <3> QED BY <2>3, <3>1, XEndStep
  <2> QED BY <1>2, <2>1, <2>2, <2>3 DEF X!shmread
<1>3. CASE X!shmwrite(p)
  <2>1. CASE X!Map(p, "shmwrite") BY <2>1, XMapStep
  <2>2. CASE /\ X!Access(p, "shmwrite") /\ X!Trouble(p, IF iX[p] >= value[hX[p]] THEN {"bus"} ELSE {})
             /\ pages' = [pages EXCEPT ![hX[p]] = @ \cup ({iX[p]} \cap 0..(value[hX[p]] - 1))]
             /\ UNCHANGED <<name, madeX, value, start, posts, held, leaked, written>>
    <3> DEFINE what == IF iX[p] >= value[hX[p]] THEN {"bus"} ELSE {}
    <3>1. X!Trouble(p, what) BY <2>2
    <3>2. toolX[p] \in PxShmTools /\ atX[p] # "open" BY <2>2 DEF X!Access, X!At, PxShmTools
    <3>3. hX[p] \in X!Objects /\ value[hX[p]] \in Nat BY <3>2, XMemory
    <3>4. iX[p] \in Nat /\ pages \in [X!Objects -> SUBSET Nat] BY DEF XInv, XTypes
    <3>5. /\ pages' \in [X!Objects -> SUBSET Nat] /\ \A o \in X!Objects : pages[o] \subseteq pages'[o]
          /\ iX[p] < value[hX[p]] => iX[p] \in pages'[hX[p]]
      BY <2>2, <3>3, <3>4
    <3>6. what \subseteq {"bus", "mismatch"} /\ ("bus" \in what => iX[p] >= value[hX[p]]) /\ "mismatch" \notin what
      OBVIOUS
    <3> HIDE DEF what
    <3> QED BY <2>2, <3>1, <3>5, <3>6, XAccessStep
  <2>3. CASE X!WriteEnd(p) BY <2>3, XWriteEndStep
  <2> QED BY <1>3, <2>1, <2>2, <2>3 DEF X!shmwrite
<1>4. CASE X!shmunlink(p) BY <1>4, XUnlinkStep DEF X!shmunlink
<1> QED BY <1>1, <1>2, <1>3, <1>4

\* Every step keeps the invariant.
LEMMA XStep == XInv /\ [Next]_vars => XInv'
<1> SUFFICES ASSUME XInv, [Next]_vars PROVE XInv' OBVIOUS
<1>1. CASE UNCHANGED varsX
  <2>1. UNCHANGED <<kindX, runsX, name, madeX, value, start, posts, held, leaked, pages, written,
                    toolX, atX, argX, hX, seenX, iX, calm, whole, trouble>>
    BY <1>1 DEF varsX
  <2>2. XTypes' BY <2>1 DEF XInv, XTypes
  <2>3. PxCreating' = PxCreating BY <2>1 DEF PxCreating
  <2>4. XCount' BY <2>1, <2>3 DEF XInv, XCount
  <2>5. \A o \in X!Objects : Holding(o)' = Holding(o) BY <2>1 DEF Holding
  <2>6. XHeld' BY <2>1, <2>5 DEF XInv, XHeld
  <2>7. XUnits' /\ XWritten' BY <2>1 DEF XInv, XUnits, XWritten
  <2>8. ASSUME NEW p \in Shells PROVE XTool(p)' /\ XKnown(p)'
    <3>1. XTool(p) /\ XKnown(p) BY DEF XInv
    <3> QED BY <2>1, <3>1 DEF XTool, XKnown, X!At, InLoop
  <2> QED BY <2>2, <2>4, <2>6, <2>7, <2>8 DEF XInv
<1>2. CASE X!Next
  <2>1. PICK p \in Shells : X!Run(p) \/ X!Step(p) \/ X!Interrupt(p) BY <1>2 DEF X!Next
  <2>2. CASE X!Step(p) BY <2>2, XSemStep, XShmStep, XMqStep DEF X!Step
  <2> QED BY <2>1, <2>2, XRunStep, XInterruptStep
<1> QED BY <1>1, <1>2 DEF Next, InN, InP, InF, InM, InX, InV, vars

\* Whatever the POSIX tools do to a name, no unit of a semaphore appears or
\* disappears but with a killed holder, and a reader of a memory object is
\* misled only by a resize or an unfinished writer.
THEOREM ObjectsStayIntact == Spec => []ObjectsIntact
<1>1. Init => XInv BY XInitInv DEF Init
<1>2. XInv /\ [Next]_vars => XInv' BY XStep
<1> QED BY <1>1, <1>2, XInvIntact, PTL DEF Spec
=============================================================================
