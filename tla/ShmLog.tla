------------------------------- MODULE ShmLog -------------------------------
(***************************************************************************)
(* src/ipc/src/pxshm/server2.c and client2.c: clients place messages in    *)
(* NMSG slots of shared memory, the server prints them.  A client takes    *)
(* its slot under the mutex but copies the message (strcpy) after it has   *)
(* released it.  A message is the pair of its client and loop index; an    *)
(* overflowing client only counts.  Any nonempty set of clients is         *)
(* started, once the server has initialised the shared memory; the server  *)
(* runs for ever.                                                          *)
(***************************************************************************)
EXTENDS Integers, Sequences, FiniteSets, SequencesExt, Semaphores

CONSTANTS
  Clients, NMSG,
  MaxLoops     \* bound: rounds of all clients together

Server == "server"
Zero == <<>>                 \* an untouched slot: the empty string

VARIABLES
  started, nloop,                \* the clients that run, their argument; never change
  nput, noverflow, msgdata,      \* struct shmstruct; msgoff[i] is slot i
  loop, offset,                  \* clients: loop counter, slot taken
  index, temp, lastnoverflow,    \* server
  printed, reports               \* what the server has printed: messages, counts
shm == <<nput, noverflow, msgdata>>
cli == <<started, nloop, loop, offset>>
srv == <<index, temp, lastnoverflow, printed, reports>>
vars == <<sem, pc, shm, cli, srv>>

-----------------------------------------------------------------------------
(* client2.c *)

\* sem_trywait(&nempty): a free slot, or EAGAIN.
Trywait(c) ==
  /\ c \in started /\ loop[c] < nloop
  /\ \/ Wait(c, "try", "nempty", "mutex")
     \/ sem["nempty"] = 0 /\ Step(c, "try", "o_lock")
  /\ UNCHANGED <<shm, cli, srv>>

\* Mutant: the counter is updated without its mutex.
OverflowUnlocked(c) ==
  /\ \/ Step(c, "o_lock", "o_incr") /\ offset' = [offset EXCEPT ![c] = noverflow] /\ UNCHANGED <<noverflow, loop>>
     \/ /\ Step(c, "o_incr", "try")
        /\ noverflow' = offset[c] + 1 /\ loop' = [loop EXCEPT ![c] = @ + 1] /\ UNCHANGED offset
  /\ UNCHANGED <<started, nloop, nput, msgdata, srv>>

\* noverflow++ under its own mutex, then the next round of the loop.
Overflow(c) ==
  /\ \/ Wait(c, "o_lock", "noverflowmutex", "o_incr") /\ UNCHANGED <<noverflow, loop>>
     \/ Step(c, "o_incr", "o_unlock") /\ noverflow' = noverflow + 1 /\ UNCHANGED loop
     \/ /\ Post(c, "o_unlock", "noverflowmutex", "try")
        /\ loop' = [loop EXCEPT ![c] = @ + 1] /\ UNCHANGED noverflow
  /\ UNCHANGED <<started, nloop, nput, msgdata, offset, srv>>

\* offset = msgoff[nput], advance nput, unlock.
TakeSlot(c) ==
  /\ \/ Wait(c, "mutex", "mutex", "take") /\ UNCHANGED <<nput, offset>>
     \/ /\ Step(c, "take", "unlock")
        /\ offset' = [offset EXCEPT ![c] = nput]
        /\ nput' = IF nput + 1 >= NMSG THEN 0 ELSE nput + 1
     \/ Post(c, "unlock", "mutex", "copy") /\ UNCHANGED <<nput, offset>>
  /\ UNCHANGED <<started, nloop, noverflow, msgdata, loop, srv>>

\* Mutant: the message is announced before it is copied.
PlaceEarly(c) ==
  /\ \/ Post(c, "copy", "nstroed", "post") /\ UNCHANGED <<msgdata, loop>>
     \/ /\ Step(c, "post", "try")
        /\ msgdata' = [msgdata EXCEPT ![offset[c]] = <<c, loop[c]>>]
        /\ loop' = [loop EXCEPT ![c] = @ + 1]
  /\ UNCHANGED <<started, nloop, nput, noverflow, offset, srv>>

\* strcpy into the slot, sem_post(&nstroed), next round of the loop.
Place(c) ==
  /\ \/ /\ Step(c, "copy", "post")
        /\ msgdata' = [msgdata EXCEPT ![offset[c]] = <<c, loop[c]>>] /\ UNCHANGED loop
     \/ /\ Post(c, "post", "nstroed", "try")
        /\ loop' = [loop EXCEPT ![c] = @ + 1] /\ UNCHANGED msgdata
  /\ UNCHANGED <<started, nloop, nput, noverflow, offset, srv>>

Client(c) == Trywait(c) \/ Overflow(c) \/ TakeSlot(c) \/ Place(c)

-----------------------------------------------------------------------------
(* server2.c *)

PrintMessage ==
  /\ \/ Wait(Server, "nstroed", "nstroed", "mutex") /\ UNCHANGED <<index, printed>>
     \/ Wait(Server, "mutex", "mutex", "print") /\ UNCHANGED <<index, printed>>
     \/ /\ Step(Server, "print", "unlock")
        /\ printed' = Append(printed, msgdata[index]) /\ index' = (index + 1) % NMSG
     \/ Post(Server, "unlock", "mutex", "nempty") /\ UNCHANGED <<index, printed>>
     \/ Post(Server, "nempty", "nempty", "o_lock") /\ UNCHANGED <<index, printed>>
  /\ UNCHANGED <<shm, cli, temp, lastnoverflow, reports>>

\* temp = noverflow under its mutex; printed when it has changed.  temp is an int
\* and noverflow a long: the counts here are far below INT_MAX.
ReportOverflow ==
  /\ \/ Wait(Server, "o_lock", "noverflowmutex", "o_read") /\ UNCHANGED <<temp, lastnoverflow, reports>>
     \/ Step(Server, "o_read", "o_unlock") /\ temp' = noverflow /\ UNCHANGED <<lastnoverflow, reports>>
     \/ /\ Post(Server, "o_unlock", "noverflowmutex", "nstroed")
        /\ IF temp # lastnoverflow
             THEN lastnoverflow' = temp /\ reports' = Append(reports, temp)
             ELSE UNCHANGED <<lastnoverflow, reports>>
        /\ UNCHANGED temp
  /\ UNCHANGED <<shm, cli, index, printed>>

Init ==
  /\ started \in SUBSET Clients \ {{}}
  /\ nloop \in {k \in 1..MaxLoops : k * Cardinality(started) <= MaxLoops}
  /\ sem = [s \in {"mutex", "nempty", "nstroed", "noverflowmutex"} |->
              CASE s = "nempty" -> NMSG [] s = "nstroed" -> 0 [] OTHER -> 1]
  /\ pc = [t \in Clients \cup {Server} |-> IF t = Server THEN "nstroed" ELSE "try"]
  /\ nput = 0 /\ noverflow = 0 /\ msgdata = [k \in 0..(NMSG - 1) |-> Zero]
  /\ loop = [c \in Clients |-> 0] /\ offset = [c \in Clients |-> 0]
  /\ index = 0 /\ temp = 0 /\ lastnoverflow = 0 /\ printed = <<>> /\ reports = <<>>

\* Every client has returned and the server waits for more messages.
Quiet ==
  /\ pc[Server] = "nstroed" /\ sem["nstroed"] = 0
  /\ \A c \in started : pc[c] = "try" /\ loop[c] >= nloop

ServerStep == PrintMessage \/ ReportOverflow
Next == (\E c \in Clients : Client(c)) \/ ServerStep \/ (Quiet /\ UNCHANGED vars)

\* Every process is scheduled; the others' loops are finite, so that is enough
\* to get a mutex in the end.
Spec ==
  /\ Init /\ [][Next]_vars
  /\ \A c \in Clients : WF_vars(Client(c))
  /\ WF_vars(ServerStep)

-----------------------------------------------------------------------------
\* The message the server prints is one that a client has placed in the slot
\* and that has not been printed before.
PrintsPlacedMessages ==
  /\ \A k \in 1..Len(printed) : printed[k] # Zero
  /\ IsInjective(printed)

\* With one client, through wrap-around and overflow, only placed messages are
\* printed and they come out in the order they were sent.
OneClientInOrder ==
  Cardinality(started) = 1 =>
    /\ PrintsPlacedMessages
    /\ \A j, k \in 1..Len(printed) : j < k => printed[j][2] < printed[k][2]

\* No message vanishes without being counted: in the end every attempt of
\* every client was either printed or counted in noverflow.
AllAccounted == <>(Quiet /\ Len(printed) + noverflow = Cardinality(started) * nloop)

\* The counts the server reports only grow, and never exceed what was counted.
ReportsGrow ==
  /\ \A j, k \in 1..Len(reports) : j < k => reports[j] < reports[k]
  /\ lastnoverflow <= temp /\ temp <= noverflow
=============================================================================
