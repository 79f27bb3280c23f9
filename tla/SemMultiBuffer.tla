--------------------------- MODULE SemMultiBuffer ---------------------------
(***************************************************************************)
(* src/ipc/src/pxsem/sem_multibuffer.c: one thread read()s a file into     *)
(* NBUFF buffers, another write()s them out.  The buffer itself is used    *)
(* outside the mutex: only nempty and nstored keep the two threads apart.  *)
(* A block of the file is its number; read() returns at most one block,    *)
(* and 0 at the end of the file.                                           *)
(***************************************************************************)
EXTENDS Integers, Sequences, Semaphores

CONSTANTS NBUFF, NBlocks

EOF == 0                 \* shared.buff[i].n == 0
Unread == -1             \* data of a buffer while read() fills it

VARIABLES buff, offset, ip, ic, out
data == <<buff, offset, ip, ic, out>>
vars == <<sem, pc, data>>

Inc(k) == IF k + 1 >= NBUFF THEN 0 ELSE k + 1

\* Mutant: the producer does not wait for an empty buffer.
P_EnterNoWait ==
  /\ \/ Step("producer", "nempty", "mutex") \/ Wait("producer", "mutex", "mutex", "unlock")
     \/ Post("producer", "unlock", "mutex", "read")
  /\ UNCHANGED data

\* The critical region between sem_wait and sem_post of mutex is empty.
P_Enter ==
  /\ \/ Wait("producer", "nempty", "nempty", "mutex")
     \/ Wait("producer", "mutex", "mutex", "unlock")
     \/ Post("producer", "unlock", "mutex", "read")
  /\ UNCHANGED data

\* read() takes a while: the buffer is undefined until it returns.
P_Read ==
  \/ /\ Step("producer", "read", "reading")
     /\ buff' = [buff EXCEPT ![ip] = Unread]
     /\ UNCHANGED <<offset, ip, ic, out>>
  \/ /\ Step("producer", "reading", "stored")
     /\ buff' = [buff EXCEPT ![ip] = IF offset < NBlocks THEN offset + 1 ELSE EOF]
     /\ offset' = IF offset < NBlocks THEN offset + 1 ELSE offset
     /\ UNCHANGED <<ip, ic, out>>

P_Stored ==
  /\ Post("producer", "stored", "nstored", IF buff[ip] = EOF THEN "done" ELSE "nempty")
  /\ ip' = IF buff[ip] = EOF THEN ip ELSE Inc(ip)
  /\ UNCHANGED <<buff, offset, ic, out>>

C_Enter ==
  /\ \/ Wait("consumer", "nstored", "nstored", "mutex")
     \/ Wait("consumer", "mutex", "mutex", "unlock")
     \/ Post("consumer", "unlock", "mutex", "test")
  /\ UNCHANGED data

\* if(shared.buff[i].n == 0) return NULL; write(...)
C_Test ==
  /\ Step("consumer", "test", IF buff[ic] = EOF THEN "done" ELSE "write")
  /\ UNCHANGED data

C_Write ==
  /\ Step("consumer", "write", "emptied")
  /\ out' = Append(out, buff[ic])
  /\ UNCHANGED <<buff, offset, ip, ic>>

C_Emptied ==
  /\ Post("consumer", "emptied", "nempty", "nstored")
  /\ ic' = Inc(ic)
  /\ UNCHANGED <<buff, offset, ip, out>>

Init ==
  /\ sem = [s \in {"mutex", "nempty", "nstored"} |->
              CASE s = "mutex" -> 1 [] s = "nempty" -> NBUFF [] s = "nstored" -> 0]
  /\ pc = [producer |-> "nempty", consumer |-> "nstored"]
  /\ buff = [k \in 0..(NBUFF - 1) |-> EOF]    \* shared is zeroed
  /\ offset = 0 /\ ip = 0 /\ ic = 0 /\ out = <<>>

\* main() returns from its two pthread_join calls.
Joined == pc["producer"] = "done" /\ pc["consumer"] = "done"

Producer == P_Enter \/ P_Read \/ P_Stored
Consumer == C_Enter \/ C_Test \/ C_Write \/ C_Emptied
Next == Producer \/ Consumer \/ (Joined /\ UNCHANGED vars)
Spec == Init /\ [][Next]_vars /\ WF_vars(Producer) /\ WF_vars(Consumer)

-----------------------------------------------------------------------------
File == [k \in 1..NBlocks |-> k]

\* The copy completes: both threads end, and the whole file has been written.
CopyCompletes == <>(Joined /\ out = File)
=============================================================================
