---------------------------- MODULE SemProdCons1 ----------------------------
(***************************************************************************)
(* src/ipc/src/pxsem/sem_prodcons1.c, run several times, one after another *)
(* or at the same time.  The three semaphores have names that outlive the  *)
(* process: each run creates them with O_CREAT | O_EXCL and unlinks them   *)
(* at the end, and a run that is killed, or fails half-way, leaves its     *)
(* names behind.  The buffer is private to a run.  A run in MemoryRuns     *)
(* executes sem_prodcons2.c, which differs only in that its semaphores are *)
(* part of its own memory: sem_init and sem_destroy replace the names.     *)
(***************************************************************************)
EXTENDS Integers, Sequences, FiniteSets, Semaphores

CONSTANTS
  Runs,        \* processes that execute the program
  MemoryRuns,  \* those of them that execute sem_prodcons2.c
  NBUFF, nitems,
  MaxKills     \* bound: how many runs may be killed

None == "none"
SemNames == <<"mutex", "nempty", "nstored">>        \* in the order main() uses
Names == {SemNames[k] : k \in 1..3}
InitialValue(s) == CASE s = "mutex" -> 1 [] s = "nempty" -> NBUFF [] s = "nstored" -> 0

\* sem[<<r, s>>] is the semaphore that run r created under the name s.
VARIABLES
  names,     \* the run whose semaphore the name refers to, or None
  handle,    \* handle[r][s]: the creator of the semaphore r has opened as s
  buf, pi, ci,   \* per run: buffer, producer's i, consumer's i
  main,      \* per run: control point of main()
  kills

local == <<buf, pi, ci>>
vars == <<sem, pc, names, handle, local, main, kills>>

Threads == Runs \X {"producer", "consumer"}
P(r) == <<r, "producer">>
C(r) == <<r, "consumer">>
H(r, s) == <<handle[r][s], s>>

\* A control point of main(): a label and, for the calls made per name, which.
At(label, k) == <<label, k>>

-----------------------------------------------------------------------------
Start(r) ==
  /\ main[r] = At("idle", 0)
  /\ main' = [main EXCEPT ![r] = At("open", 1)]
  /\ UNCHANGED <<sem, pc, names, handle, local, kills>>

\* Mutant: sem_open without O_EXCL joins whatever the name refers to.
OpenShared(r) ==
  \E k \in 1..3 : LET s == SemNames[k] IN
    /\ r \notin MemoryRuns /\ main[r] = At("open", k)
    /\ main' = [main EXCEPT ![r] = IF k = 3 THEN At("create", 0) ELSE At("open", k + 1)]
    /\ names' = IF names[s] = None THEN [names EXCEPT ![s] = r] ELSE names
    /\ handle' = [handle EXCEPT ![r][s] = names'[s]]
    /\ sem' = IF names[s] = None THEN [sem EXCEPT ![<<r, s>>] = InitialValue(s)] ELSE sem
    /\ UNCHANGED <<pc, local, kills>>

\* sem_open of the k-th name: EEXIST makes the run exit(1), keeping the names
\* it has created so far.
Open(r) ==
  \E k \in 1..3 : LET s == SemNames[k] IN
    /\ r \notin MemoryRuns /\ main[r] = At("open", k)
    /\ IF names[s] = None
         THEN /\ main' = [main EXCEPT ![r] = IF k = 3 THEN At("create", 0) ELSE At("open", k + 1)]
              /\ names' = [names EXCEPT ![s] = r]
              /\ handle' = [handle EXCEPT ![r][s] = r]
              /\ sem' = [sem EXCEPT ![<<r, s>>] = InitialValue(s)]
         ELSE /\ main' = [main EXCEPT ![r] = At("exited", 0)]
              /\ UNCHANGED <<names, handle, sem>>
    /\ UNCHANGED <<pc, local, kills>>

\* sem_init of all three semaphores, with the same values.
InitMemory(r) ==
  /\ r \in MemoryRuns /\ main[r] = At("open", 1)
  /\ main' = [main EXCEPT ![r] = At("create", 0)]
  /\ handle' = [handle EXCEPT ![r] = [s \in Names |-> r]]
  /\ sem' = [o \in Runs \X Names |-> IF o[1] = r THEN InitialValue(o[2]) ELSE sem[o]]
  /\ UNCHANGED <<pc, names, local, kills>>

CreateThreads(r) ==
  /\ main[r] = At("create", 0) /\ main' = [main EXCEPT ![r] = At("join", 0)]
  /\ pc' = [pc EXCEPT ![P(r)] = "nempty", ![C(r)] = "nstored"]
  /\ UNCHANGED <<sem, names, handle, local, kills>>

Producer(r) ==
  /\ main[r] = At("join", 0)
  /\ \/ /\ \/ pi[r] < nitems /\ Wait(P(r), "nempty", H(r, "nempty"), "mutex")
           \/ pi[r] >= nitems /\ Step(P(r), "nempty", "done")
           \/ Wait(P(r), "mutex", H(r, "mutex"), "store")
           \/ Post(P(r), "unlock", H(r, "mutex"), "stored")
        /\ UNCHANGED local
     \/ /\ Step(P(r), "store", "unlock")
        /\ buf' = [buf EXCEPT ![r][pi[r] % NBUFF] = pi[r]]
        /\ UNCHANGED <<pi, ci>>
     \/ /\ Post(P(r), "stored", H(r, "nstored"), "nempty")
        /\ pi' = [pi EXCEPT ![r] = @ + 1]
        /\ UNCHANGED <<buf, ci>>
  /\ UNCHANGED <<names, handle, main, kills>>

Consumer(r) ==
  /\ main[r] = At("join", 0)
  /\ \/ /\ \/ ci[r] < nitems /\ Wait(C(r), "nstored", H(r, "nstored"), "mutex")
           \/ ci[r] >= nitems /\ Step(C(r), "nstored", "done")
           \/ Wait(C(r), "mutex", H(r, "mutex"), "check")
           \/ Step(C(r), "check", "unlock")
           \/ Post(C(r), "unlock", H(r, "mutex"), "emptied")
        /\ UNCHANGED local
     \/ /\ Post(C(r), "emptied", H(r, "nempty"), "nstored")
        /\ ci' = [ci EXCEPT ![r] = @ + 1]
        /\ UNCHANGED <<buf, pi>>
  /\ UNCHANGED <<names, handle, main, kills>>

Join(r) ==
  /\ main[r] = At("join", 0) /\ pc[P(r)] = "done" /\ pc[C(r)] = "done"
  /\ main' = [main EXCEPT ![r] = At("unlink", 1)]
  /\ UNCHANGED <<sem, pc, names, handle, local, kills>>

\* sem_unlink of the k-th name: ENOENT makes the run exit(1).
Unlink(r) ==
  \E k \in 1..3 :
    /\ r \notin MemoryRuns /\ main[r] = At("unlink", k)
    /\ names' = [names EXCEPT ![SemNames[k]] = None]
    /\ main' = [main EXCEPT ![r] = IF names[SemNames[k]] = None THEN At("exited", 0)
                                   ELSE IF k = 3 THEN At("returned", 0) ELSE At("unlink", k + 1)]
    /\ UNCHANGED <<sem, pc, handle, local, kills>>

DestroyMemory(r) ==
  /\ r \in MemoryRuns /\ main[r] = At("unlink", 1)
  /\ main' = [main EXCEPT ![r] = At("returned", 0)]
  /\ UNCHANGED <<sem, pc, names, handle, local, kills>>

Ended(r) == main[r][1] \in {"returned", "exited", "killed"}

\* A signal ends the process; the names stay.
Kill(r) ==
  /\ kills < MaxKills /\ kills' = kills + 1
  /\ main[r] # At("idle", 0) /\ ~Ended(r)
  /\ main' = [main EXCEPT ![r] = At("killed", 0)]
  /\ UNCHANGED <<sem, pc, names, handle, local>>

Init ==
  /\ sem = [o \in Runs \X Names |-> 0]
  /\ pc = [t \in Threads |-> "unborn"]
  /\ names = [s \in Names |-> None]
  /\ handle = [r \in Runs |-> [s \in Names |-> None]]
  /\ buf = [r \in Runs |-> [k \in 0..(NBUFF - 1) |-> 0]]
  /\ pi = [r \in Runs |-> 0] /\ ci = [r \in Runs |-> 0]
  /\ main = [r \in Runs |-> At("idle", 0)]
  /\ kills = 0

Main(r) ==
  \/ Open(r) \/ InitMemory(r) \/ CreateThreads(r)
  \/ Join(r) \/ Unlink(r) \/ DestroyMemory(r)

Next ==
  \/ \E r \in Runs : Start(r) \/ Main(r) \/ Producer(r) \/ Consumer(r) \/ Kill(r)
  \/ (\A r \in Runs : Ended(r)) /\ UNCHANGED vars

\* Threads of a live process are scheduled; nobody has to start a run.
Spec ==
  /\ Init /\ [][Next]_vars
  /\ \A r \in Runs : WF_vars(Main(r)) /\ WF_vars(Producer(r)) /\ WF_vars(Consumer(r))

-----------------------------------------------------------------------------
\* However many runs of the program overlap, a consumer reads only what its
\* own producer stored (line 87 prints otherwise) ...
ReadsExpectedItem ==
  \A r \in Runs : main[r] = At("join", 0) /\ pc[C(r)] = "check" =>
    pi[r] > ci[r] /\ buf[r][ci[r] % NBUFF] = ci[r]

\* ... and no run removes a name that another run created.
UnlinksOwnNames ==
  \A r \in Runs, s \in Names :
    names[s] \notin {None, r} /\ main[r] # main'[r] => names'[s] = names[s]

RunsStayApart == [][ReadsExpectedItem' /\ UnlinksOwnNames]_vars

\* A run that was started comes to an end, even when an earlier one was killed
\* or a concurrent one holds the names: nobody waits for a dead process.
EveryRunEnds == \A r \in Runs : (main[r] = At("open", 1)) ~> Ended(r)
=============================================================================
