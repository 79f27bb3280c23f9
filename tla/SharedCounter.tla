--------------------------- MODULE SharedCounter ----------------------------
(***************************************************************************)
(* A number that several processes or threads read, add to and write back: *)
(* src/ipc/src/lock, src/ipc/src/shm, src/ipc/src/pxshm (client1, server1) *)
(* and mutex.c and thread4.c of src/tcp-ip/socket/src.  They differ in the *)
(* lock they use, and in whether every worker uses the same one:           *)
(*   lock    "record"   fcntl lock, which the kernel frees with its owner  *)
(*           "shared"   semaphore or mutex that all workers see            *)
(*           "private"  semaphore on the stack, copied by fork()           *)
(*           "none"                                                        *)
(*   scope   the lock is held for one "item" or for the whole "loop"       *)
(*   workers "any" number of processes, the "pair" after a fork(), or      *)
(*           "threads", half of which count down                           *)
(***************************************************************************)
EXTENDS Integers, Sequences, FiniteSets

CONSTANTS
  Workers,
  Pair,          \* the two workers of a program that forks once
  Decrementers,  \* the threads of mutex.c and thread4.c that run thread_des
  nloop,
  MaxKills       \* bound: how many processes may be killed

lockfcntl     == [name |-> "lockfcntl", lock |-> "record", scope |-> "item", workers |-> "any"]
locknone      == [name |-> "locknone", lock |-> "none", scope |-> "item", workers |-> "any"]
client1       == [name |-> "client1", lock |-> "shared", scope |-> "item", workers |-> "any"]
incr          == [name |-> "incr", lock |-> "shared", scope |-> "item", workers |-> "pair"]
incr2         == [name |-> "incr2", lock |-> "shared", scope |-> "item", workers |-> "pair"]
incr_dev_zero == [name |-> "incr_dev_zero", lock |-> "private", scope |-> "item", workers |-> "pair"]
incr_map_anon == [name |-> "incr_map_anon", lock |-> "private", scope |-> "item", workers |-> "pair"]
mutex         == [name |-> "mutex", lock |-> "shared", scope |-> "loop", workers |-> "threads"]
thread4       == [name |-> "thread4", lock |-> "none", scope |-> "loop", workers |-> "threads"]

Programs == {lockfcntl, locknone, client1, incr, incr2, incr_dev_zero, incr_map_anon, mutex, thread4}

Free == "free"

VARIABLES
  program,     \* the program that runs; never changes
  counter,     \* the sequence file, *ptr, ptr->count or sum
  holder,      \* the worker that holds the common lock
  seqno,       \* per worker: the number it has read
  issued,      \* per worker: the numbers it has read and printed, in order
  n,           \* per worker: completed rounds of its loop
  pc, kills
vars == <<program, counter, holder, seqno, issued, n, pc, kills>>

Started == IF program.workers = "pair" THEN Pair ELSE Workers
Delta(w) == IF program.workers = "threads" /\ w \in Decrementers THEN -1 ELSE 1
Excludes == program.lock \in {"record", "shared"}
Go(w, a, b) == pc[w] = a /\ pc' = [pc EXCEPT ![w] = b]

-----------------------------------------------------------------------------
\* Mutant: the lock is taken whether it is free or not.
AcquireAnyway(w) ==
  /\ Go(w, "lock", "read")
  /\ holder' = IF Excludes THEN w ELSE holder
  /\ UNCHANGED <<counter, seqno, issued, n>>

\* my_lock, sem_wait or pthread_mutex_lock.  The semaphore of a worker of its
\* own is never taken by anyone else.
Acquire(w) ==
  /\ Go(w, "lock", "read")
  /\ Excludes => holder = Free
  /\ holder' = IF Excludes THEN w ELSE holder
  /\ UNCHANGED <<counter, seqno, issued, n>>

\* Read the number, and print it.
ReadNumber(w) ==
  /\ Go(w, "read", "write")
  /\ seqno' = [seqno EXCEPT ![w] = counter]
  /\ issued' = [issued EXCEPT ![w] = Append(@, counter)]
  /\ UNCHANGED <<counter, holder, n>>

\* Write it back changed; the loop of mutex.c and thread4.c has no lock in it.
WriteNumber(w) ==
  /\ Go(w, "write", IF program.scope = "loop" /\ n[w] + 1 < nloop THEN "read" ELSE "unlock")
  /\ counter' = seqno[w] + Delta(w)
  /\ n' = [n EXCEPT ![w] = @ + 1]
  /\ UNCHANGED <<holder, seqno, issued>>

\* my_unlock, sem_post or pthread_mutex_unlock.
Release(w) ==
  /\ Go(w, "unlock", IF n[w] < nloop THEN "lock" ELSE "ended")
  /\ holder' = IF Excludes THEN Free ELSE holder
  /\ UNCHANGED <<counter, seqno, issued, n>>

Worker(w) ==
  /\ w \in Started
  /\ Acquire(w) \/ ReadNumber(w) \/ WriteNumber(w) \/ Release(w)
  /\ UNCHANGED <<program, kills>>

Ended(w) == w \notin Started \/ pc[w] \in {"ended", "killed"}

\* Mutant: the lock of a dead process stays.
KillKeepsLock(w) ==
  /\ program.workers # "threads" /\ kills < MaxKills /\ kills' = kills + 1
  /\ ~Ended(w) /\ pc' = [pc EXCEPT ![w] = "killed"]
  /\ UNCHANGED <<program, counter, holder, seqno, issued, n>>

\* A process is killed: the kernel drops its record locks, but nobody posts
\* the semaphore it has taken.
Kill(w) ==
  /\ program.workers # "threads" /\ kills < MaxKills /\ kills' = kills + 1
  /\ ~Ended(w) /\ pc' = [pc EXCEPT ![w] = "killed"]
  /\ holder' = IF program.lock = "record" /\ holder = w THEN Free ELSE holder
  /\ UNCHANGED <<program, counter, seqno, issued, n>>

Init ==
  /\ program \in Programs
  /\ counter = 0 /\ holder = Free /\ kills = 0
  /\ seqno = [w \in Workers |-> 0] /\ issued = [w \in Workers |-> <<>>]
  /\ n = [w \in Workers |-> 0] /\ pc = [w \in Workers |-> "lock"]

AllEnded == \A w \in Workers : Ended(w)

\* The worker that holds the semaphore is dead.
HolderDied == holder \in Workers /\ pc[holder] = "killed"

Next ==
  \/ \E w \in Workers : Worker(w) \/ Kill(w)
  \/ (AllEnded \/ HolderDied) /\ UNCHANGED vars

\* Every live worker is scheduled; that is enough, since the loops of the others
\* are finite.
Spec == Init /\ [][Next]_vars /\ \A w \in Workers : WF_vars(Worker(w))

-----------------------------------------------------------------------------
\* The completed rounds of the workers in W.
Rounds(W) == {r \in W \X (1..nloop) : r[2] <= n[r[1]]}
Down == {w \in Started : Delta(w) = -1}

\* With a lock that all workers see, no update is lost: the number is the sum of
\* all completed rounds, also after a kill.
NoLostUpdate ==
  Excludes => counter = Cardinality(Rounds(Started \ Down)) - Cardinality(Rounds(Down))

\* ... and no sequence number is issued twice, except one whose process was
\* killed before it wrote the next one.
NumbersUnique ==
  Excludes /\ program.workers # "threads" =>
    \A v, w \in Started : \A j \in 1..n[v], k \in 1..n[w] :
      issued[v][j] = issued[w][k] => v = w /\ j = k

\* Without a common lock updates do get lost, but never all: a worker's last
\* write follows its own earlier ones, so at least two rounds count.
SomeUpdatesSurvive ==
  AllEnded /\ ~Excludes /\ program.workers # "threads" /\ kills = 0 /\ nloop >= 2 =>
    counter \in 2..(nloop * Cardinality(Started))

\* Every worker ends or is killed; only the death of the holder of a semaphore
\* can keep the others from it, that of the owner of a record lock cannot.
Progress == <>(AllEnded \/ (program.lock = "shared" /\ HolderDied))
=============================================================================
