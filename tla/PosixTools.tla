----------------------------- MODULE PosixTools ------------------------------
(***************************************************************************)
(* The command-line tools for POSIX IPC objects: those of src/ipc/src in   *)
(* pxsem, pxshm, and pxmsg (mqcreate, mqcreate1, mqgetattr, mqunlink).     *)
(* Shells run them concurrently on one name; `kind` is the sort of object. *)
(* A tool looks the name up first and then works on the object it got: a   *)
(* name that is unlinked or made again meanwhile is another object.        *)
(***************************************************************************)
EXTENDS Integers, FiniteSets

CONSTANTS
  Shells,       \* each runs one tool at a time
  Values,       \* initial values of a semaphore, attributes of a queue
  Lengths,      \* lengths of a memory object, in pages
  MaxRuns       \* bound: tools that are started

Objects == 1..MaxRuns    \* a tool creates at most one
None == 0

VARIABLES
  kind, runs,
  name,                   \* object behind the name, or None
  made,                   \* objects created so far
  value,                  \* of an object: semaphore value, size in pages, attributes
  start, posts, held, leaked,   \* of a semaphore: how it began, what it got, who has it
  pages,                  \* of a memory object: pages that hold the pattern
  written,                \* memory objects that a shmwrite has gone through
  tool, at, arg, h,       \* of a shell: tool, step, arguments, object it works on
  seen, i,                \* size or attributes read, loop index
  calm, whole, trouble    \* not resized since fstat(); was complete then; what went wrong
object == <<name, made, value, start, posts, held, leaked, pages, written>>
process == <<tool, at, arg, h, seen, i, calm, whole, trouble>>
vars == <<kind, runs, object, process>>

At(p, t, a) == tool[p] = t /\ at[p] = a
Goto(p, a) == at' = [at EXCEPT ![p] = a] /\ UNCHANGED tool
Exit(p) == tool' = [tool EXCEPT ![p] = "shell"] /\ UNCHANGED at
Quiet == UNCHANGED <<arg, seen, i, calm, whole, trouble>>

Tools ==
  CASE kind = "sem" -> {"semcreate", "semgetvalue", "sempost", "semwait", "semunlink"}
    [] kind = "shm" -> {"shmcreate", "shmread", "shmwrite", "shmunlink"}
    [] kind = "mq"  -> {"mqcreate", "mqcreate1", "mqgetattr", "mqunlink"}

\* A command line: the creating tools have -e and a value or a length.
Arguments(t) ==
  IF t \in {"semcreate", "shmcreate", "mqcreate"}
  THEN [excl : BOOLEAN, n : IF kind = "shm" THEN Lengths ELSE Values]
  ELSE {[excl |-> FALSE, n |-> 0]}
Run(p) ==
  /\ tool[p] = "shell" /\ runs < MaxRuns /\ runs' = runs + 1
  /\ \E t \in Tools : tool' = [tool EXCEPT ![p] = t] /\ \E a \in Arguments(t) : arg' = [arg EXCEPT ![p] = a]
  /\ at' = [at EXCEPT ![p] = "open"] /\ trouble' = [trouble EXCEPT ![p] = {}]
  /\ UNCHANGED <<kind, object, h, seen, i, calm, whole>>

\* Creation: an existing object is opened as it is, or refused with -e.
Create(p, v) ==
  \/ /\ name = None /\ made' = made + 1 /\ name' = made + 1
     /\ h' = [h EXCEPT ![p] = made + 1]
     /\ value' = [value EXCEPT ![made + 1] = v] /\ start' = [start EXCEPT ![made + 1] = v]
     /\ UNCHANGED <<posts, held, leaked, pages, written>>
  \/ name # None /\ ~arg[p].excl /\ h' = [h EXCEPT ![p] = name] /\ UNCHANGED object
Refused(p) == name # None /\ arg[p].excl /\ Exit(p) /\ UNCHANGED <<h, object>>

\* Opening without O_CREAT.
Open(p, t, next) ==
  /\ At(p, t, "open")
  /\ IF name = None THEN Exit(p) /\ UNCHANGED h ELSE Goto(p, next) /\ h' = [h EXCEPT ![p] = name]
  /\ Quiet /\ UNCHANGED object

Unlink(p, t) ==
  /\ At(p, t, "open") /\ Exit(p) /\ name' = None
  /\ Quiet /\ UNCHANGED <<h, made, value, start, posts, held, leaked, pages, written>>

-----------------------------------------------------------------------------
(* pxsem                                                                   *)

semcreate(p) ==
  /\ At(p, "semcreate", "open") /\ Quiet
  /\ (Create(p, arg[p].n) /\ Exit(p)) \/ Refused(p)

semgetvalue(p) ==
  \/ Open(p, "semgetvalue", "get")
  \/ /\ At(p, "semgetvalue", "get") /\ Exit(p)
     /\ seen' = [seen EXCEPT ![p] = value[h[p]]] /\ UNCHANGED <<object, arg, h, i, calm, whole, trouble>>

sempost(p) ==
  \/ Open(p, "sempost", "post")
  \/ /\ At(p, "sempost", "post") /\ Exit(p)
     /\ value' = [value EXCEPT ![h[p]] = @ + 1] /\ posts' = [posts EXCEPT ![h[p]] = @ + 1]
     /\ Quiet /\ UNCHANGED <<h, name, made, start, held, leaked, pages, written>>

\* Once it has the semaphore the tool sleeps in pause(): only a signal ends
\* it, and then nobody posts.
semwait(p) ==
  \/ Open(p, "semwait", "wait")
  \/ /\ At(p, "semwait", "wait") /\ value[h[p]] > 0 /\ Goto(p, "pause")
     /\ value' = [value EXCEPT ![h[p]] = @ - 1] /\ held' = [held EXCEPT ![h[p]] = @ \cup {p}]
     /\ Quiet /\ UNCHANGED <<h, name, made, start, posts, leaked, pages, written>>
Interrupt(p) ==
  /\ tool[p] = "semwait" /\ at[p] \in {"wait", "pause"} /\ Exit(p)
  /\ leaked' = [leaked EXCEPT ![h[p]] = IF at[p] = "pause" THEN @ + 1 ELSE @]
  /\ held' = [held EXCEPT ![h[p]] = @ \ {p}]
  /\ Quiet /\ UNCHANGED <<kind, runs, h, name, made, value, start, posts, pages, written>>

semunlink(p) == Unlink(p, "semunlink")

-----------------------------------------------------------------------------
(* pxshm                                                                   *)

\* shm_open(), then ftruncate() to the length of the command line: a new
\* object has no bytes in between, an old one may shrink under its readers.
shmcreate(p) ==
  \/ /\ At(p, "shmcreate", "open") /\ Quiet
     /\ (Create(p, 0) /\ Goto(p, "truncate")) \/ Refused(p)
  \/ /\ At(p, "shmcreate", "truncate") /\ Exit(p)
     /\ value' = [value EXCEPT ![h[p]] = arg[p].n]
     /\ pages' = [pages EXCEPT ![h[p]] = @ \cap 0..(arg[p].n - 1)]
     /\ written' = IF value[h[p]] = arg[p].n THEN written ELSE written \ {h[p]}
     /\ calm' = [q \in Shells |-> calm[q] /\ (h[q] = h[p] => value[h[p]] = arg[p].n)]
     /\ UNCHANGED <<arg, h, seen, i, whole, trouble, name, made, start, posts, held, leaked>>

\* fstat() and mmap() of the size it has returned; mmap() refuses 0 bytes.
Map(p, t) ==
  \/ Open(p, t, "fstat")
  \/ /\ At(p, t, "fstat") /\ seen' = [seen EXCEPT ![p] = value[h[p]]] /\ i' = [i EXCEPT ![p] = 0]
     /\ calm' = [calm EXCEPT ![p] = TRUE] /\ whole' = [whole EXCEPT ![p] = h[p] \in written]
     /\ IF value[h[p]] = 0 THEN Exit(p) ELSE Goto(p, "loop")
     /\ UNCHANGED <<arg, h, trouble, object>>

\* One page of the loop: SIGBUS behind the end of the object.
Access(p, t) ==
  /\ At(p, t, "loop") /\ i[p] < seen[p]
  /\ \/ /\ i[p] < value[h[p]] /\ i' = [i EXCEPT ![p] = @ + 1] /\ Goto(p, "loop")
     \/ /\ i[p] >= value[h[p]] /\ Exit(p) /\ UNCHANGED i
  /\ UNCHANGED <<arg, h, seen, calm, whole>>
Trouble(p, what) == trouble' = [trouble EXCEPT ![p] = @ \cup what]

shmread(p) ==
  \/ Map(p, "shmread")
  \/ /\ Access(p, "shmread") /\ UNCHANGED object
     /\ Trouble(p, CASE i[p] >= value[h[p]] -> {"bus"} [] i[p] \in pages[h[p]] -> {} [] OTHER -> {"mismatch"})
  \/ /\ At(p, "shmread", "loop") /\ i[p] = seen[p] /\ Exit(p) /\ Quiet /\ UNCHANGED <<h, object>>

WriteEnd(p) ==
  /\ At(p, "shmwrite", "loop") /\ i[p] = seen[p] /\ Exit(p)
  /\ written' = IF calm[p] THEN written \cup {h[p]} ELSE written
  /\ Quiet /\ UNCHANGED <<h, name, made, value, start, posts, held, leaked, pages>>

\* Mutant: the first page is left out.
shmwriteShort(p) ==
  \/ Map(p, "shmwrite")
  \/ /\ Access(p, "shmwrite") /\ Trouble(p, IF i[p] >= value[h[p]] THEN {"bus"} ELSE {})
     /\ pages' = [pages EXCEPT ![h[p]] = @ \cup ({i[p] + 1} \cap 0..(value[h[p]] - 1))]
     /\ UNCHANGED <<name, made, value, start, posts, held, leaked, written>>
  \/ WriteEnd(p)

shmwrite(p) ==
  \/ Map(p, "shmwrite")
  \/ /\ Access(p, "shmwrite") /\ Trouble(p, IF i[p] >= value[h[p]] THEN {"bus"} ELSE {})
     /\ pages' = [pages EXCEPT ![h[p]] = @ \cup ({i[p]} \cap 0..(value[h[p]] - 1))]
     /\ UNCHANGED <<name, made, value, start, posts, held, leaked, written>>
  \/ WriteEnd(p)

shmunlink(p) == Unlink(p, "shmunlink")

-----------------------------------------------------------------------------
(* pxmsg                                                                   *)

\* Both of -m and -z, or the system's default; no effect on an old queue.
mqcreate(p) ==
  /\ At(p, "mqcreate", "open") /\ Quiet
  /\ (Create(p, arg[p].n) /\ Exit(p)) \/ Refused(p)
mqcreate1(p) ==
  /\ At(p, "mqcreate1", "open") /\ Quiet /\ Create(p, CHOOSE v \in Values : TRUE) /\ Exit(p)
\* It also prints mq_curmsgs, which is 0: none of these tools sends a message.
mqgetattr(p) ==
  \/ Open(p, "mqgetattr", "get")
  \/ /\ At(p, "mqgetattr", "get") /\ Goto(p, "print") /\ seen' = [seen EXCEPT ![p] = value[h[p]]]
     /\ UNCHANGED <<object, arg, h, i, calm, whole, trouble>>
  \/ At(p, "mqgetattr", "print") /\ Exit(p) /\ Quiet /\ UNCHANGED <<h, object>>
mqunlink(p) == Unlink(p, "mqunlink")

-----------------------------------------------------------------------------
Init ==
  /\ kind \in {"sem", "shm", "mq"} /\ runs = 0 /\ name = None /\ made = 0
  /\ value = [o \in Objects |-> 0] /\ start = value /\ posts = value /\ leaked = value
  /\ held = [o \in Objects |-> {}] /\ pages = held /\ written = {}
  /\ tool = [p \in Shells |-> "shell"] /\ at = [p \in Shells |-> "open"]
  /\ arg = [p \in Shells |-> [excl |-> FALSE, n |-> 0]] /\ h = [p \in Shells |-> None]
  /\ seen = h /\ i = h /\ trouble = [p \in Shells |-> {}]
  /\ calm = [p \in Shells |-> FALSE] /\ whole = calm

Step(p) ==
  /\ \/ semcreate(p) \/ semgetvalue(p) \/ sempost(p) \/ semwait(p) \/ semunlink(p)
     \/ shmcreate(p) \/ shmread(p) \/ shmwrite(p) \/ shmunlink(p)
     \/ mqcreate(p) \/ mqcreate1(p) \/ mqgetattr(p) \/ mqunlink(p)
  /\ UNCHANGED <<kind, runs>>
Next == \E p \in Shells : Run(p) \/ Step(p) \/ Interrupt(p)

Spec == Init /\ [][Next]_vars

-----------------------------------------------------------------------------
\* A semaphore gives out what it began with and what was posted, however often
\* its name was unlinked and created again; what a killed holder had is gone.
UnitsConserved ==
  \A o \in 1..made : kind = "sem" =>
    value[o] + Cardinality(held[o]) + leaked[o] = start[o] + posts[o]

\* shmread and shmwrite meet SIGBUS only when shmcreate has resized their
\* object after they asked for its size, and a reader finds a wrong byte only
\* in that case or when it began before a writer had finished.  mqgetattr
\* prints attributes the queue still has.
ReadersSafe ==
  \A p \in Shells :
    /\ "bus" \in trouble[p] => ~calm[p]
    /\ "mismatch" \in trouble[p] => ~(calm[p] /\ whole[p])
    /\ At(p, "mqgetattr", "print") => seen[p] = value[h[p]]
=============================================================================
