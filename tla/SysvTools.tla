------------------------------ MODULE SysvTools ------------------------------
(***************************************************************************)
(* The command-line tools for System V IPC objects: those of src/ipc/src   *)
(* in svsem, svshm and svmsg.  Shells run them concurrently on one key;    *)
(* `kind` is the sort of object.  A tool turns the key into an identifier  *)
(* and uses that; IPC_RMID removes semaphores and queues at once, memory   *)
(* when the last process has detached it.  Identifiers are not used again. *)
(***************************************************************************)
EXTENDS Integers, Sequences, FiniteSets

CONSTANTS
  Shells,    \* each runs one tool at a time
  Sizes,     \* semaphores in a set, or size of a segment
  QueueSize, \* messages that fit into a queue
  Types,     \* message types; msgrcv also takes them negated
  MaxRuns    \* bound: tools that are started

Ids == 1..MaxRuns     \* a tool creates at most one
None == 0

VARIABLES
  kind, runs,
  key,                \* identifier behind the key, or None
  made, alive,        \* identifiers given out; objects that still exist
  size, values,       \* of an object: its size; semaphore values or messages
  attached,           \* processes that have a segment attached
  tool, at, arg, h,   \* of a shell: tool, step, arguments, identifier
  seen                \* size learnt from IPC_STAT
object == <<key, made, alive, size, values, attached>>
vars == <<kind, runs, object, tool, at, arg, h, seen>>

At(p, t, a) == tool[p] = t /\ at[p] = a
Goto(p, a) == at' = [at EXCEPT ![p] = a] /\ UNCHANGED <<tool, arg>>
Removed(p) == h[p] \notin alive

-----------------------------------------------------------------------------
\* Command lines.  Arguments a tool does not have are 0 or empty.
Line(excl, n, list) == [excl |-> excl, n |-> n, list |-> list]
NoLine == Line(FALSE, 0, << >>)
Lists == {[k \in 1..n |-> v] : n \in Sizes, v \in {0, 1}}
Arguments(t) ==
  CASE t \in {"semcreate", "shmget"} -> {Line(e, n, << >>) : e \in BOOLEAN, n \in Sizes}
    [] t = "msgcreate" -> {Line(e, 0, << >>) : e \in BOOLEAN}
    [] t = "semsetvalues" -> {Line(FALSE, 0, l) : l \in Lists}
    [] t = "semops" -> {Line(e, 0, <<v>>) : e \in BOOLEAN, v \in {1, -1}}       \* e: -n
    [] t = "msgsnd" -> {Line(FALSE, n, << >>) : n \in Types}
    [] t = "msgrcv" -> {Line(e, n, << >>) : e \in BOOLEAN, n \in Types \cup {-k : k \in Types}}       \* e: -n
    [] OTHER -> {Line(FALSE, 0, << >>)}
Tools ==
  CASE kind = "sem" -> {"semcreate", "semsetvalues", "semgetvalues", "semops", "semrmid"}
    [] kind = "shm" -> {"shmget", "shmread", "shmwrite", "shmrmid"}
    [] kind = "msg" -> {"msgcreate", "msgsnd", "msgrcv", "msgrmid"}
Run(p) ==
  /\ tool[p] = "shell" /\ runs < MaxRuns /\ runs' = runs + 1
  /\ \E t \in Tools : tool' = [tool EXCEPT ![p] = t] /\ \E a \in Arguments(t) : arg' = [arg EXCEPT ![p] = a]
  /\ UNCHANGED <<kind, object, at, h, seen>>

\* The process ends, in success or with an error message.
Exit(p) ==
  /\ tool' = [tool EXCEPT ![p] = "shell"] /\ at' = [at EXCEPT ![p] = "get"]
  /\ arg' = [arg EXCEPT ![p] = NoLine]
  /\ h' = [h EXCEPT ![p] = None] /\ seen' = [seen EXCEPT ![p] = 0]

\* semget(), shmget(), msgget() with IPC_CREAT: new, old but large enough, or refused.
Create(p, contents) ==
  \/ /\ key = None /\ made' = made + 1 /\ key' = made + 1 /\ alive' = alive \cup {made + 1}
     /\ size' = [size EXCEPT ![made + 1] = arg[p].n] /\ values' = [values EXCEPT ![made + 1] = contents]
     /\ UNCHANGED attached
  \/ key # None /\ ~arg[p].excl /\ arg[p].n <= size[key] /\ UNCHANGED object
Refused(p) ==
  key # None /\ (arg[p].excl \/ arg[p].n > size[key]) /\ Exit(p) /\ UNCHANGED object

\* The same without IPC_CREAT.
Get(p, t, next) ==
  /\ At(p, t, "get")
  /\ IF key = None THEN Exit(p) ELSE Goto(p, next) /\ h' = [h EXCEPT ![p] = key] /\ UNCHANGED seen
  /\ UNCHANGED object

\* A call on an identifier that was removed meanwhile.
Fails(p, t, a) == At(p, t, a) /\ Removed(p) /\ Exit(p) /\ UNCHANGED object

\* IPC_STAT
Stat(p, t, next) ==
  /\ At(p, t, "stat") /\ ~Removed(p) /\ Goto(p, next) /\ seen' = [seen EXCEPT ![p] = size[h[p]]]
  /\ UNCHANGED <<h, object>>

\* IPC_RMID: the key is free at once, an attached segment lives on.
Rmid(p, t) ==
  \/ Get(p, t, "rmid")
  \/ Fails(p, t, "rmid")
  \/ /\ At(p, t, "rmid") /\ ~Removed(p) /\ Exit(p)
     /\ key' = IF key = h[p] THEN None ELSE key
     /\ alive' = IF attached[h[p]] = {} THEN alive \ {h[p]} ELSE alive
     /\ UNCHANGED <<made, size, values, attached>>

-----------------------------------------------------------------------------
(* svsem                                                                   *)

\* A new set has the value 0 everywhere.
semcreate(p) ==
  /\ At(p, "semcreate", "get")
  /\ (Create(p, [k \in 1..arg[p].n |-> 0]) /\ Exit(p)) \/ Refused(p)

\* As many values as IPC_STAT says there are semaphores.
semsetvalues(p) ==
  LET t == "semsetvalues" IN
  \/ Get(p, t, "stat") \/ Fails(p, t, "stat") \/ Stat(p, t, "count")
  \/ /\ At(p, t, "count") /\ UNCHANGED object
     /\ IF Len(arg[p].list) = seen[p] THEN Goto(p, "set") /\ UNCHANGED <<h, seen>> ELSE Exit(p)
  \/ Fails(p, t, "set")
  \/ /\ At(p, t, "set") /\ ~Removed(p) /\ Exit(p)
     /\ values' = [values EXCEPT ![h[p]] = arg[p].list]
     /\ UNCHANGED <<key, made, alive, size, attached>>

\* Mutant: the set is looked up again by its key.
semgetvaluesAgain(p) ==
  LET t == "semgetvalues" IN
  \/ Get(p, t, "stat") \/ Fails(p, t, "stat") \/ Stat(p, t, "again")
  \/ /\ At(p, t, "again") /\ key # None /\ h' = [h EXCEPT ![p] = key] /\ Goto(p, "getall")
     /\ UNCHANGED <<seen, object>>
  \/ Fails(p, t, "getall")
  \/ At(p, t, "getall") /\ ~Removed(p) /\ Exit(p) /\ UNCHANGED object

\* calloc() for as many values as IPC_STAT has told, then GETALL.
semgetvalues(p) ==
  LET t == "semgetvalues" IN
  \/ Get(p, t, "stat") \/ Fails(p, t, "stat") \/ Stat(p, t, "getall")
  \/ Fails(p, t, "getall")
  \/ At(p, t, "getall") /\ ~Removed(p) /\ Exit(p) /\ UNCHANGED object

\* `--optind` goes back in front of the pathname, and every operation is read
\* from that one argument, the program's name or an option: two operations
\* too many, all of them 0, that is "wait until the value is 0".
Operations(p) == [k \in 1..(Len(arg[p].list) + 2) |-> 0]

\* semop(): all operations at once, or none and the caller waits.
CanDo(v, ops) ==
  Len(ops) <= Len(v) /\ \A k \in 1..Len(ops) : IF ops[k] = 0 THEN v[k] = 0 ELSE v[k] + ops[k] >= 0
Apply(v, ops) == [k \in 1..Len(v) |-> IF k <= Len(ops) THEN v[k] + ops[k] ELSE v[k]]
semops(p) ==
  LET t == "semops"
      ops == Operations(p)
      v == values[h[p]]
  IN
  \/ Get(p, t, "semop") \/ Fails(p, t, "semop")
  \/ /\ At(p, t, "semop") /\ ~Removed(p)
     /\ \/ Len(ops) > Len(v) /\ Exit(p) /\ UNCHANGED values
        \/ Len(ops) <= Len(v) /\ ~CanDo(v, ops) /\ arg[p].excl /\ Exit(p) /\ UNCHANGED values
        \/ /\ CanDo(v, ops) /\ Exit(p)
           /\ values' = [values EXCEPT ![h[p]] = Apply(v, ops)]
     /\ UNCHANGED <<key, made, alive, size, attached>>

semrmid(p) == Rmid(p, "semrmid")

-----------------------------------------------------------------------------
(* svshm                                                                   *)

\* shmat()
Attach(p, t, next) ==
  /\ At(p, t, "attach") /\ ~Removed(p) /\ Goto(p, next)
  /\ attached' = [attached EXCEPT ![h[p]] = @ \cup {p}]
  /\ UNCHANGED <<h, seen, key, made, alive, size, values>>

\* The process ends and is detached; a segment without key and processes goes.
Detach(p, contents) ==
  /\ Exit(p) /\ values' = [values EXCEPT ![h[p]] = contents]
  /\ attached' = [attached EXCEPT ![h[p]] = @ \ {p}]
  /\ alive' = IF key # h[p] /\ attached'[h[p]] = {} THEN alive \ {h[p]} ELSE alive
  /\ UNCHANGED <<key, made, size>>

shmget(p) ==
  \/ /\ At(p, "shmget", "get")
     /\ \/ Create(p, << >>) /\ Goto(p, "attach") /\ h' = [h EXCEPT ![p] = key'] /\ UNCHANGED seen
        \/ Refused(p)
  \/ Fails(p, "shmget", "attach") \/ Attach(p, "shmget", "end")
  \/ At(p, "shmget", "end") /\ Detach(p, values[h[p]])

\* Attach, ask for the size, go through that many bytes.
shmread(p) ==
  LET t == "shmread" IN
  \/ Get(p, t, "attach") \/ Fails(p, t, "attach") \/ Attach(p, t, "stat") \/ Stat(p, t, "loop")
  \/ At(p, t, "loop") /\ Detach(p, values[h[p]])

shmwrite(p) ==
  LET t == "shmwrite" IN
  \/ Get(p, t, "attach") \/ Fails(p, t, "attach") \/ Attach(p, t, "stat") \/ Stat(p, t, "loop")
  \/ At(p, t, "loop") /\ Detach(p, [k \in 1..seen[p] |-> k])

shmrmid(p) == Rmid(p, "shmrmid")

-----------------------------------------------------------------------------
(* svmsg: the contents of a queue are the types of its messages.           *)

msgcreate(p) ==
  /\ At(p, "msgcreate", "get")
  /\ (Create(p, << >>) /\ Exit(p)) \/ Refused(p)

msgsnd(p) ==
  LET t == "msgsnd" IN
  \/ Get(p, t, "snd") \/ Fails(p, t, "snd")
  \/ /\ At(p, t, "snd") /\ ~Removed(p)
     /\ \/ arg[p].n < 1 /\ Exit(p) /\ UNCHANGED values
        \/ /\ arg[p].n >= 1 /\ Len(values[h[p]]) < QueueSize /\ Exit(p)
           /\ values' = [values EXCEPT ![h[p]] = Append(@, arg[p].n)]
     /\ UNCHANGED <<key, made, alive, size, attached>>

\* The first message, the first of a type, or the first of the lowest type
\* up to -n.
Wanted(q, n) ==
  LET fits == {k \in 1..Len(q) : n = 0 \/ q[k] = n \/ (n < 0 /\ q[k] <= -n)}
  IN {k \in fits : \A l \in fits : IF n < 0 THEN q[k] < q[l] \/ (q[k] = q[l] /\ k <= l) ELSE k <= l}
Without(q, k) == SubSeq(q, 1, k - 1) \o SubSeq(q, k + 1, Len(q))

\* Mutant: the call is repeated after an error.
msgrcvRetry(p) ==
  LET t == "msgrcv"
      q == values[h[p]]
      wanted == Wanted(q, arg[p].n)
  IN
  \/ Get(p, t, "rcv")
  \/ /\ At(p, t, "rcv") /\ ~Removed(p)
     /\ \/ wanted = {} /\ arg[p].excl /\ Exit(p) /\ UNCHANGED values
        \/ \E k \in wanted : values' = [values EXCEPT ![h[p]] = Without(q, k)] /\ Exit(p)
     /\ UNCHANGED <<key, made, alive, size, attached>>

msgrcv(p) ==
  LET t == "msgrcv"
      q == values[h[p]]
      wanted == Wanted(q, arg[p].n)
  IN
  \/ Get(p, t, "rcv") \/ Fails(p, t, "rcv")
  \/ /\ At(p, t, "rcv") /\ ~Removed(p)
     /\ \/ wanted = {} /\ arg[p].excl /\ Exit(p) /\ UNCHANGED values
        \/ \E k \in wanted : values' = [values EXCEPT ![h[p]] = Without(q, k)] /\ Exit(p)
     /\ UNCHANGED <<key, made, alive, size, attached>>

msgrmid(p) == Rmid(p, "msgrmid")

-----------------------------------------------------------------------------
Init ==
  /\ kind \in {"sem", "shm", "msg"} /\ runs = 0 /\ key = None /\ made = 0 /\ alive = {}
  /\ size = [o \in Ids |-> 0] /\ values = [o \in Ids |-> << >>] /\ attached = [o \in Ids |-> {}]
  /\ tool = [p \in Shells |-> "shell"] /\ at = [p \in Shells |-> "get"]
  /\ arg = [p \in Shells |-> NoLine] /\ h = [p \in Shells |-> None] /\ seen = h

Step(p) ==
  /\ \/ semcreate(p) \/ semsetvalues(p) \/ semgetvalues(p) \/ semops(p) \/ semrmid(p)
     \/ shmget(p) \/ shmread(p) \/ shmwrite(p) \/ shmrmid(p)
     \/ msgcreate(p) \/ msgsnd(p) \/ msgrcv(p) \/ msgrmid(p)
  /\ UNCHANGED <<kind, runs>>
Next == \E p \in Shells : Run(p) \/ Step(p)

\* A process is scheduled, and woken when what it waits for is there.
Spec == Init /\ [][Next]_vars /\ \A p \in Shells : WF_vars(Step(p))

-----------------------------------------------------------------------------
\* What a tool learnt from IPC_STAT is still true when it relies on it, even
\* when the object was removed and another one made for the key: GETALL fills
\* exactly the array that was allocated, SETALL gets a value for each
\* semaphore, the loops over a segment stay inside and it is still there.
StaysInside ==
  \A p \in Shells :
    /\ (At(p, "semgetvalues", "getall") \/ At(p, "semsetvalues", "set")) /\ ~Removed(p) =>
         seen[p] = Len(values[h[p]])
    /\ (At(p, "shmread", "loop") \/ At(p, "shmwrite", "loop")) => ~Removed(p) /\ seen[p] = size[h[p]]

\* Nobody sleeps on an object that is gone, and nobody sleeps while what it
\* asked for is there: a tool ends, or waits with a reason.
HasReason(p) ==
  \/ At(p, "msgrcv", "rcv") /\ Wanted(values[h[p]], arg[p].n) = {}
  \/ At(p, "msgsnd", "snd") /\ Len(values[h[p]]) >= QueueSize
  \/ At(p, "semops", "semop") /\ ~CanDo(values[h[p]], Operations(p))
ToolsEnd == \A p \in Shells : tool[p] # "shell" ~> tool[p] = "shell" \/ (~Removed(p) /\ HasReason(p))

\* semops performs the operations of its command line ("operation ...").
OperationsPerformed ==
  [][\A p \in Shells :
       At(p, "semops", "semop") /\ tool'[p] = "shell" /\ ~Removed(p) /\ CanDo(values[h[p]], Operations(p)) =>
         values'[h[p]] = Apply(values[h[p]], arg[p].list)]_vars
=============================================================================
