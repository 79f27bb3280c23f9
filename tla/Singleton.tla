----------------------------- MODULE Singleton ------------------------------
(***************************************************************************)
(* src/dp/singleton/{alpha,beta,gamma,release}/singleton.cc: threads call  *)
(* GetInstance() at the same time.  `new Singleton()` is allocation and    *)
(* construction; without the fences of release the pointer may be          *)
(* published before construction (the comment of gamma/singleton.cc).      *)
(***************************************************************************)
EXTENDS Integers, FiniteSets

CONSTANTS
  Threads,
  MaxCalls      \* bound: calls of GetInstance() per thread

nullptr == 0
Free == "free"

VARIABLES
  variant,       \* which version runs; never changes
  instance_, mutex_,
  made,          \* objects allocated so far: 1..made
  constructed,   \* those whose constructor has run
  tmp,           \* per thread: the pointer it is working on
  returned,      \* per thread: what its calls have returned
  calls, pc
heap == <<made, constructed>>
vars == <<variant, instance_, mutex_, heap, tmp, returned, calls, pc>>

Go(t, a, b) == pc[t] = a /\ pc' = [pc EXCEPT ![t] = b]
\* The lock_guard of gamma and release is gone before the return statement.
Leave == IF variant \in {"alpha", "beta"} THEN "return" ELSE "unlock"

-----------------------------------------------------------------------------
\* new Singleton(): allocation, then construction and the store to instance_
\* in program order ...
New(t) ==
  \/ /\ Go(t, "new", "construct")
     /\ made' = made + 1 /\ tmp' = [tmp EXCEPT ![t] = made + 1]
     /\ UNCHANGED <<instance_, constructed>>
  \/ /\ Go(t, "construct", "publish")
     /\ constructed' = constructed \cup {tmp[t]} /\ UNCHANGED <<instance_, made, tmp>>
  \/ /\ Go(t, "publish", Leave)
     /\ instance_' = tmp[t] /\ UNCHANGED <<heap, tmp>>

\* ... or, where nothing forbids it, the store first.
NewReordered(t) ==
  /\ variant # "release"
  /\ \/ /\ Go(t, "construct", "late")
        /\ instance_' = tmp[t] /\ UNCHANGED <<heap, tmp>>
     \/ /\ Go(t, "late", Leave)
        /\ constructed' = constructed \cup {tmp[t]} /\ UNCHANGED <<instance_, made, tmp>>

Lock(t, b) == Go(t, "lock", b) /\ mutex_ = Free /\ mutex_' = t
Unlock(t) == Go(t, "unlock", IF variant = "beta" THEN "idle" ELSE "return") /\ mutex_' = Free

\* alpha: if(instance_ == nullptr) new, without a lock.
AlphaTest(t) == Go(t, "enter", IF instance_ = nullptr THEN "new" ELSE "return") /\ UNCHANGED <<mutex_, tmp>>

\* beta: lock_guard, then the test.
BetaTest(t) ==
  \/ Go(t, "enter", "lock") /\ UNCHANGED <<mutex_, tmp>>
  \/ Lock(t, "test") /\ UNCHANGED tmp
  \/ Go(t, "test", IF instance_ = nullptr THEN "new" ELSE "return") /\ UNCHANGED <<mutex_, tmp>>

\* Mutant of gamma: the second check is missing.
GammaTestOnce(t) ==
  \/ Go(t, "enter", IF instance_ = nullptr THEN "lock" ELSE "return") /\ UNCHANGED <<mutex_, tmp>>
  \/ Lock(t, "new") /\ UNCHANGED tmp

\* gamma: test, lock_guard, test again.
GammaTest(t) ==
  \/ Go(t, "enter", IF instance_ = nullptr THEN "lock" ELSE "return") /\ UNCHANGED <<mutex_, tmp>>
  \/ Lock(t, "test") /\ UNCHANGED tmp
  \/ Go(t, "test", IF instance_ = nullptr THEN "new" ELSE "unlock") /\ UNCHANGED <<mutex_, tmp>>

\* release: the second test looks at the local tmp, not at instance_.
ReleaseTest(t) ==
  \/ /\ Go(t, "enter", IF instance_ = nullptr THEN "lock" ELSE "return")
     /\ tmp' = [tmp EXCEPT ![t] = instance_] /\ UNCHANGED mutex_
  \/ Lock(t, "test") /\ UNCHANGED tmp
  \/ Go(t, "test", IF tmp[t] = nullptr THEN "new" ELSE "unlock") /\ UNCHANGED <<mutex_, tmp>>

Test(t) ==
  CASE variant = "alpha" -> AlphaTest(t) [] variant = "beta" -> BetaTest(t)
    [] variant = "gamma" -> GammaTest(t) [] variant = "release" -> ReleaseTest(t)

\* beta reads instance_ while it still holds the guard; alpha and gamma read it
\* once more without a lock; release returns tmp.
Return(t) ==
  /\ Go(t, "return", IF variant = "beta" THEN "unlock" ELSE "idle")
  /\ returned' = [returned EXCEPT ![t] = @ \cup {IF variant = "release" THEN tmp[t] ELSE instance_}]
  /\ UNCHANGED <<instance_, mutex_, heap, tmp, calls>>

Call(t) ==
  /\ calls[t] < MaxCalls /\ calls' = [calls EXCEPT ![t] = @ + 1]
  /\ Go(t, "idle", "enter")
  /\ UNCHANGED <<instance_, mutex_, heap, tmp, returned>>

Init ==
  /\ variant \in {"alpha", "beta", "gamma", "release"}
  /\ instance_ = nullptr /\ mutex_ = Free /\ made = 0 /\ constructed = {}
  /\ tmp = [t \in Threads |-> nullptr] /\ returned = [t \in Threads |-> {}]
  /\ calls = [t \in Threads |-> 0] /\ pc = [t \in Threads |-> "idle"]

GetInstance(t) ==
  \/ Test(t) /\ UNCHANGED <<instance_, heap, returned, calls>>
  \/ (New(t) \/ NewReordered(t)) /\ UNCHANGED <<mutex_, returned, calls>>
  \/ Unlock(t) /\ UNCHANGED <<instance_, heap, tmp, returned, calls>>
  \/ Return(t)

AllDone == \A t \in Threads : pc[t] = "idle" /\ calls[t] = MaxCalls
Next ==
  \/ (\E t \in Threads : Call(t) \/ GetInstance(t)) /\ UNCHANGED variant
  \/ AllDone /\ UNCHANGED vars
Spec == Init /\ [][Next]_vars

-----------------------------------------------------------------------------
Created(v) == variant = v => made <= 1 /\ Cardinality(UNION {returned[t] : t \in Threads}) <= 1

\* A class has only one instance: whatever threads call GetInstance(), and
\* however often, they are all given the same object and no other was made.
\* beta and gamma keep this promise,
OneInstance == Created("beta") /\ Created("gamma")

\* release should: it is the version of the collection meant to be used.
OneInstanceRelease == Created("release")

\* No caller of beta or release is given a pointer to an object that is not
\* constructed yet.
ReturnsConstructed ==
  variant \in {"beta", "release"} => \A t \in Threads : returned[t] \subseteq constructed
=============================================================================
