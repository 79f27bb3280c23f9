-------------------------- MODULE StructuresProofs ---------------------------
(***************************************************************************)
(* Proofs about the structures of MCStructures, for any number of threads, *)
(* clients, timers and lists: Singleton, the chat server, the timer heap,  *)
(* the loser tree.                                                         *)
(***************************************************************************)
EXTENDS MCStructures, ProdConsLemmas

-----------------------------------------------------------------------------
(* Singleton                                                               *)

Guarded == variant \in {"beta", "gamma", "release"}
STypes ==
  /\ variant \in {"alpha", "beta", "gamma", "release"} /\ made \in Nat /\ instance_ \in Nat
  /\ tmp \in [Threads -> Nat] /\ DOMAIN pcS = Threads /\ DOMAIN returned = Threads

\* What a thread does under the guard; beta returns under it.
Inside(t) ==
  \/ pcS[t] \in {"test", "new", "construct", "publish", "late", "unlock"}
  \/ variant = "beta" /\ pcS[t] = "return"
SLock == Guarded => \A t \in Threads : Inside(t) => mutex_ = t

\* beta and gamma: the one object, and who is making it.
Making(t) == pcS[t] \in {"construct", "publish"}
SOne ==
  variant \in {"beta", "gamma"} =>
    /\ made <= 1 /\ instance_ <= made
    /\ made = 1 => instance_ = 1 \/ \E t \in Threads : Making(t)
    /\ \A t \in Threads :
         /\ pcS[t] = "new" => made = 0
         /\ Making(t) => made = 1 /\ tmp[t] = 1 /\ instance_ = 0
         /\ pcS[t] = "late" => tmp[t] = 1
         /\ pcS[t] \in {"late", "unlock", "return"} => instance_ = 1
         /\ returned[t] \subseteq {1}

\* An object that can be seen is constructed, but for the one of a thread that
\* has published it early.
SSeen ==
  /\ variant = "beta" =>
       /\ instance_ = 1 => 1 \in constructed \/ \E t \in Threads : pcS[t] = "late"
       /\ \A t \in Threads : returned[t] \subseteq constructed /\ (pcS[t] = "publish" => tmp[t] \in constructed)
  /\ variant = "release" =>
       /\ instance_ # 0 => instance_ \in constructed
       /\ \A t \in Threads :
            /\ returned[t] \subseteq constructed /\ pcS[t] # "late"
            /\ pcS[t] \in {"publish", "unlock", "return"} => tmp[t] \in constructed
            /\ pcS[t] \in {"lock", "test"} => tmp[t] = 0

SInv == STypes /\ SLock /\ SOne /\ SSeen

\* The invariant contains the property.
LEMMA SInvOne == SInv => OneInstance
<1> SUFFICES ASSUME SInv PROVE S!OneInstance /\ S!ReturnsConstructed BY DEF OneInstance
<1>1. ASSUME variant \in {"beta", "gamma"}
      PROVE  made <= 1 /\ S!Cardinality(UNION {returned[t] : t \in Threads}) <= 1
  <2>1. made <= 1 /\ UNION {returned[t] : t \in Threads} \subseteq {1} BY <1>1 DEF SInv, SOne
  <2>2. IsFiniteSet({1}) /\ Cardinality({1}) = 1 BY FS_Singleton
  <2>3. Cardinality(UNION {returned[t] : t \in Threads}) <= 1 BY <2>1, <2>2, FS_Subset
  <2>4. S!Cardinality(UNION {returned[t] : t \in Threads}) = Cardinality(UNION {returned[t] : t \in Threads})
    BY DEF S!Cardinality, Cardinality
  <2> QED BY <2>1, <2>3, <2>4
<1>2. S!OneInstance BY <1>1 DEF S!OneInstance, S!Created
<1>3. S!ReturnsConstructed BY DEF SInv, SSeen, S!ReturnsConstructed
<1> QED BY <1>2, <1>3

\* Nobody has called yet.
LEMMA SInitInv == S!Init => SInv
BY DEF S!Init, S!nullptr, S!Free, SInv, STypes, SLock, Inside, SOne, Making, SSeen

\* Calls, and the return.
LEMMA SCallStep ==
  ASSUME SInv, NEW t \in Threads, S!Call(t), UNCHANGED variant
  PROVE  SInv'
<1>0. /\ pcS[t] = "idle" /\ pcS' = [pcS EXCEPT ![t] = "enter"]
      /\ UNCHANGED <<variant, instance_, mutex_, made, constructed, tmp, returned>>
  BY DEF S!Call, S!Go, S!heap
<1>1. STypes' BY <1>0 DEF SInv, STypes
<1>2. SLock' BY <1>0, SingletonAssumption DEF SInv, STypes, SLock, Inside, Guarded
<1>3. SOne' BY <1>0 DEF SInv, STypes, SLock, Inside, Guarded, SOne, Making
<1>4. SSeen' BY <1>0 DEF SInv, STypes, SLock, Inside, Guarded, SOne, Making, SSeen
<1> QED BY <1>1, <1>2, <1>3, <1>4 DEF SInv

\* What is returned was published, and in beta and release constructed.
LEMMA SReturnStep ==
  ASSUME SInv, NEW t \in Threads, S!Return(t), UNCHANGED variant
  PROVE  SInv'
<1>0. /\ pcS[t] = "return" /\ pcS' = [pcS EXCEPT ![t] = IF variant = "beta" THEN "unlock" ELSE "idle"]
      /\ returned' = [returned EXCEPT ![t] = @ \cup {IF variant = "release" THEN tmp[t] ELSE instance_}]
      /\ UNCHANGED <<variant, instance_, mutex_, made, constructed, tmp>>
  BY DEF S!Return, S!Go, S!heap
<1>1. STypes' BY <1>0 DEF SInv, STypes
<1>2. SLock' BY <1>0, SingletonAssumption DEF SInv, STypes, SLock, Inside, Guarded
<1>3. SOne' BY <1>0 DEF SInv, STypes, SLock, Inside, Guarded, SOne, Making
<1>4. SSeen' BY <1>0 DEF SInv, STypes, SLock, Inside, Guarded, SOne, Making, SSeen
<1> QED BY <1>1, <1>2, <1>3, <1>4 DEF SInv

\* The guard is released.
LEMMA SUnlockStep ==
  ASSUME SInv, NEW t \in Threads, S!Unlock(t), UNCHANGED <<variant, instance_, made, constructed, tmp, returned>>
  PROVE  SInv'
<1>0. /\ pcS[t] = "unlock" /\ pcS' = [pcS EXCEPT ![t] = IF variant = "beta" THEN "idle" ELSE "return"]
      /\ mutex_' = "free" /\ UNCHANGED <<variant, instance_, made, constructed, tmp, returned>>
  BY DEF S!Unlock, S!Go, S!Free
<1>1. STypes' BY <1>0 DEF SInv, STypes
<1>2. SLock' BY <1>0, SingletonAssumption DEF SInv, STypes, SLock, Inside, Guarded
<1>3. SOne' BY <1>0 DEF SInv, STypes, SLock, Inside, Guarded, SOne, Making
<1>4. SSeen' BY <1>0 DEF SInv, STypes, SLock, Inside, Guarded, SOne, Making, SSeen
<1> QED BY <1>1, <1>2, <1>3, <1>4 DEF SInv

\* An object is allocated.
LEMMA SAllocStep ==
  ASSUME SInv, NEW t \in Threads, S!Go(t, "new", "construct"), made' = made + 1, tmp' = [tmp EXCEPT ![t] = made + 1],
         UNCHANGED <<variant, instance_, constructed, mutex_, returned>>
  PROVE  SInv'
<1>0. pcS[t] = "new" /\ pcS' = [pcS EXCEPT ![t] = "construct"]
  BY DEF S!Go
<1>1. STypes' BY <1>0 DEF SInv, STypes
<1>2. SLock' BY <1>0, SingletonAssumption DEF SInv, STypes, SLock, Inside, Guarded
<1>3. SOne' BY <1>0 DEF SInv, STypes, SLock, Inside, Guarded, SOne, Making
<1>4. SSeen' BY <1>0 DEF SInv, STypes, SLock, Inside, Guarded, SOne, Making, SSeen
<1> QED BY <1>1, <1>2, <1>3, <1>4 DEF SInv

\* It is constructed, before or after it is published.
LEMMA SConstructStep ==
  ASSUME SInv, NEW t \in Threads, S!Go(t, "construct", "publish") \/ (variant # "release" /\ S!Go(t, "late", S!Leave)),
         constructed' = constructed \cup {tmp[t]}, UNCHANGED <<variant, instance_, made, tmp, mutex_, returned>>
  PROVE  SInv'
<1>0. \/ pcS[t] = "construct" /\ pcS' = [pcS EXCEPT ![t] = "publish"]
      \/ /\ variant # "release" /\ pcS[t] = "late"
         /\ pcS' = [pcS EXCEPT ![t] = IF variant \in {"alpha", "beta"} THEN "return" ELSE "unlock"]
  BY DEF S!Go, S!Leave
<1>1. STypes' BY <1>0 DEF SInv, STypes
<1>2. SLock' BY <1>0, SingletonAssumption DEF SInv, STypes, SLock, Inside, Guarded
<1>3. SOne' BY <1>0 DEF SInv, STypes, SLock, Inside, Guarded, SOne, Making
<1>4. SSeen' BY <1>0 DEF SInv, STypes, SLock, Inside, Guarded, SOne, Making, SSeen
<1> QED BY <1>1, <1>2, <1>3, <1>4 DEF SInv

\* It is published, before or after construction.
LEMMA SPublishStep ==
  ASSUME SInv, NEW t \in Threads, S!Go(t, "publish", S!Leave) \/ (variant # "release" /\ S!Go(t, "construct", "late")),
         instance_' = tmp[t], UNCHANGED <<variant, constructed, made, tmp, mutex_, returned>>
  PROVE  SInv'
<1>0. \/ /\ pcS[t] = "publish"
         /\ pcS' = [pcS EXCEPT ![t] = IF variant \in {"alpha", "beta"} THEN "return" ELSE "unlock"]
      \/ variant # "release" /\ pcS[t] = "construct" /\ pcS' = [pcS EXCEPT ![t] = "late"]
  BY DEF S!Go, S!Leave
<1>1. STypes' BY <1>0 DEF SInv, STypes
<1>2. SLock' BY <1>0, SingletonAssumption DEF SInv, STypes, SLock, Inside, Guarded
<1>3. SOne' BY <1>0 DEF SInv, STypes, SLock, Inside, Guarded, SOne, Making
<1>4. SSeen' BY <1>0 DEF SInv, STypes, SLock, Inside, Guarded, SOne, Making, SSeen
<1> QED BY <1>1, <1>2, <1>3, <1>4 DEF SInv

\* The lock is taken.
LEMMA SLockStep ==
  ASSUME SInv, NEW t \in Threads, S!Lock(t, "test"), UNCHANGED <<variant, instance_, made, constructed, tmp, returned>>
  PROVE  SInv'
<1>0. /\ pcS[t] = "lock" /\ pcS' = [pcS EXCEPT ![t] = "test"] /\ mutex_ = "free" /\ mutex_' = t
  BY DEF S!Lock, S!Go, S!Free
<1>1. STypes' BY <1>0 DEF SInv, STypes
<1>2. SLock' BY <1>0, SingletonAssumption DEF SInv, STypes, SLock, Inside, Guarded
<1>3. SOne' BY <1>0 DEF SInv, STypes, SLock, Inside, Guarded, SOne, Making
<1>4. SSeen' BY <1>0 DEF SInv, STypes, SLock, Inside, Guarded, SOne, Making, SSeen
<1> QED BY <1>1, <1>2, <1>3, <1>4 DEF SInv

\* A call enters; without a lock (alpha), to the lock (beta), or after a first
\* test, whose result release keeps in tmp.
LEMMA SEnterStep ==
  ASSUME SInv, NEW t \in Threads, S!Test(t), pcS[t] = "enter", UNCHANGED <<variant, instance_, made, constructed, returned>>
  PROVE  SInv'
<1>0. /\ UNCHANGED mutex_ /\ (tmp' = tmp \/ (variant = "release" /\ tmp' = [tmp EXCEPT ![t] = instance_]))
      /\ \/ variant = "alpha" /\ pcS' = [pcS EXCEPT ![t] = IF instance_ = 0 THEN "new" ELSE "return"] /\ tmp' = tmp
         \/ variant = "beta" /\ pcS' = [pcS EXCEPT ![t] = "lock"] /\ tmp' = tmp
         \/ variant = "gamma" /\ pcS' = [pcS EXCEPT ![t] = IF instance_ = 0 THEN "lock" ELSE "return"] /\ tmp' = tmp
         \/ /\ variant = "release" /\ pcS' = [pcS EXCEPT ![t] = IF instance_ = 0 THEN "lock" ELSE "return"]
            /\ tmp' = [tmp EXCEPT ![t] = instance_]
  BY DEF S!Test, S!AlphaTest, S!BetaTest, S!GammaTest, S!ReleaseTest, S!Lock, S!Go, S!nullptr, STypes, SInv
<1>1. STypes' BY <1>0 DEF SInv, STypes
<1>2. SLock' BY <1>0, SingletonAssumption DEF SInv, STypes, SLock, Inside, Guarded
<1>3. SOne' BY <1>0 DEF SInv, STypes, SLock, Inside, Guarded, SOne, Making
<1>4. SSeen' BY <1>0 DEF SInv, STypes, SLock, Inside, Guarded, SOne, Making, SSeen
<1> QED BY <1>1, <1>2, <1>3, <1>4 DEF SInv

\* The test under the lock.
LEMMA STestStep ==
  ASSUME SInv, NEW t \in Threads, S!Test(t), pcS[t] = "test", UNCHANGED <<variant, instance_, made, constructed, returned>>
  PROVE  SInv'
<1>0. /\ UNCHANGED <<mutex_, tmp>>
      /\ \/ variant = "beta" /\ pcS' = [pcS EXCEPT ![t] = IF instance_ = 0 THEN "new" ELSE "return"]
         \/ variant = "gamma" /\ pcS' = [pcS EXCEPT ![t] = IF instance_ = 0 THEN "new" ELSE "unlock"]
         \/ variant = "release" /\ pcS' = [pcS EXCEPT ![t] = IF tmp[t] = 0 THEN "new" ELSE "unlock"]
  BY DEF S!Test, S!AlphaTest, S!BetaTest, S!GammaTest, S!ReleaseTest, S!Lock, S!Go, S!nullptr, STypes, SInv
<1>1. STypes' BY <1>0 DEF SInv, STypes
<1>2. SLock' BY <1>0, SingletonAssumption DEF SInv, STypes, SLock, Inside, Guarded
<1>3. SOne' BY <1>0 DEF SInv, STypes, SLock, Inside, Guarded, SOne, Making
<1>4. SSeen' BY <1>0 DEF SInv, STypes, SLock, Inside, Guarded, SOne, Making, SSeen
<1> QED BY <1>1, <1>2, <1>3, <1>4 DEF SInv

\* Every step keeps the invariant.
LEMMA SStep == SInv /\ [Next]_vars => SInv'
<1> SUFFICES ASSUME SInv, [Next]_vars PROVE SInv' OBVIOUS
<1>1. CASE UNCHANGED varsS
  BY <1>1 DEF varsS, SInv, STypes, SLock, Inside, Guarded, SOne, Making, SSeen
<1>2. ASSUME NEW t \in Threads, S!GetInstance(t), UNCHANGED variant PROVE SInv'
  <2>1. CASE S!Test(t) /\ UNCHANGED <<instance_, made, constructed, returned>>
    <3>1. pcS[t] = "enter" \/ pcS[t] = "test" \/ (S!Lock(t, "test") /\ UNCHANGED tmp)
      BY <2>1 DEF SInv, STypes, S!Test, S!AlphaTest, S!BetaTest, S!GammaTest, S!ReleaseTest, S!Go
    <3> QED BY <1>2, <2>1, <3>1, SEnterStep, STestStep, SLockStep
  <2>2. CASE S!New(t) /\ UNCHANGED <<mutex_, returned>>
    BY <1>2, <2>2, SAllocStep, SConstructStep, SPublishStep DEF S!New, S!heap
  <2>3. CASE S!NewReordered(t) /\ UNCHANGED <<mutex_, returned>>
    BY <1>2, <2>3, SConstructStep, SPublishStep DEF S!NewReordered, S!heap
  <2>4. CASE S!Unlock(t) /\ UNCHANGED <<instance_, made, constructed, tmp, returned>>
    BY <1>2, <2>4, SUnlockStep
  <2>5. CASE S!Return(t) BY <1>2, <2>5, SReturnStep
  <2> QED BY <1>2, <2>1, <2>2, <2>3, <2>4, <2>5 DEF S!GetInstance, S!heap
<1>3. ASSUME NEW t \in Threads, S!Call(t), UNCHANGED variant PROVE SInv' BY <1>3, SCallStep
<1>4. CASE S!Next BY <1>1, <1>2, <1>3, <1>4 DEF S!Next, S!vars, S!heap, varsS
<1> QED BY <1>1, <1>4 DEF Next, InS, InT, InL, InC, vars

\* However many threads call GetInstance() of beta and gamma, they are given
\* one object and no other is made; beta and release hand out nothing that is
\* not constructed.
THEOREM OneObject == Spec => []OneInstance
<1>1. Init => SInv BY SInitInv DEF Init
<1>2. SInv /\ [Next]_vars => SInv' BY SStep
<1> QED BY <1>1, <1>2, SInvOne, PTL DEF Spec

-----------------------------------------------------------------------------
(* The chat server                                                         *)

CTypes ==
  /\ sock \in [0..C!N -> Clients \cup {"none"}] /\ sock[0] = "none"
  /\ accepted \subseteq Clients /\ members \subseteq accepted /\ clnt_sockfd \in 0..C!N
  /\ hpc \in [C!Handlers -> {"unborn", "start", "read", "lock", "write", "remove", "close", "done"}]
  /\ DOMAIN hfd = C!Handlers /\ DOMAIN hmsg = C!Handlers /\ DOMAIN harg = C!Handlers
  /\ hi \in [C!Handlers -> Nat] /\ DOMAIN clnt_sockfdvec = 0..C!N /\ clnt_cnt \in Nat
  /\ got \in [Clients -> [Clients -> Nat]] /\ DOMAIN cl = Clients /\ mutex \in Nat
  /\ mpc \in {"accept", "store", "create"}

\* A client is at the end of one descriptor, and one thread was created for
\* it: later than main() has put it on the list.
Born(h) == hpc[h] # "unborn"
Serving(h) == hpc[h] \in {"read", "lock", "write", "remove", "close"}
CFds ==
  /\ \A f, g \in 0..C!N : sock[f] = sock[g] /\ sock[f] # "none" => f = g
  /\ \A f \in 0..C!N : sock[f] # "none" => sock[f] \in accepted
CThreads ==
  /\ \A h \in C!Handlers : Born(h) => harg[h] \in accepted
  /\ \A g, h \in C!Handlers : Born(g) /\ Born(h) /\ harg[g] = harg[h] => g = h
  /\ \A h \in C!Handlers : Serving(h) => hfd[h] \in 0..C!N /\ sock[hfd[h]] = harg[h]
  /\ \A h \in C!Handlers : hpc[h] = "close" => harg[h] \notin members
CMain ==
  /\ mpc # "accept" => sock[clnt_sockfd] \in accepted /\ \A h \in C!Handlers : Born(h) => harg[h] # sock[clnt_sockfd]
  /\ mpc = "store" => sock[clnt_sockfd] \notin members

\* The list: the descriptors of the members, each once.
CList ==
  /\ clnt_cnt = Cardinality(members)
  /\ \A j \in 0..(clnt_cnt - 1) : clnt_sockfdvec[j] \in 0..C!N /\ sock[clnt_sockfdvec[j]] \in members
  /\ \A j, k \in 0..(clnt_cnt - 1) : clnt_sockfdvec[j] = clnt_sockfdvec[k] => j = k
  /\ \A c \in members : \E j \in 0..(clnt_cnt - 1) : sock[clnt_sockfdvec[j]] = c

\* A message is passed on by the thread of its sender, once, and under the
\* mutex: nobody has it before, and the descriptors before hi have it then.
CMessages ==
  /\ \A c \in Clients : c \in outbox \/ cl[c] \in {"new", "connected"} => \A d \in Clients : got[d][c] = 0
  /\ \A c \in Clients : c \in outbox => cl[c] \in {"sent", "left"}
  /\ \A h \in C!Handlers : hpc[h] \in {"lock", "write"} =>
       hmsg[h] = harg[h] /\ hmsg[h] \notin outbox /\ cl[hmsg[h]] \in {"sent", "left"}
  /\ \A h \in C!Handlers : hpc[h] = "lock" => \A d \in Clients : got[d][hmsg[h]] = 0
CWriting ==
  \A h \in C!Handlers : hpc[h] = "write" =>
    /\ mutex = h
    /\ \A j \in 0..(clnt_cnt - 1) :
         got[sock[clnt_sockfdvec[j]]][hmsg[h]] = IF j < hi[h] /\ clnt_sockfdvec[j] # hfd[h] THEN 1 ELSE 0

CGood == CTypes /\ CFds /\ CThreads /\ CMain /\ CList /\ CMessages /\ CWriting
CInv == orderly => CGood

\* ChatServer counts with its own instance of Cardinality; a handler is not 0.
LEMMA CNumbers ==
  /\ C!N \in Nat /\ C!N = Cardinality(Clients) /\ C!Fds = 1..C!N /\ C!Handlers = 1..C!N /\ C!None = "none"
  /\ C!Free = 0 /\ IsFiniteSet(Clients) /\ "none" \notin Clients
<1>1. C!N = Cardinality(Clients) BY DEF C!N, C!Cardinality, Cardinality
<1> QED BY <1>1, ChatAssumption, FS_CardinalityType DEF C!Fds, C!Handlers, C!None, C!Free

\* The invariant contains the properties.
LEMMA CInvList == CInv => ListIsMembers
<1> SUFFICES ASSUME CInv, orderly
             PROVE  clnt_cnt = C!Cardinality(members) /\ {sock[f] : f \in C!Listed} = members
  BY DEF ListIsMembers, C!ListIsMembers
<1>1. CList BY DEF CInv, CGood
<1>2. C!Cardinality(members) = Cardinality(members) BY DEF C!Cardinality, Cardinality
<1> QED BY <1>1, <1>2 DEF CList, C!Listed

LEMMA CInvBroadcast == CInv => BroadcastReachesMembers
<1> SUFFICES ASSUME CInv, NEW h \in C!Handlers, orderly, hpc[h] = "write", hi[h] >= clnt_cnt, NEW c \in members
             PROVE  got[c][hmsg[h]] = IF c = hmsg[h] THEN 0 ELSE 1
  BY DEF BroadcastReachesMembers, C!BroadcastReachesMembers
<1>1. CGood BY DEF CInv
<1>2. PICK j \in 0..(clnt_cnt - 1) : sock[clnt_sockfdvec[j]] = c BY <1>1 DEF CGood, CList
<1>3. j < hi[h] /\ clnt_sockfdvec[j] \in 0..C!N BY <1>1 DEF CGood, CTypes, CList
<1>4. got[c][hmsg[h]] = IF clnt_sockfdvec[j] # hfd[h] THEN 1 ELSE 0 BY <1>1, <1>2, <1>3 DEF CGood, CWriting
<1>5. hmsg[h] = harg[h] /\ sock[hfd[h]] = harg[h] /\ hfd[h] \in 0..C!N
  BY <1>1 DEF CGood, CThreads, CMessages, Serving
<1>6. c # "none" BY <1>1, CNumbers DEF CGood, CTypes
<1>7. clnt_sockfdvec[j] = hfd[h] <=> c = hmsg[h] BY <1>1, <1>2, <1>3, <1>5, <1>6 DEF CGood, CFds
<1> QED BY <1>4, <1>7

\* Nobody has come yet.
LEMMA CInitInv == C!Init => CInv
<1> SUFFICES ASSUME C!Init PROVE CGood BY DEF CInv
<1>0. /\ clnt_sockfdvec = [j \in 0..C!N |-> 0] /\ clnt_cnt = 0 /\ mutex = 0 /\ clnt_sockfd = 0 /\ mpc = "accept"
      /\ hpc = [h \in C!Handlers |-> "unborn"] /\ hi = [h \in C!Handlers |-> 0]
      /\ DOMAIN hfd = C!Handlers /\ DOMAIN hmsg = C!Handlers /\ DOMAIN harg = C!Handlers
      /\ sock = [f \in 0..C!N |-> "none"] /\ accepted = {} /\ members = {} /\ outbox = {}
      /\ DOMAIN cl = Clients /\ got = [c \in Clients |-> [d \in Clients |-> 0]]
  BY CNumbers DEF C!Init
<1>1. CTypes BY <1>0, CNumbers DEF CTypes
<1>2. CFds /\ CThreads /\ CMain BY <1>0 DEF CFds, CThreads, CMain, Born, Serving
<1>3. Cardinality(members) = 0 BY <1>0, FS_EmptySet
<1>4. CList BY <1>0, <1>3 DEF CList
<1>5. CMessages /\ CWriting BY <1>0 DEF CMessages, CWriting
<1> QED BY <1>1, <1>2, <1>4, <1>5 DEF CGood

\* Clients connect, send their message and leave.
LEMMA CClientStep ==
  ASSUME CGood, NEW c \in Clients, C!Connect(c) \/ C!SendOnce(c) \/ C!Quit(c)
  PROVE  CGood'
<1>1. /\ UNCHANGED <<clnt_sockfdvec, clnt_cnt, mutex, clnt_sockfd, mpc, hpc, hfd, hmsg, hi, harg>>
      /\ UNCHANGED <<sock, accepted, got, members>>
      /\ \/ cl[c] = "new" /\ cl' = [cl EXCEPT ![c] = "connected"] /\ outbox' = outbox
         \/ cl[c] = "connected" /\ cl' = [cl EXCEPT ![c] = "sent"] /\ outbox' = outbox \cup {c}
         \/ cl[c] \in {"connected", "sent"} /\ cl' = [cl EXCEPT ![c] = "left"] /\ outbox' = outbox
  BY DEF C!Connect, C!SendOnce, C!Quit, C!server, C!handlers
<1>2. CTypes' BY <1>1 DEF CGood, CTypes
<1>3. CFds' /\ CThreads' /\ CMain' BY <1>1 DEF CGood, CFds, CThreads, CMain, Born, Serving
<1>4. CList' BY <1>1 DEF CGood, CList
<1>5. CWriting' BY <1>1 DEF CGood, CWriting
<1>6. CMessages'
  <2>1. DOMAIN cl = Clients BY DEF CGood, CTypes
  <2>2. \A d \in Clients : d # c => cl'[d] = cl[d] /\ (d \in outbox' <=> d \in outbox) BY <1>1, <2>1
  <2>3. \/ cl[c] = "new" /\ cl'[c] = "connected" /\ outbox' = outbox
        \/ cl[c] = "connected" /\ cl'[c] = "sent" /\ outbox' = outbox \cup {c}
        \/ cl[c] \in {"connected", "sent"} /\ cl'[c] = "left" /\ outbox' = outbox
    BY <1>1, <2>1
  <2>4. \A d \in Clients : d \in outbox' \/ cl'[d] \in {"new", "connected"} =>
          d \in outbox \/ cl[d] \in {"new", "connected"}
    BY <2>2, <2>3
  <2>5. \A d \in Clients : d \in outbox => cl[d] \in {"sent", "left"} BY DEF CGood, CMessages
  <2>6. \A d \in Clients : d \in outbox' => cl'[d] \in {"sent", "left"} BY <2>2, <2>3, <2>5
  <2>7. \A h \in C!Handlers : hpc[h] \in {"lock", "write"} =>
          hmsg[h] = harg[h] /\ hmsg[h] \notin outbox /\ cl[hmsg[h]] \in {"sent", "left"} /\ harg[h] \in Clients
    BY DEF CGood, CMessages, CThreads, CTypes, Born
  <2>8. \A h \in C!Handlers : hpc[h] \in {"lock", "write"} => hmsg[h] \notin outbox' /\ cl'[hmsg[h]] \in {"sent", "left"}
    BY <2>2, <2>3, <2>7
  <2> QED BY <1>1, <2>4, <2>6, <2>7, <2>8 DEF CGood, CMessages
<1> QED BY <1>2, <1>3, <1>4, <1>5, <1>6 DEF CGood

\* accept() has a free descriptor.
LEMMA CFree ==
  ASSUME CGood, NEW c \in Clients \ accepted
  PROVE  {g \in C!Fds : sock[g] = "none"} # {}
<1> SUFFICES ASSUME \A g \in 1..C!N : sock[g] # "none" PROVE FALSE BY CNumbers
<1> DEFINE Others == Clients \ {c}
           names == [g \in 1..C!N |-> sock[g]]
<1>0. C!N \in Nat /\ 1..C!N \subseteq 0..C!N BY CNumbers
<1>1. \A g \in 1..C!N : sock[g] \in Others BY <1>0 DEF CGood, CTypes, CFds
<1>2. names \in [1..C!N -> Others] BY <1>1
<1>3. \A f, g \in 1..C!N : names[f] = names[g] => f = g BY <1>0 DEF CGood, CFds
<1>4. names \in Injection(1..C!N, Others) BY <1>2, <1>3 DEF Injection, IsInjective
<1>5. IsFiniteSet(Others) /\ Cardinality(Others) = C!N - 1 BY CNumbers, FS_RemoveElement
<1>6. Cardinality(1..C!N) <= Cardinality(Others) BY <1>4, <1>5, FS_Injection
<1>7. Cardinality(1..C!N) = C!N
  <2>1. Cardinality(1..C!N) = IF 1 > C!N THEN 0 ELSE C!N - 1 + 1 BY <1>0, FS_Interval
  <2> QED BY <1>0, <2>1
<1> QED BY <1>0, <1>5, <1>6, <1>7

LEMMA CMin ==
  ASSUME NEW X, X \subseteq Nat, X # {} PROVE C!Min(X) \in X
BY LeastNat DEF C!Min

\* A connection is accepted; nobody knows its descriptor yet.
LEMMA CAcceptStep == ASSUME CGood, C!Accept PROVE CGood'
<1>1. PICK c \in Clients \ accepted :
        /\ accepted' = accepted \cup {c}
        /\ LET f == C!Min({g \in C!Fds : sock[g] = C!None}) IN sock' = [sock EXCEPT ![f] = c] /\ clnt_sockfd' = f
  BY DEF C!Accept
<1>2. /\ mpc = "accept" /\ mpc' = "store"
      /\ UNCHANGED <<clnt_sockfdvec, clnt_cnt, mutex, hpc, hfd, hmsg, hi, harg, cl, outbox, got, members>>
  BY DEF C!Accept, C!server, C!handlers
<1> DEFINE free == {g \in C!Fds : sock[g] = "none"}
<1>3. free # {} /\ free \subseteq Nat BY <1>1, CFree, CNumbers
<1>4. C!Min(free) \in free BY <1>3, CMin
<1>5. PICK f \in free : sock' = [sock EXCEPT ![f] = c] /\ clnt_sockfd' = f BY <1>1, <1>4, CNumbers
<1>6. f \in 0..C!N /\ f # 0 /\ sock[f] = "none" /\ c # "none" BY <1>5, CNumbers
<1>7. sock \in [0..C!N -> Clients \cup {"none"}] /\ members \subseteq accepted BY DEF CGood, CTypes
<1>8. /\ sock' \in [0..C!N -> Clients \cup {"none"}] /\ sock'[f] = c
      /\ \A g \in 0..C!N : g # f => sock'[g] = sock[g]
  BY <1>5, <1>6, <1>7
<1>9. CTypes'
  <2>1. sock'[0] = "none" BY <1>6, <1>8, CNumbers DEF CGood, CTypes
  <2> QED BY <1>1, <1>2, <1>5, <1>6, <1>8, <2>1 DEF CGood, CTypes
<1>10. CFds' BY <1>1, <1>6, <1>8 DEF CGood, CFds
<1>11. CThreads'
  <2>1. \A h \in C!Handlers : Serving(h) => hfd[h] # f /\ hfd[h] \in 0..C!N
    BY <1>6, CNumbers DEF CGood, CThreads, Serving, Born, CTypes
  <2> QED BY <1>1, <1>2, <1>8, <2>1 DEF CGood, CThreads, Born, Serving
<1>12. CMain'
  <2>1. \A h \in C!Handlers : Born(h) => harg[h] # c BY <1>1 DEF CGood, CThreads
  <2> QED BY <1>1, <1>2, <1>5, <1>7, <1>8, <2>1 DEF CMain, Born
<1>13. \A j \in 0..(clnt_cnt - 1) : clnt_sockfdvec[j] \in 0..C!N /\ clnt_sockfdvec[j] # f
  BY <1>6, <1>7, CNumbers DEF CGood, CList, CTypes
<1>14. \A j \in 0..(clnt_cnt - 1) : sock'[clnt_sockfdvec[j]] = sock[clnt_sockfdvec[j]] BY <1>8, <1>13
<1>15. CList' BY <1>2, <1>14 DEF CGood, CList
<1>16. CMessages' BY <1>2 DEF CGood, CMessages
<1>17. CWriting' BY <1>2, <1>14 DEF CGood, CWriting
<1> QED BY <1>9, <1>10, <1>11, <1>12, <1>15, <1>16, <1>17 DEF CGood

\* main() puts it on the list.
LEMMA CStoreStep == ASSUME CGood, C!StoreClient PROVE CGood'
<1> DEFINE c == sock[clnt_sockfd]
<1>1. /\ mpc = "store" /\ mpc' = "create" /\ mutex = 0
      /\ clnt_sockfdvec' = [clnt_sockfdvec EXCEPT ![clnt_cnt] = clnt_sockfd] /\ clnt_cnt' = clnt_cnt + 1
      /\ members' = members \cup {c}
      /\ UNCHANGED <<mutex, clnt_sockfd, hpc, hfd, hmsg, hi, harg, sock, accepted, cl, outbox, got>>
  BY CNumbers DEF C!StoreClient, C!handlers, C!world
<1>2. c \in accepted /\ c \notin members /\ \A h \in C!Handlers : Born(h) => harg[h] # c
  BY <1>1 DEF CGood, CMain
<1>3. /\ members \subseteq Clients /\ c \in Clients /\ clnt_cnt \in Nat /\ DOMAIN clnt_sockfdvec = 0..C!N
      /\ clnt_sockfd \in 0..C!N /\ clnt_cnt = Cardinality(members)
  BY <1>2 DEF CGood, CTypes, CList
<1>4. IsFiniteSet(members) BY <1>3, CNumbers, FS_Subset
<1>5. Cardinality(members \cup {c}) = clnt_cnt + 1 BY <1>2, <1>3, <1>4, FS_AddElement
<1>6. Cardinality(members \cup {c}) <= C!N
  <2>1. members \cup {c} \subseteq Clients BY <1>3
  <2> QED BY <2>1, CNumbers, FS_Subset
<1>7. clnt_cnt \in 0..C!N BY <1>3, <1>5, <1>6, CNumbers
<1>8. /\ DOMAIN clnt_sockfdvec' = 0..C!N /\ clnt_sockfdvec'[clnt_cnt] = clnt_sockfd
      /\ \A j \in 0..(clnt_cnt - 1) : clnt_sockfdvec'[j] = clnt_sockfdvec[j]
  BY <1>1, <1>3, <1>7
<1>9. CTypes' BY <1>1, <1>2, <1>3, <1>8 DEF CGood, CTypes
<1>10. CFds' BY <1>1 DEF CGood, CFds
<1>11. CThreads' BY <1>1, <1>2 DEF CGood, CThreads, Born, Serving
<1>12. CMain' BY <1>1, <1>2 DEF CGood, CMain, Born
<1>13. CList'
  <2>1. \A j \in 0..clnt_cnt : j = clnt_cnt \/ j \in 0..(clnt_cnt - 1) BY <1>3
  <2>2. clnt_cnt' - 1 = clnt_cnt BY <1>1, <1>3
  <2>3. \A j \in 0..(clnt_cnt - 1) : clnt_sockfdvec[j] # clnt_sockfd BY <1>2 DEF CGood, CList
  <2>4. \A j \in 0..clnt_cnt : clnt_sockfdvec'[j] \in 0..C!N /\ sock[clnt_sockfdvec'[j]] \in members \cup {c}
    BY <1>3, <1>8, <2>1 DEF CGood, CList
  <2>5. \A j, k \in 0..clnt_cnt : clnt_sockfdvec'[j] = clnt_sockfdvec'[k] => j = k
    BY <1>8, <2>1, <2>3 DEF CGood, CList
  <2>6. \A d \in members \cup {c} : \E j \in 0..clnt_cnt : sock[clnt_sockfdvec'[j]] = d
    <3> SUFFICES ASSUME NEW d \in members \cup {c} PROVE \E j \in 0..clnt_cnt : sock[clnt_sockfdvec'[j]] = d OBVIOUS
    <3>1. CASE d = c BY <1>3, <1>8, <3>1
    <3>2. CASE d \in members
      <4>1. PICK j \in 0..(clnt_cnt - 1) : sock[clnt_sockfdvec[j]] = d BY <3>2 DEF CGood, CList
      <4>2. j \in 0..clnt_cnt BY <1>3, <4>1
      <4> QED BY <1>8, <4>1, <4>2
    <3> QED BY <3>1, <3>2
  <2> QED BY <1>1, <1>5, <2>2, <2>4, <2>5, <2>6 DEF CList
<1>14. CMessages' BY <1>1 DEF CGood, CMessages
<1>15. CWriting'
  <2>1. \A h \in C!Handlers : hpc[h] # "write" BY <1>1, CNumbers DEF CGood, CWriting
  <2> QED BY <1>1, <2>1 DEF CWriting
<1> QED BY <1>9, <1>10, <1>11, <1>12, <1>13, <1>14, <1>15 DEF CGood

\* A thread is created for it.
LEMMA CCreateStep == ASSUME CGood, C!CreateHandler PROVE CGood'
<1>1. PICK h \in C!Handlers : /\ hpc[h] = "unborn" /\ hpc' = [hpc EXCEPT ![h] = "start"]
                              /\ harg' = [harg EXCEPT ![h] = sock[clnt_sockfd]]
  BY DEF C!CreateHandler
<1>2. /\ mpc = "create" /\ mpc' = "accept"
      /\ UNCHANGED <<clnt_sockfdvec, clnt_cnt, mutex, clnt_sockfd, hfd, hmsg, hi>>
      /\ UNCHANGED <<sock, accepted, cl, outbox, got, members>>
  BY DEF C!CreateHandler, C!server, C!world
<1>3. /\ DOMAIN hpc = C!Handlers /\ DOMAIN harg = C!Handlers BY DEF CGood, CTypes
<1>4. /\ hpc'[h] = "start" /\ harg'[h] = sock[clnt_sockfd] /\ DOMAIN harg' = C!Handlers
      /\ \A g \in C!Handlers : g # h => hpc'[g] = hpc[g] /\ harg'[g] = harg[g]
  BY <1>1, <1>3
<1>5. CTypes' BY <1>1, <1>2, <1>4 DEF CGood, CTypes
<1>6. CFds' BY <1>2 DEF CGood, CFds
<1>7. sock[clnt_sockfd] \in accepted /\ \A g \in C!Handlers : Born(g) => harg[g] # sock[clnt_sockfd]
  BY <1>2 DEF CGood, CMain
<1>8. CThreads' BY <1>1, <1>2, <1>4, <1>7 DEF CGood, CThreads, Born, Serving
<1>9. CMain' BY <1>2 DEF CMain
<1>10. CList' BY <1>2 DEF CGood, CList
<1>11. CMessages' BY <1>1, <1>2, <1>4 DEF CGood, CMessages
<1>12. CWriting' BY <1>1, <1>2, <1>4 DEF CGood, CWriting
<1> QED BY <1>5, <1>6, <1>8, <1>9, <1>10, <1>11, <1>12 DEF CGood

\* What a handler thread changes of itself and of nobody else.
LEMMA CMove ==
  ASSUME CGood, NEW h \in C!Handlers, NEW a, NEW b, C!Go(h, a, b)
  PROVE  hpc[h] = a /\ hpc'[h] = b /\ \A g \in C!Handlers : g # h => hpc'[g] = hpc[g]
<1>1. DOMAIN hpc = C!Handlers BY DEF CGood, CTypes
<1> QED BY <1>1 DEF C!Go

\* The thread begins; it found its own client.
LEMMA CStartStep == ASSUME CGood, NEW h \in C!Handlers, C!H_Start(h), orderly' PROVE CGood'
<1>1. /\ C!Go(h, "start", "read") /\ hfd' = [hfd EXCEPT ![h] = clnt_sockfd]
      /\ UNCHANGED <<clnt_sockfdvec, clnt_cnt, mutex, clnt_sockfd, mpc, hmsg, hi, harg>>
      /\ UNCHANGED <<sock, accepted, cl, outbox, got, members>>
  BY DEF C!H_Start, C!server, C!world
<1>2. hpc[h] = "start" /\ hpc'[h] = "read" /\ \A g \in C!Handlers : g # h => hpc'[g] = hpc[g] BY <1>1, CMove
<1>3. sock[clnt_sockfd] = harg[h]
  <2>1. orderly' = (orderly /\ sock[clnt_sockfd] = harg[h]) BY DEF C!H_Start
  <2> QED BY <2>1, Zenon
<1>4. DOMAIN hfd = C!Handlers /\ clnt_sockfd \in 0..C!N BY DEF CGood, CTypes
<1>5. DOMAIN hfd' = C!Handlers /\ hfd'[h] = clnt_sockfd /\ \A g \in C!Handlers : g # h => hfd'[g] = hfd[g]
  BY <1>1, <1>4
<1>6. CTypes' BY <1>1, <1>5 DEF CGood, CTypes, C!Go
<1>7. CFds' BY <1>1 DEF CGood, CFds
<1>8. CThreads' BY <1>1, <1>2, <1>3, <1>4, <1>5 DEF CGood, CThreads, Born, Serving
<1>9. CMain' BY <1>1, <1>2 DEF CGood, CMain, Born
<1>10. CList' BY <1>1 DEF CGood, CList
<1>11. CMessages' BY <1>1, <1>2 DEF CGood, CMessages
<1>12. CWriting' BY <1>1, <1>2, <1>5 DEF CGood, CWriting
<1> QED BY <1>6, <1>7, <1>8, <1>9, <1>10, <1>11, <1>12 DEF CGood

\* It reads the message of its client, or sees that it has left.
LEMMA CReadStep == ASSUME CGood, NEW h \in C!Handlers, C!H_Read(h) PROVE CGood'
<1> DEFINE c == sock[hfd[h]]
<1>1. /\ UNCHANGED <<clnt_sockfdvec, clnt_cnt, mutex, clnt_sockfd, mpc, hfd, hi, harg>>
      /\ UNCHANGED <<sock, accepted, cl, got, members>>
      /\ \/ c \in outbox /\ C!Go(h, "read", "lock") /\ hmsg' = [hmsg EXCEPT ![h] = c] /\ outbox' = outbox \ {c}
         \/ C!Go(h, "read", "remove") /\ UNCHANGED <<hmsg, outbox>>
  BY DEF C!H_Read, C!server
<1>2. hpc[h] = "read" /\ \A g \in C!Handlers : g # h => hpc'[g] = hpc[g] BY <1>1, CMove
<1>3. \/ hpc'[h] = "lock" /\ c \in outbox /\ hmsg' = [hmsg EXCEPT ![h] = c] /\ outbox' = outbox \ {c}
      \/ hpc'[h] = "remove" /\ UNCHANGED <<hmsg, outbox>>
  BY <1>1, CMove
<1>4. c = harg[h] /\ c \in Clients /\ DOMAIN hmsg = C!Handlers
  BY <1>2 DEF CGood, CThreads, CTypes, Serving, Born
<1>5. \A g \in C!Handlers : g # h => hmsg'[g] = hmsg[g] BY <1>3, <1>4
<1>6. CTypes'
  <2>1. DOMAIN hmsg' = C!Handlers BY <1>3, <1>4
  <2> QED BY <1>1, <2>1 DEF CGood, CTypes, C!Go
<1>7. CFds' BY <1>1 DEF CGood, CFds
<1>8. CThreads'
  <2>1. hpc'[h] \in {"lock", "remove"} BY <1>3
  <2> QED BY <1>1, <1>2, <2>1 DEF CGood, CThreads, Born, Serving
<1>9. CMain'
  <2>1. hpc'[h] \in {"lock", "remove"} BY <1>3
  <2> QED BY <1>1, <1>2, <2>1 DEF CGood, CMain, Born
<1>10. CList' BY <1>1 DEF CGood, CList
<1>11. CMessages'
  <2>1. CASE hpc'[h] = "lock" /\ c \in outbox /\ hmsg' = [hmsg EXCEPT ![h] = c] /\ outbox' = outbox \ {c}
    <3>1. hmsg'[h] = c /\ c \notin outbox' BY <1>4, <2>1
    <3>2. cl[c] \in {"sent", "left"} /\ \A d \in Clients : got[d][c] = 0 BY <1>4, <2>1 DEF CGood, CMessages
    <3>3. \A d \in Clients : d \in outbox' => d \in outbox BY <2>1
    <3>4. \A g \in C!Handlers : g # h /\ hpc'[g] \in {"lock", "write"} =>
            hmsg'[g] = harg[g] /\ hmsg'[g] \notin outbox' /\ cl[hmsg'[g]] \in {"sent", "left"}
      BY <1>2, <1>5, <2>1 DEF CGood, CMessages
    <3>5. \A g \in C!Handlers : g # h /\ hpc'[g] = "lock" => \A d \in Clients : got[d][hmsg'[g]] = 0
      BY <1>2, <1>5 DEF CGood, CMessages
    <3>6. \A d \in Clients : d \in outbox' \/ cl[d] \in {"new", "connected"} => \A e \in Clients : got[e][d] = 0
      BY <3>3 DEF CGood, CMessages
    <3>7. \A d \in Clients : d \in outbox' => cl[d] \in {"sent", "left"} BY <3>3 DEF CGood, CMessages
    <3> QED BY <1>1, <1>4, <3>1, <3>2, <3>4, <3>5, <3>6, <3>7 DEF CMessages
  <2>2. CASE hpc'[h] = "remove" /\ UNCHANGED <<hmsg, outbox>> BY <1>1, <1>2, <2>2 DEF CGood, CMessages
  <2> QED BY <1>3, <2>1, <2>2
<1>12. CWriting'
  <2>1. hpc'[h] \in {"lock", "remove"} BY <1>3
  <2> QED BY <1>1, <1>2, <1>5, <2>1 DEF CGood, CWriting
<1> QED BY <1>6, <1>7, <1>8, <1>9, <1>10, <1>11, <1>12 DEF CGood

\* It takes the mutex and begins with the first descriptor.
LEMMA CLockStep == ASSUME CGood, NEW h \in C!Handlers, C!H_Lock(h) PROVE CGood'
<1>1. /\ C!Go(h, "lock", "write") /\ mutex = 0 /\ mutex' = h /\ hi' = [hi EXCEPT ![h] = 0]
      /\ UNCHANGED <<clnt_sockfdvec, clnt_cnt, clnt_sockfd, mpc, hfd, hmsg, harg>>
      /\ UNCHANGED <<sock, accepted, cl, outbox, got, members>>
  BY CNumbers DEF C!H_Lock, C!world
<1>2. hpc[h] = "lock" /\ hpc'[h] = "write" /\ \A g \in C!Handlers : g # h => hpc'[g] = hpc[g] BY <1>1, CMove
<1>3. hi \in [C!Handlers -> Nat] /\ h \in Nat /\ h # 0 BY CNumbers DEF CGood, CTypes
<1>4. hi' \in [C!Handlers -> Nat] /\ hi'[h] = 0 BY <1>1, <1>3
<1>5. CTypes' BY <1>1, <1>3, <1>4 DEF CGood, CTypes, C!Go
<1>6. CFds' BY <1>1 DEF CGood, CFds
<1>7. CThreads' BY <1>1, <1>2 DEF CGood, CThreads, Born, Serving
<1>8. CMain' BY <1>1, <1>2 DEF CGood, CMain, Born
<1>9. CList' BY <1>1 DEF CGood, CList
<1>10. CMessages' BY <1>1, <1>2 DEF CGood, CMessages
<1>11. CWriting'
  <2>1. \A g \in C!Handlers : hpc[g] # "write" BY <1>1, CNumbers DEF CGood, CWriting
  <2>2. \A d \in Clients : got[d][hmsg[h]] = 0 BY <1>2 DEF CGood, CMessages
  <2>3. \A j \in 0..(clnt_cnt - 1) : sock[clnt_sockfdvec[j]] \in Clients /\ ~(j < 0) BY DEF CGood, CList, CTypes
  <2>4. \A j \in 0..(clnt_cnt - 1) : got[sock[clnt_sockfdvec[j]]][hmsg[h]] = 0 BY <2>2, <2>3
  <2> QED BY <1>1, <1>2, <1>4, <2>1, <2>3, <2>4 DEF CWriting
<1> QED BY <1>5, <1>6, <1>7, <1>8, <1>9, <1>10, <1>11 DEF CGood

\* It gives the mutex back.
LEMMA CUnlockStep == ASSUME CGood, NEW h \in C!Handlers, C!H_Unlock(h) PROVE CGood'
<1>1. /\ C!Go(h, "write", "read") /\ mutex' = 0
      /\ UNCHANGED <<clnt_sockfdvec, clnt_cnt, clnt_sockfd, mpc, hfd, hmsg, hi, harg>>
      /\ UNCHANGED <<sock, accepted, cl, outbox, got, members>>
  BY CNumbers DEF C!H_Unlock, C!world
<1>2. hpc[h] = "write" /\ hpc'[h] = "read" /\ \A g \in C!Handlers : g # h => hpc'[g] = hpc[g] BY <1>1, CMove
<1>3. CTypes' BY <1>1 DEF CGood, CTypes, C!Go
<1>4. CFds' BY <1>1 DEF CGood, CFds
<1>5. CThreads' BY <1>1, <1>2 DEF CGood, CThreads, Born, Serving
<1>6. CMain' BY <1>1, <1>2 DEF CGood, CMain, Born
<1>7. CList' BY <1>1 DEF CGood, CList
<1>8. CMessages' BY <1>1, <1>2 DEF CGood, CMessages
<1>9. CWriting'
  <2>1. \A g \in C!Handlers : g # h => hpc[g] # "write" BY <1>2 DEF CGood, CWriting
  <2> QED BY <1>2, <2>1 DEF CWriting
<1> QED BY <1>3, <1>4, <1>5, <1>6, <1>7, <1>8, <1>9 DEF CGood

\* It writes to one descriptor, or skips its own.
LEMMA CWriteStep == ASSUME CGood, NEW h \in C!Handlers, C!H_Write(h) PROVE CGood'
<1>1. PICK f : f = clnt_sockfdvec[hi[h]] OBVIOUS
<1>2. PICK d : d = sock[f] OBVIOUS
<1>3. PICK w : w = hmsg[h] OBVIOUS
<1>4. /\ hpc[h] = "write" /\ hi[h] < clnt_cnt /\ hi' = [hi EXCEPT ![h] = @ + 1]
      /\ got' = IF f # hfd[h] /\ d # "none" THEN [got EXCEPT ![d][w] = @ + 1] ELSE got
      /\ UNCHANGED <<clnt_sockfdvec, clnt_cnt, mutex, clnt_sockfd, mpc, hpc, hfd, hmsg, harg>>
      /\ UNCHANGED <<sock, accepted, cl, outbox, members>>
  BY <1>1, <1>2, <1>3, CNumbers DEF C!H_Write, C!server
<1>5. hi \in [C!Handlers -> Nat] /\ clnt_cnt \in Nat /\ got \in [Clients -> [Clients -> Nat]] BY DEF CGood, CTypes
<1>6. hi[h] \in 0..(clnt_cnt - 1) BY <1>4, <1>5
<1>7. f \in 0..C!N /\ d \in members BY <1>1, <1>2, <1>6 DEF CGood, CList
<1>8. d \in Clients /\ d # "none" BY <1>7, CNumbers DEF CGood, CTypes
<1>9. /\ w = harg[h] /\ w \in Clients /\ w \notin outbox /\ cl[w] \in {"sent", "left"} /\ mutex = h
      /\ \A j \in 0..(clnt_cnt - 1) : got[sock[clnt_sockfdvec[j]]][w] =
           IF j < hi[h] /\ clnt_sockfdvec[j] # hfd[h] THEN 1 ELSE 0
  BY <1>3, <1>4 DEF CGood, CThreads, CTypes, Born, CMessages, CWriting
<1>10. got' \in [Clients -> [Clients -> Nat]] /\ \A x, y \in Clients : x # d \/ y # w => got'[x][y] = got[x][y]
  <2>1. CASE f # hfd[h]
    <3>1. got[d] \in [Clients -> Nat] /\ got[d][w] \in Nat BY <1>5, <1>8, <1>9
    <3>2. got' = [got EXCEPT ![d] = [got[d] EXCEPT ![w] = got[d][w] + 1]] BY <1>4, <1>8, <2>1
    <3> QED BY <1>5, <1>8, <1>9, <3>1, <3>2
  <2>2. CASE f = hfd[h] BY <1>4, <1>5, <2>2
  <2> QED BY <2>1, <2>2
<1>11. got'[d][w] = IF f # hfd[h] THEN 1 ELSE 0
  <2>1. got[d][w] = 0 BY <1>1, <1>2, <1>5, <1>6, <1>9
  <2>2. CASE f # hfd[h]
    <3>1. got' = [got EXCEPT ![d] = [got[d] EXCEPT ![w] = got[d][w] + 1]] BY <1>4, <1>8, <2>2
    <3> QED BY <1>5, <1>8, <1>9, <2>1, <2>2, <3>1
  <2>3. CASE f = hfd[h] BY <1>4, <2>1, <2>3
  <2> QED BY <2>2, <2>3
<1>12. hi' \in [C!Handlers -> Nat] /\ hi'[h] = hi[h] + 1 BY <1>4, <1>5
<1>13. CTypes' BY <1>4, <1>10, <1>12 DEF CGood, CTypes
<1>14. CFds' BY <1>4 DEF CGood, CFds
<1>15. CThreads' BY <1>4 DEF CGood, CThreads, Born, Serving
<1>16. CMain' BY <1>4 DEF CGood, CMain, Born
<1>17. CList' BY <1>4 DEF CGood, CList
<1>18. CMessages'
  <2>1. \A c \in Clients : c \in outbox \/ cl[c] \in {"new", "connected"} => c # w /\ \A x \in Clients : got'[x][c] = 0
    BY <1>9, <1>10 DEF CGood, CMessages
  <2>2. \A g \in C!Handlers : hpc[g] = "lock" => hmsg[g] = harg[g] /\ g # h /\ harg[g] \in Clients
    BY <1>4 DEF CGood, CMessages, CThreads, CTypes, Born
  <2>3. \A g \in C!Handlers : hpc[g] = "lock" => hmsg[g] # w
    BY <1>4, <1>9, <2>2 DEF CGood, CThreads, Born
  <2>4. \A g \in C!Handlers : hpc[g] = "lock" => \A x \in Clients : got'[x][hmsg[g]] = 0
    BY <1>10, <2>2, <2>3 DEF CGood, CMessages
  <2> QED BY <1>4, <2>1, <2>4 DEF CGood, CMessages
<1>19. CWriting'
  <2>1. \A g \in C!Handlers : hpc[g] = "write" => g = h BY <1>4 DEF CGood, CWriting
  <2>2. ASSUME NEW j \in 0..(clnt_cnt - 1)
        PROVE  got'[sock[clnt_sockfdvec[j]]][w] = IF j < hi[h] + 1 /\ clnt_sockfdvec[j] # hfd[h] THEN 1 ELSE 0
    <3>1. CASE j = hi[h] BY <1>1, <1>2, <1>5, <1>11, <3>1
    <3>2. CASE j # hi[h]
      <4>1. clnt_sockfdvec[j] # f /\ clnt_sockfdvec[j] \in 0..C!N /\ sock[clnt_sockfdvec[j]] \in Clients
        BY <1>1, <1>6, <3>2 DEF CGood, CList, CTypes
      <4>2. sock[clnt_sockfdvec[j]] # d BY <1>2, <1>7, <1>8, <4>1 DEF CGood, CFds
      <4>3. got'[sock[clnt_sockfdvec[j]]][w] = got[sock[clnt_sockfdvec[j]]][w] BY <1>9, <1>10, <4>1, <4>2
      <4>4. PICK k \in Int : k = hi[h] BY <1>5
      <4>5. j < k + 1 <=> j < k BY <3>2, <4>4
      <4> QED BY <1>9, <4>3, <4>4, <4>5
    <3> QED BY <3>1, <3>2
  <2> SUFFICES ASSUME NEW g \in C!Handlers, hpc[g] = "write"
               PROVE  /\ mutex = g
                      /\ \A j \in 0..(clnt_cnt - 1) : got'[sock[clnt_sockfdvec[j]]][hmsg[g]] =
                           IF j < hi'[g] /\ clnt_sockfdvec[j] # hfd[g] THEN 1 ELSE 0
    BY <1>4 DEF CWriting
  <2>3. g = h BY <2>1
  <2> QED BY <1>3, <1>9, <1>12, <2>2, <2>3
<1> QED BY <1>13, <1>14, <1>15, <1>16, <1>17, <1>18, <1>19 DEF CGood

\* The client of the last descriptor on the list is taken off.
LEMMA CRemoveStep == ASSUME CGood, NEW h \in C!Handlers, C!H_Remove(h), orderly' PROVE CGood'
<1>1. /\ C!Go(h, "remove", "close") /\ mutex = 0 /\ clnt_cnt' = clnt_cnt - 1 /\ members' = members \ {harg[h]}
      /\ UNCHANGED <<mutex, clnt_sockfd, mpc, hfd, hmsg, hi, harg, sock, accepted, cl, outbox, got>>
  BY CNumbers DEF C!H_Remove, C!world
<1>2. hpc[h] = "remove" /\ hpc'[h] = "close" /\ \A g \in C!Handlers : g # h => hpc'[g] = hpc[g] BY <1>1, CMove
<1>3. C!Position(hfd[h]) = {clnt_cnt - 1}
  <2>1. orderly' = (orderly /\ C!Position(hfd[h]) = {clnt_cnt - 1}) BY DEF C!H_Remove
  <2> QED BY <2>1, Zenon
<1>4. clnt_cnt - 1 \in 0..(clnt_cnt - 1) /\ clnt_sockfdvec[clnt_cnt - 1] = hfd[h] BY <1>3 DEF C!Position
<1>5. clnt_cnt \in Nat /\ clnt_cnt - 1 \in Nat BY <1>4 DEF CGood, CTypes
<1>6. C!Min(C!Position(hfd[h])) = clnt_cnt - 1
  <2>1. {clnt_cnt - 1} \subseteq Nat /\ {clnt_cnt - 1} # {} BY <1>5
  <2>2. C!Min({clnt_cnt - 1}) \in {clnt_cnt - 1} BY <2>1, CMin
  <2> QED BY <1>3, <2>2
<1>7. /\ DOMAIN clnt_sockfdvec' = 0..C!N
      /\ \A j \in 0..(clnt_cnt - 1) : j \in 0..C!N => clnt_sockfdvec'[j] = clnt_sockfdvec[j]
  <2>1. C!Position(hfd[h]) # {} BY <1>3
  <2>2. clnt_sockfdvec' = [j \in 0..C!N |-> IF clnt_cnt - 1 < j /\ j < clnt_cnt
                                              THEN clnt_sockfdvec[j + 1] ELSE clnt_sockfdvec[j]]
    BY <1>6, <2>1 DEF C!H_Remove
  <2> QED BY <1>5, <2>2, CNumbers
<1>8. harg[h] = sock[hfd[h]] /\ harg[h] \in members BY <1>2, <1>4 DEF CGood, CThreads, Serving, CList
<1>9. members \subseteq Clients /\ IsFiniteSet(members) BY CNumbers, FS_Subset DEF CGood, CTypes
<1>10. Cardinality(members \ {harg[h]}) = Cardinality(members) - 1 BY <1>8, <1>9, FS_RemoveElement
<1>11. clnt_cnt = Cardinality(members) /\ clnt_cnt <= C!N
  <2>1. Cardinality(members) <= Cardinality(Clients) BY <1>9, CNumbers, FS_Subset
  <2> QED BY <2>1, CNumbers DEF CGood, CList
<1>12. \A j \in 0..(clnt_cnt - 2) : j \in 0..(clnt_cnt - 1) /\ j # clnt_cnt - 1 /\ clnt_sockfdvec'[j] = clnt_sockfdvec[j]
  BY <1>5, <1>7, <1>11, CNumbers
<1>13. CTypes' BY <1>1, <1>5, <1>7 DEF CGood, CTypes, C!Go
<1>14. CFds' BY <1>1 DEF CGood, CFds
<1>15. CThreads' BY <1>1, <1>2 DEF CGood, CThreads, Born, Serving
<1>16. CMain' BY <1>1, <1>2 DEF CGood, CMain, Born
<1>17. CList'
  <2>1. clnt_cnt' - 1 = clnt_cnt - 2 BY <1>1, <1>5
  <2>2. \A j \in 0..(clnt_cnt - 2) : /\ clnt_sockfdvec[j] \in 0..C!N /\ sock[clnt_sockfdvec[j]] \in members
                                     /\ clnt_sockfdvec[j] # hfd[h]
    BY <1>4, <1>12 DEF CGood, CList
  <2>3. hfd[h] \in 0..C!N /\ harg[h] # "none" BY <1>2, <1>8, <1>9, CNumbers DEF CGood, CThreads, Serving
  <2>4. \A j \in 0..(clnt_cnt - 2) : sock[clnt_sockfdvec[j]] # harg[h] BY <1>8, <2>2, <2>3 DEF CGood, CFds
  <2>5. \A j, k \in 0..(clnt_cnt - 2) : clnt_sockfdvec[j] = clnt_sockfdvec[k] => j = k BY <1>12 DEF CGood, CList
  <2>6. ASSUME NEW c \in members \ {harg[h]} PROVE \E j \in 0..(clnt_cnt - 2) : sock[clnt_sockfdvec[j]] = c
    <3>1. PICK j \in 0..(clnt_cnt - 1) : sock[clnt_sockfdvec[j]] = c BY <2>6 DEF CGood, CList
    <3>2. j # clnt_cnt - 1 BY <1>4, <1>8, <2>6, <3>1
    <3>3. j \in 0..(clnt_cnt - 2) BY <1>5, <3>1, <3>2
    <3> QED BY <3>1, <3>3
  <2>7. \A j \in 0..(clnt_cnt - 2) : clnt_sockfdvec'[j] \in 0..C!N /\ sock[clnt_sockfdvec'[j]] \in members \ {harg[h]}
    BY <1>12, <2>2, <2>4
  <2>8. \A j, k \in 0..(clnt_cnt - 2) : clnt_sockfdvec'[j] = clnt_sockfdvec'[k] => j = k BY <1>12, <2>5
  <2>9. \A c \in members \ {harg[h]} : \E j \in 0..(clnt_cnt - 2) : sock[clnt_sockfdvec'[j]] = c BY <1>12, <2>6
  <2> QED BY <1>1, <1>10, <1>11, <2>1, <2>7, <2>8, <2>9 DEF CList
<1>18. CMessages' BY <1>1, <1>2 DEF CGood, CMessages
<1>19. CWriting'
  <2>1. \A g \in C!Handlers : hpc[g] # "write" BY <1>1, CNumbers DEF CGood, CWriting
  <2> QED BY <1>2, <2>1 DEF CWriting
<1> QED BY <1>13, <1>14, <1>15, <1>16, <1>17, <1>18, <1>19 DEF CGood

\* The descriptor of a client that is no member any more is closed.
LEMMA CCloseStep == ASSUME CGood, NEW h \in C!Handlers, C!H_Close(h) PROVE CGood'
<1>1. /\ C!Go(h, "close", "done") /\ sock' = [sock EXCEPT ![hfd[h]] = "none"]
      /\ UNCHANGED <<clnt_sockfdvec, clnt_cnt, mutex, clnt_sockfd, mpc, hfd, hmsg, hi, harg>>
      /\ UNCHANGED <<accepted, cl, outbox, got, members>>
  BY CNumbers DEF C!H_Close, C!server
<1>2. hpc[h] = "close" /\ hpc'[h] = "done" /\ \A g \in C!Handlers : g # h => hpc'[g] = hpc[g] BY <1>1, CMove
<1>3. hfd[h] \in 0..C!N /\ sock[hfd[h]] = harg[h] /\ harg[h] \in accepted /\ harg[h] \notin members
  BY <1>2 DEF CGood, CThreads, Serving, Born
<1>4. sock \in [0..C!N -> Clients \cup {"none"}] /\ sock[0] = "none" BY DEF CGood, CTypes
<1>5. /\ sock' \in [0..C!N -> Clients \cup {"none"}] /\ sock'[0] = "none" /\ sock'[hfd[h]] = "none"
      /\ \A f \in 0..C!N : f # hfd[h] => sock'[f] = sock[f]
  BY <1>1, <1>3, <1>4, CNumbers
<1>6. CTypes' BY <1>1, <1>5 DEF CGood, CTypes, C!Go
<1>7. CFds' BY <1>1, <1>5 DEF CGood, CFds
<1>8. CThreads'
  <2>1. \A g \in C!Handlers : g # h /\ Serving(g) => harg[g] # harg[h] BY <1>2 DEF CGood, CThreads, Serving, Born
  <2>2. \A g \in C!Handlers : g # h /\ Serving(g) => hfd[g] \in 0..C!N /\ hfd[g] # hfd[h] /\ sock[hfd[g]] = harg[g]
    BY <1>3, <2>1 DEF CGood, CThreads
  <2> QED BY <1>1, <1>2, <1>5, <2>2 DEF CGood, CThreads, Born, Serving
<1>9. CMain'
  <2>1. mpc # "accept" => clnt_sockfd # hfd[h] BY <1>2, <1>3 DEF CGood, CMain, Born
  <2>2. clnt_sockfd \in 0..C!N BY DEF CGood, CTypes
  <2> QED BY <1>1, <1>2, <1>5, <2>1, <2>2 DEF CGood, CMain, Born
<1>10. \A j \in 0..(clnt_cnt - 1) : sock'[clnt_sockfdvec[j]] = sock[clnt_sockfdvec[j]]
  BY <1>3, <1>5 DEF CGood, CList
<1>11. CList' BY <1>1, <1>10 DEF CGood, CList
<1>12. CMessages' BY <1>1, <1>2 DEF CGood, CMessages
<1>13. CWriting' BY <1>1, <1>2, <1>10 DEF CGood, CWriting
<1> QED BY <1>6, <1>7, <1>8, <1>9, <1>11, <1>12, <1>13 DEF CGood

\* A history that is not orderly never becomes so.
LEMMA COrderly == ASSUME C!Next, orderly' PROVE orderly
<1>1. orderly' = orderly \/ \E h \in C!Handlers : C!H_Start(h) \/ C!H_Remove(h)
  BY DEF C!Next, C!ClientStep, C!Main, C!Handler, C!Connect, C!SendOnce, C!Quit, C!Accept, C!StoreClient,
         C!CreateHandler, C!H_Read, C!H_Lock, C!H_Write, C!H_Unlock, C!H_Close
<1>2. ASSUME NEW h \in C!Handlers, C!H_Start(h) PROVE orderly
  <2>1. orderly' = (orderly /\ sock[clnt_sockfd] = harg[h]) BY <1>2 DEF C!H_Start
  <2> QED BY <2>1, Zenon
<1>3. ASSUME NEW h \in C!Handlers, C!H_Remove(h) PROVE orderly
  <2>1. orderly' = (orderly /\ C!Position(hfd[h]) = {clnt_cnt - 1}) BY <1>3 DEF C!H_Remove
  <2> QED BY <2>1, Zenon
<1> QED BY <1>1, <1>2, <1>3, Zenon

\* Every step keeps the invariant.
LEMMA CStep == CInv /\ [Next]_vars => CInv'
<1> SUFFICES ASSUME CInv, [Next]_vars, orderly' PROVE CGood' BY DEF CInv
<1>1. CASE UNCHANGED varsC
  <2>1. /\ UNCHANGED <<clnt_sockfdvec, clnt_cnt, mutex, clnt_sockfd, mpc, hpc, hfd, hmsg, hi, harg>>
        /\ UNCHANGED <<sock, accepted, cl, outbox, got, members, orderly>>
    BY <1>1 DEF varsC
  <2>2. CGood BY <2>1 DEF CInv
  <2>3. CTypes' BY <2>1, <2>2 DEF CGood, CTypes
  <2>4. CFds' /\ CThreads' BY <2>1, <2>2 DEF CGood, CFds, CThreads, Born, Serving
  <2>5. CMain' /\ CList' BY <2>1, <2>2 DEF CGood, CMain, Born, CList
  <2>6. CMessages' /\ CWriting' BY <2>1, <2>2 DEF CGood, CMessages, CWriting
  <2> QED BY <2>3, <2>4, <2>5, <2>6 DEF CGood
<1>2. CASE C!Next
  <2>1. CGood BY <1>2, COrderly DEF CInv
  <2>2. ASSUME NEW c \in Clients, C!Connect(c) \/ C!SendOnce(c) \/ C!Quit(c) PROVE CGood' BY <2>1, <2>2, CClientStep
  <2>3. CASE C!Main BY <2>1, <2>3, CAcceptStep, CStoreStep, CCreateStep DEF C!Main
  <2>4. ASSUME NEW h \in C!Handlers, C!Handler(h) PROVE CGood'
    BY <2>1, <2>4, CStartStep, CReadStep, CLockStep, CWriteStep, CUnlockStep, CRemoveStep, CCloseStep DEF C!Handler
  <2> QED BY <1>2, <2>2, <2>3, <2>4 DEF C!Next, C!ClientStep
<1> QED BY <1>1, <1>2 DEF Next, InS, InT, InL, InC, vars

\* In an orderly history the list of the chat server is its members, each
\* once, however many clients come, write and leave.
THEOREM ListOfMembers == Spec => []ListIsMembers
<1>1. Init => CInv BY CInitInv DEF Init
<1>2. CInv /\ [Next]_vars => CInv' BY CStep
<1> QED BY <1>1, <1>2, CInvList, PTL DEF Spec

\* ... and a message reaches each member but its sender, once.
THEOREM BroadcastComplete == Spec => []BroadcastReachesMembers
<1>1. Init => CInv BY CInitInv DEF Init
<1>2. CInv /\ [Next]_vars => CInv' BY CStep
<1> QED BY <1>1, <1>2, CInvBroadcast, PTL DEF Spec

-----------------------------------------------------------------------------
(* Timer heap: the order of the keys                                       *)

Parent(i) == (i - 1) \div 2
Swapped(key, i, j) == [key EXCEPT ![i] = key[j], ![j] = key[i]]

\* N keys in heap order; the same but for the one at p, which may be too small
\* for its place, or too large.
Ordered(key, N) == \A i \in 1..(N - 1) : key[Parent(i)] <= key[i]
Bridged(key, N, p) == \A i \in 1..(N - 1) : p > 0 /\ Parent(i) = p => key[Parent(p)] <= key[i]
UpOrdered(key, N, p) == Bridged(key, N, p) /\ \A i \in 1..(N - 1) : i # p => key[Parent(i)] <= key[i]
DownOrdered(key, N, p) == Bridged(key, N, p) /\ \A i \in 1..(N - 1) : Parent(i) # p => key[Parent(i)] <= key[i]

\* Where the parent is, and which places are its children.
LEMMA ParentOf ==
  \A i \in Nat : i # 0 => Parent(i) \in Nat /\ Parent(i) < i /\ (i = 2 * Parent(i) + 1 \/ i = 2 * Parent(i) + 2)
BY DEF Parent

\* A key that is exchanged with its larger parent.
LEMMA UpSwap ==
  ASSUME NEW N \in Nat, NEW key \in [0..(N - 1) -> Nat], NEW p \in 1..(N - 1),
         UpOrdered(key, N, p), key[p] < key[Parent(p)]
  PROVE  UpOrdered(Swapped(key, p, Parent(p)), N, Parent(p))
<1>1. PICK q \in 0..(N - 1) : q = Parent(p) /\ q < p BY ParentOf
<1>2. PICK new : new = Swapped(key, p, q) OBVIOUS
<1>3. new[q] = key[p] /\ new[p] = key[q] /\ \A i \in 0..(N - 1) : i # p /\ i # q => new[i] = key[i]
  BY <1>1, <1>2 DEF Swapped
<1>4. key[p] < key[q] BY <1>1
<1>5. \A i \in 1..(N - 1) : Parent(i) \in 0..(N - 1) /\ Parent(i) < i BY ParentOf
<1>6. ASSUME NEW i \in 1..(N - 1), i # q PROVE new[Parent(i)] <= new[i]
  <2>1. key[i] \in Nat /\ key[p] \in Nat /\ key[q] \in Nat BY <1>1
  <2>2. CASE i = p BY <1>1, <1>3, <1>4, <2>1, <2>2
  <2>3. CASE i # p /\ Parent(i) = p
    <3>1. key[q] <= key[i] BY <1>1, <2>3 DEF UpOrdered, Bridged
    <3> QED BY <1>3, <1>6, <2>3, <3>1
  <2>4. CASE i # p /\ Parent(i) = q
    <3>1. key[q] <= key[i] BY <2>4 DEF UpOrdered
    <3> QED BY <1>3, <1>4, <1>6, <2>1, <2>4, <3>1
  <2>5. CASE i # p /\ Parent(i) # p /\ Parent(i) # q
    <3>1. key[Parent(i)] <= key[i] BY <2>5 DEF UpOrdered
    <3>2. new[i] = key[i] BY <1>3, <1>6, <2>5
    <3>3. new[Parent(i)] = key[Parent(i)] BY <1>3, <1>5, <2>5
    <3> QED BY <3>1, <3>2, <3>3
  <2> QED BY <2>2, <2>3, <2>4, <2>5
<1>7. ASSUME NEW i \in 1..(N - 1), q > 0, Parent(i) = q PROVE new[Parent(q)] <= new[i]
  <2>1. Parent(q) \in 0..(N - 1) /\ Parent(q) < q BY <1>5, <1>7
  <2>2. key[Parent(q)] <= key[q] BY <1>1, <1>7 DEF UpOrdered
  <2>3. new[Parent(q)] = key[Parent(q)] BY <1>1, <1>3, <2>1
  <2>4. key[i] \in Nat /\ key[p] \in Nat /\ key[q] \in Nat /\ key[Parent(q)] \in Nat BY <1>1, <2>1
  <2>5. CASE i = p BY <1>3, <2>2, <2>3, <2>5
  <2>6. CASE i # p
    <3>1. key[q] <= key[i] BY <1>7, <2>6 DEF UpOrdered
    <3>2. i # q BY <1>5, <1>7
    <3> QED BY <1>3, <2>2, <2>3, <2>4, <2>6, <3>1, <3>2
  <2> QED BY <2>5, <2>6
<1>8. UpOrdered(new, N, q) BY <1>6, <1>7 DEF UpOrdered, Bridged
<1> QED BY <1>1, <1>2, <1>8

\* A key that is exchanged with a smaller child, which is smaller than the other.
LEMMA DownSwap ==
  ASSUME NEW N \in Nat, NEW key \in [0..(N - 1) -> Nat], NEW p \in 0..(N - 1), NEW c \in 1..(N - 1),
         DownOrdered(key, N, p), Parent(c) = p, key[c] <= key[p],
         \A i \in 1..(N - 1) : Parent(i) = p => key[c] <= key[i]
  PROVE  DownOrdered(Swapped(key, p, c), N, c)
<1>1. p < c BY ParentOf
<1>2. PICK new : new = Swapped(key, p, c) OBVIOUS
<1>3. new[p] = key[c] /\ new[c] = key[p] /\ \A i \in 0..(N - 1) : i # p /\ i # c => new[i] = key[i]
  BY <1>1, <1>2 DEF Swapped
<1>4. \A i \in 1..(N - 1) : Parent(i) \in 0..(N - 1) /\ Parent(i) < i BY ParentOf
<1>5. ASSUME NEW i \in 1..(N - 1), Parent(i) # c PROVE new[Parent(i)] <= new[i]
  <2>1. key[i] \in Nat /\ key[p] \in Nat /\ key[c] \in Nat OBVIOUS
  <2>2. CASE i = c BY <1>3, <2>2
  <2>3. CASE i # c /\ Parent(i) = p
    <3>1. key[c] <= key[i] /\ i # p BY <1>4, <2>3
    <3> QED BY <1>3, <2>3, <3>1
  <2>4. CASE i = p
    <3>1. key[Parent(p)] <= key[c] BY <2>4 DEF DownOrdered, Bridged
    <3>2. Parent(p) \in 0..(N - 1) /\ Parent(p) < p BY <1>4, <2>4
    <3> QED BY <1>1, <1>3, <2>4, <3>1, <3>2
  <2>5. CASE i # c /\ i # p /\ Parent(i) # p
    <3>1. key[Parent(i)] <= key[i] BY <2>5 DEF DownOrdered
    <3>2. new[i] = key[i] BY <1>3, <2>5
    <3>3. new[Parent(i)] = key[Parent(i)] BY <1>3, <1>4, <1>5, <2>5
    <3> QED BY <3>1, <3>2, <3>3
  <2> QED BY <2>2, <2>3, <2>4, <2>5
<1>6. ASSUME NEW i \in 1..(N - 1), Parent(i) = c PROVE new[Parent(c)] <= new[i]
  <2>1. key[c] <= key[i] BY <1>1, <1>6 DEF DownOrdered
  <2>2. i # c /\ i # p BY <1>1, <1>4, <1>6
  <2> QED BY <1>3, <2>1, <2>2
<1>7. DownOrdered(new, N, c) BY <1>5, <1>6 DEF DownOrdered, Bridged
<1> QED BY <1>2, <1>7

\* The last key takes the place of one that is removed.
LEMMA HoleFilled ==
  ASSUME NEW N \in Nat, NEW key \in [0..(N - 1) -> Nat], NEW p \in 0..(N - 2), Ordered(key, N),
         NEW new, new = [i \in 0..(N - 2) |-> IF i = p THEN key[N - 1] ELSE key[i]]
  PROVE  IF p > 0 /\ new[p] < new[Parent(p)] THEN UpOrdered(new, N - 1, p) ELSE DownOrdered(new, N - 1, p)
<1>1. \A i \in 1..(N - 1) : Parent(i) \in 0..(N - 1) /\ Parent(i) < i BY ParentOf
<1>2. new[p] = key[N - 1] /\ \A i \in 0..(N - 2) : i # p => new[i] = key[i] OBVIOUS
<1>3. ASSUME NEW i \in 1..(N - 2), i # p, Parent(i) # p PROVE new[Parent(i)] <= new[i]
  <2>1. i \in 1..(N - 1) /\ i \in 0..(N - 2) OBVIOUS
  <2>2. key[Parent(i)] <= key[i] BY <2>1 DEF Ordered
  <2>3. Parent(i) \in 0..(N - 2) BY <1>1, <2>1
  <2> QED BY <1>2, <1>3, <2>1, <2>2, <2>3
<1>4. ASSUME NEW i \in 1..(N - 2), p > 0, Parent(i) = p PROVE new[Parent(p)] <= new[i]
  <2>1. Parent(p) \in 0..(N - 2) /\ Parent(p) < p /\ p < i BY <1>1, <1>4
  <2>2. key[Parent(p)] <= key[p] /\ key[p] <= key[i]
    <3>1. p \in 1..(N - 1) /\ i \in 1..(N - 1) BY <1>4
    <3> QED BY <1>4, <3>1 DEF Ordered
  <2>3. key[Parent(p)] \in Nat /\ key[p] \in Nat /\ key[i] \in Nat BY <2>1
  <2>4. new[Parent(p)] = key[Parent(p)] /\ new[i] = key[i] BY <1>2, <2>1
  <2> QED BY <2>2, <2>3, <2>4
<1>0. 1..((N - 1) - 1) = 1..(N - 2) OBVIOUS
<1>5. Bridged(new, N - 1, p) BY <1>0, <1>4 DEF Bridged
<1>6. CASE p > 0 /\ new[p] < new[Parent(p)]
  <2>1. ASSUME NEW i \in 1..(N - 2), Parent(i) = p PROVE new[p] <= new[i]
    <3>1. new[Parent(p)] <= new[i] BY <1>4, <1>6, <2>1
    <3>2. Parent(p) \in 0..(N - 2) BY <1>1, <1>6
    <3>3. new[p] \in Nat /\ new[Parent(p)] \in Nat /\ new[i] \in Nat BY <3>2
    <3> QED BY <1>6, <3>1, <3>3
  <2> QED BY <1>0, <1>3, <1>5, <1>6, <2>1 DEF UpOrdered
<1>7. CASE ~(p > 0 /\ new[p] < new[Parent(p)])
  <2>1. ASSUME NEW i \in 1..(N - 2), i = p PROVE new[Parent(i)] <= new[i]
    <3>1. Parent(p) \in 0..(N - 2) BY <1>1, <2>1
    <3>2. new[p] \in Nat /\ new[Parent(p)] \in Nat BY <3>1
    <3> QED BY <1>7, <2>1, <3>2
  <2> QED BY <1>0, <1>3, <1>5, <1>7, <2>1 DEF DownOrdered
<1> QED BY <1>6, <1>7

\* The root has the smallest key.
LEMMA RootLeast ==
  ASSUME NEW N \in Nat, NEW key \in [0..(N - 1) -> Nat], Ordered(key, N), NEW i \in 0..(N - 1)
  PROVE  key[0] <= key[i]
<1> DEFINE Bad == {j \in 0..(N - 1) : ~(key[0] <= key[j])}
<1> SUFFICES ASSUME Bad # {} PROVE FALSE OBVIOUS
<1>1. PICK j \in Bad : \A y \in Bad : j <= y
  <2>1. Bad \subseteq Nat /\ Bad # {} OBVIOUS
  <2> HIDE DEF Bad
  <2> QED BY <2>1, LeastNat
<1>2. 0 \in 0..(N - 1) /\ key[0] \in Nat /\ key[j] \in Nat OBVIOUS
<1>3. j # 0 BY <1>2
<1>4. Parent(j) \in 0..(N - 1) /\ Parent(j) < j BY <1>3, ParentOf
<1>5. key[Parent(j)] <= key[j] BY <1>3 DEF Ordered
<1>6. Parent(j) \notin Bad BY <1>1, <1>4
<1> QED BY <1>2, <1>4, <1>5, <1>6

-----------------------------------------------------------------------------
(* Timer heap: sifting                                                     *)

\* Heaps of the N timers R among the timers 1..m, every timer knowing its
\* place; their keys under the deadlines d.
Heaps(N, m, R) ==
  {s \in [h : [1..N -> 1..m], x : [1..m -> Nat]] :
     T!Range(s.h) = R /\ \A i \in 0..(N - 1) : s.x[s.h[i + 1]] = i}
Keys(s, d, N) == [i \in 0..(N - 1) |-> d[s.h[i + 1]]]

\* A heap and its keys are of the right type.
HeapFacts(s, d, N, m, R) ==
  /\ s.h \in [1..N -> 1..m] /\ s.x \in [1..m -> Nat] /\ T!Range(s.h) = R
  /\ \A i \in 0..(N - 1) : s.h[i + 1] \in 1..m /\ s.x[s.h[i + 1]] = i
  /\ Keys(s, d, N) \in [0..(N - 1) -> Nat]
  /\ \A i \in 0..(N - 1) : Keys(s, d, N)[i] = d[s.h[i + 1]]
LEMMA HeapTypes ==
  ASSUME NEW N \in Nat, NEW m \in Nat, NEW R, NEW s \in Heaps(N, m, R), NEW d \in [1..m -> Nat]
  PROVE  HeapFacts(s, d, N, m, R)
<1>1. s.h \in [1..N -> 1..m] /\ s.x \in [1..m -> Nat] /\ T!Range(s.h) = R BY DEF Heaps
<1>2. \A i \in 0..(N - 1) : s.x[s.h[i + 1]] = i BY DEF Heaps
<1>3. \A i \in 0..(N - 1) : s.h[i + 1] \in 1..m BY <1>1
<1> QED BY <1>1, <1>2, <1>3 DEF Keys, HeapFacts

\* An exchange of two places.
SwapFacts(s, t, d, i, j, N, m, R) ==
  /\ t \in Heaps(N, m, R) /\ Keys(t, d, N) = Swapped(Keys(s, d, N), i, j)
  /\ t.h = [s.h EXCEPT ![i + 1] = s.h[j + 1], ![j + 1] = s.h[i + 1]]
LEMMA SwapHeaps ==
  ASSUME NEW N \in Nat, NEW m \in Nat, NEW R, NEW s \in Heaps(N, m, R), NEW d \in [1..m -> Nat],
         NEW i \in 0..(N - 1), NEW j \in 0..(N - 1), i # j
  PROVE  SwapFacts(s, T!SwapHeap(s, i, j), d, i, j, N, m, R)
<1>1. /\ s.h \in [1..N -> 1..m] /\ s.x \in [1..m -> Nat] /\ T!Range(s.h) = R
      /\ \A k \in 0..(N - 1) : s.h[k + 1] \in 1..m /\ s.x[s.h[k + 1]] = k
  <2>1. HeapFacts(s, d, N, m, R) BY HeapTypes
  <2> QED BY <2>1 DEF HeapFacts
<1>2. PICK h, x : /\ h = [s.h EXCEPT ![i + 1] = s.h[j + 1], ![j + 1] = s.h[i + 1]]
                  /\ x = [s.x EXCEPT ![s.h[j + 1]] = i, ![s.h[i + 1]] = j]
  OBVIOUS
<1>3. PICK t : t = [h |-> h, x |-> x] OBVIOUS
<1>4. T!SwapHeap(s, i, j) = t BY <1>2, <1>3 DEF T!SwapHeap, T!State
<1>5. h \in [1..N -> 1..m] /\ x \in [1..m -> Nat] BY <1>1, <1>2
<1>6. /\ h[i + 1] = s.h[j + 1] /\ h[j + 1] = s.h[i + 1]
      /\ \A k \in 0..(N - 1) : k # i /\ k # j => h[k + 1] = s.h[k + 1]
  <2>1. PICK g : g = s.h OBVIOUS
  <2>2. g \in [1..N -> 1..m] /\ h = [g EXCEPT ![i + 1] = g[j + 1], ![j + 1] = g[i + 1]] BY <1>1, <1>2, <2>1
  <2>3. i + 1 \in 1..N /\ j + 1 \in 1..N /\ i + 1 # j + 1 OBVIOUS
  <2>4. h[i + 1] = g[j + 1] /\ h[j + 1] = g[i + 1] BY <2>2, <2>3
  <2>5. \A k \in 1..N : k # i + 1 /\ k # j + 1 => h[k] = g[k] BY <2>2
  <2>6. \A k \in 0..(N - 1) : k + 1 \in 1..N /\ (k # i /\ k # j => k + 1 # i + 1 /\ k + 1 # j + 1) OBVIOUS
  <2> QED BY <2>1, <2>4, <2>5, <2>6
<1>7. s.h[i + 1] # s.h[j + 1] BY <1>1
<1>8. /\ x[s.h[j + 1]] = i /\ x[s.h[i + 1]] = j
      /\ \A a \in 1..m : a # s.h[i + 1] /\ a # s.h[j + 1] => x[a] = s.x[a]
  BY <1>1, <1>2, <1>7
<1>9. ASSUME NEW k \in 0..(N - 1) PROVE x[h[k + 1]] = k
  <2>1. CASE k = i \/ k = j BY <1>6, <1>8, <2>1
  <2>2. CASE k # i /\ k # j
    <3>1. s.h[k + 1] # s.h[i + 1] /\ s.h[k + 1] # s.h[j + 1] BY <1>1, <2>2
    <3>2. s.h[k + 1] \in 1..m /\ s.x[s.h[k + 1]] = k BY <1>1
    <3>3. h[k + 1] = s.h[k + 1] BY <1>6, <2>2
    <3>4. x[s.h[k + 1]] = s.x[s.h[k + 1]] BY <1>8, <3>1, <3>2
    <3> QED BY <3>2, <3>3, <3>4
  <2> QED BY <2>1, <2>2
<1>10. T!Range(h) = T!Range(s.h)
  <2>1. DOMAIN h = 1..N /\ DOMAIN s.h = 1..N /\ i + 1 \in 1..N /\ j + 1 \in 1..N BY <1>1, <1>5
  <2>2. \A k \in 1..N : h[k] = IF k = i + 1 THEN s.h[j + 1] ELSE IF k = j + 1 THEN s.h[i + 1] ELSE s.h[k]
    BY <1>1, <1>2
  <2> QED BY <2>1, <2>2 DEF T!Range
<1>11. t \in Heaps(N, m, R) BY <1>1, <1>3, <1>5, <1>9, <1>10 DEF Heaps
<1>12. Keys(t, d, N) = Swapped(Keys(s, d, N), i, j)
  <2>1. t.h = h BY <1>3
  <2>2. \A k \in 0..(N - 1) : d[h[k + 1]] = IF k = i THEN d[s.h[j + 1]] ELSE IF k = j THEN d[s.h[i + 1]] ELSE d[s.h[k + 1]]
    BY <1>6
  <2>3. PICK key : key = Keys(s, d, N) OBVIOUS
  <2>4. key \in [0..(N - 1) -> Nat] /\ \A k \in 0..(N - 1) : key[k] = d[s.h[k + 1]]
    <3>1. HeapFacts(s, d, N, m, R) BY HeapTypes
    <3> QED BY <2>3, <3>1 DEF HeapFacts
  <2>5. Swapped(key, i, j) = [k \in 0..(N - 1) |-> IF k = i THEN key[j] ELSE IF k = j THEN key[i] ELSE key[k]]
    BY <2>4 DEF Swapped
  <2>6. Keys(t, d, N) = [k \in 0..(N - 1) |-> IF k = i THEN key[j] ELSE IF k = j THEN key[i] ELSE key[k]]
    BY <2>1, <2>2, <2>4 DEF Keys
  <2> QED BY <2>3, <2>5, <2>6
<1> QED BY <1>2, <1>3, <1>4, <1>11, <1>12 DEF SwapFacts

\* What UpHeap may have in hand after k rounds, from place i0.
UpStops(t, d) == t.index = 0 \/ d[t.s.h[t.index + 1]] >= d[t.s.h[Parent(t.index) + 1]]
UpMoves(N, m, R, d, i0, k) ==
  {t \in [s : Heaps(N, m, R), index : 0..(N - 1)] :
     UpOrdered(Keys(t.s, d, N), N, t.index) /\ (UpStops(t, d) \/ t.index <= i0 - k)}

\* One round.
LEMMA UpRoundMoves ==
  ASSUME NEW N \in Nat, NEW m \in Nat, NEW R, NEW d \in [1..m -> Nat], NEW i0 \in Nat, NEW k \in Nat, k > 0,
         NEW t \in UpMoves(N, m, R, d, i0, k - 1)
  PROVE  T!UpRound(t, d) \in UpMoves(N, m, R, d, i0, k)
<1>1. /\ t \in [s : Heaps(N, m, R), index : 0..(N - 1)] /\ t.s \in Heaps(N, m, R) /\ t.index \in 0..(N - 1)
      /\ UpOrdered(Keys(t.s, d, N), N, t.index) /\ (UpStops(t, d) \/ t.index <= i0 - (k - 1))
  BY DEF UpMoves
<1>2. CASE UpStops(t, d)
  <2>1. T!UpRound(t, d) = t BY <1>2 DEF T!UpRound, UpStops, Parent
  <2> QED BY <1>1, <1>2, <2>1 DEF UpMoves
<1>3. CASE ~UpStops(t, d)
  <2>1. PICK s, p, q : s = t.s /\ p = t.index /\ q = Parent(t.index) OBVIOUS
  <2>2. p \in 1..(N - 1) /\ q \in 0..(N - 1) /\ q < p
    <3>1. p \in Nat /\ p \in 1..(N - 1) /\ q = Parent(p) BY <1>1, <1>3, <2>1 DEF UpStops
    <3>2. q \in Nat /\ q < p BY <3>1, ParentOf
    <3> QED BY <3>1, <3>2
  <2>3. s \in Heaps(N, m, R) /\ UpOrdered(Keys(s, d, N), N, p) BY <1>1, <2>1
  <2>4. PICK u : u = T!SwapHeap(s, p, q) OBVIOUS
  <2>5. T!UpRound(t, d) = [s |-> u, index |-> q]
    BY <1>3, <2>1, <2>4 DEF T!UpRound, UpStops, Parent, T!Moving
  <2>6. u \in Heaps(N, m, R) /\ Keys(u, d, N) = Swapped(Keys(s, d, N), p, q)
    <3>1. SwapFacts(s, u, d, p, q, N, m, R)
      <4>1. q \in 0..(N - 1) /\ p \in 0..(N - 1) /\ p # q BY <2>2
      <4> QED BY <2>3, <2>4, <4>1, SwapHeaps
    <3> QED BY <3>1 DEF SwapFacts
  <2>7. PICK key \in [0..(N - 1) -> Nat] : key = Keys(s, d, N) /\ \A j \in 0..(N - 1) : key[j] = d[s.h[j + 1]]
    <3>1. HeapFacts(s, d, N, m, R) BY <2>3, HeapTypes
    <3> QED BY <3>1 DEF HeapFacts
  <2>8. key[p] < key[q]
    <3>1. key[p] \in Nat /\ key[q] \in Nat /\ p # 0 BY <2>2, <2>7
    <3>2. ~(d[s.h[p + 1]] >= d[s.h[q + 1]]) BY <1>3, <2>1 DEF UpStops
    <3>3. p \in 0..(N - 1) /\ q \in 0..(N - 1) BY <2>2
    <3>4. key[p] = d[s.h[p + 1]] /\ key[q] = d[s.h[q + 1]] BY <2>7, <3>3
    <3> QED BY <3>1, <3>2, <3>4
  <2>9. UpOrdered(Swapped(key, p, q), N, q) BY <2>1, <2>2, <2>3, <2>7, <2>8, UpSwap
  <2>10. UpOrdered(Keys(u, d, N), N, q) BY <2>6, <2>7, <2>9
  <2>11. q <= i0 - k BY <1>1, <1>3, <2>1, <2>2
  <2> QED BY <2>2, <2>5, <2>6, <2>10, <2>11 DEF UpMoves
<1> QED BY <1>2, <1>3

\* A heap whose keys are in order.
Sorted(s, d, N, m, R) == s \in Heaps(N, m, R) /\ Ordered(Keys(s, d, N), N)

\* UpHeap puts the timer at `index`, which may be too early for its place, to
\* where it belongs.
LEMMA UpHeapSorts ==
  ASSUME NEW N \in Nat, NEW m \in Nat, NEW R, NEW d \in [1..m -> Nat], NEW s \in Heaps(N, m, R),
         NEW index \in 0..(N - 1), UpOrdered(Keys(s, d, N), N, index)
  PROVE  Sorted(T!UpHeap(s, index, d), d, N, m, R)
<1> DEFINE G == [k \in 0..index |-> UpMoves(N, m, R, d, index, k)]
           F == [u \in UNION {G[k] : k \in 0..index} |-> T!UpRound(u, d)]
           t == [s |-> s, index |-> index]
           Runs(f) == f = [k \in 0..index |-> IF k = 0 THEN t ELSE T!UpRound(f[k - 1], d)]
<1>1. t \in G[0] BY DEF UpMoves
<1>2. \A k \in 1..index : \A u \in G[k - 1] : F[u] = T!UpRound(u, d) /\ F[u] \in G[k]
  <2> SUFFICES ASSUME NEW k \in 1..index, NEW u \in G[k - 1] PROVE F[u] = T!UpRound(u, d) /\ F[u] \in G[k]
    OBVIOUS
  <2>1. F[u] = T!UpRound(u, d) OBVIOUS
  <2>2. k \in Nat /\ k > 0 /\ index \in Nat /\ u \in UpMoves(N, m, R, d, index, k - 1) OBVIOUS
  <2>3. T!UpRound(u, d) \in UpMoves(N, m, R, d, index, k) BY <2>2, UpRoundMoves
  <2> QED BY <2>1, <2>3
<1> HIDE DEF G, F
<1>3. PICK g : g = [k \in 0..index |-> IF k = 0 THEN t ELSE F[g[k - 1]]] /\ \A k \in 0..index : g[k] \in G[k]
  <2> HIDE DEF t
  <2>1. \A k \in 1..index : \A u \in G[k - 1] : F[u] \in G[k] BY <1>2
  <2>2. index \in Nat OBVIOUS
  <2>3. \E g : LoopRuns(g, index, t, F, G) BY <1>1, <2>1, <2>2, LoopExists
  <2> QED BY <2>3 DEF LoopRuns
<1>4. Runs(g)
  <2> HIDE DEF t
  <2>1. ASSUME NEW k \in 1..index PROVE F[g[k - 1]] = T!UpRound(g[k - 1], d)
    <3>1. k - 1 \in 0..index OBVIOUS
    <3>2. g[k - 1] \in G[k - 1] BY <1>3, <3>1
    <3> QED BY <1>2, <3>2
  <2>2. \A k \in 0..index : (IF k = 0 THEN t ELSE F[g[k - 1]]) = IF k = 0 THEN t ELSE T!UpRound(g[k - 1], d)
    BY <2>1
  <2> QED BY <1>3, <2>2
<1>5. PICK f : f = (CHOOSE r : Runs(r)) OBVIOUS
<1>6. Runs(f)
  <2> HIDE DEF Runs
  <2> QED BY <1>4, <1>5
<1>7. T!UpHeap(s, index, d) = f[index].s BY <1>5 DEF T!UpHeap, T!Loop, T!Moving
<1> HIDE DEF t
<1>8. \A k \in 0..index : f[k] \in G[k]
  <2> DEFINE P == {k \in 0..index : f[k] \in G[k]}
  <2>1. 0 \in P BY <1>1, <1>6
  <2>2. ASSUME NEW k \in 1..index, k - 1 \in P PROVE k \in P
    <3>1. f[k] = T!UpRound(f[k - 1], d) BY <1>6
    <3>2. f[k - 1] \in G[k - 1] BY <2>2
    <3>3. T!UpRound(f[k - 1], d) \in G[k] BY <1>2, <3>2
    <3> QED BY <3>1, <3>3
  <2>0. index \in Nat OBVIOUS
  <2> HIDE DEF P
  <2>3. \A k \in 0..index : k \in P BY <2>0, <2>1, <2>2, UpTo
  <2> QED BY <2>3 DEF P
<1>9. f[index] \in UpMoves(N, m, R, d, index, index) BY <1>8 DEF G
<1>10. PICK u, p : u = f[index].s /\ p = f[index].index OBVIOUS
<1>11. /\ u \in Heaps(N, m, R) /\ p \in 0..(N - 1) /\ UpOrdered(Keys(u, d, N), N, p)
       /\ p = 0 \/ d[u.h[p + 1]] >= d[u.h[Parent(p) + 1]]
  <2>1. PICK v : v = f[index] OBVIOUS
  <2>2. /\ v.s \in Heaps(N, m, R) /\ v.index \in 0..(N - 1) /\ UpOrdered(Keys(v.s, d, N), N, v.index)
        /\ UpStops(v, d) \/ v.index <= index - index
    BY <1>9, <2>1 DEF UpMoves
  <2>3. v.index <= index - index => v.index = 0 BY <2>2
  <2>4. u = v.s /\ p = v.index BY <1>10, <2>1
  <2>5. UpStops(v, d) BY <2>2, <2>3 DEF UpStops
  <2>6. p = 0 \/ d[u.h[p + 1]] >= d[u.h[Parent(p) + 1]] BY <2>4, <2>5 DEF UpStops
  <2> QED BY <2>2, <2>4, <2>6
<1>12. PICK key \in [0..(N - 1) -> Nat] : key = Keys(u, d, N) /\ \A j \in 0..(N - 1) : key[j] = d[u.h[j + 1]]
  <2>1. HeapFacts(u, d, N, m, R) BY <1>11, HeapTypes
  <2> QED BY <2>1 DEF HeapFacts
<1>13. p = 0 \/ key[Parent(p)] <= key[p]
  <2> SUFFICES ASSUME p # 0 PROVE key[Parent(p)] <= key[p] OBVIOUS
  <2>1. Parent(p) \in 0..(N - 1)
    <3>1. p \in Nat BY <1>11
    <3>2. Parent(p) \in Nat /\ Parent(p) < p BY <3>1, ParentOf
    <3> QED BY <1>11, <3>2
  <2>2. key[p] = d[u.h[p + 1]] /\ key[Parent(p)] = d[u.h[Parent(p) + 1]] BY <1>11, <1>12, <2>1
  <2>3. key[p] \in Nat /\ key[Parent(p)] \in Nat BY <1>11, <2>1
  <2> QED BY <1>11, <2>2, <2>3
<1>14. Ordered(key, N) BY <1>11, <1>12, <1>13 DEF UpOrdered, Ordered
<1> QED BY <1>7, <1>10, <1>11, <1>12, <1>14 DEF Sorted

\* A function on 1..N is a sequence of that length, here and in the module of
\* the heap.
LEMMA LenOf ==
  ASSUME NEW N \in Nat, NEW S0, NEW h \in [1..N -> S0]
  PROVE  h \in Seq(S0) /\ Len(h) = N
<1>1. h \in Seq(S0) BY SeqDef
<1>2. DOMAIN h = 1..N /\ Len(h) \in Nat /\ DOMAIN h = 1..Len(h) BY <1>1
<1> QED BY <1>1, <1>2

\* The place that DownHeap compares with, and what it may have in hand after k
\* rounds, from place i0.
MinChild(s, p, N) ==
  IF p * 2 + 1 + 1 = N \/ deadline_[s.h[p * 2 + 1 + 1]] < deadline_[s.h[p * 2 + 1 + 1 + 1]] THEN p * 2 + 1 ELSE p * 2 + 1 + 1
DownStops(t, N) ==
  t.index * 2 + 1 >= N \/ deadline_[t.s.h[t.index + 1]] < deadline_[t.s.h[MinChild(t.s, t.index, N) + 1]]
DownMoves(N, m, R, i0, k) ==
  {t \in [s : Heaps(N, m, R), index : 0..(N - 1)] :
     DownOrdered(Keys(t.s, deadline_, N), N, t.index) /\ (DownStops(t, N) \/ t.index >= i0 + k)}

\* It is the child with the smaller key.
IsMinChild(c, p, key, N) ==
  c \in 1..(N - 1) /\ Parent(c) = p /\ p < c /\ \A i \in 1..(N - 1) : Parent(i) = p => key[c] <= key[i]
LEMMA MinChildLeast ==
  ASSUME NEW N \in Nat, NEW m \in Nat, NEW R, deadline_ \in [1..m -> Nat], NEW s \in Heaps(N, m, R),
         NEW p \in 0..(N - 1), p * 2 + 1 < N
  PROVE  IsMinChild(MinChild(s, p, N), p, Keys(s, deadline_, N), N)
<1>0. PICK key : key = Keys(s, deadline_, N) OBVIOUS
<1>1. PICK c \in 1..(N - 1) : c = p * 2 + 1 OBVIOUS
<1>2. Parent(c) = p /\ Parent(c + 1) = p BY <1>1 DEF Parent
<1>3. \A i \in 1..(N - 1) : Parent(i) = p => i = c \/ (i = c + 1 /\ c + 1 \in 1..(N - 1))
  <2> SUFFICES ASSUME NEW i \in 1..(N - 1), Parent(i) = p PROVE i = c \/ (i = c + 1 /\ c + 1 \in 1..(N - 1)) OBVIOUS
  <2>1. i \in Nat /\ i # 0 OBVIOUS
  <2>2. i = 2 * Parent(i) + 1 \/ i = 2 * Parent(i) + 2 BY <2>1, ParentOf
  <2> QED BY <1>1, <2>2
<1>4. key \in [0..(N - 1) -> Nat] /\ \A j \in 0..(N - 1) : key[j] = deadline_[s.h[j + 1]]
  <2>1. HeapFacts(s, deadline_, N, m, R) BY HeapTypes
  <2> QED BY <1>0, <2>1 DEF HeapFacts
<1>5. MinChild(s, p, N) = IF c + 1 = N \/ deadline_[s.h[c + 1]] < deadline_[s.h[c + 1 + 1]] THEN c ELSE c + 1
  BY <1>1 DEF MinChild
<1>6. CASE c + 1 = N
  <2>1. MinChild(s, p, N) = c BY <1>5, <1>6
  <2>2. \A i \in 1..(N - 1) : Parent(i) = p => i = c BY <1>3, <1>6
  <2>3. key[c] \in Nat BY <1>4
  <2>4. \A i \in 1..(N - 1) : Parent(i) = p => key[c] <= key[i] BY <2>2, <2>3
  <2> QED BY <1>0, <1>1, <1>2, <2>1, <2>4 DEF IsMinChild
<1>7. CASE c + 1 # N
  <2>1. c + 1 \in 1..(N - 1) BY <1>7
  <2>2. key[c] \in Nat /\ key[c + 1] \in Nat BY <1>4, <2>1
  <2>3. key[c] = deadline_[s.h[c + 1]] /\ key[c + 1] = deadline_[s.h[c + 1 + 1]]
    <3>1. c \in 0..(N - 1) /\ c + 1 \in 0..(N - 1) BY <2>1
    <3> QED BY <1>4, <3>1
  <2>4. CASE key[c] < key[c + 1]
    <3>1. MinChild(s, p, N) = c BY <1>5, <2>3, <2>4
    <3>2. key[c] <= key[c] /\ key[c] <= key[c + 1] BY <2>2, <2>4
    <3>3. \A i \in 1..(N - 1) : Parent(i) = p => key[c] <= key[i] BY <1>3, <3>2
    <3> QED BY <1>0, <1>1, <1>2, <3>1, <3>3 DEF IsMinChild
  <2>5. CASE ~(key[c] < key[c + 1])
    <3>1. MinChild(s, p, N) = c + 1 BY <1>5, <1>7, <2>3, <2>5
    <3>2. key[c + 1] <= key[c] /\ key[c + 1] <= key[c + 1] BY <2>2, <2>5
    <3>3. \A i \in 1..(N - 1) : Parent(i) = p => key[c + 1] <= key[i] BY <1>3, <3>2
    <3> QED BY <1>0, <1>1, <1>2, <2>1, <3>1, <3>3 DEF IsMinChild
  <2> QED BY <2>4, <2>5
<1> QED BY <1>6, <1>7

\* One round.
LEMMA DownRoundMoves ==
  ASSUME NEW N \in Nat, NEW m \in Nat, NEW R, deadline_ \in [1..m -> Nat], NEW i0 \in Nat, NEW k \in Nat, k > 0,
         NEW t \in DownMoves(N, m, R, i0, k - 1)
  PROVE  T!DownRound(t) \in DownMoves(N, m, R, i0, k)
<1>1. /\ t \in [s : Heaps(N, m, R), index : 0..(N - 1)] /\ t.s \in Heaps(N, m, R) /\ t.index \in 0..(N - 1)
      /\ DownOrdered(Keys(t.s, deadline_, N), N, t.index) /\ (DownStops(t, N) \/ t.index >= i0 + (k - 1))
  BY DEF DownMoves
<1>2. Len(t.s.h) = N
  <2>1. t.s.h \in [1..N -> 1..m] BY <1>1 DEF Heaps
  <2> QED BY <2>1, LenOf
<1>3. T!DownRound(t) =
        IF DownStops(t, N) THEN t
        ELSE [s |-> T!SwapHeap(t.s, t.index, MinChild(t.s, t.index, N)), index |-> MinChild(t.s, t.index, N)]
  BY <1>2 DEF T!DownRound, T!Deadline, T!Moving, DownStops, MinChild
<1>4. CASE DownStops(t, N)
  <2>1. T!DownRound(t) = t BY <1>3, <1>4
  <2> QED BY <1>1, <1>4, <2>1 DEF DownMoves
<1>5. CASE ~DownStops(t, N)
  <2>1. PICK s, p, c : s = t.s /\ p = t.index /\ c = MinChild(t.s, t.index, N) OBVIOUS
  <2>2. /\ s \in Heaps(N, m, R) /\ p \in 0..(N - 1) /\ DownOrdered(Keys(s, deadline_, N), N, p)
        /\ p * 2 + 1 < N /\ ~(deadline_[s.h[p + 1]] < deadline_[s.h[c + 1]])
    BY <1>1, <1>5, <2>1 DEF DownStops
  <2>3. PICK key \in [0..(N - 1) -> Nat] : key = Keys(s, deadline_, N) /\ \A j \in 0..(N - 1) : key[j] = deadline_[s.h[j + 1]]
    <3>1. HeapFacts(s, deadline_, N, m, R) BY <2>2, HeapTypes
    <3> QED BY <3>1 DEF HeapFacts
  <2>4. c \in 1..(N - 1) /\ Parent(c) = p /\ p < c /\ \A i \in 1..(N - 1) : Parent(i) = p => key[c] <= key[i]
    <3>1. c = MinChild(s, p, N) BY <2>1
    <3>2. IsMinChild(c, p, Keys(s, deadline_, N), N) BY <2>2, <3>1, MinChildLeast
    <3> QED BY <2>3, <3>2 DEF IsMinChild
  <2>5. PICK u : u = T!SwapHeap(s, p, c) OBVIOUS
  <2>6. u \in Heaps(N, m, R) /\ Keys(u, deadline_, N) = Swapped(Keys(s, deadline_, N), p, c)
    <3>1. SwapFacts(s, u, deadline_, p, c, N, m, R)
      <4>1. c \in 0..(N - 1) /\ p # c BY <2>2, <2>4
      <4> QED BY <2>2, <2>5, <4>1, SwapHeaps
    <3> QED BY <3>1 DEF SwapFacts
  <2>7. key[c] <= key[p]
    <3>1. p \in 0..(N - 1) /\ c \in 0..(N - 1) BY <2>2, <2>4
    <3>2. key[p] = deadline_[s.h[p + 1]] /\ key[c] = deadline_[s.h[c + 1]] /\ key[p] \in Nat /\ key[c] \in Nat
      BY <2>3, <3>1
    <3> QED BY <2>2, <3>2
  <2>8. DownOrdered(Swapped(key, p, c), N, c) BY <2>2, <2>3, <2>4, <2>7, DownSwap
  <2>9. DownOrdered(Keys(u, deadline_, N), N, c) BY <2>3, <2>6, <2>8
  <2>10. c >= i0 + k /\ c \in 0..(N - 1) BY <1>1, <1>5, <2>1, <2>2, <2>4
  <2>11. T!DownRound(t) = [s |-> u, index |-> c] BY <1>3, <1>5, <2>1, <2>5
  <2> QED BY <2>6, <2>9, <2>10, <2>11 DEF DownMoves
<1> QED BY <1>4, <1>5

\* DownHeap puts the timer at `index`, which may be too late for its place, to
\* where it belongs.
LEMMA DownHeapSorts ==
  ASSUME NEW N \in Nat, NEW m \in Nat, NEW R, deadline_ \in [1..m -> Nat], NEW s \in Heaps(N, m, R),
         NEW index \in 0..(N - 1), DownOrdered(Keys(s, deadline_, N), N, index)
  PROVE  Sorted(T!DownHeap(s, index), deadline_, N, m, R)
<1> DEFINE G == [k \in 0..N |-> DownMoves(N, m, R, index, k)]
           F == [u \in UNION {G[k] : k \in 0..N} |-> T!DownRound(u)]
           t == [s |-> s, index |-> index]
           Runs(f) == f = [k \in 0..N |-> IF k = 0 THEN t ELSE T!DownRound(f[k - 1])]
<1>0. Len(s.h) = N
  <2>1. s.h \in [1..N -> 1..m] BY DEF Heaps
  <2> QED BY <2>1, LenOf
<1>1. t \in G[0] BY DEF DownMoves
<1>2. \A k \in 1..N : \A u \in G[k - 1] : F[u] = T!DownRound(u) /\ F[u] \in G[k]
  <2> SUFFICES ASSUME NEW k \in 1..N, NEW u \in G[k - 1] PROVE F[u] = T!DownRound(u) /\ F[u] \in G[k]
    OBVIOUS
  <2>1. F[u] = T!DownRound(u) OBVIOUS
  <2>2. k \in Nat /\ k > 0 /\ index \in Nat /\ u \in DownMoves(N, m, R, index, k - 1) OBVIOUS
  <2>3. T!DownRound(u) \in DownMoves(N, m, R, index, k) BY <2>2, DownRoundMoves
  <2> QED BY <2>1, <2>3
<1> HIDE DEF G, F
<1>3. PICK g : g = [k \in 0..N |-> IF k = 0 THEN t ELSE F[g[k - 1]]] /\ \A k \in 0..N : g[k] \in G[k]
  <2> HIDE DEF t
  <2>1. \A k \in 1..N : \A u \in G[k - 1] : F[u] \in G[k] BY <1>2
  <2>2. N \in Nat OBVIOUS
  <2>3. \E g : LoopRuns(g, N, t, F, G) BY <1>1, <2>1, <2>2, LoopExists
  <2> QED BY <2>3 DEF LoopRuns
<1>4. Runs(g)
  <2> HIDE DEF t
  <2>1. ASSUME NEW k \in 1..N PROVE F[g[k - 1]] = T!DownRound(g[k - 1])
    <3>1. k - 1 \in 0..N OBVIOUS
    <3>2. g[k - 1] \in G[k - 1] BY <1>3, <3>1
    <3> QED BY <1>2, <3>2
  <2>2. \A k \in 0..N : (IF k = 0 THEN t ELSE F[g[k - 1]]) = IF k = 0 THEN t ELSE T!DownRound(g[k - 1])
    BY <2>1
  <2> QED BY <1>3, <2>2
<1>5. PICK f : f = (CHOOSE r : Runs(r)) OBVIOUS
<1>6. Runs(f)
  <2> HIDE DEF Runs
  <2> QED BY <1>4, <1>5
<1>7. T!DownHeap(s, index) = f[N].s BY <1>0, <1>5 DEF T!DownHeap, T!Loop, T!Moving
<1> HIDE DEF t
<1>8. \A k \in 0..N : f[k] \in G[k]
  <2> DEFINE P == {k \in 0..N : f[k] \in G[k]}
  <2>1. 0 \in P BY <1>1, <1>6
  <2>2. ASSUME NEW k \in 1..N, k - 1 \in P PROVE k \in P
    <3>1. f[k] = T!DownRound(f[k - 1]) BY <1>6
    <3>2. f[k - 1] \in G[k - 1] BY <2>2
    <3>3. T!DownRound(f[k - 1]) \in G[k] BY <1>2, <3>2
    <3> QED BY <3>1, <3>3
  <2>0. N \in Nat OBVIOUS
  <2> HIDE DEF P
  <2>3. \A k \in 0..N : k \in P BY <2>0, <2>1, <2>2, UpTo
  <2> QED BY <2>3 DEF P
<1>9. f[N] \in DownMoves(N, m, R, index, N) BY <1>8 DEF G
<1>10. PICK u, p : u = f[N].s /\ p = f[N].index OBVIOUS
<1>11. /\ u \in Heaps(N, m, R) /\ p \in 0..(N - 1) /\ DownOrdered(Keys(u, deadline_, N), N, p)
       /\ p * 2 + 1 >= N \/ deadline_[u.h[p + 1]] < deadline_[u.h[MinChild(u, p, N) + 1]]
  <2>1. PICK v : v = f[N] OBVIOUS
  <2>2. /\ v.s \in Heaps(N, m, R) /\ v.index \in 0..(N - 1) /\ DownOrdered(Keys(v.s, deadline_, N), N, v.index)
        /\ DownStops(v, N) \/ v.index >= index + N
    BY <1>9, <2>1 DEF DownMoves
  <2>3. DownStops(v, N) BY <2>2
  <2>4. u = v.s /\ p = v.index BY <1>10, <2>1
  <2>5. p * 2 + 1 >= N \/ deadline_[u.h[p + 1]] < deadline_[u.h[MinChild(u, p, N) + 1]] BY <2>3, <2>4 DEF DownStops
  <2> QED BY <2>2, <2>4, <2>5
<1>12. PICK key \in [0..(N - 1) -> Nat] : key = Keys(u, deadline_, N) /\ \A j \in 0..(N - 1) : key[j] = deadline_[u.h[j + 1]]
  <2>1. HeapFacts(u, deadline_, N, m, R) BY <1>11, HeapTypes
  <2> QED BY <2>1 DEF HeapFacts
<1>13. ASSUME NEW i \in 1..(N - 1), Parent(i) = p PROVE key[p] <= key[i]
  <2>1. i \in Nat /\ i # 0 /\ (i = 2 * p + 1 \/ i = 2 * p + 2) BY <1>13, ParentOf
  <2>2. p * 2 + 1 < N BY <1>11, <2>1
  <2>3. PICK c : c = MinChild(u, p, N) OBVIOUS
  <2>4. c \in 1..(N - 1) /\ key[c] <= key[i]
    <3>1. IsMinChild(c, p, Keys(u, deadline_, N), N) BY <1>11, <2>2, <2>3, MinChildLeast
    <3> QED BY <1>12, <1>13, <3>1 DEF IsMinChild
  <2>5. c \in 0..(N - 1) /\ i \in 0..(N - 1) BY <2>4
  <2>6. key[p] = deadline_[u.h[p + 1]] /\ key[c] = deadline_[u.h[c + 1]] BY <1>11, <1>12, <2>5
  <2>7. key[p] \in Nat /\ key[c] \in Nat /\ key[i] \in Nat BY <1>11, <1>12, <2>5
  <2>8. deadline_[u.h[p + 1]] < deadline_[u.h[c + 1]] BY <1>11, <2>2, <2>3
  <2> QED BY <2>4, <2>6, <2>7, <2>8
<1>14. Ordered(key, N) BY <1>11, <1>12, <1>13 DEF DownOrdered, Ordered
<1> QED BY <1>7, <1>10, <1>11, <1>12, <1>14 DEF Sorted

\* The timer at the last place is dropped.
PopFacts(s, t, d, N, m, R) ==
  /\ t \in Heaps(N - 1, m, R \ {s.h[N]})
  /\ Keys(t, d, N - 1) = [i \in 0..(N - 2) |-> Keys(s, d, N)[i]]
LEMMA PopHeaps ==
  ASSUME NEW N \in Nat, N > 0, NEW m \in Nat, NEW R, NEW s \in Heaps(N, m, R), NEW d \in [1..m -> Nat]
  PROVE  PopFacts(s, T!PopBack(s), d, N, m, R)
<1>1. /\ s.h \in [1..N -> 1..m] /\ s.x \in [1..m -> Nat] /\ T!Range(s.h) = R
      /\ \A k \in 0..(N - 1) : s.h[k + 1] \in 1..m /\ s.x[s.h[k + 1]] = k
      /\ \A i \in 0..(N - 1) : Keys(s, d, N)[i] = d[s.h[i + 1]]
  <2>1. HeapFacts(s, d, N, m, R) BY HeapTypes
  <2> QED BY <2>1 DEF HeapFacts
<1>2. PICK h : h = [i \in 1..(N - 1) |-> s.h[i]] OBVIOUS
<1>3. T!Front(s.h) = h
  <2>1. s.h \in Seq(1..m) /\ Len(s.h) = N BY <1>1, LenOf
  <2>2. T!Front(s.h) = SubSeq(s.h, 1, N - 1) BY <2>1 DEF T!Front
  <2>3. SubSeq(s.h, 1, N - 1) = [i \in 1..(N - 1) |-> s.h[i]] BY <2>1
  <2> QED BY <1>2, <2>2, <2>3
<1>4. PICK t : t = [h |-> h, x |-> s.x] OBVIOUS
<1>5. T!PopBack(s) = t BY <1>3, <1>4 DEF T!PopBack, T!State
<1>6. h \in [1..(N - 1) -> 1..m] /\ N - 1 \in Nat BY <1>1, <1>2
<1>7. T!Range(h) = R \ {s.h[N]}
  <2>1. R = {s.h[i] : i \in 1..N} BY <1>1 DEF T!Range
  <2>2. T!Range(h) = {s.h[i] : i \in 1..(N - 1)} BY <1>2 DEF T!Range
  <2>3. ASSUME NEW i \in 1..(N - 1) PROVE s.h[i] # s.h[N]
    <3>1. i - 1 \in 0..(N - 1) /\ N - 1 \in 0..(N - 1) /\ i - 1 # N - 1 /\ (i - 1) + 1 = i /\ (N - 1) + 1 = N
      OBVIOUS
    <3>2. s.x[s.h[i]] = i - 1 /\ s.x[s.h[N]] = N - 1 BY <1>1, <3>1
    <3> QED BY <3>1, <3>2
  <2>4. \A i \in 1..N : i = N \/ i \in 1..(N - 1) OBVIOUS
  <2>5. \A i \in 1..(N - 1) : i \in 1..N OBVIOUS
  <2> QED BY <2>1, <2>2, <2>3, <2>4, <2>5
<1>8. ASSUME NEW k \in 0..((N - 1) - 1) PROVE s.x[h[k + 1]] = k
  <2>1. k \in 0..(N - 1) /\ k + 1 \in 1..(N - 1) OBVIOUS
  <2>2. h[k + 1] = s.h[k + 1] BY <1>2, <2>1
  <2> QED BY <1>1, <2>1, <2>2
<1>9. t \in Heaps(N - 1, m, R \ {s.h[N]}) BY <1>1, <1>4, <1>6, <1>7, <1>8 DEF Heaps
<1>10. Keys(t, d, N - 1) = [i \in 0..(N - 2) |-> Keys(s, d, N)[i]]
  <2>1. 0..((N - 1) - 1) = 0..(N - 2) OBVIOUS
  <2>2. ASSUME NEW i \in 0..(N - 2) PROVE d[t.h[i + 1]] = Keys(s, d, N)[i]
    <3>1. i \in 0..(N - 1) /\ i + 1 \in 1..(N - 1) OBVIOUS
    <3>2. t.h[i + 1] = s.h[i + 1] BY <1>2, <1>4, <3>1
    <3> QED BY <1>1, <3>1, <3>2
  <2>3. Keys(t, d, N - 1) = [i \in 0..(N - 2) |-> d[t.h[i + 1]]] BY <2>1 DEF Keys
  <2> QED BY <2>2, <2>3
<1> QED BY <1>5, <1>9, <1>10 DEF PopFacts

\* The heap without the timer `id`.
LEMMA RemoveFromSorts ==
  ASSUME NEW N \in Nat, NEW m \in Nat, NEW R, deadline_ \in [1..m -> Nat], NEW s,
         Sorted(s, deadline_, N, m, R), NEW id \in R
  PROVE  N > 0 /\ Sorted(T!RemoveFrom(s, id), deadline_, N - 1, m, R \ {id})
<1> DEFINE d == deadline_
<1>1. s \in Heaps(N, m, R) /\ Ordered(Keys(s, d, N), N) BY DEF Sorted
<1>2. /\ s.h \in [1..N -> 1..m] /\ s.x \in [1..m -> Nat] /\ T!Range(s.h) = R
      /\ \A k \in 0..(N - 1) : s.h[k + 1] \in 1..m /\ s.x[s.h[k + 1]] = k
  <2>1. HeapFacts(s, d, N, m, R) BY <1>1, HeapTypes
  <2> QED BY <2>1 DEF HeapFacts
<1>3. PICK key \in [0..(N - 1) -> Nat] : key = Keys(s, d, N) /\ \A i \in 0..(N - 1) : key[i] = d[s.h[i + 1]]
  <2>1. HeapFacts(s, d, N, m, R) BY <1>1, HeapTypes
  <2> QED BY <2>1 DEF HeapFacts
<1>4. PICK index \in 0..(N - 1) : s.h[index + 1] = id /\ s.x[id] = index
  <2>1. PICK i \in 1..N : s.h[i] = id BY <1>2 DEF T!Range
  <2>2. i - 1 \in 0..(N - 1) /\ (i - 1) + 1 = i BY <2>1
  <2>3. s.x[s.h[(i - 1) + 1]] = i - 1 BY <1>2, <2>2
  <2> QED BY <2>1, <2>2, <2>3
<1>5. N > 0 /\ N - 1 \in Nat /\ (N - 1) + 1 = N /\ (N - 1) - 1 = N - 2 BY <1>4
<1>6. Len(s.h) = N BY <1>2, LenOf
<1>7. CASE index = N - 1
  <2>1. PICK t : t = T!PopBack(s) OBVIOUS
  <2>2. T!RemoveFrom(s, id) = t BY <1>4, <1>6, <1>7, <2>1 DEF T!RemoveFrom
  <2>3. PopFacts(s, t, d, N, m, R) BY <1>1, <1>5, <2>1, PopHeaps
  <2>4. t \in Heaps(N - 1, m, R \ {id}) /\ Keys(t, d, N - 1) = [i \in 0..(N - 2) |-> key[i]]
    BY <1>3, <1>4, <1>5, <1>7, <2>3 DEF PopFacts
  <2>5. PICK k2 : k2 = Keys(t, d, N - 1) OBVIOUS
  <2>6. ASSUME NEW i \in 1..((N - 1) - 1) PROVE k2[Parent(i)] <= k2[i]
    <3>1. i \in Nat /\ i # 0 /\ i \in 1..(N - 1) /\ i \in 0..(N - 2) OBVIOUS
    <3>2. Parent(i) \in Nat /\ Parent(i) < i BY <3>1, ParentOf
    <3>3. key[Parent(i)] <= key[i] BY <1>1, <1>3, <3>1 DEF Ordered
    <3>4. Parent(i) \in 0..(N - 2) BY <3>1, <3>2
    <3> QED BY <2>4, <2>5, <3>1, <3>3, <3>4
  <2> QED BY <1>5, <2>2, <2>4, <2>5, <2>6 DEF Ordered, Sorted
<1>8. CASE index # N - 1
  <2>1. index \in 0..(N - 2) /\ N - 1 \in 0..(N - 1) BY <1>8
  <2>2. PICK u : u = T!SwapHeap(s, index, N - 1) OBVIOUS
  <2>3. SwapFacts(s, u, d, index, N - 1, N, m, R) BY <1>1, <1>8, <2>1, <2>2, SwapHeaps
  <2>4. u \in Heaps(N, m, R) /\ Keys(u, d, N) = Swapped(key, index, N - 1) BY <1>3, <2>3 DEF SwapFacts
  <2>5. u.h[N] = id
    <3>1. u.h = [s.h EXCEPT ![index + 1] = s.h[(N - 1) + 1], ![(N - 1) + 1] = s.h[index + 1]] BY <2>3 DEF SwapFacts
    <3>2. u.h = [s.h EXCEPT ![index + 1] = s.h[N], ![N] = id] BY <1>4, <1>5, <3>1
    <3>3. N \in DOMAIN s.h BY <1>2, <1>5
    <3> QED BY <3>2, <3>3
  <2>6. PICK t : t = T!PopBack(u) OBVIOUS
  <2>7. PopFacts(u, t, d, N, m, R) BY <1>5, <2>4, <2>6, PopHeaps
  <2>8. PICK new : new = [i \in 0..(N - 2) |-> IF i = index THEN key[N - 1] ELSE key[i]] OBVIOUS
  <2>9. t \in Heaps(N - 1, m, R \ {id}) BY <2>5, <2>7 DEF PopFacts
  <2>10. Keys(t, d, N - 1) = new
    <3>1. Keys(t, d, N - 1) = [i \in 0..(N - 2) |-> Swapped(key, index, N - 1)[i]] BY <2>4, <2>7 DEF PopFacts
    <3>2. \A i \in 0..(N - 2) : Swapped(key, index, N - 1)[i] = IF i = index THEN key[N - 1] ELSE key[i]
      BY <2>1 DEF Swapped
    <3> QED BY <2>8, <3>1, <3>2
  <2>11. \A i \in 0..(N - 2) : new[i] = d[t.h[i + 1]]
    <3>1. HeapFacts(t, d, N - 1, m, R \ {id}) BY <1>5, <2>9, HeapTypes
    <3> QED BY <1>5, <2>10, <3>1 DEF HeapFacts
  <2>12. IF index > 0 /\ new[index] < new[Parent(index)] THEN UpOrdered(new, N - 1, index) ELSE DownOrdered(new, N - 1, index)
    BY <1>1, <1>3, <2>1, <2>8, HoleFilled
  <2>13. index > 0 => new[index] = d[t.h[index + 1]] /\ new[Parent(index)] = d[t.h[Parent(index) + 1]]
    <3> SUFFICES ASSUME index > 0 PROVE Parent(index) \in 0..(N - 2) BY <2>1, <2>11
    <3>1. Parent(index) \in Nat /\ Parent(index) < index BY ParentOf
    <3> QED BY <2>1, <3>1
  <2>14. T!RemoveFrom(s, id) =
           IF index > 0 /\ d[t.h[index + 1]] < d[t.h[Parent(index) + 1]] THEN T!UpHeap(t, index, d) ELSE T!DownHeap(t, index)
    BY <1>4, <1>6, <1>8, <2>2, <2>6 DEF T!RemoveFrom, T!Deadline, Parent
  <2>15. index \in 0..((N - 1) - 1) BY <2>1
  <2>16. CASE index > 0 /\ new[index] < new[Parent(index)]
    <3>1. T!RemoveFrom(s, id) = T!UpHeap(t, index, d) BY <2>13, <2>14, <2>16
    <3>2. UpOrdered(Keys(t, d, N - 1), N - 1, index) BY <2>10, <2>12, <2>16
    <3>3. Sorted(T!UpHeap(t, index, d), d, N - 1, m, R \ {id})
      <4>1. d \in [1..m -> Nat] OBVIOUS
      <4> HIDE DEF d
      <4> QED BY <1>5, <2>9, <2>15, <3>2, <4>1, UpHeapSorts
    <3> QED BY <1>5, <3>1, <3>3
  <2>17. CASE ~(index > 0 /\ new[index] < new[Parent(index)])
    <3>1. T!RemoveFrom(s, id) = T!DownHeap(t, index) BY <2>13, <2>14, <2>17
    <3>2. DownOrdered(Keys(t, d, N - 1), N - 1, index) BY <2>10, <2>12, <2>17
    <3> QED BY <1>5, <2>9, <2>15, <3>1, <3>2, DownHeapSorts
  <2> QED BY <2>16, <2>17
<1> QED BY <1>7, <1>8

\* The timer in front is the first to expire.
LEMMA FrontFirst ==
  ASSUME NEW N \in Nat, NEW m \in Nat, NEW R, NEW d \in [1..m -> Nat], NEW s, Sorted(s, d, N, m, R)
  PROVE  /\ R \subseteq 1..m /\ s.h \in Seq(1..m) /\ Len(s.h) = N
         /\ s.h = <<>> => R = {}
         /\ s.h # <<>> => N > 0 /\ s.h[1] \in R /\ \A q \in R : d[s.h[1]] <= d[q]
<1>1. s \in Heaps(N, m, R) /\ Ordered(Keys(s, d, N), N) BY DEF Sorted
<1>2. /\ s.h \in [1..N -> 1..m] /\ T!Range(s.h) = R
      /\ Keys(s, d, N) \in [0..(N - 1) -> Nat]
      /\ \A i \in 0..(N - 1) : Keys(s, d, N)[i] = d[s.h[i + 1]]
  <2>1. HeapFacts(s, d, N, m, R) BY <1>1, HeapTypes
  <2> QED BY <2>1 DEF HeapFacts
<1>3. s.h \in Seq(1..m) /\ Len(s.h) = N BY <1>2, LenOf
<1>4. R = {s.h[i] : i \in 1..N} BY <1>2 DEF T!Range
<1>5. R \subseteq 1..m BY <1>2, <1>4
<1>6. s.h = <<>> => R = {} BY <1>3, <1>4
<1>7. ASSUME s.h # <<>> PROVE N > 0 /\ s.h[1] \in R /\ \A q \in R : d[s.h[1]] <= d[q]
  <2>1. N > 0 BY <1>3, <1>7, EmptySeq
  <2>2. s.h[1] \in R BY <1>4, <2>1
  <2>3. ASSUME NEW i \in 1..N PROVE d[s.h[1]] <= d[s.h[i]]
    <3>1. 0 \in 0..(N - 1) /\ i - 1 \in 0..(N - 1) /\ (i - 1) + 1 = i /\ 0 + 1 = 1 BY <2>1
    <3>2. PICK key \in [0..(N - 1) -> Nat] : key = Keys(s, d, N) BY <1>2
    <3>3. key[0] <= key[i - 1] BY <1>1, <3>1, <3>2, RootLeast
    <3>4. key[0] = d[s.h[1]] /\ key[i - 1] = d[s.h[i]]
      <4>1. key[0] = d[s.h[0 + 1]] BY <1>2, <3>1, <3>2
      <4>2. key[i - 1] = d[s.h[(i - 1) + 1]] BY <1>2, <3>1, <3>2
      <4> QED BY <3>1, <4>1, <4>2
    <3> QED BY <3>3, <3>4
  <2> QED BY <1>4, <2>1, <2>2, <2>3
<1> QED BY <1>3, <1>5, <1>6, <1>7

\* What GetExpiredTimers has taken from the heap of the N timers R, and what it
\* may have in hand after k rounds.
Took(e, left, N, m, R, now) ==
  /\ e \in Seq(1..m) /\ Len(e) <= N /\ T!Range(e) \subseteq R
  /\ Sorted(left, deadline_, N - Len(e), m, R \ T!Range(e))
  /\ \A a \in 1..Len(e) : deadline_[e[a]] <= now /\ \A q \in R \ T!Range(e) : deadline_[e[a]] <= deadline_[q]
  /\ \A a, b \in 1..Len(e) : a < b => e[a] # e[b] /\ deadline_[e[a]] <= deadline_[e[b]]
TakeStops(t, now) == t.left.h = <<>> \/ now < deadline_[t.left.h[0 + 1]]
TakeMoves(N, m, R, now, k) ==
  {t \in [left : UNION {Heaps(n, m, Q) : n \in 0..N, Q \in SUBSET R}, expired : Seq(1..m)] :
     Took(t.expired, t.left, N, m, R, now) /\ (TakeStops(t, now) \/ Len(t.expired) >= k)}

\* Before the first round.
LEMMA TakeNothing ==
  ASSUME NEW N \in Nat, NEW m \in Nat, NEW R, NEW now \in Nat, NEW s, Sorted(s, deadline_, N, m, R)
  PROVE  [left |-> s, expired |-> <<>>] \in TakeMoves(N, m, R, now, 0)
<1>1. PICK e : e = <<>> OBVIOUS
<1>2. e \in Seq(1..m) /\ Len(e) = 0 BY <1>1
<1>3. T!Range(e) = {} BY <1>2 DEF T!Range
<1>4. Sorted(s, deadline_, N - Len(e), m, R \ T!Range(e)) BY <1>2, <1>3
<1>5. Took(e, s, N, m, R, now) BY <1>2, <1>3, <1>4 DEF Took
<1>6. s \in Heaps(N, m, R) BY DEF Sorted
<1> QED BY <1>1, <1>2, <1>5, <1>6 DEF TakeMoves

\* The next timer is taken.
LEMMA TakeOne ==
  ASSUME NEW N \in Nat, NEW m \in Nat, NEW R, NEW now \in Nat, deadline_ \in [1..m -> Nat], NEW e, NEW left,
         Took(e, left, N, m, R, now), left.h # <<>>, ~(now < deadline_[left.h[1]])
  PROVE  Took(Append(e, left.h[1]), T!RemoveFrom(left, left.h[1]), N, m, R, now)
<1>1. PICK n, Q, id : n = Len(e) /\ Q = R \ T!Range(e) /\ id = left.h[1] OBVIOUS
<1>2. /\ e \in Seq(1..m) /\ n \in Nat /\ n <= N /\ T!Range(e) \subseteq R /\ N - n \in Nat
      /\ Sorted(left, deadline_, N - n, m, Q)
  BY <1>1 DEF Took
<1>3. Q \subseteq 1..m /\ N - n > 0 /\ id \in Q /\ \A q \in Q : deadline_[id] <= deadline_[q]
  <2>1. PICK k \in Nat : k = N - n BY <1>2
  <2>2. Sorted(left, deadline_, k, m, Q) BY <1>2, <2>1
  <2>3. Q \subseteq 1..m /\ k > 0 /\ left.h[1] \in Q /\ \A q \in Q : deadline_[left.h[1]] <= deadline_[q]
    BY <2>2, FrontFirst
  <2> QED BY <1>1, <2>1, <2>3
<1>4. PICK e2 : e2 = Append(e, id) OBVIOUS
<1>5. e2 \in Seq(1..m) /\ Len(e2) = n + 1 /\ e2[n + 1] = id /\ \A a \in 1..n : e2[a] = e[a]
  BY <1>1, <1>2, <1>3, <1>4, AppendProperties
<1>6. T!Range(e2) = T!Range(e) \cup {id}
  <2>0. DOMAIN e = 1..n /\ DOMAIN e2 = 1..(n + 1) BY <1>1, <1>2, <1>5, LenProperties
  <2>1. T!Range(e) = {e[a] : a \in 1..n} BY <2>0 DEF T!Range
  <2>2. T!Range(e2) = {e2[a] : a \in 1..(n + 1)} BY <2>0 DEF T!Range
  <2>3. \A a \in 1..(n + 1) : a = n + 1 \/ a \in 1..n BY <1>2
  <2>4. \A a \in 1..n : a \in 1..(n + 1) BY <1>2
  <2>5. n + 1 \in 1..(n + 1) BY <1>2
  <2> QED BY <1>5, <2>1, <2>2, <2>3, <2>4, <2>5
<1>7. R \ T!Range(e2) = Q \ {id} BY <1>1, <1>6
<1>8. PICK rest : rest = T!RemoveFrom(left, id) OBVIOUS
<1>9. Sorted(rest, deadline_, N - Len(e2), m, R \ T!Range(e2))
  <2>1. Sorted(rest, deadline_, (N - n) - 1, m, Q \ {id}) BY <1>2, <1>3, <1>8, RemoveFromSorts
  <2>2. (N - n) - 1 = N - Len(e2) BY <1>2, <1>5
  <2> QED BY <1>7, <2>1, <2>2
<1>10. \A a \in 1..n : /\ deadline_[e[a]] <= now /\ e[a] \in 1..m /\ e[a] \in T!Range(e)
                       /\ \A q \in Q : deadline_[e[a]] <= deadline_[q]
  <2>1. \A a \in 1..n : deadline_[e[a]] <= now /\ \A q \in Q : deadline_[e[a]] <= deadline_[q] BY <1>1 DEF Took
  <2>2. DOMAIN e = 1..n /\ \A a \in 1..n : e[a] \in 1..m BY <1>1, <1>2, LenProperties, ElementOfSeq
  <2>3. \A a \in 1..n : e[a] \in T!Range(e) BY <2>2 DEF T!Range
  <2> QED BY <2>1, <2>2, <2>3
<1>11. deadline_[id] <= now /\ deadline_[id] \in Nat BY <1>1, <1>3
<1>12. ASSUME NEW a \in 1..Len(e2)
       PROVE  deadline_[e2[a]] <= now /\ \A q \in R \ T!Range(e2) : deadline_[e2[a]] <= deadline_[q]
  <2>1. CASE a = n + 1
    <3>1. e2[a] = id BY <1>5, <2>1
    <3> QED BY <1>3, <1>7, <1>11, <3>1
  <2>2. CASE a \in 1..n
    <3>1. e2[a] = e[a] BY <1>5, <2>2
    <3> QED BY <1>7, <1>10, <2>2, <3>1
  <2> QED BY <1>2, <1>5, <2>1, <2>2
<1>13. ASSUME NEW a \in 1..Len(e2), NEW b \in 1..Len(e2), a < b
       PROVE  e2[a] # e2[b] /\ deadline_[e2[a]] <= deadline_[e2[b]]
  <2>1. a \in 1..n BY <1>2, <1>5, <1>13
  <2>2. CASE b = n + 1
    <3>1. e2[b] = id /\ e2[a] = e[a] BY <1>5, <2>1, <2>2
    <3>2. e[a] # id BY <1>1, <1>3, <1>10, <2>1
    <3> QED BY <1>3, <1>10, <2>1, <3>1, <3>2
  <2>3. CASE b \in 1..n
    <3>1. e2[b] = e[b] /\ e2[a] = e[a] BY <1>5, <2>1, <2>3
    <3>2. e[a] # e[b] /\ deadline_[e[a]] <= deadline_[e[b]] BY <1>1, <1>13, <2>1, <2>3 DEF Took
    <3> QED BY <3>1, <3>2
  <2> QED BY <1>2, <1>5, <2>2, <2>3
<1>14. Len(e2) <= N /\ T!Range(e2) \subseteq R BY <1>1, <1>2, <1>3, <1>5, <1>6
<1>15. Took(e2, rest, N, m, R, now) BY <1>5, <1>9, <1>12, <1>13, <1>14 DEF Took
<1> QED BY <1>1, <1>4, <1>8, <1>15

\* One round.
LEMMA ExpireRoundMoves ==
  ASSUME NEW N \in Nat, NEW m \in Nat, NEW R, NEW now \in Nat, deadline_ \in [1..m -> Nat], NEW k \in Nat, k > 0,
         NEW t \in TakeMoves(N, m, R, now, k - 1)
  PROVE  T!ExpireRound(t, now) \in TakeMoves(N, m, R, now, k)
<1>1. /\ Took(t.expired, t.left, N, m, R, now) /\ (TakeStops(t, now) \/ Len(t.expired) >= k - 1)
      /\ t \in [left : UNION {Heaps(n, m, Q) : n \in 0..N, Q \in SUBSET R}, expired : Seq(1..m)]
  BY DEF TakeMoves
<1>2. CASE TakeStops(t, now)
  <2>1. T!ExpireRound(t, now) = t BY <1>2 DEF T!ExpireRound, T!Deadline, TakeStops
  <2> QED BY <1>1, <1>2, <2>1 DEF TakeMoves
<1>3. CASE ~TakeStops(t, now)
  <2>1. PICK e, s : e = t.expired /\ s = t.left OBVIOUS
  <2>2. s.h # <<>> /\ ~(now < deadline_[s.h[1]]) /\ Took(e, s, N, m, R, now) /\ Len(e) >= k - 1
    BY <1>1, <1>3, <2>1 DEF TakeStops
  <2>3. PICK e2, s2 : e2 = Append(e, s.h[1]) /\ s2 = T!RemoveFrom(s, s.h[1]) OBVIOUS
  <2>4. T!ExpireRound(t, now) = [left |-> s2, expired |-> e2]
    BY <1>3, <2>1, <2>3 DEF T!ExpireRound, T!Deadline, TakeStops
  <2>5. Took(e2, s2, N, m, R, now) BY <2>2, <2>3, TakeOne
  <2>6. e2 \in Seq(1..m) /\ Len(e2) <= N /\ Len(e2) \in Nat /\ s2 \in Heaps(N - Len(e2), m, R \ T!Range(e2))
    BY <2>5 DEF Took, Sorted
  <2>7. N - Len(e2) \in 0..N BY <2>6
  <2>8. Len(e2) >= k
    <3>1. e \in Seq(1..m) /\ Len(e) \in Nat BY <2>2 DEF Took
    <3>2. Len(e2) = Len(e) + 1 BY <2>3, <3>1
    <3> QED BY <2>2, <3>1, <3>2
  <2> QED BY <2>4, <2>5, <2>6, <2>7, <2>8 DEF TakeMoves
<1> QED BY <1>2, <1>3

\* GetExpiredTimers takes the timers of R that are due, in the order of their
\* deadlines, each once; the others stay in a heap that is in order.
Expired(e, left, N, m, R, now) ==
  /\ T!Range(e) = {q \in R : deadline_[q] <= now}
  /\ Sorted(left, deadline_, N - Len(e), m, R \ T!Range(e)) /\ N - Len(e) \in Nat
  /\ \A a, b \in 1..Len(e) : a < b => e[a] # e[b] /\ deadline_[e[a]] <= deadline_[e[b]]
  /\ e \in Seq(1..m)
LEMMA TakeExpiredTakes ==
  ASSUME NEW N \in Nat, NEW m \in Nat, NEW R, NEW now \in Nat, deadline_ \in [1..m -> Nat],
         NEW s, Sorted(s, deadline_, N, m, R)
  PROVE  Expired(T!TakeExpired(s, now).expired, T!TakeExpired(s, now).left, N, m, R, now)
<1> DEFINE G == [k \in 0..N |-> TakeMoves(N, m, R, now, k)]
           F == [u \in UNION {G[k] : k \in 0..N} |-> T!ExpireRound(u, now)]
           t == [left |-> s, expired |-> <<>>]
           Runs(f) == f = [k \in 0..N |-> IF k = 0 THEN t ELSE T!ExpireRound(f[k - 1], now)]
<1>0. Len(s.h) = N
  <2>1. s.h \in [1..N -> 1..m] BY DEF Sorted, Heaps
  <2> QED BY <2>1, LenOf
<1>1. t \in G[0]
  <2>1. t \in TakeMoves(N, m, R, now, 0) BY TakeNothing
  <2> QED BY <2>1
<1>2. \A k \in 1..N : \A u \in G[k - 1] : F[u] = T!ExpireRound(u, now) /\ F[u] \in G[k]
  <2> SUFFICES ASSUME NEW k \in 1..N, NEW u \in G[k - 1] PROVE F[u] = T!ExpireRound(u, now) /\ F[u] \in G[k]
    OBVIOUS
  <2>1. F[u] = T!ExpireRound(u, now) OBVIOUS
  <2>2. k \in Nat /\ k > 0 /\ u \in TakeMoves(N, m, R, now, k - 1) OBVIOUS
  <2>3. T!ExpireRound(u, now) \in TakeMoves(N, m, R, now, k) BY <2>2, ExpireRoundMoves
  <2> QED BY <2>1, <2>3
<1> HIDE DEF G, F
<1>3. PICK g : g = [k \in 0..N |-> IF k = 0 THEN t ELSE F[g[k - 1]]] /\ \A k \in 0..N : g[k] \in G[k]
  <2> HIDE DEF t
  <2>1. \A k \in 1..N : \A u \in G[k - 1] : F[u] \in G[k] BY <1>2
  <2>2. N \in Nat OBVIOUS
  <2>3. \E g : LoopRuns(g, N, t, F, G) BY <1>1, <2>1, <2>2, LoopExists
  <2> QED BY <2>3 DEF LoopRuns
<1>4. Runs(g)
  <2> HIDE DEF t
  <2>1. ASSUME NEW k \in 1..N PROVE F[g[k - 1]] = T!ExpireRound(g[k - 1], now)
    <3>1. k - 1 \in 0..N OBVIOUS
    <3>2. g[k - 1] \in G[k - 1] BY <1>3, <3>1
    <3> QED BY <1>2, <3>2
  <2>2. \A k \in 0..N : (IF k = 0 THEN t ELSE F[g[k - 1]]) = IF k = 0 THEN t ELSE T!ExpireRound(g[k - 1], now)
    BY <2>1
  <2> QED BY <1>3, <2>2
<1>5. PICK f : f = (CHOOSE r : Runs(r)) OBVIOUS
<1>6. Runs(f)
  <2> HIDE DEF Runs
  <2> QED BY <1>4, <1>5
<1>7. T!TakeExpired(s, now) = f[N] BY <1>0, <1>5 DEF T!TakeExpired, T!Loop
<1> HIDE DEF t
<1>8. \A k \in 0..N : f[k] \in G[k]
  <2> DEFINE P == {k \in 0..N : f[k] \in G[k]}
  <2>1. 0 \in P BY <1>1, <1>6
  <2>2. ASSUME NEW k \in 1..N, k - 1 \in P PROVE k \in P
    <3>1. f[k] = T!ExpireRound(f[k - 1], now) BY <1>6
    <3>2. f[k - 1] \in G[k - 1] BY <2>2
    <3>3. T!ExpireRound(f[k - 1], now) \in G[k] BY <1>2, <3>2
    <3> QED BY <3>1, <3>3
  <2>0. N \in Nat OBVIOUS
  <2> HIDE DEF P
  <2>3. \A k \in 0..N : k \in P BY <2>0, <2>1, <2>2, UpTo
  <2> QED BY <2>3 DEF P
<1>9. f[N] \in TakeMoves(N, m, R, now, N) BY <1>8 DEF G
<1>10. PICK e, left : e = f[N].expired /\ left = f[N].left OBVIOUS
<1>11. Took(e, left, N, m, R, now) /\ (left.h = <<>> \/ now < deadline_[left.h[1]] \/ Len(e) >= N)
  BY <1>9, <1>10 DEF TakeMoves, TakeStops
<1>12. /\ e \in Seq(1..m) /\ Len(e) \in Nat /\ N - Len(e) \in Nat /\ T!Range(e) \subseteq R
       /\ Sorted(left, deadline_, N - Len(e), m, R \ T!Range(e))
  BY <1>11 DEF Took
<1>13. PICK n, Q : n = N - Len(e) /\ Q = R \ T!Range(e) OBVIOUS
<1>14. /\ Q \subseteq 1..m /\ left.h \in Seq(1..m) /\ Len(left.h) = n
       /\ left.h = <<>> => Q = {}
       /\ left.h # <<>> => n > 0 /\ left.h[1] \in Q /\ \A q \in Q : deadline_[left.h[1]] <= deadline_[q]
  <2>1. n \in Nat /\ Sorted(left, deadline_, n, m, Q) BY <1>12, <1>13
  <2> QED BY <2>1, FrontFirst
<1>15. ASSUME NEW q \in Q PROVE ~(deadline_[q] <= now)
  <2>1. left.h # <<>> /\ n > 0 BY <1>14, <1>15
  <2>2. left.h[1] \in Q /\ deadline_[left.h[1]] <= deadline_[q] /\ now < deadline_[left.h[1]]
    BY <1>11, <1>12, <1>13, <1>14, <1>15, <2>1
  <2>3. deadline_[left.h[1]] \in Nat /\ deadline_[q] \in Nat BY <1>14, <1>15, <2>2
  <2> QED BY <2>2, <2>3
<1>16. ASSUME NEW q \in T!Range(e) PROVE deadline_[q] <= now
  <2>1. PICK a \in 1..Len(e) : e[a] = q BY <1>12, <1>16 DEF T!Range
  <2> QED BY <1>11, <2>1 DEF Took
<1>17. T!Range(e) = {q \in R : deadline_[q] <= now} BY <1>12, <1>13, <1>15, <1>16
<1>18. Expired(e, left, N, m, R, now) BY <1>11, <1>12, <1>17 DEF Took, Expired
<1> QED BY <1>7, <1>10, <1>18

-----------------------------------------------------------------------------
(* Timer heap: the operations                                              *)

\* The heap holds the active timers in order, every one at the place it
\* remembers.
HInv ==
  /\ deadline_ \in Seq(Nat) /\ heap_ \in Seq(Nat)
  /\ Sorted(T!Current, deadline_, Len(heap_), Len(deadline_), active_timers_)

\* The invariant contains the property.
LEMMA HInvConsistent == HInv => HeapConsistent
<1> SUFFICES ASSUME HInv PROVE T!HeapConsistent BY DEF HeapConsistent
<1>1. PICK m, N, R, s : m = Len(deadline_) /\ N = Len(heap_) /\ R = active_timers_ /\ s = T!Current OBVIOUS
<1>2. deadline_ \in [1..m -> Nat] /\ m \in Nat BY <1>1, LenProperties DEF HInv
<1>3. s \in Heaps(N, m, R) /\ Ordered(Keys(s, deadline_, N), N) /\ s.h = heap_ /\ s.x = heap_index_
  BY <1>1 DEF HInv, Sorted, T!Current, T!State
<1>4. N \in Nat BY <1>1 DEF HInv
<1>5. /\ heap_ \in [1..N -> 1..m] /\ T!Range(heap_) = R
      /\ \A i \in 0..(N - 1) : heap_[i + 1] \in 1..m /\ heap_index_[heap_[i + 1]] = i
      /\ \A i \in 0..(N - 1) : Keys(s, deadline_, N)[i] = deadline_[heap_[i + 1]]
  <2>1. HeapFacts(s, deadline_, N, m, R) BY <1>2, <1>3, <1>4, HeapTypes
  <2> QED BY <1>3, <2>1 DEF HeapFacts
<1>6. ASSUME NEW i \in 1..(N - 1) PROVE T!Deadline(T!Current, (i - 1) \div 2) <= T!Deadline(T!Current, i)
  <2>1. i \in 0..(N - 1) /\ i \in Nat /\ i # 0 OBVIOUS
  <2>2. Parent(i) \in Nat /\ Parent(i) < i BY <2>1, ParentOf
  <2>3. Parent(i) \in 0..(N - 1) BY <1>4, <2>1, <2>2
  <2>4. Keys(s, deadline_, N)[Parent(i)] <= Keys(s, deadline_, N)[i] BY <1>3 DEF Ordered
  <2>5. deadline_[heap_[Parent(i) + 1]] <= deadline_[heap_[i + 1]] BY <1>5, <2>1, <2>3, <2>4
  <2> QED BY <1>1, <1>3, <2>5 DEF T!Deadline, Parent
<1>7. T!IsInjective(heap_)
  <2> SUFFICES ASSUME NEW a \in 1..N, NEW b \in 1..N, heap_[a] = heap_[b] PROVE a = b BY <1>5 DEF T!IsInjective
  <2>1. a - 1 \in 0..(N - 1) /\ b - 1 \in 0..(N - 1) /\ (a - 1) + 1 = a /\ (b - 1) + 1 = b BY <1>4
  <2>2. heap_index_[heap_[a]] = a - 1 /\ heap_index_[heap_[b]] = b - 1 BY <1>5, <2>1
  <2> QED BY <1>4, <2>2
<1> QED BY <1>1, <1>5, <1>6, <1>7 DEF T!HeapConsistent

\* A sorted heap is stored.
LEMMA BecomesSorted ==
  ASSUME NEW N \in Nat, NEW m \in Nat, NEW R, NEW d \in [1..m -> Nat], NEW s, Sorted(s, d, N, m, R),
         T!Becomes(s, d), active_timers_' = R
  PROVE  HInv' /\ T!Range(heap_') = R
<1>1. s \in Heaps(N, m, R) /\ Ordered(Keys(s, d, N), N) BY DEF Sorted
<1>2. /\ s.h \in [1..N -> 1..m] /\ s.x \in [1..m -> Nat] /\ T!Range(s.h) = R
      /\ \A i \in 0..(N - 1) : s.h[i + 1] \in 1..m /\ s.x[s.h[i + 1]] = i
  <2>1. HeapFacts(s, d, N, m, R) BY <1>1, HeapTypes
  <2> QED BY <2>1 DEF HeapFacts
<1>3. PICK d2, x2, t : d2 = deadline_' /\ x2 = heap_index_' /\ t = [h |-> heap_', x |-> heap_index_'] OBVIOUS
<1>4. /\ heap_' = s.h /\ d2 = [id \in 1..m |-> IF id \in R THEN d[id] ELSE 0]
      /\ x2 = [id \in 1..m |-> IF id \in R THEN s.x[id] ELSE 0]
  BY <1>2, <1>3 DEF T!Becomes, T!Gone
<1>5. d2 \in [1..m -> Nat] /\ x2 \in [1..m -> Nat] BY <1>2, <1>4
<1>6. \A i \in 0..(N - 1) : s.h[i + 1] \in R
  <2>1. DOMAIN s.h = 1..N /\ \A i \in 0..(N - 1) : i + 1 \in 1..N BY <1>2
  <2> QED BY <1>2, <2>1 DEF T!Range
<1>7. \A i \in 0..(N - 1) : x2[s.h[i + 1]] = i /\ d2[s.h[i + 1]] = d[s.h[i + 1]] BY <1>2, <1>4, <1>6
<1>8. t.h = s.h /\ t.x = x2 /\ t \in [h : [1..N -> 1..m], x : [1..m -> Nat]] BY <1>2, <1>3, <1>4, <1>5
<1>9. t \in Heaps(N, m, R) BY <1>2, <1>7, <1>8 DEF Heaps
<1>10. Keys(t, d2, N) = Keys(s, d, N) BY <1>7, <1>8 DEF Keys
<1>11. Sorted(t, d2, N, m, R) BY <1>1, <1>9, <1>10 DEF Sorted
<1>12. Len(heap_') = N /\ heap_' \in Seq(Nat) /\ Len(d2) = m /\ d2 \in Seq(Nat)
  <2>1. heap_' \in [1..N -> Nat] BY <1>2, <1>4
  <2> QED BY <1>5, <2>1, LenOf
<1>13. T!Current' = t BY <1>3 DEF T!Current, T!State
<1> QED BY <1>2, <1>3, <1>4, <1>11, <1>12, <1>13 DEF HInv

\* The state as the lemmas see it.
HeapState(N, m, R, s) ==
  /\ m = Len(deadline_) /\ N = Len(heap_) /\ R = active_timers_ /\ s = T!Current
  /\ m \in Nat /\ N \in Nat /\ deadline_ \in [1..m -> Nat] /\ Sorted(s, deadline_, N, m, R)
  /\ s.h = heap_ /\ s.x = heap_index_ /\ T!Range(heap_) = R
LEMMA HInvState == ASSUME HInv PROVE \E N, m, R, s : HeapState(N, m, R, s)
<1>1. PICK m, N, R, s : m = Len(deadline_) /\ N = Len(heap_) /\ R = active_timers_ /\ s = T!Current OBVIOUS
<1>2. deadline_ \in [1..m -> Nat] /\ m \in Nat /\ N \in Nat BY <1>1, LenProperties DEF HInv
<1>3. s.h = heap_ /\ s.x = heap_index_ BY <1>1 DEF T!Current, T!State
<1>4. Sorted(s, deadline_, N, m, R) BY <1>1 DEF HInv
<1>5. T!Range(heap_) = R BY <1>3, <1>4 DEF Sorted, Heaps
<1>6. HeapState(N, m, R, s) BY <1>1, <1>2, <1>3, <1>4, <1>5 DEF HeapState
<1> QED BY <1>6

\* A timer is added.
LEMMA HAddStep == ASSUME HInv, T!AddTimer PROVE HInv' /\ op'.name = "AddTimer"
<1>1. PICK N, m, R, s : HeapState(N, m, R, s) BY HInvState
<1>2. /\ m = Len(deadline_) /\ N = Len(heap_) /\ R = active_timers_ /\ m \in Nat /\ N \in Nat
      /\ deadline_ \in [1..m -> Nat] /\ s.h = heap_ /\ s.x = heap_index_
      /\ s \in Heaps(N, m, R) /\ Ordered(Keys(s, deadline_, N), N) /\ Sorted(s, deadline_, N, m, R)
  BY <1>1 DEF HeapState, Sorted
<1>3. PICK deadline \in Times :
        /\ active_timers_' = active_timers_ \cup {Len(deadline_) + 1}
        /\ T!Becomes(T!UpHeap(T!State(Append(heap_, Len(deadline_) + 1), Append(heap_index_, Len(heap_))), Len(heap_),
                              Append(deadline_, deadline)), Append(deadline_, deadline))
        /\ op'.name = "AddTimer"
  BY DEF T!AddTimer
<1>4. deadline \in Nat BY HeapAssumption
<1>5. PICK id, d, h, x, t : id = m + 1 /\ d = Append(deadline_, deadline) /\ h = Append(heap_, id)
        /\ x = Append(heap_index_, N) /\ t = [h |-> h, x |-> x]
  OBVIOUS
<1>6. active_timers_' = R \cup {id} /\ T!Becomes(T!UpHeap(t, N, d), d) BY <1>2, <1>3, <1>5 DEF T!State
<1>7. /\ heap_ \in [1..N -> 1..m] /\ heap_index_ \in [1..m -> Nat] /\ T!Range(heap_) = R
      /\ \A i \in 0..(N - 1) : heap_[i + 1] \in 1..m /\ heap_index_[heap_[i + 1]] = i
  <2>1. HeapFacts(s, deadline_, N, m, R) BY <1>2, HeapTypes
  <2> QED BY <1>2, <2>1 DEF HeapFacts
<1>8. /\ d \in [1..id -> Nat] /\ \A a \in 1..m : d[a] = deadline_[a]
      /\ x \in [1..id -> Nat] /\ x[id] = N /\ \A a \in 1..m : x[a] = heap_index_[a]
  <2>1. deadline_ \in Seq(Nat) /\ heap_index_ \in Seq(Nat) /\ Len(heap_index_) = m
    <3>1. deadline_ \in Seq(Nat) BY DEF HInv
    <3>2. heap_index_ \in [1..m -> Nat] /\ m \in Nat BY <1>2, <1>7
    <3>3. heap_index_ \in Seq(Nat) /\ Len(heap_index_) = m BY <3>2, LenOf
    <3> QED BY <3>1, <3>3
  <2>2. d \in Seq(Nat) /\ Len(d) = id /\ \A a \in 1..m : d[a] = deadline_[a] BY <1>2, <1>4, <1>5, <2>1, AppendProperties
  <2>3. x \in Seq(Nat) /\ Len(x) = id /\ x[id] = N /\ \A a \in 1..m : x[a] = heap_index_[a]
    BY <1>2, <1>5, <2>1, AppendProperties
  <2> QED BY <2>2, <2>3, LenProperties
<1>9. /\ h \in [1..(N + 1) -> 1..id] /\ h[N + 1] = id /\ \A a \in 1..N : h[a] = heap_[a]
  <2>1. heap_ \in [1..N -> 1..id] /\ id \in 1..id BY <1>2, <1>5, <1>7
  <2>2. heap_ \in Seq(1..id) BY <1>2, <2>1, LenOf
  <2>3. h \in Seq(1..id) /\ Len(h) = N + 1 /\ h[N + 1] = id /\ \A a \in 1..N : h[a] = heap_[a]
    BY <1>2, <1>5, <2>1, <2>2, AppendProperties
  <2> QED BY <2>3, LenProperties
<1>10. T!Range(h) = R \cup {id}
  <2>1. R = {heap_[a] : a \in 1..N} BY <1>7 DEF T!Range
  <2>2. T!Range(h) = {h[a] : a \in 1..(N + 1)} BY <1>9 DEF T!Range
  <2>3. \A a \in 1..(N + 1) : a = N + 1 \/ a \in 1..N BY <1>2
  <2>4. \A a \in 1..N : a \in 1..(N + 1) BY <1>2
  <2>5. N + 1 \in 1..(N + 1) BY <1>2
  <2> QED BY <1>9, <2>1, <2>2, <2>3, <2>4, <2>5
<1>11. ASSUME NEW i \in 0..((N + 1) - 1) PROVE x[h[i + 1]] = i
  <2>1. CASE i = N BY <1>8, <1>9, <2>1
  <2>2. CASE i \in 0..(N - 1)
    <3>1. i + 1 \in 1..N BY <1>2, <2>2
    <3>2. h[i + 1] = heap_[i + 1] BY <1>9, <3>1
    <3> QED BY <1>7, <1>8, <2>2, <3>2
  <2> QED BY <1>2, <2>1, <2>2
<1>12. t \in Heaps(N + 1, id, R \cup {id}) BY <1>5, <1>8, <1>9, <1>10, <1>11 DEF Heaps
<1>13. UpOrdered(Keys(t, d, N + 1), N + 1, N)
  <2>1. PICK new, key : new = Keys(t, d, N + 1) /\ key = Keys(s, deadline_, N) OBVIOUS
  <2>2. ASSUME NEW i \in 0..(N - 1) PROVE new[i] = key[i]
    <3>1. i \in 0..((N + 1) - 1) /\ i + 1 \in 1..N BY <1>2
    <3>2. new[i] = d[h[i + 1]] BY <1>5, <2>1, <3>1 DEF Keys
    <3>3. key[i] = deadline_[heap_[i + 1]] BY <1>2, <2>1 DEF Keys
    <3> QED BY <1>7, <1>8, <1>9, <3>1, <3>2, <3>3
  <2>3. ASSUME NEW i \in 1..((N + 1) - 1) PROVE Parent(i) \in 0..(N - 1) /\ Parent(i) # N
    <3>1. i \in Nat /\ i # 0 /\ i <= N BY <1>2
    <3>2. Parent(i) \in Nat /\ Parent(i) < i BY <3>1, ParentOf
    <3> QED BY <1>2, <3>1, <3>2
  <2>4. ASSUME NEW i \in 1..((N + 1) - 1), i # N PROVE new[Parent(i)] <= new[i]
    <3>1. i \in 1..(N - 1) /\ i \in 0..(N - 1) BY <1>2, <2>4
    <3>2. key[Parent(i)] <= key[i] BY <1>2, <2>1, <3>1 DEF Ordered
    <3> QED BY <2>2, <2>3, <3>1, <3>2
  <2> QED BY <2>1, <2>3, <2>4 DEF UpOrdered, Bridged
<1>14. PICK u : u = T!UpHeap(t, N, d) OBVIOUS
<1>15. Sorted(u, d, N + 1, id, R \cup {id})
  <2>1. N + 1 \in Nat /\ id \in Nat /\ N \in 0..((N + 1) - 1) BY <1>2, <1>5
  <2> QED BY <1>8, <1>12, <1>13, <1>14, <2>1, UpHeapSorts
<1>16. N + 1 \in Nat /\ id \in Nat BY <1>2, <1>5
<1>17. HInv' BY <1>6, <1>8, <1>14, <1>15, <1>16, BecomesSorted
<1> QED BY <1>3, <1>17

\* A timer is cancelled, or was gone already.
LEMMA HCancelStep ==
  ASSUME HInv, T!CancelTimer
  PROVE  HInv' /\ op'.name = "CancelTimer" /\ T!Range(heap_') = T!Range(heap_) \ {op'.id}
<1>1. PICK N, m, R, s : HeapState(N, m, R, s) BY HInvState
<1>2. /\ R = active_timers_ /\ s = T!Current /\ m \in Nat /\ N \in Nat /\ T!Range(heap_) = R
      /\ deadline_ \in [1..m -> Nat] /\ Sorted(s, deadline_, N, m, R) /\ s.h = heap_
  BY <1>1 DEF HeapState
<1>3. PICK id \in 1..Len(deadline_) :
    /\ IF heap_ # <<>> /\ id \in active_timers_
         THEN T!Becomes(T!RemoveFrom(T!Current, id), deadline_) /\ active_timers_' = active_timers_ \ {id}
         ELSE UNCHANGED <<heap_, heap_index_, deadline_, active_timers_>>
    /\ op' = [name |-> "CancelTimer", id |-> id]
  BY DEF T!CancelTimer
<1>4. CASE heap_ # <<>> /\ id \in active_timers_
  <2>1. PICK u : u = T!RemoveFrom(s, id) OBVIOUS
  <2>2. T!Becomes(u, deadline_) /\ active_timers_' = R \ {id} BY <1>2, <1>3, <1>4, <2>1
  <2>3. N > 0 /\ Sorted(u, deadline_, N - 1, m, R \ {id}) BY <1>2, <1>4, <2>1, RemoveFromSorts
  <2>4. N - 1 \in Nat BY <1>2, <2>3
  <2>5. HInv' /\ T!Range(heap_') = R \ {id} BY <1>2, <2>2, <2>3, <2>4, BecomesSorted
  <2> QED BY <1>2, <1>3, <2>5
<1>5. CASE ~(heap_ # <<>> /\ id \in active_timers_)
  <2>1. UNCHANGED <<heap_, heap_index_, deadline_, active_timers_>> BY <1>3, <1>5
  <2>2. id \notin R
    <3>1. heap_ = <<>> => R = {} BY <1>2, FrontFirst
    <3> QED BY <1>2, <1>5, <3>1
  <2>3. HInv' BY <2>1 DEF HInv, T!Current
  <2> QED BY <1>2, <1>3, <2>1, <2>2, <2>3
<1> QED BY <1>4, <1>5

\* What a call of GetExpiredTimers promises, without the temporal operator.
DueHandedOut ==
  LET due == {id \in active_timers_ : deadline_[id] <= op'.now} IN
  /\ T!Range(op'.ret) = due /\ T!IsInjective(op'.ret)
  /\ active_timers_' = active_timers_ \ due
  /\ \A j, k \in 1..Len(op'.ret) : j < k => deadline_[op'.ret[j]] <= deadline_[op'.ret[k]]

\* The timers that are due are handed out.
LEMMA HExpireStep ==
  ASSUME HInv, T!GetExpiredTimers
  PROVE  HInv' /\ op'.name = "GetExpiredTimers" /\ DueHandedOut
<1>1. PICK N, m, R, s : HeapState(N, m, R, s) BY HInvState
<1>2. /\ R = active_timers_ /\ s = T!Current /\ m \in Nat /\ N \in Nat
      /\ deadline_ \in [1..m -> Nat] /\ Sorted(s, deadline_, N, m, R)
  BY <1>1 DEF HeapState
<1>3. PICK now \in Times :
        /\ T!Becomes(T!TakeExpired(T!Current, now).left, deadline_)
        /\ active_timers_' = active_timers_ \ T!Range(T!TakeExpired(T!Current, now).expired)
        /\ op' = [name |-> "GetExpiredTimers", now |-> now, ret |-> T!TakeExpired(T!Current, now).expired]
  BY DEF T!GetExpiredTimers
<1>4. now \in Nat BY HeapAssumption
<1>5. PICK e, left : e = T!TakeExpired(s, now).expired /\ left = T!TakeExpired(s, now).left OBVIOUS
<1>6. T!Becomes(left, deadline_) /\ active_timers_' = R \ T!Range(e) /\ op'.now = now /\ op'.ret = e
      /\ op'.name = "GetExpiredTimers"
  BY <1>2, <1>3, <1>5
<1>7. Expired(e, left, N, m, R, now) BY <1>2, <1>4, <1>5, TakeExpiredTakes
<1>8. /\ T!Range(e) = {q \in R : deadline_[q] <= now} /\ N - Len(e) \in Nat /\ e \in Seq(1..m)
      /\ Sorted(left, deadline_, N - Len(e), m, R \ T!Range(e))
      /\ \A a, b \in 1..Len(e) : a < b => e[a] # e[b] /\ deadline_[e[a]] <= deadline_[e[b]]
  BY <1>7 DEF Expired
<1>9. HInv' BY <1>2, <1>6, <1>8, BecomesSorted
<1>10. T!IsInjective(e)
  <2>1. DOMAIN e = 1..Len(e) /\ Len(e) \in Nat BY <1>8, LenProperties
  <2> SUFFICES ASSUME NEW a \in 1..Len(e), NEW b \in 1..Len(e), e[a] = e[b] PROVE a = b BY <2>1 DEF T!IsInjective
  <2>2. ~(a < b) /\ ~(b < a) BY <1>8
  <2> QED BY <2>1, <2>2
<1> QED BY <1>2, <1>6, <1>8, <1>9, <1>10 DEF DueHandedOut

\* Before the first call.
LEMMA HInitInv == T!Init => HInv
<1> SUFFICES ASSUME T!Init PROVE HInv OBVIOUS
<1>1. heap_ = <<>> /\ active_timers_ = {} /\ deadline_ = <<>> /\ heap_index_ = <<>> BY DEF T!Init
<1>2. Len(heap_) = 0 /\ Len(deadline_) = 0 /\ deadline_ \in Seq(Nat) /\ heap_ \in Seq(Nat) BY <1>1
<1>3. T!Current = [h |-> heap_, x |-> heap_index_] BY DEF T!Current, T!State
<1>4. heap_ \in [1..0 -> 1..0] /\ heap_index_ \in [1..0 -> Nat] /\ T!Range(heap_) = {} BY <1>1 DEF T!Range
<1>5. T!Current \in Heaps(0, 0, {}) BY <1>3, <1>4 DEF Heaps
<1>6. Ordered(Keys(T!Current, deadline_, 0), 0) BY DEF Ordered
<1> QED BY <1>1, <1>2, <1>5, <1>6 DEF HInv, Sorted

\* Every step keeps the invariant, and the calls do what they promise.
LEMMA HStep ==
  ASSUME HInv, [Next]_vars
  PROVE  /\ HInv'
         /\ [op'.name = "GetExpiredTimers" => DueHandedOut]_(T!vars)
         /\ [op'.name = "CancelTimer" => T!Range(heap_') = T!Range(heap_) \ {op'.id}]_(T!vars)
<1>1. CASE UNCHANGED varsT
  <2>1. HInv' BY <1>1 DEF varsT, HInv, T!Current
  <2> QED BY <1>1, <2>1 DEF varsT, T!vars
<1>2. CASE T!AddTimer BY <1>2, HAddStep
<1>3. CASE T!CancelTimer BY <1>3, HCancelStep
<1>4. CASE T!GetExpiredTimers BY <1>4, HExpireStep
<1>5. CASE T!Next BY <1>2, <1>3, <1>4, <1>5 DEF T!Next
<1> QED BY <1>1, <1>5 DEF Next, InS, InT, InL, InC, vars

\* After any number of additions, cancellations and expirations the timers are
\* a heap by deadline, and every one is at the place it remembers.
THEOREM HeapStaysConsistent == Spec => []HeapConsistent
<1>1. Init => HInv BY HInitInv DEF Init
<1>2. HInv /\ [Next]_vars => HInv' BY HStep
<1> QED BY <1>1, <1>2, HInvConsistent, PTL DEF Spec

\* GetExpiredTimers hands out exactly the timers that are due, each once, in
\* the order of their deadlines.
THEOREM ExpiresInOrder == Spec => ExpiresDueTimers
<1>1. Init => HInv BY HInitInv DEF Init
<1>2. HInv /\ [Next]_vars => HInv' BY HStep
<1>3. HInv /\ [Next]_vars => [op'.name = "GetExpiredTimers" => DueHandedOut]_(T!vars) BY HStep
<1> QED BY <1>1, <1>2, <1>3, PTL DEF Spec, ExpiresDueTimers, T!ExpiresDueTimers, DueHandedOut

\* CancelTimer takes out the timer it is given, if it is still there, and no
\* other.
THEOREM CancelsThatTimer == Spec => CancelsOnlyThat
<1>1. Init => HInv BY HInitInv DEF Init
<1>2. HInv /\ [Next]_vars => HInv' BY HStep
<1>3. HInv /\ [Next]_vars => [op'.name = "CancelTimer" => T!Range(heap_') = T!Range(heap_) \ {op'.id}]_(T!vars)
  BY HStep
<1> QED BY <1>1, <1>2, <1>3, PTL DEF Spec, CancelsOnlyThat, T!CancelsOnlyThat

-----------------------------------------------------------------------------
(* Loser tree: the tree                                                    *)
(*                                                                         *)
(* The tree over K leaves has the nodes 1..2K-1; leaf i is node i + K.  M   *)
(* is the set of lists that have climbed with a value other than INT_MIN,  *)
(* E the nodes below which all have, w[n] the list that wins the subtree of *)
(* such a node.                                                            *)

Half(n) == n \div 2

\* The match at node p between its children a and b: when a list has come from
\* one side only it waits there, before that the sentinel K does.
Duel(loser, leaf, K, E, w, p, a, b) ==
  /\ p \in E <=> a \in E /\ b \in E
  /\ a \notin E /\ b \notin E => loser[p] = K
  /\ a \in E /\ b \notin E => loser[p] = w[a]
  /\ a \notin E /\ b \in E => loser[p] = w[b]
  /\ a \in E /\ b \in E => /\ leaf[w[p]] <= leaf[loser[p]]
                           /\ (w[p] = w[a] /\ loser[p] = w[b]) \/ (w[p] = w[b] /\ loser[p] = w[a])
DuelAt(loser, leaf, K, E, w, p) == Duel(loser, leaf, K, E, w, p, 2 * p, 2 * p + 1)

\* Types, and what stands at the leaves.
Winners(leaf, K, M, E, w) ==
  /\ leaf \in [0..K -> Nat] /\ leaf[K] = 0
  /\ M \subseteq 0..(K - 1) /\ \A i \in M : leaf[i] > 0
  /\ E \subseteq 1..(2 * K - 1) /\ w \in [1..(2 * K - 1) -> 0..(K - 1)] /\ \A n \in E : w[n] \in M
  /\ \A i \in 0..(K - 1) : w[i + K] = i /\ (i + K \in E <=> i \in M)

\* No list has lost two matches.
LostOnce(loser, K) == \A p, q \in 1..(K - 1) : p # q /\ loser[p] = loser[q] => loser[p] = K
Tree(loser, leaf, K, M, E, w) ==
  /\ loser \in [0..(K - 1) -> 0..K] /\ LostOnce(loser, K) /\ Winners(leaf, K, M, E, w)
  /\ \A p \in 1..(K - 1) : DuelAt(loser, leaf, K, E, w, p)

\* The parent and the children of a node.
LEMMA HalfOf ==
  ASSUME NEW n \in Nat, n > 0
  PROVE  /\ Half(n) \in Nat /\ Half(n) < n /\ (n = 2 * Half(n) \/ n = 2 * Half(n) + 1)
         /\ \A q \in Nat : n = 2 * q \/ n = 2 * q + 1 => q = Half(n)
         /\ Half(n) = 0 <=> n = 1
BY DEF Half

\* A node other than the root is a child of an inner node.
LEMMA HalfInner ==
  ASSUME NEW K \in Nat, NEW n \in 1..(2 * K - 1), n # 1
  PROVE  Half(n) \in 1..(K - 1) /\ Half(n) < n /\ (n = 2 * Half(n) \/ n = 2 * Half(n) + 1)
<1>1. n \in Nat /\ n > 0 OBVIOUS
<1>2. Half(n) \in Nat /\ Half(n) < n /\ (n = 2 * Half(n) \/ n = 2 * Half(n) + 1) /\ (Half(n) = 0 <=> n = 1)
  BY <1>1, HalfOf
<1> QED BY <1>1, <1>2

\* c and d are the children of p.
Children(p, c, d) == (c = 2 * p /\ d = 2 * p + 1) \/ (d = 2 * p /\ c = 2 * p + 1)

\* A match that waits for a child c that nothing has come from, d being the other.
Waits(loser, K, E, w, p, d) == p \notin E /\ loser[p] = IF d \in E THEN w[d] ELSE K
LEMMA DuelWaits ==
  ASSUME NEW loser, NEW leaf, NEW K, NEW E, NEW w, NEW p \in Nat, NEW c, NEW d,
         Children(p, c, d), c \notin E
  PROVE  DuelAt(loser, leaf, K, E, w, p) <=> Waits(loser, K, E, w, p, d)
<1>1. CASE c = 2 * p /\ d = 2 * p + 1 BY <1>1 DEF DuelAt, Duel, Waits
<1>2. CASE d = 2 * p /\ c = 2 * p + 1 BY <1>2 DEF DuelAt, Duel, Waits
<1> QED BY <1>1, <1>2 DEF Children

\* The result of a match does not depend on the order of the children.
LEMMA DuelEither ==
  ASSUME NEW loser, NEW leaf, NEW K, NEW E, NEW w, NEW p \in Nat, NEW c, NEW d, Children(p, c, d)
  PROVE  DuelAt(loser, leaf, K, E, w, p) <=> Duel(loser, leaf, K, E, w, p, c, d)
<1>1. CASE c = 2 * p /\ d = 2 * p + 1 BY <1>1 DEF DuelAt, Duel
<1>2. CASE d = 2 * p /\ c = 2 * p + 1 BY <1>2 DEF DuelAt, Duel
<1> QED BY <1>1, <1>2 DEF Children

\* Who has lost a match is in the tree.
LEMMA LosersIn ==
  ASSUME NEW K \in Nat, NEW loser, NEW leaf, NEW M, NEW E, NEW w, Winners(leaf, K, M, E, w),
         NEW p \in 1..(K - 1), DuelAt(loser, leaf, K, E, w, p)
  PROVE  loser[p] \in M \cup {K}
BY DEF Winners, DuelAt, Duel

-----------------------------------------------------------------------------
(* Loser tree: a leaf climbs                                               *)

\* A list climbs and stands at node c below t.p: it has won there, and all
\* matches but the next one are in order; or the sentinel climbs, and all are.
Stands(t, leaf, K, M, E, w, c) ==
  /\ c \in 1..(2 * K - 1) /\ t.p = Half(c)
  /\ Winners(leaf, K, M, E, w)
  /\ \A q \in 1..(K - 1) : q # t.p => DuelAt(t.loser, leaf, K, E, w, q)
  /\ \/ t.s = K /\ c \notin E /\ (t.p # 0 => DuelAt(t.loser, leaf, K, E, w, t.p))
     \/ t.s # K /\ c \in E /\ w[c] = t.s /\ (t.p # 0 => Waits(t.loser, K, E, w, t.p, 4 * t.p + 1 - c))
OnTheWay(t, leaf, K, M) ==
  /\ LostOnce(t.loser, K) /\ \A q \in 1..(K - 1) : t.loser[q] = t.s => t.s = K
  /\ \E E, w, c : Stands(t, leaf, K, M, E, w, c)
ClimbMoves(leaf, K, M, p0, k) ==
  {t \in [p : Nat, s : 0..K, loser : [0..(K - 1) -> 0..K]] :
     OnTheWay(t, leaf, K, M) /\ (t.p = 0 \/ t.p <= p0 - k)}

\* A match that a node other than p and its parent plays is not touched by what
\* happens at p.
SameBut(p, E, w, E2, w2) == \A n \in Nat : n # p => (n \in E2 <=> n \in E) /\ w2[n] = w[n]
LEMMA DuelElsewhere ==
  ASSUME NEW loser, NEW loser2, NEW leaf, NEW K, NEW E, NEW w, NEW E2, NEW w2, NEW p \in Nat, NEW q \in Nat,
         q # p, p # 2 * q, p # 2 * q + 1, loser2[q] = loser[q],
         SameBut(p, E, w, E2, w2), DuelAt(loser, leaf, K, E, w, q)
  PROVE  DuelAt(loser2, leaf, K, E2, w2, q)
<1>1. /\ 2 * q \in Nat /\ 2 * q # p /\ 2 * q + 1 \in Nat /\ 2 * q + 1 # p OBVIOUS
<1>2. /\ (q \in E2 <=> q \in E) /\ (2 * q \in E2 <=> 2 * q \in E) /\ (2 * q + 1 \in E2 <=> 2 * q + 1 \in E)
      /\ w2[q] = w[q] /\ w2[2 * q] = w[2 * q] /\ w2[2 * q + 1] = w[2 * q + 1]
  BY <1>1 DEF SameBut
<1> QED BY <1>2 DEF DuelAt, Duel

\* The other child of p.
Siblings(K, p, c, d) == Children(p, c, d) /\ c # d /\ d \in 1..(2 * K - 1) /\ c # p /\ d # p
LEMMA OtherChild ==
  ASSUME NEW K \in Nat, NEW c \in 1..(2 * K - 1), NEW p \in 1..(K - 1), p = Half(c), NEW d, d = 4 * p + 1 - c
  PROVE  Siblings(K, p, c, d)
<1>1. c \in Nat /\ c > 0 OBVIOUS
<1>2. c = 2 * p \/ c = 2 * p + 1 BY <1>1, HalfOf
<1>3. (c = 2 * p /\ d = 2 * p + 1) \/ (d = 2 * p /\ c = 2 * p + 1) BY <1>2
<1> QED BY <1>3 DEF Siblings, Children

\* The winner of a match between two lists stands at p.
LEMMA MatchTwo ==
  ASSUME NEW K \in Nat, NEW leaf, NEW M, NEW t, NEW E, NEW w, NEW c, Stands(t, leaf, K, M, E, w, c),
         t.p \in 1..(K - 1), t.s # K, NEW d, d = 4 * t.p + 1 - c, d \in E,
         NEW u, u.p = Half(t.p), u.s \in {w[c], w[d]},
         u.loser[t.p] = IF u.s = w[c] THEN w[d] ELSE w[c], leaf[u.s] <= leaf[u.loser[t.p]],
         \A q \in 1..(K - 1) : q # t.p => u.loser[q] = t.loser[q]
  PROVE  \E E2, w2 : Stands(u, leaf, K, M, E2, w2, t.p)
<1> DEFINE p == t.p
           E2 == E \cup {p}
           w2 == [w EXCEPT ![p] = u.s]
<1>1. /\ c \in 1..(2 * K - 1) /\ p = Half(c) /\ Winners(leaf, K, M, E, w)
      /\ \A q \in 1..(K - 1) : q # p => DuelAt(t.loser, leaf, K, E, w, q)
      /\ c \in E /\ w[c] = t.s /\ Waits(t.loser, K, E, w, p, d)
  BY DEF Stands
<1>2. Children(p, c, d) /\ c # d /\ d \in 1..(2 * K - 1) /\ c # p /\ d # p
  <2>1. Siblings(K, p, c, d) BY <1>1, OtherChild
  <2> QED BY <2>1 DEF Siblings
<1>3. p \in 1..(2 * K - 1) /\ p \in Nat /\ p > 0 OBVIOUS
<1>4. u.s \in M /\ u.s \in 0..(K - 1) /\ u.s # K
  <2>1. w[c] \in M /\ w[d] \in M BY <1>1 DEF Winners
  <2>2. \A i \in M : i \in 0..(K - 1) BY <1>1 DEF Winners
  <2>3. u.s \in M BY <2>1
  <2> QED BY <2>2, <2>3
<1>5. w2 \in [1..(2 * K - 1) -> 0..(K - 1)] /\ w2[p] = u.s /\ \A n \in Nat : n # p => w2[n] = w[n]
  <2>1. w \in [1..(2 * K - 1) -> 0..(K - 1)] BY <1>1 DEF Winners
  <2> QED BY <1>3, <1>4, <2>1
<1>6. Winners(leaf, K, M, E2, w2)
  <2>1. \A i \in 0..(K - 1) : i + K \in Nat /\ i + K # p OBVIOUS
  <2>2. \A i \in 0..(K - 1) : w2[i + K] = i /\ (i + K \in E2 <=> i \in M) BY <1>1, <1>5, <2>1 DEF Winners
  <2>3. E2 \subseteq 1..(2 * K - 1) BY <1>1, <1>3 DEF Winners
  <2>4. \A n \in E2 : w2[n] \in M BY <1>1, <1>4, <1>5 DEF Winners
  <2> HIDE DEF E2, w2
  <2> QED BY <1>1, <1>5, <2>2, <2>3, <2>4 DEF Winners
<1>7. \A n \in Nat : n # p => (n \in E2 <=> n \in E) /\ w2[n] = w[n] BY <1>5
<1>8. p \in E2 /\ p \notin E BY <1>1 DEF Waits
<1> HIDE DEF E2, w2
<1>9. c \in Nat /\ d \in Nat BY <1>1, <1>2
<1>10. DuelAt(u.loser, leaf, K, E2, w2, p)
  <2>1. c \in E2 /\ d \in E2 /\ w2[c] = w[c] /\ w2[d] = w[d] BY <1>1, <1>2, <1>7, <1>9
  <2>2. Duel(u.loser, leaf, K, E2, w2, p, c, d)
    <3>1. leaf[w2[p]] <= leaf[u.loser[p]] BY <1>5
    <3>2. (w2[p] = w2[c] /\ u.loser[p] = w2[d]) \/ (w2[p] = w2[d] /\ u.loser[p] = w2[c]) BY <1>5, <2>1
    <3> QED BY <1>8, <2>1, <3>1, <3>2 DEF Duel
  <2> QED BY <1>2, <1>3, <2>2, DuelEither
<1>11. ASSUME NEW q \in 1..(K - 1), q # p, q # Half(p) PROVE DuelAt(u.loser, leaf, K, E2, w2, q)
  <2>1. p # 2 * q /\ p # 2 * q + 1 BY <1>3, <1>11, HalfOf
  <2>2. DuelAt(t.loser, leaf, K, E, w, q) BY <1>1, <1>11
  <2>3. u.loser[q] = t.loser[q] BY <1>11
  <2>4. q \in Nat OBVIOUS
  <2>5. SameBut(p, E, w, E2, w2) BY <1>7 DEF SameBut
  <2> QED BY <1>3, <1>11, <2>1, <2>2, <2>3, <2>4, <2>5, DuelElsewhere
<1>12. ASSUME u.p # 0 PROVE Waits(u.loser, K, E2, w2, u.p, 4 * u.p + 1 - p)
  <2>1. PICK r : r = u.p OBVIOUS
  <2>2. p # 1 BY <1>3, <1>12, HalfOf
  <2>3. r \in 1..(K - 1) /\ r # p
    <3>1. Half(p) \in 1..(K - 1) /\ Half(p) < p BY <1>3, <2>2, HalfInner
    <3> QED BY <2>1, <3>1
  <2>4. PICK g : g = 4 * r + 1 - p OBVIOUS
  <2>5. Children(r, p, g) /\ p # g /\ g \in 1..(2 * K - 1)
    <3>1. r = Half(p) BY <2>1
    <3>2. Siblings(K, r, p, g) BY <1>3, <2>3, <2>4, <3>1, OtherChild
    <3> QED BY <3>2 DEF Siblings
  <2>6. DuelAt(t.loser, leaf, K, E, w, r) BY <1>1, <2>3
  <2>7. Waits(t.loser, K, E, w, r, g) BY <1>8, <2>3, <2>5, <2>6, DuelWaits
  <2>8. r \in Nat /\ g \in Nat /\ r # p /\ g # p /\ u.loser[r] = t.loser[r] BY <2>3, <2>5
  <2> QED BY <1>7, <2>1, <2>4, <2>7, <2>8 DEF Waits
<1>13. Stands(u, leaf, K, M, E2, w2, p)
  <2>1. \A q \in 1..(K - 1) : q # u.p => DuelAt(u.loser, leaf, K, E2, w2, q) BY <1>10, <1>11
  <2> QED BY <1>3, <1>4, <1>5, <1>6, <1>8, <1>12, <2>1 DEF Stands
<1> QED BY <1>13

\* One match.
LEMMA MatchMoves ==
  ASSUME NEW K \in Nat, NEW leaf, NEW M, NEW p0 \in Nat, NEW k \in Nat, k > 0,
         NEW t \in ClimbMoves(leaf, K, M, p0, k - 1)
  PROVE  L!Match(leaf, t) \in ClimbMoves(leaf, K, M, p0, k)
<1>1. /\ t \in [p : Nat, s : 0..K, loser : [0..(K - 1) -> 0..K]] /\ (t.p = 0 \/ t.p <= p0 - (k - 1))
      /\ t.p \in Nat /\ t.s \in 0..K /\ t.loser \in [0..(K - 1) -> 0..K]
      /\ LostOnce(t.loser, K) /\ \A q \in 1..(K - 1) : t.loser[q] = t.s => t.s = K
      /\ OnTheWay(t, leaf, K, M)
  BY DEF ClimbMoves, OnTheWay
<1>2. PICK E, w, c : Stands(t, leaf, K, M, E, w, c) BY <1>1 DEF OnTheWay
<1>3. CASE t.p = 0
  <2>1. L!Match(leaf, t) = t BY <1>3 DEF L!Match
  <2> QED BY <1>1, <1>3, <2>1 DEF ClimbMoves
<1>4. CASE t.p # 0
  <2>1. PICK p : p = t.p OBVIOUS
  <2>2. /\ c \in 1..(2 * K - 1) /\ p = Half(c) /\ Winners(leaf, K, M, E, w)
        /\ \A q \in 1..(K - 1) : q # p => DuelAt(t.loser, leaf, K, E, w, q)
    BY <1>2, <2>1 DEF Stands
  <2>3. p \in 1..(K - 1)
    <3>1. c \in Nat /\ c > 0 /\ c # 1 BY <1>4, <2>1, <2>2, HalfOf
    <3> QED BY <2>2, <3>1, HalfInner
  <2>4. PICK r : r = Half(p) OBVIOUS
  <2>5. r \in Nat /\ r < p /\ r <= p0 - k
    <3>1. p \in Nat /\ p > 0 BY <2>3
    <3>2. r \in Nat /\ r < p BY <2>4, <3>1, HalfOf
    <3>3. p <= p0 - (k - 1) BY <1>1, <1>4, <2>1
    <3> QED BY <3>1, <3>2, <3>3
  <2>6. L!Match(leaf, t) = IF leaf[t.s] > leaf[t.loser[p]]
                            THEN [p |-> r, s |-> t.loser[p], loser |-> [t.loser EXCEPT ![p] = t.s]]
                            ELSE [p |-> r, s |-> t.s, loser |-> t.loser]
    BY <1>4, <2>1, <2>4 DEF L!Match, L!Climbing, Half
  <2>7. leaf[K] = 0 /\ leaf \in [0..K -> Nat] /\ M \subseteq 0..(K - 1) /\ \A i \in M : leaf[i] > 0
    BY <2>2 DEF Winners
  <2>8. p \in 0..(K - 1) /\ t.loser[p] \in 0..K BY <1>1, <2>3
  <2>9. PICK d : d = 4 * p + 1 - c OBVIOUS
  <2>10. Children(p, c, d) /\ c # d /\ d \in 1..(2 * K - 1) /\ c # p /\ d # p
    <3>1. Siblings(K, p, c, d) BY <2>2, <2>3, <2>9, OtherChild
    <3> QED BY <3>1 DEF Siblings
  <2>11. CASE t.s = K
    <3>1. leaf[t.loser[p]] \in Nat BY <2>7, <2>8
    <3>2. PICK u : u = [p |-> r, s |-> t.s, loser |-> t.loser] OBVIOUS
    <3>3. L!Match(leaf, t) = u BY <2>6, <2>7, <2>11, <3>1, <3>2
    <3>4. c \notin E /\ DuelAt(t.loser, leaf, K, E, w, p) BY <1>2, <1>4, <2>1, <2>11 DEF Stands
    <3>5. p \notin E
      <4>1. p \in Nat BY <2>3
      <4>2. Waits(t.loser, K, E, w, p, d) BY <2>10, <3>4, <4>1, DuelWaits
      <4> QED BY <4>2 DEF Waits
    <3>6. u.p # 0 => DuelAt(u.loser, leaf, K, E, w, u.p)
      <4>1. u.p # 0 => u.p \in 1..(K - 1) /\ u.p # p BY <2>3, <2>5, <3>2
      <4> QED BY <2>2, <3>2, <4>1
    <3>7. p \in 1..(2 * K - 1) /\ \A q \in 1..(K - 1) : DuelAt(u.loser, leaf, K, E, w, q) BY <2>2, <2>3, <3>2, <3>4
    <3>8. Stands(u, leaf, K, M, E, w, p) BY <2>2, <2>4, <2>11, <3>2, <3>5, <3>6, <3>7 DEF Stands
    <3>9. OnTheWay(u, leaf, K, M) BY <1>1, <3>2, <3>8 DEF OnTheWay
    <3> QED BY <1>1, <2>5, <3>2, <3>3, <3>9 DEF ClimbMoves
  <2>12. CASE t.s # K
    <3>1. c \in E /\ w[c] = t.s /\ Waits(t.loser, K, E, w, p, d) BY <1>2, <1>4, <2>1, <2>9, <2>12 DEF Stands
    <3>2. t.s \in M /\ leaf[t.s] > 0 /\ t.s \in 0..(K - 1) BY <2>2, <2>7, <3>1 DEF Winners
    <3>3. LostOnce([t.loser EXCEPT ![p] = t.s], K)
      <4>1. PICK l : l = [t.loser EXCEPT ![p] = t.s] OBVIOUS
      <4>2. l[p] = t.s /\ \A q \in 1..(K - 1) : q # p => l[q] = t.loser[q] BY <1>1, <2>8, <4>1
      <4>3. \A q \in 1..(K - 1) : t.loser[q] # t.s BY <1>1, <2>12
      <4>4. LostOnce(l, K) BY <1>1, <4>2, <4>3 DEF LostOnce
      <4> QED BY <4>1, <4>4
    <3>4. CASE d \notin E
      <4>1. t.loser[p] = K BY <3>1, <3>4 DEF Waits
      <4>2. PICK u : u = [p |-> r, s |-> K, loser |-> [t.loser EXCEPT ![p] = t.s]] OBVIOUS
      <4>3. L!Match(leaf, t) = u BY <2>6, <2>7, <3>2, <4>1, <4>2
      <4>4. u.loser[p] = t.s /\ \A q \in 1..(K - 1) : q # p => u.loser[q] = t.loser[q] BY <1>1, <2>8, <4>2
      <4>5. p \notin E BY <3>1 DEF Waits
      <4>6. DuelAt(u.loser, leaf, K, E, w, p)
        <5>1. Duel(u.loser, leaf, K, E, w, p, c, d) BY <3>1, <3>4, <4>4, <4>5 DEF Duel
        <5>2. p \in Nat BY <2>3
        <5> QED BY <2>10, <5>1, <5>2, DuelEither
      <4>7. ASSUME NEW q \in 1..(K - 1) PROVE DuelAt(u.loser, leaf, K, E, w, q)
        <5>1. CASE q = p BY <4>6, <5>1
        <5>2. CASE q # p
          <6>1. DuelAt(t.loser, leaf, K, E, w, q) /\ u.loser[q] = t.loser[q] BY <2>2, <4>4, <5>2
          <6> QED BY <6>1 DEF DuelAt, Duel
        <5> QED BY <5>1, <5>2
      <4>8. p \in 1..(2 * K - 1) /\ (u.p # 0 => DuelAt(u.loser, leaf, K, E, w, u.p)) BY <2>3, <2>5, <4>2, <4>7
      <4>9. Stands(u, leaf, K, M, E, w, p) BY <2>2, <2>4, <4>2, <4>5, <4>7, <4>8 DEF Stands
      <4>10. OnTheWay(u, leaf, K, M) BY <3>3, <4>2, <4>9 DEF OnTheWay
      <4>11. u \in [p : Nat, s : 0..K, loser : [0..(K - 1) -> 0..K]]
        <5>0. K \in 0..K OBVIOUS
        <5>1. [t.loser EXCEPT ![p] = t.s] \in [0..(K - 1) -> 0..K] BY <1>1
        <5> QED BY <2>5, <4>2, <5>0, <5>1
      <4> QED BY <2>5, <4>2, <4>3, <4>10, <4>11 DEF ClimbMoves
    <3>5. CASE d \in E
      <4>1. t.loser[p] = w[d] BY <3>1, <3>5 DEF Waits
      <4>2. w[d] \in M /\ w[d] \in 0..(K - 1) /\ w[d] # K
        <5>1. w[d] \in M BY <2>2, <3>5 DEF Winners
        <5>2. w[d] \in 0..(K - 1) BY <2>7, <5>1
        <5> QED BY <5>1, <5>2
      <4>3. leaf[w[c]] \in Nat /\ leaf[w[d]] \in Nat /\ w[c] \in 0..K /\ w[d] \in 0..K BY <2>7, <3>1, <3>2, <4>2
      <4>4. PICK u : u = L!Match(leaf, t) OBVIOUS
      <4>5. CASE leaf[t.s] > leaf[w[d]]
        <5>1. u = [p |-> r, s |-> w[d], loser |-> [t.loser EXCEPT ![p] = t.s]] BY <2>6, <4>1, <4>4, <4>5
        <5>2. u.loser[p] = t.s /\ \A q \in 1..(K - 1) : q # p => u.loser[q] = t.loser[q] BY <1>1, <2>8, <5>1
        <5>3. u.s = w[d] /\ u.p = r /\ w[d] # w[c] BY <3>1, <4>3, <4>5, <5>1
        <5>4. leaf[u.s] <= leaf[u.loser[p]] BY <3>1, <4>3, <4>5, <5>2, <5>3
        <5>5. \E E2, w2 : Stands(u, leaf, K, M, E2, w2, p)
          <6>1. u.loser[p] = IF u.s = w[c] THEN w[d] ELSE w[c] BY <3>1, <5>2, <5>3
          <6>2. /\ t.p \in 1..(K - 1) /\ d = 4 * t.p + 1 - c /\ u.p = Half(t.p) /\ u.s \in {w[c], w[d]}
                /\ u.loser[t.p] = IF u.s = w[c] THEN w[d] ELSE w[c]
                /\ leaf[u.s] <= leaf[u.loser[t.p]]
                /\ \A q \in 1..(K - 1) : q # t.p => u.loser[q] = t.loser[q]
            BY <2>1, <2>3, <2>4, <2>9, <5>2, <5>3, <5>4, <6>1
          <6>3. \E E2, w2 : Stands(u, leaf, K, M, E2, w2, t.p) BY <1>2, <2>12, <3>5, <6>2, MatchTwo
          <6> QED BY <2>1, <6>3
        <5>6. \A q \in 1..(K - 1) : u.loser[q] = u.s => u.s = K
          <6> SUFFICES ASSUME NEW q \in 1..(K - 1), u.loser[q] = u.s PROVE FALSE OBVIOUS
          <6>1. q # p BY <3>1, <5>2, <5>3
          <6>2. t.loser[q] = t.loser[p] BY <4>1, <5>2, <5>3, <6>1
          <6> QED BY <1>1, <2>3, <4>1, <4>2, <6>1, <6>2 DEF LostOnce
        <5>7. OnTheWay(u, leaf, K, M) BY <3>3, <5>1, <5>5, <5>6 DEF OnTheWay
        <5>8. u \in [p : Nat, s : 0..K, loser : [0..(K - 1) -> 0..K]] BY <1>1, <2>5, <4>3, <5>1
        <5> QED BY <2>5, <4>4, <5>3, <5>7, <5>8 DEF ClimbMoves
      <4>6. CASE ~(leaf[t.s] > leaf[w[d]])
        <5>1. u = [p |-> r, s |-> t.s, loser |-> t.loser] BY <2>6, <4>1, <4>4, <4>6
        <5>2. u.s = w[c] /\ u.p = r /\ u.loser = t.loser BY <3>1, <5>1
        <5>3. leaf[u.s] <= leaf[u.loser[p]] BY <3>1, <4>1, <4>3, <4>6, <5>2
        <5>4. \E E2, w2 : Stands(u, leaf, K, M, E2, w2, p)
          <6>1. u.loser[p] = IF u.s = w[c] THEN w[d] ELSE w[c] BY <4>1, <5>2
          <6>2. \A q \in 1..(K - 1) : q # p => u.loser[q] = t.loser[q] BY <5>2
          <6> QED BY <1>2, <2>1, <2>3, <2>4, <2>9, <2>12, <3>5, <5>2, <5>3, <6>1, <6>2, MatchTwo
        <5>5. OnTheWay(u, leaf, K, M) BY <1>1, <5>1, <5>4 DEF OnTheWay
        <5>6. u \in [p : Nat, s : 0..K, loser : [0..(K - 1) -> 0..K]] BY <1>1, <2>5, <5>1
        <5> QED BY <2>5, <4>4, <5>2, <5>5, <5>6 DEF ClimbMoves
      <4> QED BY <4>5, <4>6
    <3> QED BY <3>4, <3>5
  <2> QED BY <2>11, <2>12
<1> QED BY <1>3, <1>4

\* Before the first match of a list that is not in the tree.
LEMMA ClimbBegins ==
  ASSUME NEW K \in Nat, NEW leaf, NEW loser, NEW M, NEW E, NEW w, Tree(loser, leaf, K, M, E, w),
         NEW s \in 0..(K - 1), s \notin M, leaf[s] > 0
  PROVE  [p |-> (s + K) \div 2, s |-> s, loser |-> loser] \in ClimbMoves(leaf, K, M \cup {s}, (s + K) \div 2, 0)
<1>1. PICK c : c = s + K OBVIOUS
<1>2. c \in 1..(2 * K - 1) /\ c \in Nat /\ c > 0 BY <1>1
<1>3. PICK t : t = [p |-> Half(c), s |-> s, loser |-> loser] OBVIOUS
<1>4. /\ loser \in [0..(K - 1) -> 0..K] /\ LostOnce(loser, K) /\ Winners(leaf, K, M, E, w)
      /\ \A p \in 1..(K - 1) : DuelAt(loser, leaf, K, E, w, p)
  BY DEF Tree
<1>5. PICK E2, M2 : E2 = E \cup {c} /\ M2 = M \cup {s} OBVIOUS
<1>6. c \notin E /\ w[c] = s BY <1>1, <1>4 DEF Winners
<1>7. Winners(leaf, K, M2, E2, w)
  <2>1. M2 \subseteq 0..(K - 1) /\ \A i \in M2 : leaf[i] > 0 BY <1>4, <1>5 DEF Winners
  <2>2. E2 \subseteq 1..(2 * K - 1) BY <1>2, <1>4, <1>5 DEF Winners
  <2>3. \A n \in E2 : w[n] \in M2 BY <1>4, <1>5, <1>6 DEF Winners
  <2>4. \A i \in 0..(K - 1) : i + K = c <=> i = s BY <1>1
  <2>5. \A i \in 0..(K - 1) : w[i + K] = i /\ (i + K \in E2 <=> i \in M2) BY <1>4, <1>5, <2>4 DEF Winners
  <2> QED BY <1>4, <2>1, <2>2, <2>3, <2>5 DEF Winners
<1>8. SameBut(c, E, w, E2, w) BY <1>5 DEF SameBut
<1>9. ASSUME NEW q \in 1..(K - 1), q # Half(c) PROVE DuelAt(loser, leaf, K, E2, w, q)
  <2>1. q \in Nat /\ q # c /\ c # 2 * q /\ c # 2 * q + 1 BY <1>1, <1>2, <1>9, HalfOf
  <2>2. DuelAt(loser, leaf, K, E, w, q) BY <1>4
  <2> QED BY <1>2, <1>8, <2>1, <2>2, DuelElsewhere
<1>10. ASSUME Half(c) # 0 PROVE Waits(loser, K, E2, w, Half(c), 4 * Half(c) + 1 - c)
  <2>1. PICK p, d : p = Half(c) /\ d = 4 * Half(c) + 1 - c OBVIOUS
  <2>2. c # 1 BY <1>2, <1>10, HalfOf
  <2>3. p \in 1..(K - 1) /\ p \in Nat BY <1>2, <2>1, <2>2, HalfInner
  <2>4. Siblings(K, p, c, d) BY <1>2, <2>1, <2>3, OtherChild
  <2>5. Children(p, c, d) /\ c # d /\ c # p BY <2>4 DEF Siblings
  <2>6. Waits(loser, K, E, w, p, d) BY <1>4, <1>6, <2>3, <2>5, DuelWaits
  <2> QED BY <1>5, <2>1, <2>5, <2>6 DEF Waits
<1>11. s # K OBVIOUS
<1>12. Stands(t, leaf, K, M2, E2, w, c)
  <2>1. c \in E2 BY <1>5
  <2>2. t.p = Half(c) /\ t.s = s /\ t.loser = loser BY <1>3
  <2> QED BY <1>2, <1>6, <1>7, <1>9, <1>10, <1>11, <2>1, <2>2 DEF Stands
<1>13. \A q \in 1..(K - 1) : loser[q] # s
  <2>1. \A q \in 1..(K - 1) : loser[q] \in M \cup {K} BY <1>4, LosersIn
  <2> QED BY <1>11, <2>1
<1>14. OnTheWay(t, leaf, K, M2) BY <1>3, <1>4, <1>12, <1>13 DEF OnTheWay
<1>15. Half(c) \in Nat BY <1>2, HalfOf
<1>16. t \in [p : Nat, s : 0..K, loser : [0..(K - 1) -> 0..K]] BY <1>3, <1>4, <1>15
<1>17. t \in ClimbMoves(leaf, K, M2, Half(c), 0) BY <1>3, <1>14, <1>15, <1>16 DEF ClimbMoves
<1> QED BY <1>1, <1>3, <1>5, <1>17 DEF Half

\* The winner of all is on top, or the sentinel when a list is missing.
Top0(loser, K, E, w) == loser[0] = IF 1 \in E THEN w[1] ELSE K
Grown(loser, leaf, K, M) ==
  /\ \E E, w : Tree(loser, leaf, K, M, E, w) /\ Top0(loser, K, E, w)
  /\ \A q \in 1..(K - 1) : loser[q] = loser[0] => loser[0] = K

\* A list that is not in the tree climbs: it is in it.
LEMMA AdjustGrows ==
  ASSUME NEW K \in Nat, K = L!kWays, NEW leaf, NEW loser, NEW M, NEW E0, NEW w0, Tree(loser, leaf, K, M, E0, w0),
         NEW s \in 0..(K - 1), s \notin M, leaf[s] > 0
  PROVE  Grown(L!Adjust(leaf, loser, s), leaf, K, M \cup {s})
<1> DEFINE p0 == (s + K) \div 2
           t == [p |-> p0, s |-> s, loser |-> loser]
           G == [k \in 0..K |-> ClimbMoves(leaf, K, M \cup {s}, p0, k)]
           F == [u \in UNION {G[k] : k \in 0..K} |-> L!Match(leaf, u)]
           Runs(f) == f = [k \in 0..K |-> IF k = 0 THEN t ELSE L!Match(leaf, f[k - 1])]
<1>0. p0 \in Nat /\ p0 < K OBVIOUS
<1>1. t \in G[0]
  <2>1. t \in ClimbMoves(leaf, K, M \cup {s}, p0, 0) BY ClimbBegins
  <2> QED BY <2>1
<1>2. \A k \in 1..K : \A u \in G[k - 1] : F[u] = L!Match(leaf, u) /\ F[u] \in G[k]
  <2> SUFFICES ASSUME NEW k \in 1..K, NEW u \in G[k - 1] PROVE F[u] = L!Match(leaf, u) /\ F[u] \in G[k]
    OBVIOUS
  <2>1. F[u] = L!Match(leaf, u) OBVIOUS
  <2>2. k \in Nat /\ k > 0 /\ u \in ClimbMoves(leaf, K, M \cup {s}, p0, k - 1) OBVIOUS
  <2>3. L!Match(leaf, u) \in ClimbMoves(leaf, K, M \cup {s}, p0, k) BY <1>0, <2>2, MatchMoves
  <2>4. G[k] = ClimbMoves(leaf, K, M \cup {s}, p0, k) OBVIOUS
  <2> HIDE DEF G, F
  <2> QED BY <2>1, <2>3, <2>4
<1> HIDE DEF G, F
<1>3. PICK g : g = [k \in 0..K |-> IF k = 0 THEN t ELSE F[g[k - 1]]] /\ \A k \in 0..K : g[k] \in G[k]
  <2> HIDE DEF t
  <2>1. \A k \in 1..K : \A u \in G[k - 1] : F[u] \in G[k] BY <1>2
  <2>2. \E g : LoopRuns(g, K, t, F, G) BY <1>1, <2>1, LoopExists
  <2> QED BY <2>2 DEF LoopRuns
<1>4. Runs(g)
  <2> HIDE DEF t
  <2>1. ASSUME NEW k \in 1..K PROVE F[g[k - 1]] = L!Match(leaf, g[k - 1])
    <3>1. k - 1 \in 0..K OBVIOUS
    <3>2. g[k - 1] \in G[k - 1] BY <1>3, <3>1
    <3> QED BY <1>2, <3>2
  <2>2. ASSUME NEW k \in 0..K PROVE g[k] = IF k = 0 THEN t ELSE L!Match(leaf, g[k - 1])
    <3>1. g[k] = IF k = 0 THEN t ELSE F[g[k - 1]] BY <1>3
    <3>2. CASE k = 0 BY <3>1, <3>2
    <3>3. CASE k # 0
      <4>1. k \in 1..K BY <3>3
      <4> QED BY <2>1, <3>1, <3>3, <4>1
    <3> QED BY <3>2, <3>3
  <2>3. g = [k \in 0..K |-> g[k]] BY <1>3
  <2> QED BY <2>2, <2>3
<1>5. PICK f : f = (CHOOSE x : Runs(x)) OBVIOUS
<1>6. Runs(f)
  <2> HIDE DEF Runs
  <2> QED BY <1>4, <1>5
<1>7. L!Adjust(leaf, loser, s) = [f[K].loser EXCEPT ![0] = f[K].s] BY <1>5 DEF L!Adjust, L!Loop, L!Climbing
<1> HIDE DEF t
<1>8. \A k \in 0..K : f[k] \in G[k]
  <2> DEFINE P == {k \in 0..K : f[k] \in G[k]}
  <2>1. 0 \in P BY <1>1, <1>6
  <2>2. ASSUME NEW k \in 1..K, k - 1 \in P PROVE k \in P
    <3>1. f[k] = L!Match(leaf, f[k - 1]) BY <1>6
    <3>2. f[k - 1] \in G[k - 1] BY <2>2
    <3>3. L!Match(leaf, f[k - 1]) \in G[k] BY <1>2, <3>2
    <3> QED BY <3>1, <3>3
  <2> HIDE DEF P
  <2>3. \A k \in 0..K : k \in P BY <2>1, <2>2, UpTo
  <2> QED BY <2>3 DEF P
<1> HIDE DEF p0
<1>9. f[K] \in ClimbMoves(leaf, K, M \cup {s}, p0, K) BY <1>8 DEF G
<1>10. PICK u, M2 : u = f[K] /\ M2 = M \cup {s} OBVIOUS
<1>11. /\ u.loser \in [0..(K - 1) -> 0..K] /\ u.s \in 0..K /\ u.p = 0
       /\ LostOnce(u.loser, K) /\ \A q \in 1..(K - 1) : u.loser[q] = u.s => u.s = K
       /\ \E E, w, c : Stands(u, leaf, K, M2, E, w, c)
  <2>1. u \in ClimbMoves(leaf, K, M2, p0, K) BY <1>9, <1>10
  <2>2. /\ u \in [p : Nat, s : 0..K, loser : [0..(K - 1) -> 0..K]] /\ OnTheWay(u, leaf, K, M2)
        /\ (u.p = 0 \/ u.p <= p0 - K)
    BY <2>1 DEF ClimbMoves
  <2>3. u.p \in Nat /\ u.loser \in [0..(K - 1) -> 0..K] /\ u.s \in 0..K BY <2>2
  <2>4. u.p = 0 BY <1>0, <2>2, <2>3
  <2> QED BY <2>2, <2>3, <2>4 DEF OnTheWay
<1>12. PICK E, w, c : Stands(u, leaf, K, M2, E, w, c) BY <1>11
<1>13. c = 1
  <2>1. c \in Nat /\ c > 0 /\ Half(c) = 0 BY <1>11, <1>12 DEF Stands
  <2> QED BY <2>1, HalfOf
<1>14. PICK A : A = [u.loser EXCEPT ![0] = u.s] OBVIOUS
<1>15. 0 \in 0..(K - 1) OBVIOUS
<1>16. /\ A \in [0..(K - 1) -> 0..K] /\ A[0] = u.s /\ \A q \in 1..(K - 1) : A[q] = u.loser[q]
  BY <1>11, <1>14, <1>15
<1>17. ASSUME NEW q \in 1..(K - 1) PROVE DuelAt(A, leaf, K, E, w, q)
  <2>1. DuelAt(u.loser, leaf, K, E, w, q) /\ A[q] = u.loser[q] BY <1>11, <1>12, <1>16 DEF Stands
  <2> QED BY <2>1 DEF DuelAt, Duel
<1>18. Tree(A, leaf, K, M2, E, w)
  <2>1. Winners(leaf, K, M2, E, w) BY <1>12 DEF Stands
  <2>2. LostOnce(A, K)
    <3> SUFFICES ASSUME NEW p \in 1..(K - 1), NEW q \in 1..(K - 1), p # q, A[p] = A[q] PROVE A[p] = K
      BY DEF LostOnce
    <3>1. A[p] = u.loser[p] /\ A[q] = u.loser[q] BY <1>16
    <3> QED BY <1>11, <3>1 DEF LostOnce
  <2> QED BY <1>16, <1>17, <2>1, <2>2 DEF Tree
<1>19. Top0(A, K, E, w) BY <1>12, <1>13, <1>16 DEF Top0, Stands
<1>20. Grown(A, leaf, K, M2) BY <1>11, <1>16, <1>18, <1>19 DEF Grown
<1> QED BY <1>7, <1>10, <1>14, <1>20

\* A list that begins with INT_MIN wins all matches and leaves no trace.
Passed(result, loser, s) == result = [loser EXCEPT ![0] = s]
LEMMA AdjustPasses ==
  ASSUME NEW K \in Nat, K = L!kWays, NEW leaf \in [0..K -> Nat], NEW loser \in [0..(K - 1) -> 0..K],
         NEW s \in 0..(K - 1), leaf[s] = 0
  PROVE  Passed(L!Adjust(leaf, loser, s), loser, s)
<1> DEFINE p0 == (s + K) \div 2
           t == [p |-> p0, s |-> s, loser |-> loser]
           G == [k \in 0..K |-> {[p |-> p, s |-> s, loser |-> loser] : p \in 0..(K - 1)}]
           F == [u \in UNION {G[k] : k \in 0..K} |-> L!Match(leaf, u)]
           Runs(f) == f = [k \in 0..K |-> IF k = 0 THEN t ELSE L!Match(leaf, f[k - 1])]
<1>0. p0 \in 0..(K - 1) OBVIOUS
<1>1. t \in G[0] BY <1>0
<1>2. \A k \in 1..K : \A u \in G[k - 1] : F[u] = L!Match(leaf, u) /\ F[u] \in G[k]
  <2> SUFFICES ASSUME NEW k \in 1..K, NEW u \in G[k - 1] PROVE F[u] = L!Match(leaf, u) /\ F[u] \in G[k]
    OBVIOUS
  <2>0. k - 1 \in 0..K OBVIOUS
  <2>1. F[u] = L!Match(leaf, u)
    <3>1. u \in UNION {G[j] : j \in 0..K} BY <2>0
    <3> HIDE DEF G
    <3> QED BY <3>1
  <2>2. PICK p \in 0..(K - 1) : u = [p |-> p, s |-> s, loser |-> loser] OBVIOUS
  <2>3. loser[p] \in 0..K /\ leaf[loser[p]] \in Nat OBVIOUS
  <2>4. L!Match(leaf, u) = IF p = 0 THEN u ELSE [p |-> Half(p), s |-> s, loser |-> loser]
    BY <2>2, <2>3 DEF L!Match, L!Climbing, Half
  <2>5. p # 0 => Half(p) \in 0..(K - 1)
    <3> SUFFICES ASSUME p # 0 PROVE Half(p) \in 0..(K - 1) OBVIOUS
    <3>1. p \in Nat /\ p > 0 OBVIOUS
    <3>2. Half(p) \in Nat /\ Half(p) < p BY <3>1, HalfOf
    <3> QED BY <3>2
  <2>6. L!Match(leaf, u) \in {[p |-> q, s |-> s, loser |-> loser] : q \in 0..(K - 1)} BY <2>2, <2>4, <2>5
  <2>7. G[k] = {[p |-> q, s |-> s, loser |-> loser] : q \in 0..(K - 1)}
    <3>1. k \in 0..K OBVIOUS
    <3> HIDE DEF F, t
    <3> QED BY <3>1
  <2> HIDE DEF G, F
  <2> QED BY <2>1, <2>6, <2>7
<1> HIDE DEF G, F
<1>3. PICK g : g = [k \in 0..K |-> IF k = 0 THEN t ELSE F[g[k - 1]]] /\ \A k \in 0..K : g[k] \in G[k]
  <2> HIDE DEF t
  <2>1. \A k \in 1..K : \A u \in G[k - 1] : F[u] \in G[k] BY <1>2
  <2>2. \E g : LoopRuns(g, K, t, F, G) BY <1>1, <2>1, LoopExists
  <2> QED BY <2>2 DEF LoopRuns
<1>4. Runs(g)
  <2> HIDE DEF t
  <2>1. ASSUME NEW k \in 1..K PROVE F[g[k - 1]] = L!Match(leaf, g[k - 1])
    <3>1. k - 1 \in 0..K OBVIOUS
    <3>2. g[k - 1] \in G[k - 1] BY <1>3, <3>1
    <3> QED BY <1>2, <3>2
  <2>2. ASSUME NEW k \in 0..K PROVE g[k] = IF k = 0 THEN t ELSE L!Match(leaf, g[k - 1])
    <3>1. g[k] = IF k = 0 THEN t ELSE F[g[k - 1]] BY <1>3
    <3>2. CASE k = 0 BY <3>1, <3>2
    <3>3. CASE k # 0
      <4>1. k \in 1..K BY <3>3
      <4> QED BY <2>1, <3>1, <3>3, <4>1
    <3> QED BY <3>2, <3>3
  <2>3. g = [k \in 0..K |-> g[k]] BY <1>3
  <2> QED BY <2>2, <2>3
<1>5. PICK f : f = (CHOOSE x : Runs(x)) OBVIOUS
<1>6. Runs(f)
  <2> HIDE DEF Runs
  <2> QED BY <1>4, <1>5
<1>7. L!Adjust(leaf, loser, s) = [f[K].loser EXCEPT ![0] = f[K].s] BY <1>5 DEF L!Adjust, L!Loop, L!Climbing
<1> HIDE DEF t
<1>8. \A k \in 0..K : f[k] \in G[k]
  <2> DEFINE P == {k \in 0..K : f[k] \in G[k]}
  <2>1. 0 \in P BY <1>1, <1>6
  <2>2. ASSUME NEW k \in 1..K, k - 1 \in P PROVE k \in P
    <3>0. k \in 0..K /\ k # 0 OBVIOUS
    <3>1. f[k] = L!Match(leaf, f[k - 1])
      <4>1. f[k] = IF k = 0 THEN t ELSE L!Match(leaf, f[k - 1]) BY <1>6, <3>0
      <4> QED BY <3>0, <4>1
    <3>2. f[k - 1] \in G[k - 1] BY <2>2
    <3>3. L!Match(leaf, f[k - 1]) \in G[k] BY <1>2, <3>2
    <3> QED BY <3>1, <3>3
  <2> HIDE DEF P
  <2>3. \A k \in 0..K : k \in P BY <2>1, <2>2, UpTo
  <2> QED BY <2>3 DEF P
<1>9. PICK p \in 0..(K - 1) : f[K] = [p |-> p, s |-> s, loser |-> loser]
  <2>1. K \in 0..K OBVIOUS
  <2>2. f[K] \in G[K] BY <1>8, <2>1
  <2>3. G[K] = {[p |-> q, s |-> s, loser |-> loser] : q \in 0..(K - 1)} BY <2>1 DEF G
  <2> QED BY <2>2, <2>3
<1> QED BY <1>7, <1>9 DEF Passed

-----------------------------------------------------------------------------
(* Loser tree: the whole tree                                              *)

\* When all lists are in the tree, all matches have been played.
LEMMA AllIn ==
  ASSUME NEW K \in Nat, NEW loser, NEW leaf, NEW E, NEW w, Tree(loser, leaf, K, 0..(K - 1), E, w)
  PROVE  \A n \in 1..(2 * K - 1) : n \in E
<1> SUFFICES ASSUME \E n \in 1..(2 * K - 1) : n \notin E PROVE FALSE OBVIOUS
<1> DEFINE P == {m \in Nat : 2 * K - m \in 1..(2 * K - 1) /\ 2 * K - m \notin E}
<1>1. P \subseteq Nat /\ P # {}
  <2>1. PICK n \in 1..(2 * K - 1) : n \notin E OBVIOUS
  <2>2. PICK m : m = 2 * K - n OBVIOUS
  <2>3. m \in Nat /\ 2 * K - m = n BY <2>2
  <2>4. m \in P BY <2>1, <2>3
  <2> QED BY <2>4
<1>2. PICK m \in P : \A k \in P : m <= k
  <2> HIDE DEF P
  <2> QED BY <1>1, LeastNat
<1>3. PICK n : n = 2 * K - m OBVIOUS
<1>4. n \in 1..(2 * K - 1) /\ n \notin E /\ m \in Nat BY <1>2, <1>3
<1>5. ASSUME NEW j \in 1..(2 * K - 1), j > n PROVE j \in E
  <2>1. PICK k : k = 2 * K - j OBVIOUS
  <2>2. k \in Nat /\ 2 * K - k = j /\ ~(m <= k) BY <1>3, <1>4, <1>5, <2>1
  <2>3. k \notin P BY <1>2, <2>2
  <2> QED BY <2>2, <2>3
<1>6. CASE n >= K
  <2>1. PICK i : i = n - K OBVIOUS
  <2>2. i \in 0..(K - 1) /\ i + K = n BY <1>4, <1>6, <2>1
  <2>3. \A x \in 0..(K - 1) : x + K \in E <=> x \in 0..(K - 1) BY DEF Tree, Winners
  <2> QED BY <1>4, <2>2, <2>3
<1>7. CASE n < K
  <2>1. /\ n \in 1..(K - 1) /\ 2 * n \in 1..(2 * K - 1) /\ 2 * n > n
        /\ 2 * n + 1 \in 1..(2 * K - 1) /\ 2 * n + 1 > n
    BY <1>4, <1>7
  <2>2. 2 * n \in E /\ 2 * n + 1 \in E BY <1>5, <2>1
  <2>3. DuelAt(loser, leaf, K, E, w, n) BY <2>1 DEF Tree
  <2> QED BY <1>4, <2>2, <2>3 DEF DuelAt, Duel
<1> QED BY <1>4, <1>6, <1>7

\* When one is missing, so is the winner of all.
LEMMA SomeOut ==
  ASSUME NEW K \in Nat, NEW loser, NEW leaf, NEW M, NEW E, NEW w, Tree(loser, leaf, K, M, E, w),
         NEW i \in 0..(K - 1), i \notin M
  PROVE  1 \notin E
<1> DEFINE P == {n \in 1..(2 * K - 1) : n \notin E}
<1>1. P \subseteq Nat /\ P # {}
  <2>1. i + K \in 1..(2 * K - 1) /\ i + K \notin E BY DEF Tree, Winners
  <2> QED BY <2>1
<1>2. PICK n \in P : \A k \in P : n <= k
  <2> HIDE DEF P
  <2> QED BY <1>1, LeastNat
<1>3. n \in 1..(2 * K - 1) /\ n \notin E BY <1>2
<1>4. CASE n = 1 BY <1>3, <1>4
<1>5. CASE n # 1
  <2>1. PICK p : p = Half(n) OBVIOUS
  <2>2. p \in 1..(K - 1) /\ p < n /\ (n = 2 * p \/ n = 2 * p + 1) BY <1>3, <1>5, <2>1, HalfInner
  <2>3. p \in 1..(2 * K - 1) /\ ~(n <= p) BY <1>3, <2>2
  <2>4. p \in E BY <1>2, <2>3
  <2>5. DuelAt(loser, leaf, K, E, w, p) BY <2>2 DEF Tree
  <2> QED BY <1>3, <2>2, <2>4, <2>5 DEF DuelAt, Duel
<1> QED BY <1>4, <1>5

\* The winner of all has the least value.
LEMMA LeastWins ==
  ASSUME NEW K \in Nat, NEW loser, NEW leaf, NEW M, NEW E, NEW w, Tree(loser, leaf, K, M, E, w),
         \A n \in 1..(2 * K - 1) : n \in E
  PROVE  \A i \in 0..(K - 1) : leaf[w[1]] <= leaf[i]
<1> DEFINE P == {n \in 1..(2 * K - 1) : ~(leaf[w[1]] <= leaf[w[n]])}
<1>1. leaf \in [0..K -> Nat] /\ w \in [1..(2 * K - 1) -> 0..(K - 1)] BY DEF Tree, Winners
<1>2. \A n \in 1..(2 * K - 1) : w[n] \in 0..(K - 1) /\ leaf[w[n]] \in Nat
  <2>1. \A x \in 0..(K - 1) : leaf[x] \in Nat BY <1>1
  <2> QED BY <1>1, <2>1
<1>3. P = {}
  <2> SUFFICES ASSUME P # {} PROVE FALSE OBVIOUS
  <2>1. P \subseteq Nat OBVIOUS
  <2>2. PICK n \in P : \A k \in P : n <= k
    <3> HIDE DEF P
    <3> QED BY <2>1, LeastNat
  <2>3. n \in 1..(2 * K - 1) /\ ~(leaf[w[1]] <= leaf[w[n]]) BY <2>2
  <2>4. 1 \in 1..(2 * K - 1) BY <2>3
  <2>5. n # 1 BY <1>2, <2>3, <2>4
  <2>6. PICK p : p = Half(n) OBVIOUS
  <2>7. p \in 1..(K - 1) /\ p < n /\ (n = 2 * p \/ n = 2 * p + 1) BY <2>3, <2>5, <2>6, HalfInner
  <2>8. p \in 1..(2 * K - 1) /\ ~(n <= p) BY <2>3, <2>7
  <2>9. leaf[w[1]] <= leaf[w[p]] BY <2>2, <2>8
  <2>10. DuelAt(loser, leaf, K, E, w, p) BY <2>7 DEF Tree
  <2>11. 2 * p \in E /\ 2 * p + 1 \in E
    <3>1. 2 * p \in 1..(2 * K - 1) /\ 2 * p + 1 \in 1..(2 * K - 1) BY <2>7
    <3> QED BY <3>1
  <2>12. leaf[w[p]] <= leaf[w[n]]
    <3>1. leaf[w[p]] \in Nat BY <1>2, <2>8
    <3>2. w[p] = w[n] \/ (loser[p] = w[n] /\ leaf[w[p]] <= leaf[loser[p]]) BY <2>7, <2>10, <2>11 DEF DuelAt, Duel
    <3> QED BY <3>1, <3>2
  <2> QED BY <1>2, <2>3, <2>4, <2>8, <2>9, <2>12
<1>4. ASSUME NEW i \in 0..(K - 1) PROVE leaf[w[1]] <= leaf[i]
  <2>1. i + K \in 1..(2 * K - 1) /\ w[i + K] = i BY DEF Tree, Winners
  <2>2. i + K \notin P BY <1>3
  <2> QED BY <2>1, <2>2
<1> QED BY <1>4

\* The list on top leaves the tree.
LEMMA Vacated ==
  ASSUME NEW K \in Nat, NEW loser, NEW leaf, NEW M, NEW E, NEW w, Tree(loser, leaf, K, M, E, w),
         \A n \in 1..(2 * K - 1) : n \in E, NEW s, \A q \in 1..(K - 1) : loser[q] # s
  PROVE  Tree(loser, leaf, K, M \ {s}, {n \in 1..(2 * K - 1) : w[n] # s}, w)
<1>1. PICK M2, E2 : M2 = M \ {s} /\ E2 = {n \in 1..(2 * K - 1) : w[n] # s} OBVIOUS
<1>2. /\ loser \in [0..(K - 1) -> 0..K] /\ LostOnce(loser, K) /\ Winners(leaf, K, M, E, w)
      /\ \A p \in 1..(K - 1) : DuelAt(loser, leaf, K, E, w, p)
  BY DEF Tree
<1>3. Winners(leaf, K, M2, E2, w)
  <2>1. M2 \subseteq 0..(K - 1) /\ \A i \in M2 : leaf[i] > 0 BY <1>1, <1>2 DEF Winners
  <2>2. E2 \subseteq 1..(2 * K - 1) BY <1>1
  <2>3. \A n \in E2 : w[n] \in M2 BY <1>1, <1>2 DEF Winners
  <2>4. \A i \in 0..(K - 1) : w[i + K] = i /\ (i + K \in E <=> i \in M) BY <1>2 DEF Winners
  <2>5. ASSUME NEW i \in 0..(K - 1) PROVE w[i + K] = i /\ (i + K \in E2 <=> i \in M2)
    <3>1. i + K \in 1..(2 * K - 1) OBVIOUS
    <3>2. w[i + K] = i /\ i \in M BY <2>4, <3>1
    <3> QED BY <1>1, <3>1, <3>2
  <2> QED BY <1>2, <2>1, <2>2, <2>3, <2>5 DEF Winners
<1>4. ASSUME NEW p \in 1..(K - 1) PROVE DuelAt(loser, leaf, K, E2, w, p)
  <2>1. PICK a, b : a = 2 * p /\ b = 2 * p + 1 OBVIOUS
  <2>2. p \in 1..(2 * K - 1) /\ a \in 1..(2 * K - 1) /\ b \in 1..(2 * K - 1) BY <2>1
  <2>3. Duel(loser, leaf, K, E, w, p, a, b) BY <1>2, <2>1 DEF DuelAt
  <2>4. a \in E /\ b \in E BY <2>2
  <2>5. /\ leaf[w[p]] <= leaf[loser[p]]
        /\ (w[p] = w[a] /\ loser[p] = w[b]) \/ (w[p] = w[b] /\ loser[p] = w[a])
    BY <2>3, <2>4 DEF Duel
  <2>6. (p \in E2 <=> w[p] # s) /\ (a \in E2 <=> w[a] # s) /\ (b \in E2 <=> w[b] # s) BY <1>1, <2>2
  <2>7. loser[p] # s OBVIOUS
  <2>8. Duel(loser, leaf, K, E2, w, p, a, b) BY <2>5, <2>6, <2>7 DEF Duel
  <2> QED BY <2>1, <2>8 DEF DuelAt
<1>5. Tree(loser, leaf, K, M2, E2, w) BY <1>2, <1>3, <1>4 DEF Tree
<1> QED BY <1>1, <1>5

\* The value of a list that is not in the tree does not matter, nor does what
\* stands on top.
LEMMA TreeKeeps ==
  ASSUME NEW K \in Nat, NEW loser, NEW leaf, NEW M, NEW E, NEW w, Tree(loser, leaf, K, M, E, w),
         NEW leaf2 \in [0..K -> Nat], leaf2[K] = 0, \A i \in M : leaf2[i] = leaf[i],
         NEW loser2 \in [0..(K - 1) -> 0..K], \A q \in 1..(K - 1) : loser2[q] = loser[q]
  PROVE  Tree(loser2, leaf2, K, M, E, w)
<1>1. /\ loser \in [0..(K - 1) -> 0..K] /\ LostOnce(loser, K) /\ Winners(leaf, K, M, E, w)
      /\ \A p \in 1..(K - 1) : DuelAt(loser, leaf, K, E, w, p)
  BY DEF Tree
<1>2. Winners(leaf2, K, M, E, w) BY <1>1 DEF Winners
<1>3. LostOnce(loser2, K)
  <2> SUFFICES ASSUME NEW p \in 1..(K - 1), NEW q \in 1..(K - 1), p # q, loser2[p] = loser2[q] PROVE loser2[p] = K
    BY DEF LostOnce
  <2>1. loser2[p] = loser[p] /\ loser2[q] = loser[q] OBVIOUS
  <2> QED BY <1>1, <2>1 DEF LostOnce
<1>4. ASSUME NEW p \in 1..(K - 1) PROVE DuelAt(loser2, leaf2, K, E, w, p)
  <2>1. PICK a, b : a = 2 * p /\ b = 2 * p + 1 OBVIOUS
  <2>2. Duel(loser, leaf, K, E, w, p, a, b) /\ loser2[p] = loser[p] BY <1>1, <2>1 DEF DuelAt
  <2>3. \A n \in E : w[n] \in M BY <1>1 DEF Winners
  <2>4. ASSUME a \in E, b \in E PROVE leaf2[w[p]] <= leaf2[loser[p]]
    <3>1. w[a] \in M /\ w[b] \in M BY <2>3, <2>4
    <3>2. /\ leaf[w[p]] <= leaf[loser[p]]
          /\ (w[p] = w[a] /\ loser[p] = w[b]) \/ (w[p] = w[b] /\ loser[p] = w[a])
      BY <2>2, <2>4 DEF Duel
    <3>3. leaf2[w[p]] = leaf[w[p]] /\ leaf2[loser[p]] = leaf[loser[p]] BY <3>1, <3>2
    <3> QED BY <3>2, <3>3
  <2>5. Duel(loser2, leaf2, K, E, w, p, a, b) BY <2>2, <2>4 DEF Duel
  <2> QED BY <2>1, <2>5 DEF DuelAt
<1> QED BY <1>2, <1>3, <1>4 DEF Tree

-----------------------------------------------------------------------------
(* Loser tree: CreateLoserTree                                             *)

\* After list s has climbed: with INT_MIN it is on top of the tree of others.
Topped(loser, leaf, K, M, s) ==
  IF leaf[s] = 0 THEN loser[0] = s /\ \E E, w : Tree(loser, leaf, K, M, E, w)
  ELSE Grown(loser, leaf, K, M)

\* A list climbs, whatever its value is.
LEMMA AdjustTops ==
  ASSUME NEW K \in Nat, K = L!kWays, NEW leaf, NEW loser, NEW M, NEW E0, NEW w0, Tree(loser, leaf, K, M, E0, w0),
         NEW s \in 0..(K - 1), s \notin M
  PROVE  Topped(L!Adjust(leaf, loser, s), leaf, K, IF leaf[s] = 0 THEN M ELSE M \cup {s}, s)
<1>1. leaf \in [0..K -> Nat] /\ leaf[K] = 0 /\ loser \in [0..(K - 1) -> 0..K] BY DEF Tree, Winners
<1>2. CASE leaf[s] = 0
  <2>1. PICK A : A = L!Adjust(leaf, loser, s) OBVIOUS
  <2>2. A = [loser EXCEPT ![0] = s]
    <3>1. Passed(L!Adjust(leaf, loser, s), loser, s) BY <1>1, <1>2, AdjustPasses
    <3> QED BY <2>1, <3>1 DEF Passed
  <2>3. 0 \in 0..(K - 1) /\ s \in 0..K OBVIOUS
  <2>4. A \in [0..(K - 1) -> 0..K] /\ A[0] = s /\ \A q \in 1..(K - 1) : A[q] = loser[q] BY <1>1, <2>2, <2>3
  <2>5. Tree(A, leaf, K, M, E0, w0) BY <1>1, <2>4, TreeKeeps
  <2> QED BY <1>2, <2>1, <2>4, <2>5 DEF Topped
<1>3. CASE leaf[s] # 0
  <2>1. leaf[s] > 0 BY <1>1, <1>3
  <2>2. Grown(L!Adjust(leaf, loser, s), leaf, K, M \cup {s}) BY <2>1, AdjustGrows
  <2> QED BY <1>3, <2>2 DEF Topped
<1> QED BY <1>2, <1>3

\* There is a tree of those who have climbed.
LEMMA ToppedTree ==
  ASSUME NEW K, NEW leaf, NEW loser, NEW M, NEW s, Topped(loser, leaf, K, M, s)
  PROVE  \E E, w : Tree(loser, leaf, K, M, E, w)
BY DEF Topped, Grown

\* The lists that have climbed after k of K.
Live(leaf, K, k) == {i \in 0..(K - 1) : i >= K - k /\ leaf[i] > 0}
Built(loser, leaf, K, k) ==
  /\ \E E, w : Tree(loser, leaf, K, Live(leaf, K, k), E, w)
  /\ k > 0 => Topped(loser, leaf, K, Live(leaf, K, k), K - k)
Trees(leaf, K, k) == {<<k, l>> : l \in {l \in [0..(K - 1) -> 0..K] : Built(l, leaf, K, k)}}

\* The tree of nobody.
LEMMA NobodyBuilt ==
  ASSUME NEW K \in Nat, NEW leaf \in [0..K -> Nat], leaf[K] = 0
  PROVE  Built([p \in 0..(K - 1) |-> K], leaf, K, 0)
<1>1. PICK l, w : l = [p \in 0..(K - 1) |-> K] /\ w = [n \in 1..(2 * K - 1) |-> IF n < K THEN 0 ELSE n - K] OBVIOUS
<1>2. Live(leaf, K, 0) = {} BY DEF Live
<1>3. K \in 0..K OBVIOUS
<1>4. l \in [0..(K - 1) -> 0..K] /\ \A p \in 0..(K - 1) : l[p] = K BY <1>1, <1>3
<1>5. LostOnce(l, K) BY <1>4 DEF LostOnce
<1>6. ASSUME NEW i \in 0..(K - 1) PROVE w[i + K] = i
  <2>1. i + K \in 1..(2 * K - 1) /\ ~(i + K < K) OBVIOUS
  <2> QED BY <1>1, <2>1
<1>7. w \in [1..(2 * K - 1) -> 0..(K - 1)] BY <1>1
<1>8. Winners(leaf, K, {}, {}, w) BY <1>6, <1>7 DEF Winners
<1>9. \A p \in 1..(K - 1) : DuelAt(l, leaf, K, {}, w, p) BY <1>4 DEF DuelAt, Duel
<1>10. Tree(l, leaf, K, {}, {}, w) BY <1>4, <1>5, <1>8, <1>9 DEF Tree
<1>11. \E E, v : Tree(l, leaf, K, Live(leaf, K, 0), E, v) BY <1>2, <1>10
<1>12. Built(l, leaf, K, 0) BY <1>11 DEF Built
<1> QED BY <1>1, <1>12

\* One more list climbs.
LEMMA BuiltMore ==
  ASSUME NEW K \in Nat, K = L!kWays, NEW leaf, NEW k \in 1..K, NEW loser, Built(loser, leaf, K, k - 1)
  PROVE  /\ Built(L!Adjust(leaf, loser, K - k), leaf, K, k)
         /\ L!Adjust(leaf, loser, K - k) \in [0..(K - 1) -> 0..K]
<1>1. PICK s, M : s = K - k /\ M = Live(leaf, K, k - 1) OBVIOUS
<1>2. PICK E, w : Tree(loser, leaf, K, M, E, w) BY <1>1 DEF Built
<1>3. s \in 0..(K - 1) /\ s \notin M BY <1>1 DEF Live
<1>4. PICK A : A = L!Adjust(leaf, loser, s) OBVIOUS
<1>5. leaf \in [0..K -> Nat] BY <1>2 DEF Tree, Winners
<1>6. Live(leaf, K, k) = IF leaf[s] = 0 THEN M ELSE M \cup {s}
  <2>1. \A i \in 0..(K - 1) : (i >= K - k <=> i >= K - (k - 1) \/ i = s) BY <1>1
  <2>2. leaf[s] \in Nat BY <1>3, <1>5
  <2>3. leaf[s] > 0 <=> leaf[s] # 0 BY <2>2
  <2>4. CASE leaf[s] = 0 BY <1>1, <1>3, <2>1, <2>3, <2>4 DEF Live
  <2>5. CASE leaf[s] # 0 BY <1>1, <1>3, <2>1, <2>3, <2>5 DEF Live
  <2> QED BY <2>4, <2>5
<1>7. Topped(A, leaf, K, Live(leaf, K, k), s)
  <2>1. Topped(L!Adjust(leaf, loser, s), leaf, K, IF leaf[s] = 0 THEN M ELSE M \cup {s}, s)
    BY <1>2, <1>3, AdjustTops
  <2> QED BY <1>4, <1>6, <2>1
<1>8. PICK E2, w2 : Tree(A, leaf, K, Live(leaf, K, k), E2, w2) BY <1>7, ToppedTree
<1> QED BY <1>1, <1>4, <1>7, <1>8 DEF Built, Tree

\* The whole tree: list 0 climbs last.
LEMMA TreeCreated ==
  ASSUME NEW K \in Nat, K = L!kWays, K > 0, NEW leaf \in [0..K -> Nat], leaf[K] = 0
  PROVE  Topped(L!CreateLoserTree(leaf), leaf, K, {i \in 0..(K - 1) : leaf[i] > 0}, 0)
<1> DEFINE l0 == [p \in 0..(K - 1) |-> K]
           G == [k \in 0..K |-> Trees(leaf, K, k)]
           F == [u \in UNION {G[k] : k \in 0..K} |-> <<u[1] + 1, L!Adjust(leaf, u[2], K - (u[1] + 1))>>]
           Runs(f) == f = [k \in 0..K |-> IF k = 0 THEN l0 ELSE L!Adjust(leaf, f[k - 1], K - k)]
<1>1. <<0, l0>> \in G[0]
  <2>1. Built(l0, leaf, K, 0) BY NobodyBuilt
  <2>2. l0 \in [0..(K - 1) -> 0..K]
    <3>1. K \in 0..K OBVIOUS
    <3> QED BY <3>1
  <2>3. G[0] = Trees(leaf, K, 0) OBVIOUS
  <2> HIDE DEF G, l0
  <2> QED BY <2>1, <2>2, <2>3 DEF Trees
<1>2. \A k \in 0..K : \A l : <<k, l>> \in G[k] <=> l \in [0..(K - 1) -> 0..K] /\ Built(l, leaf, K, k)
  BY DEF Trees
<1>3. \A k \in 0..K : \A u \in G[k] : u = <<k, u[2]>> BY DEF Trees
<1>4. \A k \in 0..K : \A u \in G[k] : F[u] = <<u[1] + 1, L!Adjust(leaf, u[2], K - (u[1] + 1))>>
  <2> SUFFICES ASSUME NEW k \in 0..K, NEW u \in G[k]
               PROVE F[u] = <<u[1] + 1, L!Adjust(leaf, u[2], K - (u[1] + 1))>>
    OBVIOUS
  <2>1. u \in UNION {G[j] : j \in 0..K} OBVIOUS
  <2> HIDE DEF G
  <2> QED BY <2>1
<1> HIDE DEF G, F
<1>5. ASSUME NEW k \in 1..K, NEW u \in G[k - 1] PROVE F[u] = <<k, L!Adjust(leaf, u[2], K - k)>>
  <2>1. k - 1 \in 0..K OBVIOUS
  <2>2. u = <<k - 1, u[2]>> BY <1>3, <2>1
  <2>3. u[1] + 1 = k /\ K - (u[1] + 1) = K - k BY <2>2
  <2> QED BY <1>4, <2>1, <2>3
<1>6. ASSUME NEW k \in 1..K, NEW l, <<k - 1, l>> \in G[k - 1] PROVE <<k, L!Adjust(leaf, l, K - k)>> \in G[k]
  <2>1. k - 1 \in 0..K /\ k \in 0..K OBVIOUS
  <2>2. Built(l, leaf, K, k - 1) BY <1>2, <1>6, <2>1
  <2>3. Built(L!Adjust(leaf, l, K - k), leaf, K, k) /\ L!Adjust(leaf, l, K - k) \in [0..(K - 1) -> 0..K]
    BY <2>2, BuiltMore
  <2> QED BY <1>2, <2>1, <2>3
<1>7. \A k \in 1..K : \A u \in G[k - 1] : F[u] \in G[k]
  <2> SUFFICES ASSUME NEW k \in 1..K, NEW u \in G[k - 1] PROVE F[u] \in G[k] OBVIOUS
  <2>1. k - 1 \in 0..K OBVIOUS
  <2>2. u = <<k - 1, u[2]>> BY <1>3, <2>1
  <2>3. <<k, L!Adjust(leaf, u[2], K - k)>> \in G[k] BY <1>6, <2>2
  <2> QED BY <1>5, <2>3
<1> HIDE DEF l0
<1>8. PICK t : t = <<0, l0>> OBVIOUS
<1>9. PICK g : g = [k \in 0..K |-> IF k = 0 THEN t ELSE F[g[k - 1]]] /\ \A k \in 0..K : g[k] \in G[k]
  <2>1. \E g : LoopRuns(g, K, t, F, G) BY <1>1, <1>7, <1>8, LoopExists
  <2> QED BY <2>1 DEF LoopRuns
<1>10. PICK h : h = [k \in 0..K |-> g[k][2]] OBVIOUS
<1>11. Runs(h)
  <2>1. h[0] = l0
    <3>1. g[0] = t BY <1>9
    <3> QED BY <1>8, <1>10, <3>1
  <2>2. ASSUME NEW k \in 1..K PROVE h[k] = L!Adjust(leaf, h[k - 1], K - k)
    <3>1. k - 1 \in 0..K /\ k \in 0..K /\ k # 0 OBVIOUS
    <3>2. g[k - 1] \in G[k - 1] BY <1>9, <3>1
    <3>3. F[g[k - 1]] = <<k, L!Adjust(leaf, g[k - 1][2], K - k)>> BY <1>5, <3>2
    <3>4. g[k] = F[g[k - 1]] BY <1>9, <3>1
    <3>5. g[k][2] = L!Adjust(leaf, g[k - 1][2], K - k) BY <3>3, <3>4
    <3> QED BY <1>10, <3>1, <3>5
  <2>3. \A k \in 0..K : h[k] = IF k = 0 THEN l0 ELSE L!Adjust(leaf, h[k - 1], K - k) BY <2>1, <2>2
  <2> QED BY <1>10, <2>3
<1>12. PICK f : f = (CHOOSE x : Runs(x)) OBVIOUS
<1>13. Runs(f)
  <2> HIDE DEF Runs
  <2> QED BY <1>11, <1>12
<1>14. L!CreateLoserTree(leaf) = f[K] BY <1>12 DEF L!CreateLoserTree, L!Positions, l0
<1>15. \A k \in 0..K : <<k, f[k]>> \in G[k]
  <2> DEFINE P == {k \in 0..K : <<k, f[k]>> \in G[k]}
  <2>1. 0 \in P BY <1>1, <1>13
  <2>2. ASSUME NEW k \in 1..K, k - 1 \in P PROVE k \in P
    <3>1. f[k] = L!Adjust(leaf, f[k - 1], K - k) BY <1>13
    <3>2. <<k - 1, f[k - 1]>> \in G[k - 1] BY <2>2
    <3>3. <<k, L!Adjust(leaf, f[k - 1], K - k)>> \in G[k] BY <1>6, <3>2
    <3>4. <<k, f[k]>> \in G[k] /\ k \in 0..K BY <3>1, <3>3
    <3> QED BY <3>4
  <2> HIDE DEF P
  <2>3. \A k \in 0..K : k \in P BY <2>1, <2>2, UpTo
  <2> QED BY <2>3 DEF P
<1>16. Built(f[K], leaf, K, K)
  <2>1. K \in 0..K OBVIOUS
  <2> QED BY <1>2, <1>15, <2>1
<1>17. Live(leaf, K, K) = {i \in 0..(K - 1) : leaf[i] > 0} /\ K - K = 0 BY DEF Live
<1> QED BY <1>14, <1>16, <1>17 DEF Built

-----------------------------------------------------------------------------
(* Loser tree: who is on top, and the next round                           *)

Positive(leaf, K) == {i \in 0..(K - 1) : leaf[i] > 0}

\* All lists are in the tree and the one on top, s, has the least value.
Full(loser, leaf, K, s) ==
  /\ s \in 0..(K - 1) /\ \A i \in 0..(K - 1) : leaf[i] > 0 /\ leaf[s] <= leaf[i]
  /\ Positive(leaf, K) = 0..(K - 1)
  /\ \A q \in 1..(K - 1) : loser[q] # s
  /\ \E E, w : Tree(loser, leaf, K, 0..(K - 1), E, w) /\ \A n \in 1..(2 * K - 1) : n \in E

\* On top is list 0 with INT_MIN, the sentinel because of another list with
\* INT_MIN, or the least list.
TopCases(loser, leaf, K) ==
  \/ loser[0] = 0 /\ leaf[0] = 0 /\ \E E, w : Tree(loser, leaf, K, Positive(leaf, K), E, w)
  \/ loser[0] = K /\ \E i \in 1..(K - 1) : leaf[i] = 0
  \/ Full(loser, leaf, K, loser[0])
LEMMA OnTop ==
  ASSUME NEW K \in Nat, K > 0, NEW loser, NEW leaf \in [0..K -> Nat], Topped(loser, leaf, K, Positive(leaf, K), 0)
  PROVE  TopCases(loser, leaf, K)
<1>1. CASE leaf[0] = 0 BY <1>1 DEF Topped, TopCases
<1>2. CASE leaf[0] # 0
  <2>1. PICK M : M = Positive(leaf, K) OBVIOUS
  <2>2. Grown(loser, leaf, K, M) BY <1>2, <2>1 DEF Topped
  <2>3. PICK E, w : Tree(loser, leaf, K, M, E, w) /\ Top0(loser, K, E, w) BY <2>2 DEF Grown
  <2>4. \A i \in 0..(K - 1) : leaf[i] \in Nat OBVIOUS
  <2>5. CASE \E i \in 0..(K - 1) : i \notin M
    <3>1. PICK i \in 0..(K - 1) : i \notin M BY <2>5
    <3>2. 1 \notin E BY <2>3, <3>1, SomeOut
    <3>3. loser[0] = K BY <2>3, <3>2 DEF Top0
    <3>4. leaf[i] = 0 BY <2>1, <2>4, <3>1 DEF Positive
    <3>5. i \in 1..(K - 1) BY <1>2, <3>1, <3>4
    <3> QED BY <3>3, <3>4, <3>5 DEF TopCases
  <2>6. CASE \A i \in 0..(K - 1) : i \in M
    <3>1. M = 0..(K - 1) BY <2>1, <2>6 DEF Positive
    <3>2. Tree(loser, leaf, K, 0..(K - 1), E, w) BY <2>3, <3>1
    <3>3. \A n \in 1..(2 * K - 1) : n \in E BY <3>2, AllIn
    <3>4. 1 \in 1..(2 * K - 1) OBVIOUS
    <3>5. loser[0] = w[1] BY <2>3, <3>3, <3>4 DEF Top0
    <3>6. \A i \in 0..(K - 1) : leaf[w[1]] <= leaf[i] BY <3>2, <3>3, LeastWins
    <3>7. w[1] \in 0..(K - 1) BY <2>3, <3>4 DEF Tree, Winners
    <3>8. \A i \in 0..(K - 1) : leaf[i] > 0 BY <2>1, <2>6 DEF Positive
    <3>9. \A q \in 1..(K - 1) : loser[q] # loser[0]
      <4>1. loser[0] # K BY <3>5, <3>7
      <4> QED BY <2>2, <4>1 DEF Grown
    <3>10. Full(loser, leaf, K, loser[0])
      <4>1. PICK s : s = loser[0] OBVIOUS
      <4>2. s \in 0..(K - 1) /\ \A i \in 0..(K - 1) : leaf[s] <= leaf[i] BY <3>5, <3>6, <3>7, <4>1
      <4>3. Positive(leaf, K) = 0..(K - 1) BY <2>1, <3>1
      <4>4. Full(loser, leaf, K, s) BY <3>2, <3>3, <3>8, <3>9, <4>1, <4>2, <4>3 DEF Full
      <4> QED BY <4>1, <4>4
    <3> QED BY <3>10 DEF TopCases
  <2> QED BY <2>5, <2>6
<1> QED BY <1>1, <1>2

\* The list on top gets a value that is not less, and climbs again.
LEMMA NextRound ==
  ASSUME NEW K \in Nat, K = L!kWays, K > 0, NEW loser \in [0..(K - 1) -> 0..K], NEW leaf \in [0..K -> Nat], leaf[K] = 0,
         TopCases(loser, leaf, K), NEW s \in 0..(K - 1), s = loser[0],
         NEW leaf2 \in [0..K -> Nat], leaf2[K] = 0, leaf2[s] >= leaf[s],
         \A i \in 0..(K - 1) : i # s => leaf2[i] = leaf[i]
  PROVE  Topped(L!Adjust(leaf2, loser, s), leaf2, K, Positive(leaf2, K), 0)
<1>1. leaf2[s] \in Nat /\ leaf[s] \in Nat OBVIOUS
<1>2. CASE s = 0 /\ leaf[0] = 0 /\ \E E, w : Tree(loser, leaf, K, Positive(leaf, K), E, w)
  <2>1. PICK M : M = Positive(leaf, K) OBVIOUS
  <2>2. PICK E, w : Tree(loser, leaf, K, M, E, w) BY <1>2, <2>1
  <2>3. s \notin M /\ M \subseteq 0..(K - 1) BY <1>2, <2>1 DEF Positive
  <2>4. \A i \in M : leaf2[i] = leaf[i] BY <1>1, <2>3
  <2>5. Tree(loser, leaf2, K, M, E, w) BY <2>2, <2>4, TreeKeeps
  <2>6. Topped(L!Adjust(leaf2, loser, s), leaf2, K, IF leaf2[s] = 0 THEN M ELSE M \cup {s}, s)
    BY <2>3, <2>5, AdjustTops
  <2>7. Positive(leaf2, K) = IF leaf2[s] = 0 THEN M ELSE M \cup {s}
    <3>1. leaf2[s] > 0 <=> leaf2[s] # 0 BY <1>1
    <3>2. CASE leaf2[s] = 0 BY <1>1, <2>1, <2>3, <3>1, <3>2 DEF Positive
    <3>3. CASE leaf2[s] # 0 BY <1>1, <2>1, <2>3, <3>1, <3>3 DEF Positive
    <3> QED BY <3>2, <3>3
  <2> QED BY <1>2, <2>6, <2>7
<1>3. CASE Full(loser, leaf, K, s)
  <2>1. PICK M, E, w : /\ M = 0..(K - 1) /\ Tree(loser, leaf, K, M, E, w)
                       /\ \A n \in 1..(2 * K - 1) : n \in E
    BY <1>3 DEF Full
  <2>2. PICK M2, E2 : M2 = M \ {s} /\ E2 = {n \in 1..(2 * K - 1) : w[n] # s} OBVIOUS
  <2>3. \A q \in 1..(K - 1) : loser[q] # s BY <1>3 DEF Full
  <2>4. Tree(loser, leaf, K, M2, E2, w)
    <3>1. Tree(loser, leaf, K, M \ {s}, {n \in 1..(2 * K - 1) : w[n] # s}, w) BY <2>1, <2>3, Vacated
    <3> QED BY <2>2, <3>1
  <2>5. s \notin M2 /\ M2 \cup {s} = 0..(K - 1) /\ \A i \in M2 : leaf2[i] = leaf[i] BY <1>1, <2>1, <2>2
  <2>6. Tree(loser, leaf2, K, M2, E2, w) BY <2>4, <2>5, TreeKeeps
  <2>7. \A i \in 0..(K - 1) : leaf[i] > 0 /\ leaf[i] \in Nat BY <1>3 DEF Full
  <2>8. leaf2[s] > 0 BY <1>1, <2>7
  <2>9. Grown(L!Adjust(leaf2, loser, s), leaf2, K, M2 \cup {s}) BY <2>5, <2>6, <2>8, AdjustGrows
  <2>10. \A i \in 0..(K - 1) : leaf2[i] > 0 BY <1>1, <2>7, <2>8
  <2>11. Positive(leaf2, K) = 0..(K - 1) BY <2>10 DEF Positive
  <2>12. 0 \in 0..(K - 1) /\ leaf2[0] # 0
    <3>1. 0 \in 0..(K - 1) OBVIOUS
    <3> QED BY <2>10, <3>1
  <2>13. Grown(L!Adjust(leaf2, loser, s), leaf2, K, Positive(leaf2, K)) BY <2>5, <2>9, <2>11
  <2> QED BY <2>12, <2>13 DEF Topped
<1>4. s # K OBVIOUS
<1> QED BY <1>2, <1>3, <1>4 DEF TopCases

-----------------------------------------------------------------------------
(* Loser tree: lists and how often a value is in them                      *)

\* Neighbours in order, all in order.
Ascending(s) == \A j, k \in 1..Len(s) : j <= k => s[j] <= s[k]
LEMMA SortedAscends ==
  ASSUME NEW s \in Seq(Nat)
  PROVE  L!Sorted(s) <=> Ascending(s)
<1>0. Len(s) \in Nat /\ \A j \in 1..Len(s) : s[j] \in Nat OBVIOUS
<1>1. ASSUME Ascending(s) PROVE L!Sorted(s)
  <2> SUFFICES ASSUME NEW j \in 1..(Len(s) - 1) PROVE s[j] <= s[j + 1] BY DEF L!Sorted
  <2>1. j \in 1..Len(s) /\ j + 1 \in 1..Len(s) /\ j <= j + 1 BY <1>0
  <2> QED BY <1>1, <2>1 DEF Ascending
<1>2. ASSUME L!Sorted(s), NEW j \in 1..Len(s) PROVE \A k \in 1..Len(s) : j <= k => s[j] <= s[k]
  <2> DEFINE n == Len(s) - j
             P == {d \in 0..n : s[j] <= s[j + d]}
  <2>1. n \in Nat BY <1>0
  <2>2. 0 \in P BY <1>0
  <2>3. ASSUME NEW d \in 1..n, d - 1 \in P PROVE d \in P
    <3>1. PICK i : i = j + (d - 1) OBVIOUS
    <3>2. i \in 1..(Len(s) - 1) /\ i \in 1..Len(s) /\ i + 1 \in 1..Len(s) /\ i + 1 = j + d BY <1>0, <3>1
    <3>3. s[j] <= s[i] BY <2>3, <3>1
    <3>4. s[i] <= s[i + 1] BY <1>2, <3>2 DEF L!Sorted
    <3>5. s[j] \in Nat /\ s[i] \in Nat /\ s[i + 1] \in Nat BY <1>0, <3>2
    <3>6. s[j] <= s[j + d] BY <3>2, <3>3, <3>4, <3>5
    <3> QED BY <3>6
  <2> HIDE DEF P
  <2>4. \A d \in 0..n : d \in P
    <3> HIDE DEF n
    <3> QED BY <2>1, <2>2, <2>3, UpTo
  <2> SUFFICES ASSUME NEW k \in 1..Len(s), j <= k PROVE s[j] <= s[k] OBVIOUS
  <2>5. k - j \in 0..n /\ j + (k - j) = k BY <1>0
  <2>6. k - j \in P BY <2>4, <2>5
  <2>7. s[j] <= s[j + (k - j)] BY <2>6 DEF P
  <2> QED BY <2>5, <2>7
<1> QED BY <1>1, <1>2 DEF Ascending

\* Cardinality there is Cardinality here.
LEMMA TreeCardinality == ASSUME NEW V PROVE L!Cardinality(V) = Cardinality(V)
BY DEF L!Cardinality, Cardinality

\* One more element.
One(b) == IF b THEN 1 ELSE 0
LEMMA OccurrencesAppend ==
  ASSUME NEW V, NEW s \in Seq(V), NEW x \in V, NEW v
  PROVE  L!Occurrences(Append(s, x), v) = L!Occurrences(s, v) + One(x = v)
<1>1. PICK t, n : t = Append(s, x) /\ n = Len(s) OBVIOUS
<1>2. n \in Nat /\ Len(t) = n + 1 /\ t[n + 1] = x /\ \A j \in 1..n : t[j] = s[j] BY <1>1
<1>3. PICK A, B : A = {j \in 1..n : s[j] = v} /\ B = {j \in 1..(n + 1) : t[j] = v} OBVIOUS
<1>4. IsFiniteSet(A) /\ Cardinality(A) \in Nat
  <2>1. IsFiniteSet(1..n) BY <1>2, FS_Interval
  <2>2. A \in SUBSET (1..n) BY <1>3
  <2> QED BY <2>1, <2>2, FS_Subset, FS_CardinalityType
<1>5. Cardinality(B) = Cardinality(A) + One(x = v)
  <2>1. \A j \in 1..(n + 1) : j \in 1..n \/ j = n + 1 BY <1>2
  <2>2. n + 1 \notin 1..n /\ n + 1 \in 1..(n + 1) /\ \A j \in 1..n : j \in 1..(n + 1) BY <1>2
  <2>3. CASE x = v
    <3>1. B = A \cup {n + 1} /\ n + 1 \notin A BY <1>2, <1>3, <2>1, <2>2, <2>3
    <3> QED BY <1>4, <2>3, <3>1, FS_AddElement DEF One
  <2>4. CASE x # v
    <3>1. B = A BY <1>2, <1>3, <2>1, <2>2, <2>4
    <3> QED BY <1>4, <2>4, <3>1 DEF One
  <2> QED BY <2>3, <2>4
<1>6. L!Occurrences(s, v) = Cardinality(A) BY <1>1, <1>3, TreeCardinality DEF L!Occurrences
<1>7. L!Occurrences(t, v) = Cardinality(B) BY <1>2, <1>3, TreeCardinality DEF L!Occurrences
<1> QED BY <1>1, <1>5, <1>6, <1>7

\* The places <<i, j>> with the value v among the first n[i] of every list i.
Pairs(gs, n, v) == {x \in (1..Len(gs)) \X Nat : x[2] \in 1..n[x[1]] /\ gs[x[1]][x[2]] = v}
Lens(gs) == [i \in 1..Len(gs) |-> Len(gs[i])]
LEMMA PairsFinite ==
  ASSUME NEW K \in Nat, NEW gs, K = Len(gs), NEW n \in [1..K -> Nat], NEW v
  PROVE  IsFiniteSet(Pairs(gs, n, v)) /\ Cardinality(Pairs(gs, n, v)) \in Nat
<1> DEFINE U(m) == {x \in (1..K) \X Nat : x[1] <= m /\ x[2] \in 1..n[x[1]]}
           P == {m \in 0..K : IsFiniteSet(U(m))}
<1>1. 0 \in P
  <2>1. U(0) = {} OBVIOUS
  <2> HIDE DEF U
  <2> QED BY <2>1, FS_EmptySet
<1>2. ASSUME NEW m \in 1..K, m - 1 \in P PROVE m \in P
  <2>1. IsFiniteSet(U(m - 1)) BY <1>2
  <2>2. IsFiniteSet({m}) /\ IsFiniteSet(1..n[m])
    <3>1. 1 \in Int /\ n[m] \in Int OBVIOUS
    <3>2. IsFiniteSet(1..n[m]) BY <3>1, FS_Interval
    <3> QED BY <3>2, FS_Singleton
  <2>3. IsFiniteSet({m} \X (1..n[m])) BY <2>2, FS_Product
  <2>4. U(m) = U(m - 1) \cup ({m} \X (1..n[m]))
    <3>1. \A i \in 1..K : i <= m <=> i <= m - 1 \/ i = m OBVIOUS
    <3>2. \A i \in 1..K, j \in Nat : <<i, j>> \in U(m) <=> i <= m /\ j \in 1..n[i] OBVIOUS
    <3>3. \A i \in 1..K, j \in Nat : <<i, j>> \in U(m - 1) <=> i <= m - 1 /\ j \in 1..n[i] OBVIOUS
    <3>4. \A i \in 1..K, j \in Nat : <<i, j>> \in {m} \X (1..n[m]) <=> i = m /\ j \in 1..n[i] OBVIOUS
    <3>5. U(m) \subseteq (1..K) \X Nat /\ U(m - 1) \subseteq (1..K) \X Nat /\ {m} \X (1..n[m]) \subseteq (1..K) \X Nat
      OBVIOUS
    <3> HIDE DEF U
    <3>6. \A x \in (1..K) \X Nat : x \in U(m) <=> x \in U(m - 1) \/ x \in {m} \X (1..n[m])
      BY <3>1, <3>2, <3>3, <3>4
    <3> QED BY <3>5, <3>6
  <2> HIDE DEF U
  <2>5. IsFiniteSet(U(m))
    <3>1. IsFiniteSet(U(m - 1) \cup ({m} \X (1..n[m]))) BY <2>1, <2>3, FS_Union
    <3> QED BY <2>4, <3>1
  <2>6. m \in 0..K OBVIOUS
  <2> QED BY <2>5, <2>6
<1>3. K \in P
  <2> HIDE DEF P
  <2>1. \A m \in 0..K : m \in P BY <1>1, <1>2, UpTo
  <2>2. K \in 0..K OBVIOUS
  <2> QED BY <2>1, <2>2
<1>4. IsFiniteSet(U(K)) BY <1>3
<1>5. Pairs(gs, n, v) \in SUBSET U(K) BY DEF Pairs
<1> HIDE DEF U
<1> QED BY <1>4, <1>5, FS_Subset, FS_CardinalityType

\* One more place of list i.
OneMore(gs, n, n2, v, i) ==
  Cardinality(Pairs(gs, n2, v)) = Cardinality(Pairs(gs, n, v)) + One(gs[i][n[i] + 1] = v)
LEMMA PairsMore ==
  ASSUME NEW K \in Nat, NEW gs, K = Len(gs), NEW n \in [1..K -> Nat], NEW v, NEW i \in 1..K,
         NEW n2 \in [1..K -> Nat], n2[i] = n[i] + 1, \A k \in 1..K : k # i => n2[k] = n[k]
  PROVE  OneMore(gs, n, n2, v, i)
<1>0. SUFFICES Cardinality(Pairs(gs, n2, v)) = Cardinality(Pairs(gs, n, v)) + One(gs[i][n[i] + 1] = v)
  BY DEF OneMore
<1>1. PICK A, B : A = Pairs(gs, n, v) /\ B = Pairs(gs, n2, v) OBVIOUS
<1>2. IsFiniteSet(A) /\ Cardinality(A) \in Nat BY <1>1, PairsFinite
<1>3. A \subseteq (1..K) \X Nat /\ B \subseteq (1..K) \X Nat BY <1>1 DEF Pairs
<1>4. \A k \in 1..K, j \in Nat : <<k, j>> \in A <=> j \in 1..n[k] /\ gs[k][j] = v BY <1>1 DEF Pairs
<1>5. \A k \in 1..K, j \in Nat : <<k, j>> \in B <=> j \in 1..n2[k] /\ gs[k][j] = v BY <1>1 DEF Pairs
<1>6. PICK m : m = n[i] + 1 OBVIOUS
<1>7. m \in Nat /\ \A k \in 1..K, j \in Nat : j \in 1..n2[k] <=> j \in 1..n[k] \/ (k = i /\ j = m)
  <2>1. ASSUME NEW j \in Nat PROVE j \in 1..n2[i] <=> j \in 1..n[i] \/ j = m BY <1>6
  <2>2. ASSUME NEW k \in 1..K, k # i, NEW j \in Nat PROVE j \in 1..n2[k] <=> j \in 1..n[k] BY <2>2
  <2> QED BY <1>6, <2>1, <2>2
<1>8. <<i, m>> \notin A
  <2>1. m \notin 1..n[i] BY <1>6
  <2> QED BY <1>4, <1>7, <2>1
<1>9. CASE gs[i][m] = v
  <2>1. \A k \in 1..K, j \in Nat : <<k, j>> \in B <=> <<k, j>> \in A \/ <<k, j>> = <<i, m>>
    <3> SUFFICES ASSUME NEW k \in 1..K, NEW j \in Nat
                 PROVE <<k, j>> \in B <=> <<k, j>> \in A \/ (k = i /\ j = m)
      OBVIOUS
    <3>1. <<k, j>> \in B <=> (j \in 1..n[k] \/ (k = i /\ j = m)) /\ gs[k][j] = v BY <1>5, <1>7
    <3>2. <<k, j>> \in A <=> j \in 1..n[k] /\ gs[k][j] = v BY <1>4
    <3> QED BY <1>9, <3>1, <3>2
  <2>2. <<i, m>> \in (1..K) \X Nat BY <1>7
  <2>3. \A x \in (1..K) \X Nat : x \in B <=> x \in A \/ x = <<i, m>> BY <2>1
  <2>4. B = A \cup {<<i, m>>} BY <1>3, <2>2, <2>3
  <2>5. PICK y : y = <<i, m>> OBVIOUS
  <2>6. y \notin A /\ B = A \cup {y} BY <1>8, <2>4, <2>5
  <2>7. Cardinality(A \cup {y}) = Cardinality(A) + 1 BY <1>2, <2>6, FS_AddElement
  <2> QED BY <1>1, <1>6, <1>9, <2>6, <2>7 DEF One
<1>10. CASE gs[i][m] # v
  <2>1. \A k \in 1..K, j \in Nat : <<k, j>> \in B <=> <<k, j>> \in A
    <3> SUFFICES ASSUME NEW k \in 1..K, NEW j \in Nat PROVE <<k, j>> \in B <=> <<k, j>> \in A OBVIOUS
    <3>1. <<k, j>> \in B <=> (j \in 1..n[k] \/ (k = i /\ j = m)) /\ gs[k][j] = v BY <1>5, <1>7
    <3>2. <<k, j>> \in A <=> j \in 1..n[k] /\ gs[k][j] = v BY <1>4
    <3> QED BY <1>10, <3>1, <3>2
  <2>2. \A x \in (1..K) \X Nat : x \in B <=> x \in A BY <2>1
  <2>3. B = A BY <1>3, <2>2
  <2> QED BY <1>1, <1>2, <1>6, <1>10, <2>3 DEF One
<1> QED BY <1>9, <1>10

\* All places.
LEMMA InGivenPairs ==
  ASSUME NEW V, given \in Seq(Seq(V)), NEW v
  PROVE  L!InGiven(v) = Cardinality(Pairs(given, Lens(given), v))
<1>1. PICK K : K = Len(given) OBVIOUS
<1>2. K \in Nat /\ \A i \in 1..K : Len(given[i]) \in Nat BY <1>1
<1> DEFINE Row(i) == {<<i, j>> : j \in {j \in 1..Len(given[i]) : given[i][j] = v}}
           A == UNION {Row(i) : i \in 1..K}
<1>3. L!InGiven(v) = Cardinality(A) BY <1>1, TreeCardinality DEF L!InGiven, L!kWays
<1>4. \A i \in 1..K, j \in Nat : <<i, j>> \in A <=> j \in 1..Len(given[i]) /\ given[i][j] = v BY <1>2
<1>5. A \subseteq (1..K) \X Nat BY <1>2
<1>6. PICK B : B = Pairs(given, Lens(given), v) OBVIOUS
<1>7. B \subseteq (1..K) \X Nat BY <1>1, <1>6 DEF Pairs
<1>8. \A i \in 1..K, j \in Nat : <<i, j>> \in B <=> j \in 1..Len(given[i]) /\ given[i][j] = v
  BY <1>1, <1>6 DEF Pairs, Lens
<1> HIDE DEF A
<1>9. \A x \in (1..K) \X Nat : x \in A <=> x \in B BY <1>4, <1>8
<1>10. A = B BY <1>5, <1>7, <1>9
<1> QED BY <1>3, <1>6, <1>10

\* What is left of a sorted list.
Rest(g, l) ==
  /\ g \in Seq(0..Top) /\ l \in Seq(0..Top) /\ L!Sorted(g)
  /\ Len(l) <= Len(g) /\ \A j \in 1..Len(l) : l[j] = g[Len(g) - Len(l) + j]
LEMMA RestAscends ==
  ASSUME NEW g, NEW l, Rest(g, l)
  PROVE  Ascending(g) /\ Top \in Nat /\ Len(g) \in Nat /\ Len(l) \in Nat /\ \A j \in 1..Len(g) : g[j] \in 0..Top
<1>1. g \in Seq(0..Top) /\ l \in Seq(0..Top) /\ L!Sorted(g) BY DEF Rest
<1>2. Top \in Nat BY MergeAssumption
<1>3. \A j \in 1..Len(g) : g[j] \in 0..Top
  <2>1. PICK V : V = 0..Top OBVIOUS
  <2>2. g \in Seq(V) BY <1>1, <2>1
  <2>3. \A j \in 1..Len(g) : g[j] \in V BY <2>2
  <2> QED BY <2>1, <2>3
<1>4. g \in Seq(Nat)
  <2>1. Seq(0..Top) \subseteq Seq(Nat) BY <1>2
  <2> QED BY <1>1, <2>1
<1> QED BY <1>1, <1>2, <1>3, <1>4, SortedAscends

\* The next value is the first of what is left, and the one behind it not less.
RestMoves(g, l) ==
  /\ Rest(g, Tail(l)) /\ Len(Tail(l)) = Len(l) - 1 /\ Head(l) = g[Len(g) - Len(l) + 1]
  /\ Head(l) \in 0..Top /\ L!input(l) = Head(l)
  /\ L!input(Tail(l)) \in 0..Top /\ L!input(Tail(l)) >= Head(l)
LEMMA RestTail ==
  ASSUME NEW g, NEW l, Rest(g, l), l # << >>
  PROVE  RestMoves(g, l)
<1>1. /\ g \in Seq(0..Top) /\ l \in Seq(0..Top) /\ L!Sorted(g)
      /\ Len(l) <= Len(g) /\ \A j \in 1..Len(l) : l[j] = g[Len(g) - Len(l) + j]
  BY DEF Rest
<1>2. Ascending(g) /\ Top \in Nat /\ Len(g) \in Nat /\ Len(l) \in Nat /\ \A j \in 1..Len(g) : g[j] \in 0..Top
  BY RestAscends
<1>3. PICK t, m, N : t = Tail(l) /\ m = Len(l) /\ N = Len(g) OBVIOUS
<1>4. m > 0 /\ t \in Seq(0..Top) /\ Len(t) = m - 1 /\ Head(l) = l[1] /\ \A j \in 1..(m - 1) : t[j] = l[j + 1]
  BY <1>1, <1>3
<1>5. l[1] = g[N - m + 1] /\ N - m + 1 \in 1..N BY <1>1, <1>2, <1>3, <1>4
<1>6. ASSUME NEW j \in 1..(m - 1) PROVE t[j] = g[N - (m - 1) + j]
  <2>1. j + 1 \in 1..m /\ N - m + (j + 1) = N - (m - 1) + j BY <1>2, <1>3
  <2>2. t[j] = l[j + 1] BY <1>4
  <2>3. l[j + 1] = g[N - m + (j + 1)] BY <1>1, <1>3, <2>1
  <2> QED BY <2>1, <2>2, <2>3
<1>7. Rest(g, t)
  <2>1. m - 1 <= N BY <1>1, <1>2, <1>3
  <2> QED BY <1>1, <1>3, <1>4, <1>6, <2>1 DEF Rest
<1>8. L!input(l) = Head(l) BY DEF L!input
<1>9. Head(l) \in 0..Top BY <1>2, <1>3, <1>4, <1>5
<1>10. L!input(t) \in 0..Top /\ L!input(t) >= Head(l)
  <2>1. CASE t = << >>
    <3>1. L!input(t) = Top BY <2>1 DEF L!input, L!INT_MAX
    <3> QED BY <1>2, <1>9, <3>1
  <2>2. CASE t # << >>
    <3>1. m - 1 > 0 BY <1>2, <1>3, <1>4, <2>2
    <3>2. L!input(t) = t[1] /\ t[1] = g[N - (m - 1) + 1]
      <4>1. 1 \in 1..(m - 1) BY <1>2, <1>3, <3>1
      <4>2. L!input(t) = t[1] BY <2>2 DEF L!input
      <4> QED BY <1>6, <4>1, <4>2
    <3>3. N - (m - 1) + 1 \in 1..N /\ N - m + 1 <= N - (m - 1) + 1 BY <1>1, <1>2, <1>3, <3>1
    <3>4. g[N - m + 1] <= g[N - (m - 1) + 1] BY <1>2, <1>3, <1>5, <3>3 DEF Ascending
    <3>5. g[N - (m - 1) + 1] \in 0..Top BY <1>2, <1>3, <3>3
    <3> QED BY <1>2, <1>4, <1>5, <1>9, <3>2, <3>4, <3>5
  <2> QED BY <2>1, <2>2
<1> QED BY <1>3, <1>4, <1>5, <1>7, <1>8, <1>9, <1>10 DEF RestMoves

\* A leaf with INT_MAX: what is left has no other value.
LEMMA RestTop ==
  ASSUME NEW g, NEW l, Rest(g, l), L!input(l) = Top
  PROVE  /\ \A j \in 1..Len(l) : l[j] = Top
         /\ \A j \in 1..Len(g) : g[j] # Top => j <= Len(g) - Len(l)
<1>1. Len(l) <= Len(g) /\ \A j \in 1..Len(l) : l[j] = g[Len(g) - Len(l) + j] BY DEF Rest
<1>2. Ascending(g) /\ Top \in Nat /\ Len(g) \in Nat /\ Len(l) \in Nat /\ \A j \in 1..Len(g) : g[j] \in 0..Top
  BY RestAscends
<1>3. PICK m, N : m = Len(l) /\ N = Len(g) OBVIOUS
<1>4. ASSUME NEW j \in 1..N, j > N - m PROVE g[j] = Top
  <2>1. m > 0 /\ N - m + 1 \in 1..N /\ N - m + 1 <= j BY <1>1, <1>2, <1>3, <1>4
  <2>2. l # << >> BY <1>3, <2>1
  <2>3. L!input(l) = l[1] BY <2>2 DEF L!input
  <2>4. l[1] = g[N - m + 1] BY <1>1, <1>2, <1>3, <2>1
  <2>5. g[N - m + 1] <= g[j] BY <1>2, <1>3, <2>1 DEF Ascending
  <2>6. g[j] \in 0..Top BY <1>2, <1>3
  <2> QED BY <1>2, <2>3, <2>4, <2>5, <2>6
<1>5. ASSUME NEW j \in 1..m PROVE l[j] = Top
  <2>1. N - m + j \in 1..N /\ N - m + j > N - m BY <1>1, <1>2, <1>3
  <2>2. g[N - m + j] = Top BY <1>4, <2>1
  <2> QED BY <1>1, <1>3, <2>2
<1>6. ASSUME NEW j \in 1..N, g[j] # Top PROVE j <= N - m
  <2>1. ~(j > N - m) BY <1>4, <1>6
  <2> QED BY <1>2, <1>3, <2>1
<1> QED BY <1>3, <1>5, <1>6

\* A leaf with INT_MIN: the list began with it.
LEMMA RestZero ==
  ASSUME NEW g, NEW l, Rest(g, l), L!input(l) = 0
  PROVE  g # << >> /\ Head(g) = 0
<1>1. Len(l) <= Len(g) /\ \A j \in 1..Len(l) : l[j] = g[Len(g) - Len(l) + j] BY DEF Rest
<1>2. Ascending(g) /\ Top \in Nat /\ Len(g) \in Nat /\ Len(l) \in Nat /\ \A j \in 1..Len(g) : g[j] \in 0..Top
  BY RestAscends
<1>3. l # << >> /\ L!input(l) = l[1] BY MergeAssumption DEF L!input, L!INT_MAX
<1>4. l \in Seq(0..Top) /\ g \in Seq(0..Top) BY DEF Rest
<1>5. Len(l) > 0 BY <1>3, <1>4
<1>6. PICK k : k = Len(g) - Len(l) + 1 OBVIOUS
<1>7. k \in 1..Len(g) /\ 1 \in 1..Len(g) /\ 1 <= k BY <1>1, <1>2, <1>5, <1>6
<1>8. g[k] = 0 BY <1>1, <1>2, <1>3, <1>5, <1>6
<1>9. g[1] <= g[k] BY <1>2, <1>7 DEF Ascending
<1>10. g[1] = 0 BY <1>2, <1>7, <1>8, <1>9
<1>11. g # << >> BY <1>4, <1>7
<1> QED BY <1>4, <1>10, <1>11

-----------------------------------------------------------------------------
(* Loser tree: the merge                                                   *)
(*                                                                         *)
(* Partly: what is left of the lists.  Merging: the tree stands for it,    *)
(* the result is sorted, is not above any leaf, and has every value as     *)
(* often as it has been taken from a list.                                 *)

Partly(gs, ls) ==
  /\ gs \in Seq(Seq(0..Top)) /\ ls \in Seq(Seq(0..Top)) /\ Len(ls) = Len(gs)
  /\ \A i \in 1..Len(gs) : Rest(gs[i], ls[i])
Taken(gs, ls) == [i \in 1..Len(gs) |-> Len(gs[i]) - Len(ls[i])]
Leaves(gs, ls, leaf, K) ==
  /\ K = Len(gs) /\ K > 0 /\ leaf \in [0..K -> Nat] /\ leaf[K] = 0
  /\ \A i \in 0..(K - 1) : leaf[i] = L!input(ls[i + 1])
Result(gs, ls, leaf, o, K) ==
  /\ L!Sorted(o) /\ \A j \in 1..Len(o) : o[j] # Top /\ \A i \in 0..(K - 1) : o[j] <= leaf[i]
  /\ \A v \in 0..Top : L!Occurrences(o, v) = Cardinality(Pairs(gs, Taken(gs, ls), v))
Merging(gs, ls, leaf, loser, o, K) ==
  Leaves(gs, ls, leaf, K) /\ Topped(loser, leaf, K, Positive(leaf, K), 0) /\ Result(gs, ls, leaf, o, K)

Merged(gs, o) ==
  /\ L!Sorted(o)
  /\ \A v \in (0..Top) \ {Top} : L!Occurrences(o, v) = Cardinality(Pairs(gs, Lens(gs), v))
  /\ L!Occurrences(o, Top) <= Cardinality(Pairs(gs, Lens(gs), Top))
LInv ==
  /\ Partly(given, lists) /\ out \in Seq(0..Top) /\ last \in -1..(Len(given) - 1)
  /\ pcL \in {"call", "loop", "returned", "undefined"}
  /\ pcL = "call" => lists = given /\ out = << >>
  /\ pcL = "loop" => Merging(given, lists, leaf_, loser_, out, Len(given))
  /\ pcL = "returned" => Merged(given, out)
  /\ pcL = "undefined" => \E i \in 2..Len(given) : given[i] # << >> /\ Head(given[i]) = 0

\* The invariant has what is to be shown.
LEMMA LInvMerges == ASSUME LInv PROVE MergesSorted
<1>1. given \in Seq(Seq(0..Top)) BY DEF LInv, Partly
<1>2. \A v : L!InGiven(v) = Cardinality(Pairs(given, Lens(given), v)) BY <1>1, InGivenPairs
<1>3. pcL = "returned" => Merged(given, out) BY DEF LInv
<1>4. pcL = "undefined" => \E i \in 2..Len(given) : given[i] # << >> /\ Head(given[i]) = 0 BY DEF LInv
<1> QED BY <1>2, <1>3, <1>4 DEF MergesSorted, L!MergesSorted, Merged, L!Values, L!INT_MIN, L!INT_MAX, L!kWays

\* Initially.
LEMMA LInitInv == L!Init => LInv
<1> SUFFICES ASSUME L!Init PROVE LInv OBVIOUS
<1>1. given = << >> /\ lists = << >> /\ out = << >> /\ last = -1 /\ pcL = "call" BY DEF L!Init
<1>2. Partly(<< >>, << >>) BY DEF Partly
<1> QED BY <1>1, <1>2 DEF LInv

\* A step that leaves the lists and the result alone.
LEMMA LUnchanged == ASSUME LInv, UNCHANGED varsL PROVE LInv'
BY DEF LInv, varsL

\* What is known of the lists.
LEMMA PartlyFacts ==
  ASSUME NEW gs, NEW ls, Partly(gs, ls)
  PROVE  /\ Len(gs) \in Nat /\ Len(ls) = Len(gs) /\ Taken(gs, ls) \in [1..Len(gs) -> Nat]
         /\ \A i \in 1..Len(gs) : Rest(gs[i], ls[i]) /\ Len(gs[i]) \in Nat /\ Len(ls[i]) \in Nat /\ Len(ls[i]) <= Len(gs[i])
<1>1. gs \in Seq(Seq(0..Top)) /\ Len(ls) = Len(gs) /\ Len(gs) \in Nat BY DEF Partly
<1>2. ASSUME NEW i \in 1..Len(gs)
      PROVE  Rest(gs[i], ls[i]) /\ Len(gs[i]) \in Nat /\ Len(ls[i]) \in Nat /\ Len(ls[i]) <= Len(gs[i])
  <2>1. Rest(gs[i], ls[i]) BY DEF Partly
  <2>2. Len(gs[i]) \in Nat /\ Len(ls[i]) \in Nat BY <2>1, RestAscends
  <2> QED BY <2>1, <2>2 DEF Rest
<1>3. Taken(gs, ls) \in [1..Len(gs) -> Nat] BY <1>2 DEF Taken
<1> QED BY <1>1, <1>2, <1>3

\* Nothing has been taken yet.
LEMMA NothingTaken ==
  ASSUME NEW gs, Partly(gs, gs), NEW v
  PROVE  Cardinality(Pairs(gs, Taken(gs, gs), v)) = 0 /\ L!Occurrences(<< >>, v) = 0
<1>1. \A i \in 1..Len(gs) : Len(gs[i]) \in Nat BY PartlyFacts
<1>2. \A i \in 1..Len(gs) : Taken(gs, gs)[i] = 0 BY <1>1 DEF Taken
<1>3. Pairs(gs, Taken(gs, gs), v) = {} BY <1>2 DEF Pairs
<1>4. {j \in 1..Len(<< >>) : << >>[j] = v} = {} OBVIOUS
<1>5. L!Occurrences(<< >>, v) = Cardinality({}) BY <1>4, TreeCardinality DEF L!Occurrences
<1> QED BY <1>3, <1>5, FS_EmptySet

\* The caller adds a list.
LEMMA LPushStep == ASSUME LInv, L!PushBack PROVE LInv'
<1>1. PICK l \in L!SortedLists : given' = Append(given, l) /\ lists' = given' BY DEF L!PushBack
<1>2. pcL = "call" /\ pcL' = "call" /\ out' = out /\ last' = last BY DEF L!PushBack
<1>3. Partly(given, given) /\ out = << >> /\ last \in -1..(Len(given) - 1) BY <1>2 DEF LInv
<1>4. L!Sorted(l) /\ l \in Seq(0..Top)
  <2>1. PICK V : V = 0..Top OBVIOUS
  <2>2. l \in UNION {[1..m -> V] : m \in 0..MaxNodes} /\ L!Sorted(l)
    BY <1>1, <2>1 DEF L!SortedLists, L!BoundedSeq, L!SeqOf, L!Values, L!INT_MIN, L!INT_MAX
  <2>3. PICK m \in 0..MaxNodes : l \in [1..m -> V] BY <2>2
  <2>4. m \in Nat BY MergeAssumption
  <2>5. l \in Seq(V) BY <2>3, <2>4, SeqDef
  <2> QED BY <2>1, <2>2, <2>5
<1>5. Rest(l, l)
  <2>1. Len(l) \in Nat BY <1>4
  <2>2. \A j \in 1..Len(l) : l[j] = l[Len(l) - Len(l) + j] BY <2>1
  <2> QED BY <1>4, <2>1, <2>2 DEF Rest
<1>6. PICK gs : gs = Append(given, l) OBVIOUS
<1>7. PICK V : V = Seq(0..Top) OBVIOUS
<1>8. /\ gs \in Seq(V) /\ Len(gs) = Len(given) + 1 /\ gs[Len(given) + 1] = l /\ Len(given) \in Nat
      /\ \A i \in 1..Len(given) : gs[i] = given[i]
  <2>1. given \in Seq(V) /\ l \in V BY <1>3, <1>4, <1>7 DEF Partly
  <2> QED BY <1>6, <2>1
<1>9. ASSUME NEW i \in 1..Len(gs) PROVE Rest(gs[i], gs[i])
  <2>1. CASE i = Len(given) + 1 BY <1>5, <1>8, <2>1
  <2>2. CASE i # Len(given) + 1
    <3>1. i \in 1..Len(given) BY <1>8, <2>2
    <3> QED BY <1>3, <1>8, <3>1 DEF Partly
  <2> QED BY <2>1, <2>2
<1>10. Partly(gs, gs) BY <1>7, <1>8, <1>9 DEF Partly
<1>11. last \in -1..(Len(gs) - 1) BY <1>3, <1>8
<1>12. out \in Seq(0..Top) BY DEF LInv
<1> QED BY <1>1, <1>2, <1>3, <1>6, <1>10, <1>11, <1>12 DEF LInv

\* The tree is made.
LEMMA LBeginStep == ASSUME LInv, L!Begin PROVE LInv'
<1>1. PICK K : K = Len(given) OBVIOUS
<1>2. /\ Partly(given, given) /\ lists = given /\ out = << >> /\ out \in Seq(0..Top) /\ pcL = "call"
      /\ last \in -1..(Len(given) - 1) /\ given' = given /\ lists' = lists /\ out' = out /\ last' = last
  BY DEF L!Begin, LInv
<1>3. K \in Nat BY <1>1, <1>2, PartlyFacts
<1>4. L!Sorted(<< >>) BY DEF L!Sorted
<1>5. CASE K = 0
  <2>1. pcL' = "returned" BY <1>1, <1>5 DEF L!Begin, L!kWays
  <2>2. \A v : Pairs(given, Lens(given), v) = {} BY <1>1, <1>5 DEF Pairs
  <2>3. \A v : L!Occurrences(<< >>, v) = 0 BY <1>2, NothingTaken
  <2>4. Merged(given, << >>)
    <3>1. \A v : Cardinality(Pairs(given, Lens(given), v)) = 0 BY <2>2, FS_EmptySet
    <3> QED BY <1>4, <2>3, <3>1 DEF Merged
  <2> QED BY <1>2, <2>1, <2>4 DEF LInv
<1>6. CASE K # 0
  <2>1. PICK leaf : leaf = leaf_' OBVIOUS
  <2>2. PICK loser : loser = loser_' OBVIOUS
  <2>3. /\ leaf = [i \in 0..K |-> IF i = K THEN 0 ELSE L!input(given[i + 1])]
        /\ loser = L!CreateLoserTree(leaf) /\ pcL' = "loop"
    BY <1>1, <1>6, <2>1, <2>2 DEF L!Begin, L!kWays, L!INT_MIN
  <2>4. ASSUME NEW i \in 0..(K - 1) PROVE leaf[i] = L!input(given[i + 1]) /\ L!input(given[i + 1]) \in Nat
    <3>1. i + 1 \in 1..K /\ i \in 0..K /\ i # K BY <1>3
    <3>2. Rest(given[i + 1], given[i + 1]) BY <1>1, <1>2, <3>1, PartlyFacts
    <3>3. L!input(given[i + 1]) \in Nat
      <4>1. CASE given[i + 1] = << >> BY <4>1, MergeAssumption DEF L!input, L!INT_MAX
      <4>2. CASE given[i + 1] # << >>
        <5>1. RestMoves(given[i + 1], given[i + 1]) BY <3>2, <4>2, RestTail
        <5>2. L!input(given[i + 1]) \in 0..Top BY <5>1 DEF RestMoves
        <5> QED BY <5>2, MergeAssumption
      <4> QED BY <4>1, <4>2
    <3> QED BY <2>3, <3>1, <3>3
  <2>5. leaf \in [0..K -> Nat] /\ leaf[K] = 0
    <3>1. K \in 0..K /\ \A i \in 0..K : i # K => i \in 0..(K - 1) BY <1>3
    <3> QED BY <2>3, <2>4, <3>1
  <2>6. Topped(loser, leaf, K, Positive(leaf, K), 0)
    <3>1. K = L!kWays /\ K > 0 BY <1>1, <1>3, <1>6 DEF L!kWays
    <3>2. Topped(L!CreateLoserTree(leaf), leaf, K, {i \in 0..(K - 1) : leaf[i] > 0}, 0) BY <1>3, <2>5, <3>1, TreeCreated
    <3> QED BY <2>3, <3>2 DEF Positive
  <2>7. Leaves(given, given, leaf, K) BY <1>1, <1>3, <1>6, <2>4, <2>5 DEF Leaves
  <2>8. Result(given, given, leaf, << >>, K) BY <1>2, <1>4, NothingTaken DEF Result
  <2>9. Merging(given, given, leaf, loser, << >>, K) BY <2>6, <2>7, <2>8 DEF Merging
  <2> QED BY <1>1, <1>2, <2>1, <2>2, <2>3, <2>9 DEF LInv
<1> QED BY <1>5, <1>6

\* The sentinel wins.
LEMMA LOutStep == ASSUME LInv, L!OutOfRange PROVE LInv'
<1>1. PICK K : K = Len(given) OBVIOUS
<1>2. /\ pcL = "loop" /\ loser_[0] = K /\ pcL' = "undefined"
      /\ given' = given /\ lists' = lists /\ out' = out /\ last' = last
  BY <1>1 DEF L!OutOfRange, L!kWays
<1>3. Partly(given, lists) /\ Leaves(given, lists, leaf_, K) /\ Topped(loser_, leaf_, K, Positive(leaf_, K), 0)
  BY <1>1, <1>2 DEF LInv, Merging
<1>4. K \in Nat /\ \A i \in 1..K : Rest(given[i], lists[i]) BY <1>1, <1>3, PartlyFacts
<1>5. K > 0 /\ leaf_ \in [0..K -> Nat] /\ \A i \in 0..(K - 1) : leaf_[i] = L!input(lists[i + 1]) BY <1>3 DEF Leaves
<1>6. TopCases(loser_, leaf_, K) BY <1>3, <1>4, <1>5, OnTop
<1>7. K # 0 /\ K \notin 0..(K - 1) BY <1>4, <1>5
<1>8. PICK i \in 1..(K - 1) : leaf_[i] = 0 BY <1>2, <1>6, <1>7 DEF TopCases, Full
<1>9. i + 1 \in 1..K /\ i + 1 \in 2..K /\ i \in 0..(K - 1) BY <1>4
<1>10. Rest(given[i + 1], lists[i + 1]) /\ L!input(lists[i + 1]) = 0 BY <1>4, <1>5, <1>8, <1>9
<1>11. given[i + 1] # << >> /\ Head(given[i + 1]) = 0 BY <1>10, RestZero
<1>12. \E k \in 2..K : given[k] # << >> /\ Head(given[k]) = 0 BY <1>9, <1>11
<1>13. out \in Seq(0..Top) /\ last \in -1..(Len(given) - 1) BY DEF LInv
<1> QED BY <1>1, <1>2, <1>3, <1>12, <1>13 DEF LInv

\* A value is taken from list s.
TakenOne(gs, ls, leaf, K, s, ls2, leaf2, x) ==
  /\ Partly(gs, ls2) /\ Leaves(gs, ls2, leaf2, K)
  /\ leaf2[s] >= leaf[s] /\ \A i \in 0..(K - 1) : i # s => leaf2[i] = leaf[i]
  /\ x = leaf[s] /\ x \in 0..Top /\ x = gs[s + 1][Taken(gs, ls)[s + 1] + 1]
  /\ Taken(gs, ls2)[s + 1] = Taken(gs, ls)[s + 1] + 1
  /\ \A k \in 1..K : k # s + 1 => Taken(gs, ls2)[k] = Taken(gs, ls)[k]
LEMMA TakesOne ==
  ASSUME NEW gs, NEW ls, NEW leaf, NEW K, Partly(gs, ls), Leaves(gs, ls, leaf, K), NEW s \in 0..(K - 1), leaf[s] # Top,
         NEW ls2, ls2 = [ls EXCEPT ![s + 1] = Tail(@)],
         NEW leaf2, leaf2 = [leaf EXCEPT ![s] = L!input(ls2[s + 1])]
  PROVE  TakenOne(gs, ls, leaf, K, s, ls2, leaf2, Head(ls[s + 1]))
<1>1. /\ K \in Nat /\ K = Len(gs) /\ Len(ls) = K
      /\ \A i \in 1..K : Rest(gs[i], ls[i]) /\ Len(gs[i]) \in Nat /\ Len(ls[i]) \in Nat /\ Len(ls[i]) <= Len(gs[i])
  BY PartlyFacts DEF Leaves
<1>2. /\ K > 0 /\ leaf \in [0..K -> Nat] /\ leaf[K] = 0
      /\ \A i \in 0..(K - 1) : leaf[i] = L!input(ls[i + 1])
  BY DEF Leaves
<1>3. PICK p : p = s + 1 OBVIOUS
<1>4. p \in 1..K /\ s \in Nat /\ s \in 0..K /\ s # K BY <1>1, <1>3
<1>5. PICK g, l : g = gs[p] /\ l = ls[p] OBVIOUS
<1>6. Rest(g, l) /\ leaf[s] = L!input(l) BY <1>1, <1>2, <1>3, <1>4, <1>5
<1>7. l # << >> BY <1>6 DEF L!input, L!INT_MAX
<1>8. RestMoves(g, l) BY <1>6, <1>7, RestTail
<1>9. /\ Rest(g, Tail(l)) /\ Len(Tail(l)) = Len(l) - 1 /\ Head(l) = g[Len(g) - Len(l) + 1]
      /\ Head(l) \in 0..Top /\ L!input(l) = Head(l)
      /\ L!input(Tail(l)) \in 0..Top /\ L!input(Tail(l)) >= Head(l)
  BY <1>8 DEF RestMoves
<1>10. PICK V : V = Seq(0..Top) OBVIOUS
<1>11. ls \in Seq(V) /\ gs \in Seq(V) BY <1>10 DEF Partly
<1>12. ls \in [1..K -> V] BY <1>1, <1>11
<1>13. Tail(l) \in V BY <1>9, <1>10 DEF Rest
<1>14. ls2 = [ls EXCEPT ![p] = Tail(l)] BY <1>3, <1>5
<1>15. ls2 \in [1..K -> V] /\ ls2[p] = Tail(l) /\ \A i \in 1..K : i # p => ls2[i] = ls[i]
  BY <1>4, <1>12, <1>13, <1>14
<1>16. ls2 \in Seq(V) /\ Len(ls2) = K
  <2>1. ls2 \in Seq(V) BY <1>1, <1>15, SeqDef
  <2>2. DOMAIN ls2 = 1..K BY <1>15
  <2> QED BY <1>1, <2>1, <2>2, LenProperties
<1>17. ASSUME NEW i \in 1..K PROVE Rest(gs[i], ls2[i])
  <2>1. CASE i = p BY <1>5, <1>9, <1>15, <2>1
  <2>2. CASE i # p BY <1>1, <1>15, <2>2
  <2> QED BY <2>1, <2>2
<1>18. Partly(gs, ls2) BY <1>1, <1>10, <1>11, <1>16, <1>17 DEF Partly
<1>19. PICK x : x = L!input(Tail(l)) OBVIOUS
<1>20. x \in Nat /\ leaf2 = [leaf EXCEPT ![s] = x]
  <2>1. x \in Nat BY <1>9, <1>19, MergeAssumption
  <2>2. L!input(ls2[s + 1]) = x BY <1>3, <1>15, <1>19
  <2> QED BY <2>1, <2>2
<1>21. leaf2 \in [0..K -> Nat] /\ leaf2[K] = 0 /\ leaf2[s] = x /\ \A i \in 0..(K - 1) : i # s => leaf2[i] = leaf[i]
  <2>1. K \in 0..K /\ \A i \in 0..(K - 1) : i \in 0..K BY <1>1
  <2> HIDE DEF L!input
  <2> QED BY <1>2, <1>4, <1>20, <2>1
<1>22. ASSUME NEW i \in 0..(K - 1) PROVE leaf2[i] = L!input(ls2[i + 1])
  <2>1. i + 1 \in 1..K /\ (i # s => i + 1 # p) BY <1>1, <1>3, <1>4
  <2>2. CASE i = s BY <1>3, <1>15, <1>19, <1>21, <2>2
  <2>3. CASE i # s BY <1>2, <1>15, <1>21, <2>1, <2>3
  <2> QED BY <2>2, <2>3
<1>23. Leaves(gs, ls2, leaf2, K) BY <1>1, <1>2, <1>21, <1>22 DEF Leaves
<1>24. leaf2[s] >= leaf[s] BY <1>6, <1>9, <1>19, <1>21
<1>25. Taken(gs, ls)[p] = Len(g) - Len(l) /\ Taken(gs, ls2)[p] = Len(g) - Len(Tail(l))
  BY <1>1, <1>4, <1>5, <1>15 DEF Taken
<1>26. Taken(gs, ls2)[p] = Taken(gs, ls)[p] + 1
  <2>1. Len(g) \in Nat /\ Len(l) \in Nat BY <1>1, <1>4, <1>5
  <2> QED BY <1>9, <1>25, <2>1
<1>27. \A k \in 1..K : k # p => Taken(gs, ls2)[k] = Taken(gs, ls)[k] BY <1>1, <1>15 DEF Taken
<1>28. Head(l) = leaf[s] /\ Head(l) \in 0..Top /\ Head(l) = gs[p][Taken(gs, ls)[p] + 1] BY <1>5, <1>6, <1>9, <1>25
<1> QED BY <1>3, <1>5, <1>18, <1>21, <1>23, <1>24, <1>26, <1>27, <1>28 DEF TakenOne

\* It is appended to the result.
LEMMA ResultGrows ==
  ASSUME NEW gs, NEW ls, NEW leaf, NEW K, Partly(gs, ls), Leaves(gs, ls, leaf, K), NEW s \in 0..(K - 1), leaf[s] # Top,
         NEW o \in Seq(0..Top), Result(gs, ls, leaf, o, K), \A i \in 0..(K - 1) : leaf[s] <= leaf[i],
         NEW ls2, NEW leaf2, NEW x, TakenOne(gs, ls, leaf, K, s, ls2, leaf2, x)
  PROVE  Result(gs, ls2, leaf2, Append(o, x), K) /\ Append(o, x) \in Seq(0..Top)
<1>1. /\ Partly(gs, ls2) /\ Leaves(gs, ls2, leaf2, K)
      /\ leaf2[s] >= leaf[s] /\ \A i \in 0..(K - 1) : i # s => leaf2[i] = leaf[i]
      /\ x = leaf[s] /\ x \in 0..Top
  BY DEF TakenOne
<1>2. PICK n, n2 : n = Taken(gs, ls) /\ n2 = Taken(gs, ls2) OBVIOUS
<1>3. /\ x = gs[s + 1][n[s + 1] + 1] /\ n2[s + 1] = n[s + 1] + 1 /\ \A k \in 1..K : k # s + 1 => n2[k] = n[k]
  BY <1>2 DEF TakenOne
<1>4. K \in Nat /\ K = Len(gs) /\ n \in [1..K -> Nat] /\ n2 \in [1..K -> Nat]
  <2>1. K = Len(gs) BY DEF Leaves
  <2> QED BY <1>1, <1>2, <2>1, PartlyFacts
<1>5. leaf \in [0..K -> Nat] /\ leaf2 \in [0..K -> Nat] BY <1>1 DEF Leaves
<1>6. ASSUME NEW i \in 0..(K - 1) PROVE leaf[i] \in Nat /\ leaf2[i] \in Nat /\ leaf[i] <= leaf2[i]
  <2>1. i \in 0..K BY <1>4
  <2>2. leaf[i] \in Nat /\ leaf2[i] \in Nat BY <1>5, <2>1
  <2>3. CASE i = s BY <1>1, <2>2, <2>3
  <2>4. CASE i # s BY <1>1, <2>2, <2>4
  <2> QED BY <2>2, <2>3, <2>4
<1>7. PICK V, m, o2 : V = 0..Top /\ m = Len(o) /\ o2 = Append(o, x) OBVIOUS
<1>8. o \in Seq(V) /\ x \in V BY <1>1, <1>7
<1>9. m \in Nat /\ o2 \in Seq(V) /\ Len(o2) = m + 1 /\ o2[m + 1] = x /\ \A j \in 1..m : o2[j] = o[j] BY <1>7, <1>8
<1>10. L!Sorted(o) /\ \A j \in 1..m : o[j] # Top /\ \A i \in 0..(K - 1) : o[j] <= leaf[i] BY <1>7 DEF Result
<1>11. \A j \in 1..(m + 1) : j \in 1..m \/ j = m + 1 BY <1>9
<1>12. \A j \in 1..m : o[j] \in Nat
  <2>1. \A j \in 1..Len(o) : o[j] \in V BY <1>8
  <2>2. \A y \in V : y \in Nat BY <1>7
  <2> QED BY <1>7, <2>1, <2>2
<1>13. \A j \in 1..(m + 1) : o2[j] # Top /\ \A i \in 0..(K - 1) : o2[j] <= leaf2[i]
  <2>1. ASSUME NEW j \in 1..m PROVE o2[j] # Top /\ \A i \in 0..(K - 1) : o2[j] <= leaf2[i]
    <3>1. o2[j] = o[j] /\ o[j] \in Nat /\ o[j] # Top /\ \A i \in 0..(K - 1) : o[j] <= leaf[i] BY <1>9, <1>10, <1>12
    <3>2. ASSUME NEW i \in 0..(K - 1) PROVE o[j] <= leaf2[i]
      <4>1. leaf[i] \in Nat /\ leaf2[i] \in Nat /\ leaf[i] <= leaf2[i] BY <1>6
      <4> QED BY <3>1, <4>1
    <3> QED BY <3>1, <3>2
  <2>2. o2[m + 1] # Top /\ \A i \in 0..(K - 1) : o2[m + 1] <= leaf2[i] BY <1>1, <1>6, <1>9
  <2> QED BY <1>11, <2>1, <2>2
<1>14. L!Sorted(o2)
  <2> SUFFICES ASSUME NEW j \in 1..(Len(o2) - 1) PROVE o2[j] <= o2[j + 1] BY DEF L!Sorted
  <2>1. j \in 1..m BY <1>9
  <2>2. CASE j = m BY <1>1, <1>9, <1>10, <2>1, <2>2
  <2>3. CASE j # m
    <3>1. j \in 1..(m - 1) /\ j + 1 \in 1..m BY <1>9, <2>1, <2>3
    <3>2. o[j] <= o[j + 1] BY <1>7, <1>10, <3>1 DEF L!Sorted
    <3> QED BY <1>9, <2>1, <3>1, <3>2
  <2> QED BY <2>2, <2>3
<1>15. ASSUME NEW v \in 0..Top PROVE L!Occurrences(o2, v) = Cardinality(Pairs(gs, n2, v))
  <2>1. L!Occurrences(o, v) = Cardinality(Pairs(gs, n, v)) BY <1>2 DEF Result
  <2>2. L!Occurrences(o2, v) = L!Occurrences(o, v) + One(x = v)
    <3>1. L!Occurrences(Append(o, x), v) = L!Occurrences(o, v) + One(x = v) BY <1>8, OccurrencesAppend
    <3> QED BY <1>7, <3>1
  <2>3. PICK p : p = s + 1 OBVIOUS
  <2>4. p \in 1..K BY <1>4, <2>3
  <2>5. n2[p] = n[p] + 1 /\ \A k \in 1..K : k # p => n2[k] = n[k] BY <1>3, <2>3
  <2>6. x = gs[p][n[p] + 1] BY <1>3, <2>3
  <2>7. OneMore(gs, n, n2, v, p) BY <1>4, <2>4, <2>5, PairsMore
  <2> QED BY <2>1, <2>2, <2>6, <2>7 DEF OneMore
<1>16. Result(gs, ls2, leaf2, o2, K) BY <1>2, <1>9, <1>13, <1>14, <1>15 DEF Result
<1> QED BY <1>7, <1>9, <1>16

\* One round of the loop.
LEMMA LRoundStep == ASSUME LInv, L!Round PROVE LInv'
<1>1. PICK K, s : K = Len(given) /\ s = loser_[0] OBVIOUS
<1>2. /\ pcL = "loop" /\ leaf_[s] # Top /\ s \in 0..(K - 1)
      /\ out' = Append(out, Head(lists[s + 1])) /\ last' = s
      /\ given' = given /\ pcL' = pcL
  BY <1>1 DEF L!Round, L!INT_MAX, L!Positions, L!kWays
<1>3. PICK ls2, leaf2, loser2 : ls2 = lists' /\ leaf2 = leaf_' /\ loser2 = loser_' OBVIOUS
<1>4. /\ ls2 = [lists EXCEPT ![s + 1] = Tail(@)] /\ leaf2 = [leaf_ EXCEPT ![s] = L!input(ls2[s + 1])]
      /\ loser2 = L!Adjust(leaf2, loser_, s)
  BY <1>1, <1>3 DEF L!Round
<1>5. /\ Partly(given, lists) /\ out \in Seq(0..Top)
      /\ Leaves(given, lists, leaf_, K) /\ Topped(loser_, leaf_, K, Positive(leaf_, K), 0)
      /\ Result(given, lists, leaf_, out, K)
  BY <1>1, <1>2 DEF LInv, Merging
<1>6. K \in Nat /\ K > 0 /\ leaf_ \in [0..K -> Nat] /\ leaf_[K] = 0 BY <1>1, <1>5, PartlyFacts DEF Leaves
<1>7. TopCases(loser_, leaf_, K) BY <1>5, <1>6, OnTop
<1>8. \A i \in 0..(K - 1) : leaf_[s] <= leaf_[i]
  <2>1. s # K BY <1>2, <1>6
  <2>2. CASE s = 0 /\ leaf_[0] = 0
    <3>1. \A i \in 0..(K - 1) : leaf_[i] \in Nat BY <1>6
    <3> QED BY <2>2, <3>1
  <2>3. CASE Full(loser_, leaf_, K, s) BY <2>3 DEF Full
  <2> QED BY <1>1, <1>7, <2>1, <2>2, <2>3 DEF TopCases
<1>9. PICK x : x = Head(lists[s + 1]) OBVIOUS
<1>10. TakenOne(given, lists, leaf_, K, s, ls2, leaf2, x)
  <2>1. TakenOne(given, lists, leaf_, K, s, ls2, leaf2, Head(lists[s + 1])) BY <1>2, <1>4, <1>5, TakesOne
  <2> QED BY <1>9, <2>1
<1>11. Result(given, ls2, leaf2, Append(out, x), K) /\ Append(out, x) \in Seq(0..Top)
  BY <1>2, <1>5, <1>8, <1>10, ResultGrows
<1>12. /\ Partly(given, ls2) /\ Leaves(given, ls2, leaf2, K)
       /\ leaf2[s] >= leaf_[s] /\ \A i \in 0..(K - 1) : i # s => leaf2[i] = leaf_[i]
  BY <1>10 DEF TakenOne
<1>13. leaf2 \in [0..K -> Nat] /\ leaf2[K] = 0 BY <1>12 DEF Leaves
<1>14. loser_ \in [0..(K - 1) -> 0..K]
  <2>1. \E E, w : Tree(loser_, leaf_, K, Positive(leaf_, K), E, w) BY <1>5, ToppedTree
  <2> QED BY <2>1 DEF Tree
<1>15. Topped(loser2, leaf2, K, Positive(leaf2, K), 0)
  <2>1. K = L!kWays BY <1>1 DEF L!kWays
  <2>2. Topped(L!Adjust(leaf2, loser_, s), leaf2, K, Positive(leaf2, K), 0)
    BY <1>1, <1>2, <1>6, <1>7, <1>12, <1>13, <1>14, <2>1, NextRound
  <2> QED BY <1>4, <2>2
<1>16. Merging(given, ls2, leaf2, loser2, Append(out, x), K) BY <1>11, <1>12, <1>15 DEF Merging
<1>17. last' \in -1..(Len(given) - 1) BY <1>1, <1>2, <1>6
<1> QED BY <1>1, <1>2, <1>3, <1>9, <1>11, <1>12, <1>16, <1>17 DEF LInv

\* When the winner has INT_MAX, nothing but INT_MAX is left.
LEMMA AllTaken ==
  ASSUME NEW gs, NEW ls, Partly(gs, ls), \A i \in 1..Len(gs) : L!input(ls[i]) = Top, NEW v, v # Top
  PROVE  Pairs(gs, Taken(gs, ls), v) = Pairs(gs, Lens(gs), v)
<1>1. PICK K, n, N : K = Len(gs) /\ n = Taken(gs, ls) /\ N = Lens(gs) OBVIOUS
<1>2. /\ K \in Nat
      /\ \A i \in 1..K : Rest(gs[i], ls[i]) /\ Len(gs[i]) \in Nat /\ Len(ls[i]) \in Nat /\ Len(ls[i]) <= Len(gs[i])
  BY <1>1, PartlyFacts
<1>3. ASSUME NEW i \in 1..K, NEW j \in Nat, gs[i][j] = v PROVE j \in 1..n[i] <=> j \in 1..N[i]
  <2>1. \A k \in 1..Len(gs[i]) : gs[i][k] # Top => k <= Len(gs[i]) - Len(ls[i]) BY <1>1, <1>2, RestTop
  <2>2. n[i] = Len(gs[i]) - Len(ls[i]) /\ N[i] = Len(gs[i]) BY <1>1 DEF Taken, Lens
  <2>3. Len(gs[i]) \in Nat /\ Len(ls[i]) \in Nat BY <1>2
  <2>4. n[i] <= N[i] /\ n[i] \in Int /\ N[i] \in Nat
    <3>1. PICK a, b : a = Len(gs[i]) /\ b = Len(ls[i]) OBVIOUS
    <3>2. a \in Nat /\ b \in Nat /\ n[i] = a - b /\ N[i] = a BY <2>2, <2>3, <3>1
    <3> QED BY <3>2
  <2>5. j \in 1..N[i] => j <= n[i] BY <1>3, <2>1, <2>2
  <2> QED BY <2>4, <2>5
<1>4. PICK A, B : A = Pairs(gs, n, v) /\ B = Pairs(gs, N, v) OBVIOUS
<1>5. A \subseteq (1..K) \X Nat /\ B \subseteq (1..K) \X Nat BY <1>1, <1>4 DEF Pairs
<1>6. \A i \in 1..K, j \in Nat : <<i, j>> \in A <=> j \in 1..n[i] /\ gs[i][j] = v BY <1>1, <1>4 DEF Pairs
<1>7. \A i \in 1..K, j \in Nat : <<i, j>> \in B <=> j \in 1..N[i] /\ gs[i][j] = v BY <1>1, <1>4 DEF Pairs
<1>8. \A i \in 1..K, j \in Nat : <<i, j>> \in A <=> <<i, j>> \in B BY <1>3, <1>6, <1>7
<1>9. \A x \in (1..K) \X Nat : x \in A <=> x \in B BY <1>8
<1>10. A = B BY <1>5, <1>9
<1> QED BY <1>1, <1>4, <1>10

\* INT_MAX is in a list at least as often as in what is left of it.
LEMMA TopsLeft ==
  ASSUME NEW gs, NEW ls, Partly(gs, ls), NEW i \in 1..Len(gs), L!input(ls[i]) = Top
  PROVE  Len(ls[i]) <= Cardinality(Pairs(gs, Lens(gs), Top))
<1>1. PICK K, N : K = Len(gs) /\ N = Lens(gs) OBVIOUS
<1>2. K \in Nat /\ Rest(gs[i], ls[i]) /\ \A k \in 1..K : Len(gs[k]) \in Nat BY <1>1, PartlyFacts
<1>3. PICK g, l : g = gs[i] /\ l = ls[i] OBVIOUS
<1>4. Rest(g, l) /\ Len(g) \in Nat /\ Len(l) \in Nat /\ Len(l) <= Len(g) BY <1>2, <1>3, PartlyFacts
<1>5. \A j \in 1..Len(l) : l[j] = Top /\ l[j] = g[Len(g) - Len(l) + j]
  <2>1. \A j \in 1..Len(l) : l[j] = Top BY <1>3, <1>4, RestTop
  <2> QED BY <1>4, <2>1 DEF Rest
<1>6. PICK A : A = Pairs(gs, N, Top) OBVIOUS
<1>7. IsFiniteSet(A) /\ Cardinality(A) \in Nat
  <2>1. N \in [1..K -> Nat] BY <1>1, <1>2 DEF Lens
  <2> QED BY <1>1, <1>2, <1>6, <2>1, PairsFinite
<1> DEFINE f == [j \in 1..Len(l) |-> <<i, Len(g) - Len(l) + j>>]
<1>8. ASSUME NEW j \in 1..Len(l) PROVE f[j] \in A
  <2>1. PICK k : k = Len(g) - Len(l) + j OBVIOUS
  <2>2. k \in Nat /\ k \in 1..Len(g) BY <1>4, <2>1
  <2>3. g[k] = Top BY <1>5, <2>1
  <2>4. N[i] = Len(g) BY <1>1, <1>3 DEF Lens
  <2>5. <<i, k>> \in A BY <1>1, <1>3, <1>6, <2>2, <2>3, <2>4 DEF Pairs
  <2> QED BY <2>1, <2>5
<1>9. \A j, k \in 1..Len(l) : f[j] = f[k] => j = k BY <1>4
<1>10. f \in [1..Len(l) -> A] BY <1>8
<1>11. f \in Injection(1..Len(l), A)
  <2> HIDE DEF f
  <2> QED BY <1>9, <1>10 DEF Injection, IsInjective
<1>12. Cardinality(1..Len(l)) <= Cardinality(A)
  <2> HIDE DEF f
  <2> QED BY <1>7, <1>11, FS_Injection
<1>13. Cardinality(1..Len(l)) = Len(l)
  <2>1. 1 \in Int /\ Len(l) \in Int BY <1>4
  <2>2. Cardinality(1..Len(l)) = IF 1 > Len(l) THEN 0 ELSE Len(l) - 1 + 1 BY <2>1, FS_Interval
  <2> QED BY <1>4, <2>2
<1> QED BY <1>1, <1>3, <1>6, <1>12, <1>13

\* How often a value is in a sequence that is followed by INT_MAX only.
LEMMA OccurrencesTops ==
  ASSUME NEW V, NEW o \in Seq(V), NEW l \in Seq(V), \A j \in 1..Len(o) : o[j] # Top, \A j \in 1..Len(l) : l[j] = Top
  PROVE  /\ \A v : v # Top => L!Occurrences(o \o l, v) = L!Occurrences(o, v)
         /\ L!Occurrences(o \o l, Top) = Len(l) /\ L!Occurrences(o, Top) = 0
<1>1. PICK m, k, t : m = Len(o) /\ k = Len(l) /\ t = o \o l OBVIOUS
<1>2. m \in Nat /\ k \in Nat /\ Len(t) = m + k BY <1>1
<1>3. \A j \in 1..m : t[j] = o[j] /\ o[j] # Top BY <1>1
<1>4. ASSUME NEW j \in (m + 1)..(m + k) PROVE t[j] = Top
  <2>1. j - m \in 1..k BY <1>2
  <2>2. t[j] = l[j - m] BY <1>1, <1>2, <2>1
  <2> QED BY <1>1, <2>1, <2>2
<1>5. \A j \in 1..(m + k) : j \in 1..m \/ j \in (m + 1)..(m + k) BY <1>2
<1>6. \A j \in 1..m : j \in 1..(m + k) BY <1>2
<1>7. \A j \in (m + 1)..(m + k) : j \in 1..(m + k) BY <1>2
<1>8. ASSUME NEW v, v # Top PROVE L!Occurrences(t, v) = L!Occurrences(o, v)
  <2>1. {j \in 1..(m + k) : t[j] = v} = {j \in 1..m : o[j] = v} BY <1>3, <1>4, <1>5, <1>6, <1>8
  <2> QED BY <1>1, <1>2, <2>1 DEF L!Occurrences
<1>9. L!Occurrences(t, Top) = k
  <2>1. {j \in 1..(m + k) : t[j] = Top} = (m + 1)..(m + k) BY <1>3, <1>4, <1>5, <1>7
  <2>2. m + 1 \in Int /\ m + k \in Int BY <1>2
  <2>3. Cardinality((m + 1)..(m + k)) = IF m + 1 > m + k THEN 0 ELSE (m + k) - (m + 1) + 1 BY <2>2, FS_Interval
  <2>4. Cardinality((m + 1)..(m + k)) = k BY <1>2, <2>3
  <2> QED BY <1>2, <2>1, <2>4, TreeCardinality DEF L!Occurrences
<1>10. L!Occurrences(o, Top) = 0
  <2>1. {j \in 1..Len(o) : o[j] = Top} = {} OBVIOUS
  <2> QED BY <2>1, TreeCardinality, FS_EmptySet DEF L!Occurrences
<1> QED BY <1>1, <1>8, <1>9, <1>10

\* ... and it is sorted, when it was.
LEMMA SortedTops ==
  ASSUME NEW o \in Seq(0..Top), NEW l \in Seq(0..Top), L!Sorted(o), \A j \in 1..Len(l) : l[j] = Top
  PROVE  L!Sorted(o \o l)
<1>1. PICK V, m, k, t : V = 0..Top /\ m = Len(o) /\ k = Len(l) /\ t = o \o l OBVIOUS
<1>2. o \in Seq(V) /\ l \in Seq(V) BY <1>1
<1>3. m \in Nat /\ k \in Nat /\ t \in Seq(V) /\ Len(t) = m + k BY <1>1, <1>2
<1>4. \A j \in 1..Len(o) : t[j] = o[j] /\ o[j] \in V
  <2>1. \A j \in 1..Len(o) : (o \o l)[j] = o[j] BY <1>2
  <2>2. \A j \in 1..Len(o) : o[j] \in V BY <1>2
  <2> QED BY <1>1, <2>1, <2>2
<1>5. ASSUME NEW j \in (m + 1)..(m + k) PROVE t[j] = Top
  <2>1. j - m \in 1..k BY <1>3
  <2>2. t[j] = l[j - m] BY <1>1, <1>2, <1>3, <2>1
  <2> QED BY <1>1, <2>1, <2>2
<1>6. L!Sorted(t)
  <2> SUFFICES ASSUME NEW j \in 1..(Len(t) - 1) PROVE t[j] <= t[j + 1] BY DEF L!Sorted
  <2>1. CASE j + 1 \in 1..m
    <3>1. j \in 1..(m - 1) /\ j \in 1..m BY <1>3, <2>1
    <3>2. o[j] <= o[j + 1] BY <1>1, <3>1 DEF L!Sorted
    <3> QED BY <1>1, <1>4, <2>1, <3>1, <3>2
  <2>2. CASE j + 1 \notin 1..m
    <3>1. j + 1 \in (m + 1)..(m + k) /\ j \in 1..(m + k) BY <1>3, <2>2
    <3>2. t[j + 1] = Top BY <1>5, <3>1
    <3>3. t[j] \in V BY <1>3, <3>1
    <3>4. \A y \in V : y <= Top BY <1>1, MergeAssumption
    <3> QED BY <3>2, <3>3, <3>4
  <2> QED BY <2>1, <2>2
<1> QED BY <1>1, <1>6

\* The merge is done.
LEMMA MergeDone ==
  ASSUME NEW gs, NEW ls, NEW leaf, NEW loser, NEW o \in Seq(0..Top), NEW K, Partly(gs, ls),
         Merging(gs, ls, leaf, loser, o, K), leaf[loser[0]] = Top
  PROVE  /\ Merged(gs, o)
         /\ \A i \in 1..K : Merged(gs, o \o ls[i]) /\ o \o ls[i] \in Seq(0..Top)
<1>1. /\ Leaves(gs, ls, leaf, K) /\ Topped(loser, leaf, K, Positive(leaf, K), 0) /\ Result(gs, ls, leaf, o, K)
  BY DEF Merging
<1>2. /\ K = Len(gs) /\ K > 0 /\ leaf \in [0..K -> Nat] /\ leaf[K] = 0
      /\ \A i \in 0..(K - 1) : leaf[i] = L!input(ls[i + 1])
  BY <1>1 DEF Leaves
<1>3. /\ K \in Nat
      /\ \A i \in 1..K : Rest(gs[i], ls[i]) /\ Len(gs[i]) \in Nat /\ Len(ls[i]) \in Nat
  BY <1>2, PartlyFacts
<1>4. TopCases(loser, leaf, K) BY <1>1, <1>2, <1>3, OnTop
<1>5. Top \in Nat /\ Top # 0 BY MergeAssumption
<1>6. Full(loser, leaf, K, loser[0]) BY <1>2, <1>4, <1>5 DEF TopCases
<1>7. \A i \in 0..(K - 1) : Top <= leaf[i] BY <1>6 DEF Full
<1>8. ASSUME NEW i \in 1..K PROVE L!input(ls[i]) = Top
  <2>1. i - 1 \in 0..(K - 1) /\ (i - 1) + 1 = i BY <1>3
  <2>2. Top <= L!input(ls[i])
    <3>1. PICK q : q = i - 1 OBVIOUS
    <3>2. q \in 0..(K - 1) /\ q + 1 = i BY <2>1, <3>1
    <3>3. leaf[q] = L!input(ls[q + 1]) /\ Top <= leaf[q] BY <1>2, <1>7, <3>2
    <3> QED BY <3>2, <3>3
  <2>3. CASE ls[i] = << >> BY <2>3 DEF L!input, L!INT_MAX
  <2>4. CASE ls[i] # << >>
    <3>1. RestMoves(gs[i], ls[i]) BY <1>3, <2>4, RestTail
    <3>2. L!input(ls[i]) \in 0..Top BY <3>1 DEF RestMoves
    <3> QED BY <1>5, <2>2, <3>2
  <2> QED BY <2>3, <2>4
<1>9. ASSUME NEW v \in (0..Top) \ {Top} PROVE L!Occurrences(o, v) = Cardinality(Pairs(gs, Lens(gs), v))
  <2>1. L!Occurrences(o, v) = Cardinality(Pairs(gs, Taken(gs, ls), v)) BY <1>1 DEF Result
  <2>2. Pairs(gs, Taken(gs, ls), v) = Pairs(gs, Lens(gs), v) BY <1>2, <1>8, AllTaken
  <2> QED BY <2>1, <2>2
<1>10. L!Sorted(o) /\ \A j \in 1..Len(o) : o[j] # Top BY <1>1 DEF Result
<1>11. ASSUME NEW i \in 1..K
       PROVE  /\ Merged(gs, o \o ls[i]) /\ o \o ls[i] \in Seq(0..Top) /\ L!Occurrences(o, Top) = 0
  <2>1. PICK l, V : l = ls[i] /\ V = 0..Top OBVIOUS
  <2>2. Rest(gs[i], l) /\ l \in Seq(V) /\ o \in Seq(V) BY <1>3, <2>1 DEF Rest
  <2>3. \A j \in 1..Len(l) : l[j] = Top BY <1>8, <2>1, <2>2, RestTop
  <2>4. /\ \A v : v # Top => L!Occurrences(o \o l, v) = L!Occurrences(o, v)
        /\ L!Occurrences(o \o l, Top) = Len(l) /\ L!Occurrences(o, Top) = 0
    BY <1>10, <2>2, <2>3, OccurrencesTops
  <2>5. L!Sorted(o \o l) BY <1>10, <2>1, <2>2, <2>3, SortedTops
  <2>6. Len(l) <= Cardinality(Pairs(gs, Lens(gs), Top)) BY <1>2, <1>8, <2>1, TopsLeft
  <2>7. Merged(gs, o \o l) BY <1>9, <2>4, <2>5, <2>6 DEF Merged
  <2>8. o \o l \in Seq(V) BY <2>2
  <2> QED BY <2>1, <2>4, <2>7, <2>8
<1>12. Merged(gs, o)
  <2>1. 1 \in 1..K BY <1>2, <1>3
  <2>2. L!Occurrences(o, Top) = 0 BY <1>11, <2>1
  <2>3. Cardinality(Pairs(gs, Lens(gs), Top)) \in Nat
    <3>1. Lens(gs) \in [1..K -> Nat] BY <1>2, <1>3 DEF Lens
    <3> QED BY <1>2, <1>3, <3>1, PairsFinite
  <2>4. L!Occurrences(o, Top) <= Cardinality(Pairs(gs, Lens(gs), Top)) BY <2>2, <2>3
  <2> QED BY <1>9, <1>10, <2>4 DEF Merged
<1> QED BY <1>11, <1>12

\* The loop ends.
LEMMA LReturnStep == ASSUME LInv, L!Return PROVE LInv'
<1>1. PICK K : K = Len(given) OBVIOUS
<1>2. /\ pcL = "loop" /\ leaf_[loser_[0]] = Top /\ pcL' = "returned"
      /\ out' = (IF last = -1 THEN out ELSE out \o lists[last + 1])
      /\ given' = given /\ lists' = lists /\ last' = last
  BY DEF L!Return, L!INT_MAX
<1>3. /\ Partly(given, lists) /\ out \in Seq(0..Top) /\ last \in -1..(K - 1)
      /\ Merging(given, lists, leaf_, loser_, out, K)
  BY <1>1, <1>2 DEF LInv
<1>4. Merged(given, out) /\ \A i \in 1..K : Merged(given, out \o lists[i]) /\ out \o lists[i] \in Seq(0..Top)
  BY <1>2, <1>3, MergeDone
<1>5. Merged(given, out') /\ out' \in Seq(0..Top)
  <2>1. CASE last = -1 BY <1>2, <1>3, <1>4, <2>1
  <2>2. CASE last # -1
    <3>1. K \in Nat BY <1>1, <1>3, PartlyFacts
    <3>2. last + 1 \in 1..K BY <1>3, <2>2, <3>1
    <3> QED BY <1>2, <1>4, <2>2, <3>2
  <2> QED BY <2>1, <2>2
<1> QED BY <1>1, <1>2, <1>3, <1>5 DEF LInv

\* Every step keeps the invariant.
LEMMA LStep == LInv /\ [Next]_vars => LInv'
<1> SUFFICES ASSUME LInv, [Next]_vars PROVE LInv' OBVIOUS
<1>1. CASE UNCHANGED varsL BY <1>1, LUnchanged
<1>2. CASE L!Next BY <1>2, LPushStep, LBeginStep, LRoundStep, LOutStep, LReturnStep DEF L!Next
<1> QED BY <1>1, <1>2 DEF Next, InS, InT, InL, InC, vars

\* mergeKLists() returns the values of its lists in order, every value as often
\* as the lists have it, whatever they are, with the exception of INT_MAX; it
\* reads beyond its lists only when one behind the first begins with INT_MIN.
THEOREM TreeMerges == Spec => []MergesSorted
<1>1. Init => LInv BY LInitInv DEF Init
<1>2. LInv => MergesSorted BY LInvMerges
<1> QED BY <1>1, <1>2, LStep, PTL DEF Spec
=============================================================================
