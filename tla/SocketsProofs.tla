---------------------------- MODULE SocketsProofs ----------------------------
(***************************************************************************)
(* Proofs about the socket programs of MCSockets: the zombies of the       *)
(* forking servers, the datagrams, and the pairs of programs on one TCP    *)
(* connection, for any number of clients, messages and datagrams, any      *)
(* length of a message and any buffer.                                     *)
(***************************************************************************)
EXTENDS MCSockets, ProdConsLemmas

-----------------------------------------------------------------------------
(* Forking servers and their zombies                                       *)

KidStates == {"none", "run", "zombie", "reaped", "orphan"}
FTypes ==
  /\ kid \in [F!Kids -> KidStates] /\ pending \in BOOLEAN /\ handler \in BOOLEAN /\ merged \in Nat
  /\ DOMAIN conn = Clients

\* A child is forked once: whoever is about to be forked never ran.
FNew ==
  /\ pcF \in {"storer", "fork1"} => \A k \in F!Kids : kid[k] = "none"
  /\ pcF = "fork2" => kid["second"] = "none"
  /\ pcF = "fork" => cur \in Clients /\ kid[cur] = "none" /\ conn[cur] \notin {"out", "queued"}
  /\ \A c \in Clients : conn[c] \in {"out", "queued"} => kid[c] = "none"

\* Every zombie has a signal: pending, being handled, or merged with another.
One(b) == IF b THEN 1 ELSE 0
FCount ==
  forking \in F!Handled /\ pcF # "done" =>
    Cardinality(F!Zombies) = merged + One(pending) + One(handler)

FInv == FTypes /\ FNew /\ FCount

\* ForkServer counts with its own instance of Cardinality.
LEMMA FCardinality == ASSUME NEW S PROVE F!Cardinality(S) = Cardinality(S)
BY DEF F!Cardinality, Cardinality

\* A truth value as a number.
LEMMA OneOf == ASSUME NEW b \in BOOLEAN PROVE Cardinality({s \in {1} : b}) = One(b)
<1>1. CASE b
  <2>1. {s \in {1} : b} = {1} BY <1>1
  <2>2. Cardinality({1}) = 1 BY FS_Singleton
  <2>3. Cardinality({s \in {1} : b}) = 1 BY <2>1, <2>2
  <2> QED BY <1>1, <2>3 DEF One
<1>2. CASE ~b
  <2>1. {s \in {1} : b} = {} BY <1>2
  <2>2. Cardinality({}) = 0 BY FS_EmptySet
  <2>3. Cardinality({s \in {1} : b}) = 0 BY <2>1, <2>2
  <2> QED BY <1>2, <2>3 DEF One
<1> QED BY <1>1, <1>2

\* The invariant contains the property.
LEMMA FInvMerged == FInv => ZombiesAreMerged
<1> SUFFICES ASSUME FInv PROVE F!ZombiesAreMerged BY DEF ZombiesAreMerged
<1>1. /\ F!Cardinality({s \in {1} : pending}) = One(pending)
      /\ F!Cardinality({s \in {1} : handler}) = One(handler)
      /\ F!Cardinality(F!Zombies) = Cardinality(F!Zombies)
  <2>1. pending \in BOOLEAN /\ handler \in BOOLEAN BY DEF FInv, FTypes
  <2>2. F!Cardinality({s \in {1} : pending}) = One(pending) BY <2>1, FCardinality, OneOf
  <2>3. F!Cardinality({s \in {1} : handler}) = One(handler) BY <2>1, FCardinality, OneOf
  <2> QED BY <2>2, <2>3, FCardinality
<1> QED BY <1>1 DEF FInv, FCount, F!ZombiesAreMerged

\* The children are finitely many.
LEMMA FFinite ==
  /\ IsFiniteSet(F!Kids) /\ IsFiniteSet(F!Zombies) /\ Cardinality(F!Zombies) \in Nat
  /\ Clients \subseteq F!Kids /\ "first" \in F!Kids /\ "second" \in F!Kids /\ "storer" \in F!Kids
  /\ "first" \notin Clients /\ "second" \notin Clients /\ "storer" \notin Clients
<1>1. IsFiniteSet({"first", "second", "storer"})
  <2>1. IsFiniteSet({"first"}) BY FS_Singleton
  <2>2. IsFiniteSet({"first"} \cup {"second"}) BY <2>1, FS_AddElement
  <2>3. IsFiniteSet(({"first"} \cup {"second"}) \cup {"storer"}) BY <2>2, FS_AddElement
  <2>4. {"first", "second", "storer"} = ({"first"} \cup {"second"}) \cup {"storer"} OBVIOUS
  <2> QED BY <2>3, <2>4
<1>2. IsFiniteSet(Clients \cup {"first", "second", "storer"}) BY <1>1, ForkAssumption, FS_Union
<1>3. F!Kids = Clients \cup {"first", "second", "storer"} BY DEF F!Kids, F!Pair, F!Storer
<1>4. IsFiniteSet(F!Kids) BY <1>2, <1>3
<1>5. F!Zombies \subseteq F!Kids BY DEF F!Zombies
<1>6. IsFiniteSet(F!Zombies) BY <1>4, <1>5, FS_Subset
<1>7. Cardinality(F!Zombies) \in Nat BY <1>6, FS_CardinalityType
<1> QED BY <1>3, <1>4, <1>6, <1>7, ForkAssumption

\* No child was forked.
LEMMA FInitInv == F!Init => FInv
<1> SUFFICES ASSUME F!Init PROVE FInv OBVIOUS
<1>1. /\ kid = [k \in F!Kids |-> "none"] /\ pending = FALSE /\ handler = FALSE /\ merged = 0
      /\ conn = [c \in Clients |-> "out"] /\ pcF \in {"accept", "storer", "fork1"}
  BY DEF F!Init
<1>2. FTypes BY <1>1 DEF FTypes, KidStates
<1>3. FNew BY <1>1, FFinite DEF FNew
<1>4. FCount
  <2>1. F!Zombies = {} BY <1>1 DEF F!Zombies
  <2>2. Cardinality(F!Zombies) = 0 BY <2>1, FS_EmptySet
  <2> QED BY <1>1, <2>2 DEF FCount, One
<1> QED BY <1>2, <1>3, <1>4 DEF FInv

\* A child ends: its signal is a new one or merged with one that is pending.
LEMMA FExitStep ==
  ASSUME FInv, NEW k \in F!Kids, kid[k] = "run", F!Exit(k), UNCHANGED <<forking, pcF, cur, conn>>
  PROVE  FInv'
<1>1. /\ kid' = [kid EXCEPT ![k] = IF pcF = "done" THEN "orphan" ELSE "zombie"]
      /\ pending' = (pending \/ (forking \in F!Handled /\ pcF # "done"))
      /\ merged' = (IF pending /\ pcF # "done" THEN merged + 1 ELSE merged)
      /\ handler' = handler
  BY DEF F!Exit
<1>2. kid \in [F!Kids -> KidStates] /\ pending \in BOOLEAN /\ handler \in BOOLEAN /\ merged \in Nat
  BY DEF FInv, FTypes
<1>3. FTypes'
  <2>1. kid' \in [F!Kids -> KidStates] BY <1>1, <1>2 DEF KidStates
  <2>2. pending' \in BOOLEAN /\ handler' \in BOOLEAN BY <1>1, <1>2, Zenon
  <2>3. merged' \in Nat BY <1>1, <1>2
  <2> QED BY <2>1, <2>2, <2>3 DEF FInv, FTypes
<1>4. \A j \in F!Kids : kid[j] = "none" => kid'[j] = "none" BY <1>1, <1>2
<1>5. FNew' BY <1>4, FFinite DEF FInv, FNew
<1>6. FCount'
  <2> SUFFICES ASSUME forking \in F!Handled, pcF # "done"
               PROVE  Cardinality(F!Zombies') = merged' + One(pending') + One(handler')
    BY DEF FCount, F!Handled, F!Servers
  <2>1. F!Zombies' = F!Zombies \cup {k} /\ k \notin F!Zombies BY <1>1, <1>2 DEF F!Zombies
  <2>2. Cardinality(F!Zombies') = Cardinality(F!Zombies) + 1 BY <2>1, FFinite, FS_AddElement
  <2>3. Cardinality(F!Zombies) = merged + One(pending) + One(handler) BY DEF FInv, FCount
  <2>4. merged' + One(pending') = merged + One(pending) + 1
    <3>1. pending' BY <1>1, Zenon
    <3>2. One(pending') = 1 BY <3>1 DEF One
    <3>3. CASE pending BY <1>1, <1>2, <3>2, <3>3 DEF One
    <3>4. CASE ~pending BY <1>1, <1>2, <3>2, <3>4 DEF One
    <3> QED BY <3>3, <3>4
  <2>5. One(handler') = One(handler) /\ One(handler) \in Nat /\ One(pending) \in Nat BY <1>1 DEF One
  <2>6. Cardinality(F!Zombies) \in Nat /\ merged \in Nat /\ One(pending') \in Nat BY <1>2, FFinite DEF One
  <2>7. merged' \in Nat BY <1>3 DEF FTypes
  <2> QED BY <2>2, <2>3, <2>4, <2>5, <2>6, <2>7
<1> QED BY <1>3, <1>5, <1>6 DEF FInv

\* Steps that change no child and no signal; a client comes, or is accepted.
LEMMA FQuietStep ==
  ASSUME FInv, UNCHANGED <<forking, kid, pending, handler, merged>>, DOMAIN conn' = Clients,
         \A c \in Clients : conn'[c] \in {"out", "queued"} => conn[c] \in {"out", "queued"},
         pcF' = "done" \/ pcF # "done",
         pcF' \in {"storer", "fork1", "fork2", "fork"} => UNCHANGED <<pcF, cur>>
  PROVE  FInv'
<1>1. FTypes' BY DEF FInv, FTypes
<1>2. FNew' BY DEF FInv, FNew
<1>3. F!Zombies' = F!Zombies BY DEF F!Zombies
<1>4. FCount' BY <1>3 DEF FInv, FCount, F!Handled, F!Servers
<1> QED BY <1>1, <1>2, <1>4 DEF FInv

\* The kernel calls the handler, and the handler collects a zombie: there is one.
LEMMA FSignalStep ==
  ASSUME FInv, F!Signals, UNCHANGED forking PROVE FInv'
<1>0. kid \in [F!Kids -> KidStates] /\ pending \in BOOLEAN /\ handler \in BOOLEAN /\ merged \in Nat
  BY DEF FInv, FTypes
<1>1. CASE F!Deliver
  <2>1. /\ pending /\ ~handler /\ pending' = FALSE /\ handler' = TRUE
        /\ UNCHANGED <<pcF, cur, kid, merged, conn>>
    BY <1>1 DEF F!Deliver, F!parent, F!network
  <2>2. FTypes' BY <1>0, <2>1 DEF FInv, FTypes
  <2>3. FNew' BY <2>1 DEF FInv, FNew
  <2>4. F!Zombies' = F!Zombies BY <2>1 DEF F!Zombies
  <2>5. One(pending) = 1 /\ One(handler) = 0 /\ One(pending') = 0 /\ One(handler') = 1 BY <2>1 DEF One
  <2>6. merged + One(pending) + One(handler) = merged' + One(pending') + One(handler')
    <3>1. merged' = merged /\ merged \in Nat BY <1>0, <2>1
    <3> QED BY <2>5, <3>1
  <2>7. FCount' BY <2>1, <2>4, <2>6 DEF FInv, FCount, F!Handled, F!Servers
  <2> QED BY <2>2, <2>3, <2>7 DEF FInv
<1>2. CASE F!read_childproc
  <2>1. /\ handler /\ handler' = FALSE /\ UNCHANGED <<pcF, cur, pending, merged, conn>>
        /\ IF F!Zombies = {} THEN UNCHANGED kid ELSE \E k \in F!Zombies : kid' = [kid EXCEPT ![k] = "reaped"]
    BY <1>2 DEF F!read_childproc, F!parent, F!network
  <2>2. CASE F!Zombies = {} /\ UNCHANGED kid
    <3>1. FTypes' BY <1>0, <2>1, <2>2 DEF FInv, FTypes
    <3>2. FNew' BY <2>1, <2>2 DEF FInv, FNew
    <3>3. Cardinality(F!Zombies) = 0 BY <2>2, FS_EmptySet
    <3>4. One(handler) = 1 /\ One(pending) \in Nat BY <2>1 DEF One
    <3>5. ~(forking \in F!Handled /\ pcF # "done") BY <1>0, <3>3, <3>4 DEF FInv, FCount
    <3>6. FCount' BY <2>1, <3>5 DEF FCount, F!Handled, F!Servers
    <3> QED BY <3>1, <3>2, <3>6 DEF FInv
  <2>3. CASE \E k \in F!Zombies : kid' = [kid EXCEPT ![k] = "reaped"]
    <3>1. PICK k \in F!Zombies : kid' = [kid EXCEPT ![k] = "reaped"] BY <2>3
    <3>2. k \in F!Kids /\ kid[k] = "zombie" BY DEF F!Zombies
    <3>3. kid' \in [F!Kids -> KidStates] /\ \A j \in F!Kids : kid[j] = "none" => kid'[j] = "none"
      BY <1>0, <3>1, <3>2 DEF KidStates
    <3>4. FTypes' BY <1>0, <2>1, <3>3 DEF FInv, FTypes
    <3>5. FNew' BY <2>1, <3>3, FFinite DEF FInv, FNew
    <3>6. F!Zombies' = F!Zombies \ {k} BY <1>0, <3>1, <3>2 DEF F!Zombies
    <3>7. Cardinality(F!Zombies') = Cardinality(F!Zombies) - 1 BY <3>6, FFinite, FS_RemoveElement
    <3>8. One(handler) = 1 /\ One(handler') = 0 /\ One(pending) \in Nat /\ One(pending') = One(pending)
      BY <2>1 DEF One
    <3>9. FCount'
      <4> SUFFICES ASSUME forking \in F!Handled, pcF # "done"
                   PROVE  Cardinality(F!Zombies') = merged' + One(pending') + One(handler')
        BY <2>1 DEF FCount, F!Handled, F!Servers
      <4>1. Cardinality(F!Zombies) = merged + One(pending) + One(handler) BY DEF FInv, FCount
      <4> QED BY <1>0, <2>1, <3>7, <3>8, <4>1, FFinite
    <3> QED BY <3>4, <3>5, <3>9 DEF FInv
  <2> QED BY <2>1, <2>2, <2>3
<1> QED BY <1>1, <1>2 DEF F!Signals

\* fork() of a child that never ran, or its failure.
LEMMA FForkStep ==
  ASSUME FInv, NEW k \in F!Kids, kid[k] = "none", F!Fork(k), UNCHANGED <<forking, conn, pending, handler, merged>>,
         k \in Clients => conn[k] \notin {"out", "queued"}, pcF # "done",
         pcF' \notin {"storer", "fork1", "fork"}, pcF' = "fork2" => kid["second"] = "none" /\ k # "second"
  PROVE  FInv'
<1>0. kid \in [F!Kids -> KidStates] BY DEF FInv, FTypes
<1>1. kid' = [kid EXCEPT ![k] = "run"] \/ UNCHANGED kid BY DEF F!Fork
<1>2. kid' \in [F!Kids -> KidStates] /\ \A j \in F!Kids \ {k} : kid'[j] = kid[j] BY <1>0, <1>1 DEF KidStates
<1>3. F!Zombies' = F!Zombies BY <1>0, <1>1 DEF F!Zombies
<1>4. FTypes' BY <1>2 DEF FInv, FTypes
<1>5. FNew' BY <1>2, FFinite DEF FInv, FNew
<1>6. FCount' BY <1>3 DEF FInv, FCount, F!Handled, F!Servers
<1> QED BY <1>4, <1>5, <1>6 DEF FInv

\* Steps of the programs without a handler, or after which the parent is gone.
LEMMA FFreeStep ==
  ASSUME FInv, UNCHANGED <<forking, conn, pending, handler, merged>>, kid' \in [F!Kids -> KidStates],
         \A k \in F!Kids : kid[k] = "none" => kid'[k] = "none",
         pcF' \notin {"storer", "fork1", "fork2", "fork"}, pcF' = "done" \/ forking \notin F!Handled
  PROVE  FInv'
<1>1. FTypes' BY DEF FInv, FTypes
<1>2. FNew' BY FFinite DEF FInv, FNew
<1>3. FCount' BY DEF FCount, F!Handled, F!Servers
<1> QED BY <1>1, <1>2, <1>3 DEF FInv

\* The servers.
LEMMA FServerStep ==
  ASSUME FInv, F!ForkStorer \/ F!Accept \/ F!ForkChild \/ F!Close, UNCHANGED forking PROVE FInv'
<1>0. DOMAIN conn = Clients BY DEF FInv, FTypes
<1>1. CASE F!ForkStorer
  <2>1. /\ pcF = "storer" /\ UNCHANGED <<pending, handler, merged, conn>> /\ F!Fork("storer")
        /\ pcF' \in {"accept", "done"}
    BY <1>1 DEF F!ForkStorer, F!Step, F!signals, F!network, F!Goto, F!Storer
  <2>2. kid["storer"] = "none" BY <2>1, FFinite DEF FInv, FNew
  <2> QED BY <2>1, <2>2, FFinite, FForkStep
<1>2. CASE F!Accept
  <2>1. PICK c \in Clients : conn[c] = "queued" /\ cur' = c /\ conn' = [conn EXCEPT ![c] = "accepted"]
    BY <1>2 DEF F!Accept
  <2>2. pcF = "accept" /\ pcF' = "fork" /\ UNCHANGED <<kid, pending, handler, merged>>
    BY <1>2 DEF F!Accept, F!Step, F!signals, F!Goto
  <2>3. DOMAIN conn' = Clients /\ conn'[c] = "accepted" /\ \A d \in Clients \ {c} : conn'[d] = conn[d]
    BY <1>0, <2>1
  <2>4. FTypes' BY <2>2, <2>3 DEF FInv, FTypes
  <2>5. FNew' BY <2>1, <2>2, <2>3 DEF FInv, FNew
  <2>6. F!Zombies' = F!Zombies BY <2>2 DEF F!Zombies
  <2>7. FCount' BY <2>2, <2>6 DEF FInv, FCount, F!Handled, F!Servers
  <2> QED BY <2>4, <2>5, <2>7 DEF FInv
<1>3. CASE F!ForkChild
  <2>1. pcF = "fork" /\ UNCHANGED <<pending, handler, merged, conn>> /\ F!Fork(cur) /\ pcF' = "close"
    BY <1>3 DEF F!ForkChild, F!Step, F!signals, F!Goto
  <2>2. cur \in Clients /\ kid[cur] = "none" /\ conn[cur] \notin {"out", "queued"} BY <2>1 DEF FInv, FNew
  <2> QED BY <2>1, <2>2, FFinite, FForkStep
<1>4. CASE F!Close
  <2>1. pcF = "close" /\ UNCHANGED <<pending, handler, merged, conn, kid>> /\ pcF' = "accept"
    BY <1>4 DEF F!Close, F!Step, F!signals, F!Goto
  <2> QED BY <1>0, <2>1, FQuietStep
<1> QED BY <1>1, <1>2, <1>3, <1>4

\* The programs without clients.
LEMMA FParentStep ==
  ASSUME FInv, F!Parent, UNCHANGED forking PROVE FInv'
<1>0. DOMAIN conn = Clients /\ kid \in [F!Kids -> KidStates] BY DEF FInv, FTypes
<1>1. CASE F!ForkFirst
  <2>1. /\ pcF = "fork1" /\ UNCHANGED <<pending, handler, merged, conn>> /\ F!Fork("first")
        /\ pcF' \in {"poll", "read", "fork2"}
    BY <1>1 DEF F!ForkFirst, F!Step, F!signals, F!network, F!Goto
  <2>2. kid["first"] = "none" /\ kid["second"] = "none" BY <2>1, FFinite DEF FInv, FNew
  <2> QED BY <2>1, <2>2, FFinite, FForkStep
<1>2. CASE F!ForkSecond
  <2>1. /\ pcF = "fork2" /\ UNCHANGED <<pending, handler, merged, conn>> /\ F!Fork("second")
        /\ pcF' \in {"wait1", "sleep"}
    BY <1>2 DEF F!ForkSecond, F!Step, F!signals, F!network, F!Goto
  <2>2. kid["second"] = "none" BY <2>1 DEF FInv, FNew
  <2> QED BY <2>1, <2>2, FFinite, FForkStep
<1>3. CASE F!Nap
  <2>1. /\ pcF = "sleep" /\ UNCHANGED <<pending, handler, merged, conn, kid>> /\ pcF' \in {"return", "sleep"}
    BY <1>3 DEF F!Nap, F!Step, F!signals, F!network, F!Goto
  <2> QED BY <1>0, <2>1, FQuietStep
<1>4. ASSUME NEW k \in F!Zombies, kid' = [kid EXCEPT ![k] = "reaped"]
      PROVE  kid' \in [F!Kids -> KidStates] /\ \A j \in F!Kids : kid[j] = "none" => kid'[j] = "none"
  BY <1>0, <1>4 DEF F!Zombies, KidStates
<1>5. CASE forking = "wait" /\ F!Wait
  <2>1. PICK l \in {"wait1", "wait2"} :
          /\ F!Step(l) /\ F!Goto(IF l = "wait1" THEN "wait2" ELSE "return")
          /\ IF F!Zombies # {} THEN \E k \in F!Zombies : kid' = [kid EXCEPT ![k] = "reaped"]
             ELSE {k \in F!Kids : kid[k] = "run"} = {} /\ UNCHANGED kid
          /\ UNCHANGED F!network
    BY <1>5 DEF F!Wait
  <2>2. UNCHANGED <<conn, pending, handler, merged>> /\ pcF' \in {"wait2", "return"}
    BY <2>1 DEF F!Step, F!signals, F!network, F!Goto
  <2>3. kid' \in [F!Kids -> KidStates] /\ \A j \in F!Kids : kid[j] = "none" => kid'[j] = "none"
    BY <1>0, <1>4, <2>1
  <2>4. forking \notin F!Handled BY <1>5 DEF F!Handled, F!Servers
  <2> QED BY <2>2, <2>3, <2>4, FFreeStep
<1>6. CASE forking = "waitpid" /\ F!Poll
  <2>1. UNCHANGED <<conn, pending, handler, merged>> /\ pcF' = "return"
    BY <1>6 DEF F!Poll, F!Step, F!signals, F!network, F!Goto
  <2>2. (\E k \in F!Zombies : kid' = [kid EXCEPT ![k] = "reaped"]) \/ UNCHANGED kid BY <1>6 DEF F!Poll
  <2>3. kid' \in [F!Kids -> KidStates] /\ \A j \in F!Kids : kid[j] = "none" => kid'[j] = "none"
    BY <1>0, <1>4, <2>2
  <2>4. forking \notin F!Handled BY <1>6 DEF F!Handled, F!Servers
  <2> QED BY <2>1, <2>3, <2>4, FFreeStep
<1>7. CASE forking = "pipe1" /\ F!ReadPipe
  <2>1. UNCHANGED <<conn, pending, handler, merged, kid>> /\ pcF = "read" /\ pcF' = "return"
    BY <1>7 DEF F!ReadPipe, F!signals, F!network, F!Goto
  <2> QED BY <1>0, <2>1, FQuietStep
<1>8. CASE F!Return
  <2>1. /\ UNCHANGED <<conn, pending, handler, merged>> /\ pcF' = "done"
        /\ kid' = [k \in F!Kids |-> IF kid[k] = "zombie" THEN "orphan" ELSE kid[k]]
    BY <1>8 DEF F!Return, F!Step, F!signals, F!network, F!Goto
  <2>2. kid' \in [F!Kids -> KidStates] /\ \A j \in F!Kids : kid[j] = "none" => kid'[j] = "none"
    BY <1>0, <2>1 DEF KidStates
  <2> QED BY <2>1, <2>2, FFreeStep
<1> QED BY <1>1, <1>2, <1>3, <1>5, <1>6, <1>7, <1>8, FServerStep
        DEF F!Parent, F!MpServer, F!StoreServer, F!RemoveZombie, F!WaitTwice, F!WaitPolling, F!PipeParent

\* The children.
LEMMA FChildStep ==
  ASSUME FInv, UNCHANGED forking,
         F!StorerStep \/ (\E c \in Clients : F!Child(c)) \/ (\E k \in F!Pair : F!PairEnds(k))
  PROVE  FInv'
<1>0. DOMAIN conn = Clients BY DEF FInv, FTypes
<1>1. CASE F!StorerReads
  <2>1. UNCHANGED <<pcF, cur, kid, pending, handler, merged, conn>>
    BY <1>1 DEF F!StorerReads, F!parent, F!signals, F!network
  <2> QED BY <1>0, <2>1, FQuietStep DEF FInv, FNew
<1>2. CASE F!StorerEnds
  <2>1. kid["storer"] = "run" /\ F!Exit("storer") /\ UNCHANGED <<pcF, cur, conn>>
    BY <1>2 DEF F!StorerEnds, F!Storer, F!parent, F!network
  <2> QED BY <2>1, FFinite, FExitStep
<1>3. CASE F!WriterEnds
  <2>1. kid["first"] = "run" /\ F!Exit("first") /\ UNCHANGED <<pcF, cur, conn>>
    BY <1>3 DEF F!WriterEnds, F!parent, F!network
  <2> QED BY <2>1, FFinite, FExitStep
<1>4. ASSUME NEW c \in Clients, F!EchoMessage(c) \/ F!StoreMessage(c) PROVE FInv'
  <2>1. UNCHANGED <<pcF, cur, kid, pending, handler, merged, conn>>
    BY <1>4 DEF F!EchoMessage, F!StoreMessage, F!parent, F!signals, F!network
  <2> QED BY <1>0, <2>1, FQuietStep
<1>5. ASSUME NEW c \in Clients, F!ChildEnds(c) PROVE FInv'
  <2>1. kid[c] = "run" /\ F!Exit(c) /\ UNCHANGED <<pcF, cur, conn>>
    BY <1>5 DEF F!ChildEnds, F!parent
  <2> QED BY <2>1, FFinite, FExitStep
<1>6. ASSUME NEW k \in F!Pair, F!PairEnds(k) PROVE FInv'
  <2>1. kid[k] = "run" /\ F!Exit(k) /\ UNCHANGED <<pcF, cur, conn>>
    BY <1>6 DEF F!PairEnds, F!parent, F!network
  <2>2. k \in F!Kids BY DEF F!Kids
  <2> QED BY <2>1, <2>2, FExitStep
<1> QED BY <1>1, <1>2, <1>3, <1>4, <1>5, <1>6 DEF F!StorerStep, F!Child

\* The clients.
LEMMA FClientStep ==
  ASSUME FInv, UNCHANGED forking, NEW c \in Clients, F!User(c) \/ F!Connect(c) \/ F!Leave(c)
  PROVE  FInv'
<1>0. DOMAIN conn = Clients BY DEF FInv, FTypes
<1>1. UNCHANGED <<pcF, cur, kid, pending, handler, merged>>
  BY DEF F!User, F!Send, F!Shutdown, F!SeeEof, F!Connect, F!Leave, F!parent, F!signals
<1>2. \/ UNCHANGED conn \/ conn' = [conn EXCEPT ![c] = "closed"] \/ conn' = [conn EXCEPT ![c] = "gone"]
      \/ (conn[c] = "out" /\ conn' = [conn EXCEPT ![c] = "queued"])
  BY DEF F!User, F!Send, F!Shutdown, F!SeeEof, F!Connect, F!Leave
<1>3. /\ DOMAIN conn' = Clients
      /\ \A d \in Clients : conn'[d] \in {"out", "queued"} => conn[d] \in {"out", "queued"}
  BY <1>0, <1>2
<1> QED BY <1>1, <1>3, FQuietStep

\* Every step keeps the invariant.
LEMMA FStep == FInv /\ [Next]_vars => FInv'
<1> SUFFICES ASSUME FInv, [Next]_vars PROVE FInv' OBVIOUS
<1>1. CASE UNCHANGED varsF
  <2>1. UNCHANGED <<forking, pcF, cur, kid, pending, handler, merged, conn>> BY <1>1 DEF varsF
  <2>2. DOMAIN conn = Clients BY DEF FInv, FTypes
  <2> QED BY <2>1, <2>2, FQuietStep
<1>2. CASE F!Next
  BY <1>2, FSignalStep, FParentStep, FChildStep, FClientStep DEF F!Next
<1> QED BY <1>1, <1>2 DEF Next, InP, InF, InD, vars

\* However children end and signals merge, the zombies that the handler leaves
\* are those whose signal was merged, and the handler never runs without one.
THEOREM ZombiesMerged == Spec => []ZombiesAreMerged
<1>1. Init => FInv BY FInitInv DEF Init
<1>2. FInv /\ [Next]_vars => FInv' BY FStep
<1> QED BY <1>1, <1>2, FInvMerged, PTL DEF Spec

-----------------------------------------------------------------------------
(* Datagrams: what the network does to them and what is printed            *)

Senders == D!Hosts \cup {"host2", "stranger"}
Printed == [from : Senders, n : Nat, cut : BOOLEAN]
DTypes ==
  /\ air \subseteq [to : D!Hosts, from : Senders, n : Nat, copy : Nat] /\ dups \in Nat /\ strangers \in Nat
  /\ i \in [D!Hosts -> Nat] /\ heard \in [D!Hosts -> Seq(Printed)] /\ DOMAIN stD = D!Hosts
  /\ newline \in BOOLEAN /\ protocol \in {"echo", "con", "bound", "news", "brd"}

\* Echo clients: one answer is printed for each message.
EPrinted ==
  \A c \in Clients : Len(heard[c]) = IF stD[c] = "wait" THEN i[c] - 1 ELSE i[c]

\* Datagrams of a client carry a message it has sent, and so do the answers.
EAir ==
  \A d \in air :
    /\ d.to = "server" => d.from \in Clients /\ d.n <= i[d.from]
    /\ d.to # "server" => (d.from = "server" /\ d.n <= i[d.to]) \/ d.from = "stranger"

\* Without duplicates and strangers, only the last message or its answer is
\* on its way, and only while the client waits and no error is pending.
Concerns(d, c) == d.to = c \/ d.from = c
EAlone ==
  dups = 0 /\ strangers = 0 => \A c \in Clients :
    /\ \A d \in air : Concerns(d, c) => stD[c] = "wait" /\ d.n = i[c] /\ c \notin refused
    /\ \A d, e \in air : Concerns(d, c) /\ Concerns(e, c) => d = e

EHeard ==
  \A c \in Clients : \A k \in 1..Len(heard[c]) :
    /\ protocol = "con" => heard[c][k].from \in {"server", c}
    /\ heard[c][k].from = "server" => heard[c][k].n <= k
    /\ dups = 0 /\ strangers = 0 => heard[c][k].n = k

\* The other programs: a datagram that is printed or on its way was sent or
\* duplicated, and all that was sent is there unless some of it was lost.
Flying(h, k) == {d \in air : d.to = h /\ d.n = k}
Fits(x, k) == x.n = k /\ (x.cut <=> (D!News /\ k \in Long))
HeardAt(h, k) == {j \in 1..Len(heard[h]) : Fits(heard[h][j], k)}
Counted(h, k) ==
  /\ IsFiniteSet(Flying(h, k)) /\ D!SentTo(h, k) \in Nat
  /\ Cardinality(HeardAt(h, k)) + Cardinality(Flying(h, k)) <= dups + D!SentTo(h, k)
  /\ dups = 0 /\ h \notin lost => Cardinality(HeardAt(h, k)) + Cardinality(Flying(h, k)) = D!SentTo(h, k)
NCounted == \A h \in D!Hosts : \A k \in Nat \ {0} : Counted(h, k)

\* What is on its way was sent before; receivers of news have not joined, or wait.
NSent ==
  /\ \A d \in air : IF D!News THEN d.copy <= i["server"] ELSE d.n <= i["server"]
  /\ D!News => \A r \in Clients : stD[r] \in {"off", "wait"} /\ i[r] <= i["server"]

DInv ==
  /\ DTypes
  /\ D!Echoing => EPrinted /\ EAir /\ EAlone /\ EHeard
  /\ ~D!Echoing => NCounted /\ NSent

\* Datagrams counts with its own instance of Cardinality.
LEMMA DCardinality == ASSUME NEW S PROVE D!Cardinality(S) = Cardinality(S)
BY DEF D!Cardinality, Cardinality

\* The hosts.
LEMMA DHosts ==
  /\ D!Hosts = Clients \cup {"server"} /\ D!Server = "server" /\ "server" \notin Clients
  /\ "stranger" \notin Clients /\ "host2" \notin Clients /\ Clients \subseteq Senders /\ D!Hosts \subseteq Senders
BY DatagramAssumption DEF D!Hosts, D!Server, Senders

\* What was printed is a finite set of lines.
LEMMA HeardFinite ==
  ASSUME DTypes, NEW h \in D!Hosts, NEW k
  PROVE  IsFiniteSet(HeardAt(h, k)) /\ Cardinality(HeardAt(h, k)) \in Nat /\ Len(heard[h]) \in Nat
<1>1. heard[h] \in Seq(Printed) BY DEF DTypes
<1>2. Len(heard[h]) \in Nat BY <1>1
<1>3. IsFiniteSet(1..Len(heard[h])) BY <1>2, FS_Interval
<1>4. HeardAt(h, k) \subseteq 1..Len(heard[h]) BY DEF HeardAt
<1>5. IsFiniteSet(HeardAt(h, k)) BY <1>3, <1>4, FS_Subset
<1> QED BY <1>2, <1>5, FS_CardinalityType

\* The invariant contains the property.
LEMMA DInvPrints == DInv => PrintsWhatWasSent
<1> SUFFICES ASSUME DInv PROVE D!PrintsWhatWasSent BY DEF PrintsWhatWasSent
<1>1. D!Echoing => \A c \in Clients : \A k \in 1..Len(heard[c]) :
        /\ protocol = "con" => heard[c][k].from \in {D!Server, c}
        /\ heard[c][k].from = D!Server => heard[c][k].n <= k
        /\ dups = 0 /\ strangers = 0 => heard[c][k].n = k
  BY DHosts DEF DInv, EHeard
<1>2. ASSUME ~D!Echoing, NEW h \in D!Hosts, NEW k \in 1..(Datagrams + Lines)
      PROVE  /\ D!Count(h, k) + D!OnItsWay(h, k) <= D!SentTo(h, k) + dups
             /\ dups = 0 /\ h \notin lost => D!Count(h, k) + D!OnItsWay(h, k) = D!SentTo(h, k)
  <2>1. Datagrams \in Nat /\ Lines \in Nat BY DatagramAssumption
  <2>2. k \in Nat \ {0} BY <2>1
  <2>3. D!Count(h, k) = Cardinality(HeardAt(h, k)) BY DCardinality DEF D!Count, HeardAt, Fits
  <2>4. D!OnItsWay(h, k) = Cardinality(Flying(h, k)) BY DCardinality DEF D!OnItsWay, Flying
  <2>5. Counted(h, k) BY <1>2, <2>2 DEF DInv, NCounted
  <2>6. dups \in Nat BY DEF DInv, DTypes
  <2> QED BY <2>3, <2>4, <2>5, <2>6 DEF Counted
<1> QED BY <1>1, <1>2 DEF D!PrintsWhatWasSent

\* Nothing was sent.
LEMMA DInitInv == D!Init => DInv
<1> SUFFICES ASSUME D!Init PROVE DInv OBVIOUS
<1>1. /\ protocol \in {"echo", "con", "bound", "news", "brd"} /\ air = {} /\ dups = 0 /\ strangers = 0
      /\ i = [h \in D!Hosts |-> 0] /\ heard = [h \in D!Hosts |-> << >>] /\ DOMAIN stD = D!Hosts
      /\ newline \in BOOLEAN
  BY DEF D!Init
<1>2. << >> \in Seq(Printed) /\ Len(<< >>) = 0 OBVIOUS
<1>3. DTypes BY <1>1, <1>2 DEF DTypes
<1>4. \A c \in Clients : heard[c] = << >> /\ i[c] = 0 BY <1>1, DHosts
<1>5. \A c \in Clients : D!Echoing => stD[c] = "type" BY DHosts DEF D!Init
<1>6. D!Echoing => EPrinted /\ EAir /\ EAlone /\ EHeard
  BY <1>1, <1>2, <1>4, <1>5 DEF EPrinted, EAir, EAlone, EHeard
<1>7. ~D!Echoing => NCounted
  <2> SUFFICES ASSUME ~D!Echoing, NEW h \in D!Hosts, NEW k \in Nat \ {0} PROVE Counted(h, k) BY DEF NCounted
  <2>1. Flying(h, k) = {} /\ HeardAt(h, k) = {} BY <1>1, <1>2 DEF Flying, HeardAt
  <2>2. IsFiniteSet(Flying(h, k)) /\ Cardinality(Flying(h, k)) = 0 /\ Cardinality(HeardAt(h, k)) = 0
    BY <2>1, FS_EmptySet
  <2>3. D!SentTo(h, k) = 0
    <3>1. i["server"] = 0 BY <1>1, DHosts
    <3>2. CASE D!News
      <4>1. h = D!Server \/ stD[h] = "off" BY <3>2, DHosts DEF D!Init, D!News, D!Echoing
      <4> QED BY <3>2, <4>1 DEF D!SentTo
    <3>3. CASE ~D!News BY <3>1, <3>3, DHosts DEF D!SentTo
    <3> QED BY <3>2, <3>3
  <2> QED BY <1>1, <2>2, <2>3 DEF Counted
<1>8. NSent
  <2>1. \A c \in Clients : D!News => stD[c] = "off" BY DHosts DEF D!Init, D!News, D!Echoing
  <2>2. i["server"] = 0 BY <1>1, DHosts
  <2> QED BY <1>1, <1>4, <2>1, <2>2 DEF NSent
<1> QED BY <1>3, <1>6, <1>7, <1>8 DEF DInv

\* recvfrom() of d takes it off the air, or the network delivers it once more.
LEMMA DTake ==
  ASSUME NEW d \in air, D!Take(d), DTypes
  PROVE  /\ air' \subseteq air /\ dups' \in Nat /\ dups <= dups'
         /\ (air' = air \ {d} /\ dups' = dups) \/ (air' = air /\ dups' = dups + 1)
BY DEF D!Take, DTypes

\* A line is printed.
LEMMA DPrint ==
  ASSUME DTypes, NEW h \in D!Hosts, NEW x \in Printed, heard' = [heard EXCEPT ![h] = Append(@, x)]
  PROVE  /\ heard' \in [D!Hosts -> Seq(Printed)] /\ \A g \in D!Hosts \ {h} : heard'[g] = heard[g]
         /\ Len(heard'[h]) = Len(heard[h]) + 1 /\ heard'[h][Len(heard[h]) + 1] = x
         /\ \A k \in 1..Len(heard[h]) : heard'[h][k] = heard[h][k]
<1>1. heard \in [D!Hosts -> Seq(Printed)] /\ heard[h] \in Seq(Printed) BY DEF DTypes
<1>2. heard'[h] = Append(heard[h], x) /\ heard' \in [D!Hosts -> Seq(Printed)]
      /\ \A g \in D!Hosts \ {h} : heard'[g] = heard[g]
  <2>1. Append(heard[h], x) \in Seq(Printed) BY <1>1
  <2> QED BY <1>1, <2>1
<1>3. Len(Append(heard[h], x)) = Len(heard[h]) + 1 BY <1>1
<1>4. Append(heard[h], x)[Len(heard[h]) + 1] = x BY <1>1
<1>5. \A k \in 1..Len(heard[h]) : Append(heard[h], x)[k] = heard[h][k] BY <1>1
<1> QED BY <1>2, <1>3, <1>4, <1>5

-----------------------------------------------------------------------------
(* The echo clients                                                        *)

\* A step of the echo programs in which nothing is printed.
LEMMA ESilentStep ==
  ASSUME DInv, D!Echoing, UNCHANGED <<protocol, heard>>, DTypes', EPrinted', EAir', EAlone',
         dups <= dups', strangers <= strangers'
  PROVE  DInv'
<1>1. D!Echoing' BY DEF D!Echoing
<1>2. dups \in Nat /\ strangers \in Nat /\ dups' \in Nat /\ strangers' \in Nat BY DEF DInv, DTypes
<1>3. EHeard' BY <1>2 DEF DInv, EHeard
<1> QED BY <1>1, <1>3 DEF DInv

\* A client prints x, which is an answer to its last message unless there are
\* duplicates or strangers, and can type the next one.
LEMMA EPrintStep ==
  ASSUME DInv, D!Echoing, NEW c \in Clients, stD[c] = "wait", NEW x \in Printed,
         heard' = [heard EXCEPT ![c] = Append(@, x)], stD' = [stD EXCEPT ![c] = "type"],
         air' \subseteq air, dups' \in Nat, dups <= dups', refused' \subseteq refused,
         UNCHANGED <<protocol, i, newline, strangers>>,
         protocol = "con" => x.from \in {"server", c},
         x.from = "server" => x.n <= i[c],
         dups' = 0 /\ strangers = 0 => x.n = i[c] /\ \A d \in air' : ~Concerns(d, c)
  PROVE  DInv'
<1>1. c \in D!Hosts BY DHosts
<1>2. /\ heard' \in [D!Hosts -> Seq(Printed)] /\ \A g \in D!Hosts \ {c} : heard'[g] = heard[g]
      /\ Len(heard'[c]) = Len(heard[c]) + 1 /\ heard'[c][Len(heard[c]) + 1] = x
      /\ \A k \in 1..Len(heard[c]) : heard'[c][k] = heard[c][k]
  BY <1>1, DPrint DEF DInv
<1>3. /\ i[c] \in Nat /\ dups \in Nat /\ strangers \in Nat /\ Len(heard[c]) \in Nat
      /\ DOMAIN stD = D!Hosts /\ Clients \subseteq D!Hosts
  BY <1>1, DHosts, HeardFinite DEF DInv, DTypes
<1>4. DTypes' BY <1>2, <1>3 DEF DInv, DTypes
<1>5. Len(heard[c]) = i[c] - 1 BY DEF DInv, EPrinted
<1>6. stD'[c] = "type" /\ \A g \in Clients \ {c} : stD'[g] = stD[g] /\ heard'[g] = heard[g]
  BY <1>1, <1>2, <1>3
<1>7. EPrinted' BY <1>2, <1>3, <1>5, <1>6 DEF DInv, EPrinted
<1>8. EAir' BY DEF DInv, EAir
<1>9. EAlone'
  <2> SUFFICES ASSUME dups' = 0, strangers = 0, NEW b \in Clients
               PROVE  /\ \A d \in air' : Concerns(d, b) => stD'[b] = "wait" /\ d.n = i[b] /\ b \notin refused'
                      /\ \A d, e \in air' : Concerns(d, b) /\ Concerns(e, b) => d = e
    BY DEF EAlone, Concerns
  <2>1. dups = 0 BY <1>3
  <2>2. CASE b = c BY <2>2
  <2>3. CASE b # c BY <1>6, <2>1, <2>3 DEF DInv, EAlone
  <2> QED BY <2>2, <2>3
<1>10. EHeard'
  <2> SUFFICES ASSUME NEW b \in Clients, NEW k \in 1..Len(heard'[b])
               PROVE  /\ protocol = "con" => heard'[b][k].from \in {"server", b}
                      /\ heard'[b][k].from = "server" => heard'[b][k].n <= k
                      /\ dups' = 0 /\ strangers = 0 => heard'[b][k].n = k
    BY DEF EHeard
  <2>1. CASE b # c \/ k \in 1..Len(heard[c])
    <3>1. k \in 1..Len(heard[b]) /\ heard'[b][k] = heard[b][k] BY <1>2, <1>6, <2>1
    <3>2. dups' = 0 => dups = 0 BY <1>3
    <3> QED BY <3>1, <3>2 DEF DInv, EHeard
  <2>2. CASE b = c /\ k = Len(heard[c]) + 1
    <3>1. heard'[b][k] = x /\ k = i[c] BY <1>2, <1>3, <1>5, <2>2
    <3> QED BY <2>2, <3>1
  <2> QED BY <1>2, <1>3, <2>1, <2>2
<1>11. D!Echoing' BY DEF D!Echoing
<1> QED BY <1>4, <1>7, <1>8, <1>9, <1>10, <1>11 DEF DInv

\* A datagram for client c is received and printed.
LEMMA EReceiveStep ==
  ASSUME DInv, D!Echoing, NEW c \in Clients, stD[c] = "wait", NEW d \in air, d.to = c, D!Take(d), D!Heard(c, d),
         stD' = [stD EXCEPT ![c] = "type"], UNCHANGED <<protocol, i, newline, strangers>>, refused' \subseteq refused,
         protocol = "con" => d.from = "server"
  PROVE  DInv'
<1> DEFINE x == [from |-> d.from, n |-> d.n, cut |-> FALSE]
<1>1. d.from \in Senders /\ d.n \in Nat /\ x \in Printed /\ DTypes BY DEF DInv, DTypes, Printed
<1>2. heard' = [heard EXCEPT ![c] = Append(@, x)] BY DEF D!Heard, D!HeardAs
<1>3. /\ air' \subseteq air /\ dups' \in Nat /\ dups <= dups'
      /\ (air' = air \ {d} /\ dups' = dups) \/ (air' = air /\ dups' = dups + 1)
  BY <1>1, DTake
<1>4. protocol = "con" => x.from \in {"server", c} OBVIOUS
<1>5. x.from = "server" => x.n <= i[c] BY DHosts DEF DInv, EAir
<1>6. dups' = 0 /\ strangers = 0 => x.n = i[c] /\ \A e \in air' : ~Concerns(e, c)
  <2> SUFFICES ASSUME dups' = 0, strangers = 0 PROVE x.n = i[c] /\ \A e \in air' : ~Concerns(e, c) OBVIOUS
  <2>1. dups = 0 /\ air' = air \ {d} BY <1>1, <1>3 DEF DTypes
  <2>2. Concerns(d, c) BY DEF Concerns
  <2> QED BY <2>1, <2>2 DEF DInv, EAlone
<1> HIDE DEF x
<1> QED BY <1>1, <1>2, <1>3, <1>4, <1>5, <1>6, EPrintStep

\* A client sends its next message, unless an error is pending.
LEMMA ESendStep ==
  ASSUME DInv, NEW c \in Clients, D!C_Send(c) PROVE DInv'
<1>1. /\ D!Echoing /\ stD[c] = "type" /\ i' = [i EXCEPT ![c] = @ + 1] /\ stD' = [stD EXCEPT ![c] = "wait"]
      /\ air' = (IF c \in refused THEN air ELSE air \cup {D!Datagram("server", c, i'[c], 0)})
      /\ refused' = refused \ {c} /\ UNCHANGED <<protocol, newline, heard, dups, strangers>>
  BY DHosts DEF D!C_Send
<1>2. c \in D!Hosts /\ c \in Senders /\ c # "server" /\ c # "stranger" /\ Clients \subseteq D!Hosts /\ "server" \in D!Hosts
  BY DHosts
<1>3. DTypes /\ i \in [D!Hosts -> Nat] /\ DOMAIN stD = D!Hosts BY DEF DInv, DTypes
<1>4. /\ i' \in [D!Hosts -> Nat] /\ i'[c] = i[c] + 1 /\ \A g \in D!Hosts \ {c} : i'[g] = i[g]
      /\ DOMAIN stD' = D!Hosts /\ stD'[c] = "wait" /\ \A g \in D!Hosts \ {c} : stD'[g] = stD[g]
  BY <1>1, <1>2, <1>3
<1> DEFINE new == D!Datagram("server", c, i'[c], 0)
<1>5. /\ new \in [to : D!Hosts, from : Senders, n : Nat, copy : Nat]
      /\ new.to = "server" /\ new.from = c /\ new.n = i[c] + 1
  BY <1>2, <1>4 DEF D!Datagram
<1>6. air' \subseteq air \cup {new} /\ (c \in refused => air' = air) BY <1>1
<1> HIDE DEF new
<1>7. DTypes' BY <1>1, <1>3, <1>4, <1>5, <1>6 DEF DTypes
<1>8. EPrinted' BY <1>1, <1>2, <1>3, <1>4 DEF DInv, EPrinted, DTypes
<1>9. EAir'
  <2> SUFFICES ASSUME NEW d \in air'
               PROVE  /\ d.to = "server" => d.from \in Clients /\ d.n <= i'[d.from]
                      /\ d.to # "server" => (d.from = "server" /\ d.n <= i'[d.to]) \/ d.from = "stranger"
    BY DEF EAir
  <2>1. CASE d \in air
    <3>1. d.to \in D!Hosts /\ d.n \in Nat BY <1>3, <2>1 DEF DTypes
    <3>2. /\ d.to = "server" => d.from \in Clients /\ d.n <= i[d.from]
          /\ d.to # "server" => (d.from = "server" /\ d.n <= i[d.to]) \/ d.from = "stranger"
      BY <1>1, <2>1 DEF DInv, EAir
    <3>3. \A g \in D!Hosts : i[g] \in Nat /\ i'[g] \in Nat /\ i[g] <= i'[g] BY <1>2, <1>3, <1>4
    <3> QED BY <1>2, <3>1, <3>2, <3>3
  <2>2. CASE d = new BY <1>4, <1>5, <2>2
  <2> QED BY <1>6, <2>1, <2>2
<1>10. EAlone'
  <2> SUFFICES ASSUME dups = 0, strangers = 0, NEW b \in Clients
               PROVE  /\ \A d \in air' : Concerns(d, b) => stD'[b] = "wait" /\ d.n = i'[b] /\ b \notin refused'
                      /\ \A d, e \in air' : Concerns(d, b) /\ Concerns(e, b) => d = e
    BY <1>1 DEF EAlone, Concerns
  <2>1. /\ \A d \in air : Concerns(d, b) => stD[b] = "wait" /\ d.n = i[b] /\ b \notin refused
        /\ \A d, e \in air : Concerns(d, b) /\ Concerns(e, b) => d = e
    BY <1>1 DEF DInv, EAlone
  <2>2. CASE b = c
    <3>1. \A d \in air : ~Concerns(d, c) BY <1>1, <2>1, <2>2
    <3>2. \A d \in air' : Concerns(d, c) => d = new BY <1>6, <3>1
    <3>3. c \notin refused' BY <1>1
    <3> QED BY <1>4, <1>5, <2>2, <3>2, <3>3
  <2>3. CASE b # c
    <3>1. ~Concerns(new, b) BY <1>2, <1>5, <2>3, DHosts DEF Concerns
    <3>2. \A d \in air' : Concerns(d, b) => d \in air BY <1>6, <3>1
    <3>3. stD'[b] = stD[b] /\ i'[b] = i[b] BY <1>2, <1>4, <2>3
    <3> QED BY <1>1, <2>1, <3>2, <3>3
  <2> QED BY <2>2, <2>3
<1>11. dups <= dups' /\ strangers <= strangers' BY <1>1, <1>3 DEF DTypes
<1> QED BY <1>1, <1>7, <1>8, <1>9, <1>10, <1>11, ESilentStep

\* recvfrom(), or read() of a connected socket, which may report an error.
LEMMA EReadStep ==
  ASSUME DInv, D!Echoing, NEW c \in Clients, D!C_RecvFrom(c) \/ D!C_Read(c) PROVE DInv'
<1>1. CASE D!C_RecvFrom(c)
  <2>1. PICK d \in air : d.to = c /\ D!Take(d) /\ D!Heard(c, d) BY <1>1 DEF D!C_RecvFrom
  <2>2. /\ protocol = "echo" /\ stD[c] = "wait" /\ stD' = [stD EXCEPT ![c] = "type"]
        /\ UNCHANGED <<protocol, i, newline, refused, strangers>>
    BY <1>1 DEF D!C_RecvFrom
  <2>3. refused' \subseteq refused BY <2>2
  <2>4. protocol = "con" => d.from = "server" BY <2>2
  <2> QED BY <2>1, <2>2, <2>3, <2>4, EReceiveStep
<1>2. CASE D!C_Read(c)
  <2>1. /\ protocol = "con" /\ stD[c] = "wait" /\ stD' = [stD EXCEPT ![c] = "type"]
        /\ UNCHANGED <<protocol, i, newline, strangers>>
    BY <1>2 DEF D!C_Read
  <2>2. CASE UNCHANGED refused /\ \E d \in air : d.to = c /\ d.from = D!Server /\ D!Take(d) /\ D!Heard(c, d)
    <3>1. PICK d \in air : d.to = c /\ d.from = D!Server /\ D!Take(d) /\ D!Heard(c, d) BY <2>2
    <3>2. d.from = "server" /\ refused' \subseteq refused BY <2>2, <3>1, DHosts
    <3> QED BY <2>1, <3>1, <3>2, EReceiveStep
  <2>3. CASE /\ c \in refused /\ refused' = refused \ {c} /\ D!Heard(c, [from |-> c, n |-> i[c]])
             /\ UNCHANGED <<air, dups>>
    <3> DEFINE x == [from |-> c, n |-> i[c], cut |-> FALSE]
    <3>1. heard' = [heard EXCEPT ![c] = Append(@, x)] BY <2>3 DEF D!Heard, D!HeardAs
    <3>2. c \in Senders /\ c # "server" /\ i[c] \in Nat /\ dups \in Nat BY DHosts DEF DInv, DTypes
    <3>3. x \in Printed /\ x.from = c /\ x.n = i[c] BY <3>2 DEF Printed
    <3>4. dups = 0 /\ strangers = 0 => \A d \in air : ~Concerns(d, c) BY <2>3 DEF DInv, EAlone
    <3>5. dups' = dups /\ dups' \in Nat /\ dups <= dups' /\ air' = air /\ refused' \subseteq refused BY <2>3, <3>2
    <3> HIDE DEF x
    <3>6. dups' = 0 /\ strangers = 0 => x.n = i[c] /\ \A d \in air' : ~Concerns(d, c) BY <3>3, <3>4, <3>5
    <3>7. (protocol = "con" => x.from \in {"server", c}) /\ (x.from = "server" => x.n <= i[c]) BY <3>2, <3>3
    <3>8. air' \subseteq air BY <3>5
    <3> QED BY <2>1, <3>1, <3>3, <3>5, <3>6, <3>7, <3>8, EPrintStep
  <2> QED BY <1>2, <2>2, <2>3 DEF D!C_Read
<1> QED BY <1>1, <1>2

\* The user has typed everything.
LEMMA EQuitStep == ASSUME DInv, NEW c \in Clients, D!C_Quit(c) PROVE DInv'
<1>1. /\ D!Echoing /\ stD[c] = "type" /\ stD' = [stD EXCEPT ![c] = "done"]
      /\ UNCHANGED <<protocol, air, i, newline, heard, refused, dups, strangers>>
  BY DEF D!C_Quit
<1>2. DOMAIN stD = D!Hosts /\ c \in D!Hosts /\ Clients \subseteq D!Hosts BY DHosts DEF DInv, DTypes
<1>3. DOMAIN stD' = D!Hosts /\ stD'[c] = "done" /\ \A g \in Clients \ {c} : stD'[g] = stD[g] BY <1>1, <1>2
<1>4. DTypes' BY <1>1, <1>3 DEF DInv, DTypes
<1>5. EPrinted' BY <1>1, <1>3 DEF DInv, EPrinted
<1>6. EAir' BY <1>1 DEF DInv, EAir
<1>7. EAlone'
  <2> SUFFICES ASSUME dups = 0, strangers = 0, NEW b \in Clients
               PROVE  /\ \A d \in air : Concerns(d, b) => stD'[b] = "wait" /\ d.n = i[b] /\ b \notin refused
                      /\ \A d, e \in air : Concerns(d, b) /\ Concerns(e, b) => d = e
    BY <1>1 DEF EAlone, Concerns
  <2>1. /\ \A d \in air : Concerns(d, b) => stD[b] = "wait" /\ d.n = i[b] /\ b \notin refused
        /\ \A d, e \in air : Concerns(d, b) /\ Concerns(e, b) => d = e
    BY <1>1 DEF DInv, EAlone
  <2> QED BY <1>1, <1>3, <2>1
<1>8. dups <= dups' /\ strangers <= strangers' BY <1>1 DEF DInv, DTypes
<1> QED BY <1>1, <1>4, <1>5, <1>6, <1>7, <1>8, ESilentStep

\* The server answers: the answer takes the place of the message.
LEMMA EServerStep == ASSUME DInv, D!ServerEcho PROVE DInv'
<1>1. D!Echoing /\ UNCHANGED <<protocol, stD, i, newline, heard, refused, strangers>> BY DEF D!ServerEcho
<1>2. PICK d \in air : /\ d.to = D!Server
                       /\ \E rest \in {air, air \ {d}} :
                            /\ rest = air => dups < MaxDups
                            /\ dups' = IF rest = air THEN dups + 1 ELSE dups
                            /\ air' = rest \cup {D!Datagram(d.from, D!Server, d.n, d.copy)}
  BY DEF D!ServerEcho
<1> DEFINE new == D!Datagram(d.from, "server", d.n, d.copy)
<1>3. d.to = "server" /\ ((dups' = dups + 1 /\ air' = air \cup {new})
                          \/ (dups' = dups /\ air' = (air \ {d}) \cup {new}))
  BY <1>2, DHosts
<1>4. d.from \in Clients /\ d.n <= i[d.from] BY <1>1, <1>3 DEF DInv, EAir
<1>5. DTypes /\ d.n \in Nat /\ d.copy \in Nat /\ dups \in Nat /\ strangers \in Nat BY DEF DInv, DTypes
<1>6. /\ new \in [to : D!Hosts, from : Senders, n : Nat, copy : Nat]
      /\ new.to = d.from /\ new.from = "server" /\ new.n = d.n
  BY <1>4, <1>5, DHosts DEF D!Datagram
<1> HIDE DEF new
<1>7. DTypes'
  <2>1. dups' \in Nat /\ air' \subseteq air \cup {new} BY <1>3, <1>5
  <2> QED BY <1>1, <1>5, <1>6, <2>1 DEF DTypes
<1>8. EPrinted' BY <1>1 DEF DInv, EPrinted
<1>9. EAir'
  <2>1. \A e \in air' : e \in air \/ e = new BY <1>3
  <2>2. new.to # "server" /\ new.n <= i[new.to] BY <1>4, <1>6, DHosts
  <2> QED BY <1>1, <1>6, <2>1, <2>2 DEF DInv, EAir
<1>10. EAlone'
  <2> SUFFICES ASSUME dups' = 0, strangers = 0, NEW b \in Clients
               PROVE  /\ \A e \in air' : Concerns(e, b) => stD[b] = "wait" /\ e.n = i[b] /\ b \notin refused
                      /\ \A e, f \in air' : Concerns(e, b) /\ Concerns(f, b) => e = f
    BY <1>1 DEF EAlone, Concerns
  <2>1. dups = 0 /\ air' = (air \ {d}) \cup {new} BY <1>3, <1>5
  <2>2. /\ \A e \in air : Concerns(e, b) => stD[b] = "wait" /\ e.n = i[b] /\ b \notin refused
        /\ \A e, f \in air : Concerns(e, b) /\ Concerns(f, b) => e = f
    BY <1>1, <2>1 DEF DInv, EAlone
  <2>3. Concerns(new, b) => b = d.from /\ Concerns(d, b) BY <1>6, DHosts DEF Concerns
  <2> QED BY <1>6, <2>1, <2>2, <2>3
<1>11. dups <= dups' /\ strangers <= strangers' BY <1>1, <1>3, <1>5
<1> QED BY <1>1, <1>7, <1>8, <1>9, <1>10, <1>11, ESilentStep

\* A datagram is lost, and its sender may be told.
LEMMA ELossStep ==
  ASSUME DInv, D!Echoing, NEW d \in air, D!Lose(d) \/ D!Unreachable(d) PROVE DInv'
<1>1. /\ air' = air \ {d} /\ UNCHANGED <<protocol, stD, i, newline, heard, dups, strangers>>
      /\ refused' = refused \/ (refused' = refused \cup {d.from})
  BY DEF D!Lose, D!Unreachable
<1>2. DTypes' BY <1>1 DEF DInv, DTypes
<1>3. EPrinted' /\ EAir' BY <1>1 DEF DInv, EPrinted, EAir
<1>4. EAlone'
  <2> SUFFICES ASSUME dups = 0, strangers = 0, NEW b \in Clients
               PROVE  /\ \A e \in air' : Concerns(e, b) => stD[b] = "wait" /\ e.n = i[b] /\ b \notin refused'
                      /\ \A e, f \in air' : Concerns(e, b) /\ Concerns(f, b) => e = f
    BY <1>1 DEF EAlone, Concerns
  <2>1. /\ \A e \in air : Concerns(e, b) => stD[b] = "wait" /\ e.n = i[b] /\ b \notin refused
        /\ \A e, f \in air : Concerns(e, b) /\ Concerns(f, b) => e = f
    BY DEF DInv, EAlone
  <2>2. b = d.from => Concerns(d, b) BY DEF Concerns
  <2> QED BY <1>1, <2>1, <2>2
<1>5. dups <= dups' /\ strangers <= strangers' BY <1>1 DEF DInv, DTypes
<1> QED BY <1>1, <1>2, <1>3, <1>4, <1>5, ESilentStep

\* Somebody else writes to a client.
LEMMA EStrangerStep == ASSUME DInv, NEW c \in Clients, D!Stranger(c) PROVE DInv'
<1> DEFINE new == D!Datagram(c, "stranger", 0, 0)
<1>1. /\ D!Echoing /\ strangers' = strangers + 1 /\ air' = air \cup {new}
      /\ UNCHANGED <<protocol, stD, i, newline, heard, refused, dups>>
  BY DEF D!Stranger
<1>2. /\ new \in [to : D!Hosts, from : Senders, n : Nat, copy : Nat] /\ new.to = c /\ new.from = "stranger"
  BY DHosts DEF D!Datagram, Senders
<1> HIDE DEF new
<1>3. strangers \in Nat /\ dups \in Nat BY DEF DInv, DTypes
<1>4. DTypes' BY <1>1, <1>2, <1>3 DEF DInv, DTypes
<1>5. EPrinted' BY <1>1 DEF DInv, EPrinted
<1>6. EAir' BY <1>1, <1>2, DHosts DEF DInv, EAir
<1>7. EAlone' BY <1>1, <1>3 DEF EAlone
<1>8. dups <= dups' /\ strangers <= strangers' BY <1>1, <1>3
<1> QED BY <1>1, <1>4, <1>5, <1>6, <1>7, <1>8, ESilentStep

-----------------------------------------------------------------------------
(* The other programs                                                      *)

\* What was sent to a host changes only when something is sent, or it joins.
LEMMA SentSame ==
  ASSUME UNCHANGED <<protocol, i, stD>>, NEW h, NEW k PROVE D!SentTo(h, k)' = D!SentTo(h, k)
BY DEF D!SentTo, D!News, D!Line

\* A datagram is lost: the hosts it concerns are noted.
LEMMA NLossStep ==
  ASSUME DInv, ~D!Echoing, NEW d \in air, air' = air \ {d}, lost' = lost \cup {d.to, d.from},
         UNCHANGED <<protocol, stD, i, newline, heard, dups, strangers>>
  PROVE  DInv'
<1>1. DTypes' BY DEF DInv, DTypes
<1>2. ~D!Echoing' BY DEF D!Echoing
<1>3. NSent' BY DEF DInv, NSent, D!News
<1>4. NCounted'
  <2> SUFFICES ASSUME NEW h \in D!Hosts, NEW k \in Nat \ {0} PROVE Counted(h, k)' BY DEF NCounted
  <2>1. Counted(h, k) BY DEF DInv, NCounted
  <2>2. HeardAt(h, k)' = HeardAt(h, k) /\ D!SentTo(h, k)' = D!SentTo(h, k)
    BY SentSame DEF HeardAt, Fits, D!News
  <2>3. Flying(h, k)' \subseteq Flying(h, k) BY DEF Flying
  <2>4. /\ IsFiniteSet(Flying(h, k)') /\ Cardinality(Flying(h, k)') <= Cardinality(Flying(h, k))
        /\ Cardinality(Flying(h, k)) \in Nat /\ Cardinality(Flying(h, k)') \in Nat
    BY <2>1, <2>3, FS_Subset, FS_CardinalityType DEF Counted
  <2>5. Cardinality(HeardAt(h, k)) \in Nat /\ dups \in Nat BY HeardFinite DEF DInv, DTypes
  <2>6. h \notin lost' => Flying(h, k)' = Flying(h, k) /\ h \notin lost BY DEF Flying
  <2> QED BY <2>1, <2>2, <2>4, <2>5, <2>6 DEF Counted
<1> QED BY <1>1, <1>2, <1>3, <1>4 DEF DInv

\* Nothing is received, sent or lost, and what was sent to a host stays.
LEMMA NIdleStep ==
  ASSUME DInv, ~D!Echoing, UNCHANGED <<protocol, air, newline, heard, lost, dups, strangers>>,
         i' \in [D!Hosts -> Nat], DOMAIN stD' = D!Hosts, NSent',
         \A h \in D!Hosts : \A k \in Nat \ {0} : D!SentTo(h, k)' = D!SentTo(h, k)
  PROVE  DInv'
<1>1. DTypes' BY DEF DInv, DTypes
<1>2. ~D!Echoing' BY DEF D!Echoing
<1>3. NCounted'
  <2> SUFFICES ASSUME NEW h \in D!Hosts, NEW k \in Nat \ {0} PROVE Counted(h, k)' BY DEF NCounted
  <2>1. Counted(h, k) BY DEF DInv, NCounted
  <2>2. HeardAt(h, k)' = HeardAt(h, k) /\ Flying(h, k)' = Flying(h, k) /\ D!SentTo(h, k)' = D!SentTo(h, k)
    BY DEF HeardAt, Fits, Flying, D!News
  <2> QED BY <2>1, <2>2 DEF Counted
<1> QED BY <1>1, <1>2, <1>3 DEF DInv

\* A receiver joins: nothing was sent to it yet.
LEMMA NJoinStep == ASSUME DInv, NEW c \in Clients, D!Join(c) PROVE DInv'
<1>1. /\ D!News /\ stD[c] = "off" /\ stD' = [stD EXCEPT ![c] = "wait"] /\ i' = [i EXCEPT ![c] = i["server"]]
      /\ UNCHANGED <<protocol, air, newline, heard, lost, dups, strangers>>
  BY DHosts DEF D!Join
<1>2. ~D!Echoing BY <1>1 DEF D!Echoing, D!News
<1>3. /\ c \in D!Hosts /\ c # "server" /\ "server" \in D!Hosts /\ Clients \subseteq D!Hosts
      /\ i \in [D!Hosts -> Nat] /\ DOMAIN stD = D!Hosts
  BY DHosts DEF DInv, DTypes
<1>4. /\ i' \in [D!Hosts -> Nat] /\ DOMAIN stD' = D!Hosts /\ stD'[c] = "wait" /\ i'[c] = i["server"]
      /\ \A g \in D!Hosts \ {c} : i'[g] = i[g] /\ stD'[g] = stD[g]
  BY <1>1, <1>3
<1>5. i'["server"] = i["server"] /\ i["server"] \in Nat /\ (D!News' <=> D!News) BY <1>1, <1>3, <1>4 DEF D!News
<1>6. NSent' BY <1>1, <1>2, <1>3, <1>4, <1>5 DEF DInv, NSent
<1>7. ASSUME NEW h \in D!Hosts, NEW k \in Nat \ {0} PROVE D!SentTo(h, k)' = D!SentTo(h, k)
  <2>1. CASE h = c
    <3> DEFINE S == {x \in 1..i["server"] : x > i["server"] /\ D!Line(x) = k}
    <3>1. D!SentTo(h, k) = 0 BY <1>1, <2>1 DEF D!SentTo
    <3>2. S = {} BY <1>5
    <3>3. D!SentTo(h, k)' = D!Cardinality(S) BY <1>1, <1>3, <1>4, <1>5, <2>1, DHosts DEF D!SentTo, D!Line
    <3>4. Cardinality({}) = 0 BY FS_EmptySet
    <3> QED BY <3>1, <3>2, <3>3, <3>4, DCardinality
  <2>2. CASE h # c
    <3>1. i'[h] = i[h] /\ stD'[h] = stD[h] BY <1>4, <2>2
    <3> QED BY <1>1, <1>5, <3>1, DHosts DEF D!SentTo, D!Line
  <2> QED BY <2>1, <2>2
<1> QED BY <1>1, <1>2, <1>4, <1>6, <1>7, NIdleStep

\* What a duplicate adds.
LEMMA CountMore ==
  ASSUME NEW a \in Nat, NEW b \in Nat, NEW f \in Nat, NEW g \in Nat, NEW s \in Nat, NEW u \in Nat,
         a + f <= u + s, b = a \/ b = a + 1, g <= f
  PROVE  b + g <= (u + 1) + s
OBVIOUS

\* A datagram is received and printed, cut if the receiver is to cut it.
LEMMA NReceiveStep ==
  ASSUME DInv, ~D!Echoing, NEW h \in D!Hosts, NEW d \in air, d.to = h, D!Take(d), NEW short \in BOOLEAN,
         D!HeardAs(h, d, short), short <=> (D!News /\ d.n \in Long),
         UNCHANGED <<protocol, i, newline, lost, strangers>>, DOMAIN stD' = D!Hosts,
         D!News => stD' = stD
  PROVE  DInv'
<1> DEFINE x == [from |-> d.from, n |-> d.n, cut |-> short]
<1>1. d.from \in Senders /\ d.n \in Nat /\ x \in Printed /\ x.n = d.n /\ (x.cut <=> short) /\ DTypes
  BY DEF DInv, DTypes, Printed
<1>2. heard' = [heard EXCEPT ![h] = Append(@, x)] BY DEF D!HeardAs
<1>3. /\ air' \subseteq air /\ dups' \in Nat
      /\ (air' = air \ {d} /\ dups' = dups) \/ (air' = air /\ dups' = dups + 1)
  BY <1>1, DTake
<1> HIDE DEF x
<1>4. /\ heard' \in [D!Hosts -> Seq(Printed)] /\ \A g \in D!Hosts \ {h} : heard'[g] = heard[g]
      /\ Len(heard'[h]) = Len(heard[h]) + 1 /\ heard'[h][Len(heard[h]) + 1] = x
      /\ \A k \in 1..Len(heard[h]) : heard'[h][k] = heard[h][k]
  BY <1>1, <1>2, DPrint
<1>5. DTypes' BY <1>1, <1>3, <1>4 DEF DTypes
<1>6. ~D!Echoing' /\ (D!News' <=> D!News) BY DEF D!Echoing, D!News
<1>7. NSent' BY <1>3, <1>6 DEF DInv, NSent
<1>8. Fits(x, d.n) /\ \A k : k # d.n => ~Fits(x, k) BY <1>1 DEF Fits
<1>9. NCounted'
  <2> SUFFICES ASSUME NEW g \in D!Hosts, NEW k \in Nat \ {0} PROVE Counted(g, k)' BY DEF NCounted
  <2>1. Counted(g, k) BY DEF DInv, NCounted
  <2>2. Flying(g, k)' \subseteq Flying(g, k) BY <1>3 DEF Flying
  <2>3. /\ IsFiniteSet(Flying(g, k)') /\ Cardinality(Flying(g, k)') <= Cardinality(Flying(g, k))
        /\ Cardinality(Flying(g, k)) \in Nat /\ Cardinality(Flying(g, k)') \in Nat
    BY <2>1, <2>2, FS_Subset, FS_CardinalityType DEF Counted
  <2>4. D!SentTo(g, k)' = D!SentTo(g, k)
    <3>1. CASE D!News BY <1>6, <3>1, SentSame
    <3>2. CASE ~D!News BY <1>6, <3>2 DEF D!SentTo
    <3> QED BY <3>1, <3>2
  <2>5. /\ Cardinality(HeardAt(g, k)) \in Nat /\ IsFiniteSet(HeardAt(g, k)) /\ dups \in Nat
        /\ Len(heard[g]) \in Nat
    BY <1>1, HeardFinite DEF DTypes
  <2>8. \A j \in 1..Len(heard[g]) : Fits(heard'[g][j], k) <=> Fits(heard[g][j], k)
    <3>1. \A j \in 1..Len(heard[g]) : heard'[g][j] = heard[g][j] BY <1>4
    <3> QED BY <1>6, <3>1 DEF Fits
  <2>6. CASE g = h /\ k = d.n
    <3>1. HeardAt(g, k)' = HeardAt(g, k) \cup {Len(heard[g]) + 1} /\ Len(heard[g]) + 1 \notin HeardAt(g, k)
      <4>1. Fits(heard'[g][Len(heard[g]) + 1], k) BY <1>4, <1>6, <1>8, <2>6 DEF Fits
      <4>2. \A j : j \in 1..Len(heard'[g]) <=> j \in 1..Len(heard[g]) \/ j = Len(heard[g]) + 1
        BY <1>4, <2>5, <2>6
      <4>3. Len(heard[g]) + 1 \notin 1..Len(heard[g]) BY <2>5
      <4>4. HeardAt(g, k)' = {j \in 1..Len(heard'[g]) : Fits(heard'[g][j], k)} BY <1>6 DEF HeardAt, Fits
      <4>5. HeardAt(g, k) = {j \in 1..Len(heard[g]) : Fits(heard[g][j], k)} BY DEF HeardAt
      <4> HIDE DEF Fits, HeardAt
      <4> QED BY <2>8, <4>1, <4>2, <4>3, <4>4, <4>5
    <3>2. Cardinality(HeardAt(g, k)') = Cardinality(HeardAt(g, k)) + 1 BY <2>5, <3>1, FS_AddElement
    <3>3. CASE dups' = dups + 1
      <4>1. dups' # 0 BY <2>5, <3>3
      <4>2. Cardinality(HeardAt(g, k)') \in Nat BY <2>5, <3>2
      <4>3. D!SentTo(g, k) \in Nat /\ Cardinality(HeardAt(g, k)) + Cardinality(Flying(g, k)) <= dups + D!SentTo(g, k)
        BY <2>1 DEF Counted
      <4>4. Cardinality(HeardAt(g, k)') + Cardinality(Flying(g, k)') <= (dups + 1) + D!SentTo(g, k)
        BY <2>3, <2>5, <3>2, <4>2, <4>3, CountMore
      <4> QED BY <2>3, <2>4, <3>3, <4>1, <4>3, <4>4 DEF Counted
    <3>4. CASE air' = air \ {d} /\ dups' = dups
      <4>1. d \in Flying(g, k) /\ Flying(g, k)' = Flying(g, k) \ {d} BY <2>6, <3>4 DEF Flying
      <4>2. Cardinality(Flying(g, k)') = Cardinality(Flying(g, k)) - 1
        <5>1. Cardinality(Flying(g, k) \ {d}) = Cardinality(Flying(g, k)) - 1
          <6>1. IsFiniteSet(Flying(g, k)) /\ d \in Flying(g, k) BY <2>1, <4>1 DEF Counted
          <6> QED BY <6>1, FS_RemoveElement
        <5> QED BY <4>1, <5>1
      <4>3. Cardinality(HeardAt(g, k)') + Cardinality(Flying(g, k)') = Cardinality(HeardAt(g, k)) + Cardinality(Flying(g, k))
        BY <2>3, <2>5, <3>2, <4>2
      <4> QED BY <2>1, <2>3, <2>4, <3>4, <4>3 DEF Counted
    <3> QED BY <1>3, <3>3, <3>4
  <2>7. CASE ~(g = h /\ k = d.n)
    <3>1. HeardAt(g, k)' = HeardAt(g, k)
      <4>1. CASE g # h
        <5>1. heard'[g] = heard[g] BY <1>4, <4>1
        <5> QED BY <1>6, <5>1 DEF HeardAt, Fits
      <4>2. CASE g = h /\ k # d.n
        <5>1. ~Fits(heard'[g][Len(heard[g]) + 1], k) BY <1>4, <1>6, <1>8, <4>2 DEF Fits
        <5>2. \A j : j \in 1..Len(heard'[g]) <=> j \in 1..Len(heard[g]) \/ j = Len(heard[g]) + 1
          BY <1>4, <2>5, <4>2
        <5>3. HeardAt(g, k)' = {j \in 1..Len(heard'[g]) : Fits(heard'[g][j], k)} BY <1>6 DEF HeardAt, Fits
        <5>4. HeardAt(g, k) = {j \in 1..Len(heard[g]) : Fits(heard[g][j], k)} BY DEF HeardAt
        <5> HIDE DEF Fits, HeardAt
        <5> QED BY <2>8, <5>1, <5>2, <5>3, <5>4
      <4> QED BY <2>7, <4>1, <4>2
    <3>2. CASE dups' = dups + 1
      <4>1. dups' # 0 BY <2>5, <3>2
      <4>2. Cardinality(HeardAt(g, k)') \in Nat BY <2>5, <3>1
      <4>3. D!SentTo(g, k) \in Nat /\ Cardinality(HeardAt(g, k)) + Cardinality(Flying(g, k)) <= dups + D!SentTo(g, k)
        BY <2>1 DEF Counted
      <4>4. Cardinality(HeardAt(g, k)') + Cardinality(Flying(g, k)') <= (dups + 1) + D!SentTo(g, k)
        BY <2>3, <2>5, <3>1, <4>2, <4>3, CountMore
      <4> QED BY <2>3, <2>4, <3>2, <4>1, <4>3, <4>4 DEF Counted
    <3>3. CASE air' = air \ {d} /\ dups' = dups
      <4>1. Flying(g, k)' = Flying(g, k) BY <2>7, <3>3 DEF Flying
      <4> QED BY <2>1, <2>4, <3>1, <3>3, <4>1 DEF Counted
    <3> QED BY <1>3, <3>2, <3>3
  <2> QED BY <2>6, <2>7
<1> QED BY <1>5, <1>6, <1>7, <1>9 DEF DInv

\* S: one datagram numbered num, none of which is on its way, to some hosts.
NewTo(num, S) ==
  /\ S \subseteq [to : D!Hosts, from : Senders, n : Nat, copy : Nat]
  /\ \A d \in S : d.n = num /\ d \notin air
  /\ \A d, e \in S : d.to = e.to => d = e
SentOnce(num, S) ==
  \A h \in D!Hosts : \A k \in Nat \ {0} :
    D!SentTo(h, k)' = D!SentTo(h, k) + One(k = num /\ \E d \in S : d.to = h)

\* These are sent.
LEMMA NSendStep ==
  ASSUME DInv, ~D!Echoing, UNCHANGED <<protocol, stD, newline, heard, lost, dups, strangers>>,
         i' \in [D!Hosts -> Nat], NEW num, NEW S, air' = air \cup S, NewTo(num, S), NSent',
         SentOnce(num, S)
  PROVE  DInv'
<1>1. DTypes' BY DEF DInv, DTypes, NewTo
<1>2. ~D!Echoing' BY DEF D!Echoing
<1>3. NCounted'
  <2> SUFFICES ASSUME NEW h \in D!Hosts, NEW k \in Nat \ {0} PROVE Counted(h, k)' BY DEF NCounted
  <2>1. Counted(h, k) BY DEF DInv, NCounted
  <2>2. HeardAt(h, k)' = HeardAt(h, k) BY DEF HeardAt, Fits, D!News
  <2>3. Cardinality(HeardAt(h, k)) \in Nat /\ dups \in Nat /\ Cardinality(Flying(h, k)) \in Nat
    BY <2>1, HeardFinite, FS_CardinalityType DEF DInv, DTypes, Counted
  <2>4. D!SentTo(h, k) \in Nat /\ D!SentTo(h, k)' = D!SentTo(h, k) + One(k = num /\ \E d \in S : d.to = h)
    BY <2>1 DEF Counted, SentOnce
  <2>5. CASE k = num /\ \E d \in S : d.to = h
    <3>1. PICK d \in S : d.to = h /\ d.n = k /\ d \notin air BY <2>5 DEF NewTo
    <3>2. Flying(h, k)' = Flying(h, k) \cup {d} /\ d \notin Flying(h, k) BY <2>5, <3>1 DEF Flying, NewTo
    <3>3. IsFiniteSet(Flying(h, k)') /\ Cardinality(Flying(h, k)') = Cardinality(Flying(h, k)) + 1
      BY <2>1, <3>2, FS_AddElement DEF Counted
    <3>4. D!SentTo(h, k)' = D!SentTo(h, k) + 1 BY <2>4, <2>5 DEF One
    <3> QED BY <2>1, <2>2, <2>3, <2>4, <3>3, <3>4 DEF Counted
  <2>6. CASE ~(k = num /\ \E d \in S : d.to = h)
    <3>1. Flying(h, k)' = Flying(h, k) BY <2>6 DEF Flying, NewTo
    <3>2. D!SentTo(h, k)' = D!SentTo(h, k) BY <2>4, <2>6 DEF One
    <3> QED BY <2>1, <2>2, <3>1, <3>2 DEF Counted
  <2> QED BY <2>5, <2>6
<1> QED BY <1>1, <1>2, <1>3 DEF DInv

\* bound_host2.c sends its next datagram.
LEMMA NHost2Step == ASSUME DInv, D!Host2Send PROVE DInv'
<1> DEFINE num == i["server"] + 1
           S == {D!Datagram("server", "host2", num, 0)}
<1>1. "server" \in D!Hosts /\ i \in [D!Hosts -> Nat] BY DHosts DEF DInv, DTypes
<1>2. /\ protocol = "bound" /\ i' = [i EXCEPT !["server"] = @ + 1]
      /\ air' = air \cup {D!Datagram("server", "host2", i'["server"], 0)}
      /\ UNCHANGED <<protocol, stD, newline, heard, lost, dups, strangers>>
  BY DHosts DEF D!Host2Send
<1>3. i' \in [D!Hosts -> Nat] /\ i'["server"] = num /\ num \in Nat /\ i["server"] \in Nat BY <1>1, <1>2
<1>4. air' = air \cup S BY <1>2, <1>3
<1>5. /\ S \subseteq [to : D!Hosts, from : Senders, n : Nat, copy : Nat]
      /\ \A d \in S : d.n = num /\ d.to = "server"
  BY <1>1, <1>3 DEF D!Datagram, Senders
<1>6. \A d, e \in S : d.to = e.to => d = e OBVIOUS
<1>7. ~D!Echoing /\ ~D!News /\ ~D!News' BY <1>2 DEF D!Echoing, D!News
<1>8. \A d \in air : d.n \in Nat /\ d.n <= i["server"] BY <1>7 DEF DInv, DTypes, NSent
<1>9. NSent' BY <1>3, <1>4, <1>5, <1>7, <1>8 DEF NSent
<1>10. \A d \in S : d.n = num /\ d \notin air BY <1>3, <1>5, <1>8
<1>11. ASSUME NEW h \in D!Hosts, NEW k \in Nat \ {0}
       PROVE  D!SentTo(h, k)' = D!SentTo(h, k) + One(k = num /\ \E d \in S : d.to = h)
  <2>1. (\E d \in S : d.to = h) <=> h = "server" BY <1>5 DEF D!Datagram
  <2>2. /\ D!SentTo(h, k) = (IF h = "server" /\ k <= i["server"] THEN 1 ELSE 0)
        /\ D!SentTo(h, k)' = (IF h = "server" /\ k <= num THEN 1 ELSE 0)
    BY <1>3, <1>7, DHosts DEF D!SentTo
  <2> HIDE DEF S
  <2>3. One(k = num /\ \E d \in S : d.to = h) = (IF k = num /\ h = "server" THEN 1 ELSE 0) BY <2>1 DEF One
  <2> QED BY <1>3, <2>2, <2>3
<1>12. S \subseteq [to : D!Hosts, from : Senders, n : Nat, copy : Nat] BY <1>5
<1>13. i' \in [D!Hosts -> Nat] BY <1>3
<1> HIDE DEF num, S
<1>14. NewTo(num, S) BY <1>6, <1>10, <1>12 DEF NewTo
<1>15. SentOnce(num, S) BY <1>11 DEF SentOnce
<1> QED BY <1>2, <1>4, <1>7, <1>9, <1>13, <1>14, <1>15, NSendStep

\* A line of the news is sent to those who have joined; the last line once
\* more behind a last newline.
LEMMA NNewsStep == ASSUME DInv, D!News, D!SendLine PROVE DInv'
<1> DEFINE c == i["server"] + 1
           num == D!Line(c)
           S == {D!Datagram(r, "server", num, c) : r \in {r \in Clients : stD[r] = "wait"}}
<1>1. "server" \in D!Hosts /\ i \in [D!Hosts -> Nat] /\ Lines \in Nat /\ Clients \subseteq D!Hosts
  BY DHosts, DatagramAssumption DEF DInv, DTypes
<1>2. /\ i' = [i EXCEPT !["server"] = @ + 1]
      /\ UNCHANGED <<protocol, stD, newline, heard, lost, dups, strangers>>
  BY DHosts DEF D!SendLine
<1>3. i' \in [D!Hosts -> Nat] /\ i'["server"] = c /\ c \in Nat /\ i["server"] \in Nat BY <1>1, <1>2
<1>4. air' = air \cup S BY <1>3, DHosts DEF D!SendLine
<1>5. num \in Nat BY <1>1, <1>3 DEF D!Line
<1>6. /\ S \subseteq [to : D!Hosts, from : Senders, n : Nat, copy : Nat] /\ \A d \in S : d.n = num /\ d.copy = c
      /\ \A d, e \in S : d.to = e.to => d = e
      /\ \A h : (\E d \in S : d.to = h) <=> (h \in Clients /\ stD[h] = "wait")
  <2> HIDE DEF c, num, S
  <2>1. "server" \in Senders BY DHosts
  <2>2. \A d : d \in S <=> \E r \in Clients : stD[r] = "wait" /\ d = D!Datagram(r, "server", num, c) BY DEF S
  <2>3. \A r \in Clients :
          /\ D!Datagram(r, "server", num, c) \in [to : D!Hosts, from : Senders, n : Nat, copy : Nat]
          /\ D!Datagram(r, "server", num, c).to = r
          /\ D!Datagram(r, "server", num, c).n = num /\ D!Datagram(r, "server", num, c).copy = c
    BY <1>1, <1>3, <1>5, <2>1 DEF D!Datagram
  <2>4. S \subseteq [to : D!Hosts, from : Senders, n : Nat, copy : Nat] BY <2>2, <2>3
  <2>5. \A d \in S : d.n = num /\ d.copy = c BY <2>2, <2>3
  <2>6. \A d \in S : d.to \in Clients /\ stD[d.to] = "wait" /\ d = D!Datagram(d.to, "server", num, c) BY <2>2, <2>3
  <2>7. \A d, e \in S : d.to = e.to => d = e BY <2>6
  <2>8. \A h : (\E d \in S : d.to = h) <=> (h \in Clients /\ stD[h] = "wait") BY <2>2, <2>3, <2>6
  <2> QED BY <2>4, <2>5, <2>7, <2>8
<1>7. ~D!Echoing /\ D!News' BY <1>2 DEF D!Echoing, D!News
<1>8. \A d \in air : d.copy \in Nat /\ d.copy <= i["server"] BY <1>7 DEF DInv, DTypes, NSent
<1>9. \A r \in Clients : stD[r] \in {"off", "wait"} /\ i[r] <= i["server"] /\ i'[r] = i[r] /\ i[r] \in Nat
  BY <1>1, <1>2, <1>7, DHosts DEF DInv, NSent
<1> HIDE DEF num, S
<1>10. NSent' BY <1>2, <1>3, <1>4, <1>6, <1>7, <1>8, <1>9 DEF NSent
<1>11. \A d \in S : d.n = num /\ d \notin air BY <1>3, <1>6, <1>8
<1>12. ASSUME NEW h \in D!Hosts, NEW k \in Nat \ {0}
       PROVE  D!SentTo(h, k)' = D!SentTo(h, k) + One(k = num /\ \E d \in S : d.to = h)
  <2>1. CASE h \notin Clients \/ stD[h] = "off"
    <3>1. h = D!Server \/ stD[h] = "off" BY <2>1, DHosts
    <3>2. D!SentTo(h, k) = 0 /\ D!SentTo(h, k)' = 0 BY <1>2, <1>7, <3>1 DEF D!SentTo
    <3>3. ~\E d \in S : d.to = h BY <1>6, <2>1
    <3> QED BY <3>2, <3>3 DEF One
  <2>2. CASE h \in Clients /\ stD[h] = "wait"
    <3> DEFINE T == {x \in 1..i["server"] : x > i[h] /\ D!Line(x) = k}
               U == {x \in 1..c : x > i[h] /\ D!Line(x) = k}
    <3>1. \E d \in S : d.to = h BY <1>6, <2>2
    <3>2. h # D!Server BY <2>2, DHosts
    <3>3. i'[h] = i[h] /\ i[h] <= i["server"] /\ i[h] \in Nat BY <1>9, <2>2
    <3>4. D!SentTo(h, k) = Cardinality(T) BY <2>2, <3>2, DCardinality, DHosts DEF D!SentTo
    <3>5. D!SentTo(h, k)' = Cardinality(U)
      BY <1>2, <1>3, <1>7, <2>2, <3>2, <3>3, DCardinality, DHosts DEF D!SentTo, D!Line
    <3>6. IsFiniteSet(T)
      <4>1. IsFiniteSet(1..i["server"]) BY <1>3, FS_Interval
      <4> QED BY <4>1, FS_Subset
    <3>7. c \notin T BY <1>3
    <3>8. \A x : x \in 1..c <=> x \in 1..i["server"] \/ x = c BY <1>3
    <3>9. c > i[h] BY <1>3, <3>3
    <3>10. CASE k = num
      <4>1. D!Line(c) = k BY <3>10 DEF num
      <4>2. U = T \cup {c} BY <3>8, <3>9, <4>1
      <4>3. Cardinality(U) = Cardinality(T) + 1 BY <3>6, <3>7, <4>2, FS_AddElement
      <4> QED BY <3>1, <3>4, <3>5, <3>10, <4>3 DEF One
    <3>11. CASE k # num
      <4>1. D!Line(c) # k BY <3>11 DEF num
      <4>2. U = T BY <3>8, <4>1
      <4>3. Cardinality(T) \in Nat BY <3>6, FS_CardinalityType
      <4> QED BY <3>4, <3>5, <3>11, <4>2, <4>3 DEF One
    <3> QED BY <3>10, <3>11
  <2> QED BY <1>9, <2>1, <2>2
<1>13. S \subseteq [to : D!Hosts, from : Senders, n : Nat, copy : Nat] /\ \A d, e \in S : d.to = e.to => d = e BY <1>6
<1>14. i' \in [D!Hosts -> Nat] BY <1>3
<1> HIDE DEF c
<1>15. NewTo(num, S) BY <1>11, <1>13 DEF NewTo
<1>16. SentOnce(num, S) BY <1>12 DEF SentOnce
<1> QED BY <1>2, <1>4, <1>7, <1>10, <1>14, <1>15, <1>16, NSendStep

\* A step that leaves the datagrams and the programs alone.
LEMMA DQuietStep ==
  ASSUME DInv, UNCHANGED <<protocol, air, stD, i, newline, heard, lost, refused, dups, strangers>> PROVE DInv'
<1>1. DTypes' BY DEF DInv, DTypes
<1>2. CASE D!Echoing
  <2>1. EPrinted' BY <1>2 DEF DInv, EPrinted
  <2>2. EAir' BY <1>2 DEF DInv, EAir
  <2>3. EAlone'
    <3>1. EAlone BY <1>2 DEF DInv
    <3> QED BY <3>1 DEF EAlone, Concerns
  <2>4. dups <= dups' /\ strangers <= strangers' BY DEF DInv, DTypes
  <2> QED BY <1>1, <1>2, <2>1, <2>2, <2>3, <2>4, ESilentStep
<1>3. CASE ~D!Echoing
  <2>1. DOMAIN stD' = D!Hosts /\ i' \in [D!Hosts -> Nat] BY DEF DInv, DTypes
  <2>2. NSent' BY <1>3 DEF DInv, NSent, D!News
  <2>3. \A h \in D!Hosts : \A k \in Nat \ {0} : D!SentTo(h, k)' = D!SentTo(h, k) BY SentSame
  <2> QED BY <1>3, <2>1, <2>2, <2>3, NIdleStep
<1> QED BY <1>2, <1>3

\* Every step keeps the invariant.
LEMMA DStep == DInv /\ [Next]_vars => DInv'
<1> SUFFICES ASSUME DInv, [Next]_vars PROVE DInv' OBVIOUS
<1>1. CASE D!Bind BY <1>1, DQuietStep DEF D!Bind
<1>2. CASE D!ServerEcho BY <1>2, EServerStep
<1>3. CASE D!Host2Send BY <1>3, NHost2Step
<1>4. CASE D!Host1Receive
  <2>1. PICK d \in air : d.to = D!Server /\ D!Take(d) /\ D!HeardAs(D!Server, d, FALSE)
    BY <1>4 DEF D!Host1Receive, D!Heard
  <2>2. protocol = "bound" /\ UNCHANGED <<protocol, i, newline, lost, strangers>> BY <1>4 DEF D!Host1Receive
  <2>3. DOMAIN stD' = D!Hosts BY <1>4 DEF D!Host1Receive, DInv, DTypes
  <2>4. ~D!Echoing /\ ~D!News /\ D!Server \in D!Hosts BY <2>2, DHosts DEF D!Echoing, D!News
  <2>5. FALSE <=> (D!News /\ d.n \in Long) BY <2>4
  <2> QED BY <2>1, <2>2, <2>3, <2>4, <2>5, NReceiveStep
<1>5. CASE D!NewsSend \/ D!NewsSendBrd BY <1>5, NNewsStep DEF D!NewsSend, D!NewsSendBrd, D!News
<1>6. ASSUME NEW c \in Clients, D!Client(c) PROVE DInv'
  <2>1. CASE D!C_Send(c) BY <2>1, ESendStep
  <2>2. CASE D!C_RecvFrom(c) \/ D!C_Read(c)
    <3>1. D!Echoing BY <2>2 DEF D!C_RecvFrom, D!C_Read, D!Echoing
    <3> QED BY <2>2, <3>1, EReadStep
  <2>3. CASE D!C_Quit(c) BY <2>3, EQuitStep
  <2>4. CASE D!NewsReceive(c)
    <3>1. PICK d \in air : d.to = c /\ D!Take(d) /\ D!HeardAs(c, d, d.n \in Long) BY <2>4 DEF D!NewsReceive
    <3>2. D!News /\ UNCHANGED <<protocol, i, newline, lost, strangers, stD>> BY <2>4 DEF D!NewsReceive
    <3>3. ~D!Echoing /\ c \in D!Hosts /\ DOMAIN stD' = D!Hosts
      BY <3>2, DHosts DEF D!Echoing, D!News, DInv, DTypes
    <3>4. (d.n \in Long) <=> (D!News /\ d.n \in Long) BY <3>2
    <3>5. (d.n \in Long) \in BOOLEAN OBVIOUS
    <3> QED BY <3>1, <3>2, <3>3, <3>4, <3>5, NReceiveStep
  <2> QED BY <1>6, <2>1, <2>2, <2>3, <2>4 DEF D!Client, D!UechoClient, D!UechoConClient
<1>7. ASSUME NEW c \in Clients, D!Stranger(c) PROVE DInv' BY <1>7, EStrangerStep
<1>8. ASSUME NEW c \in Clients, D!Join(c) PROVE DInv' BY <1>8, NJoinStep
<1>9. ASSUME NEW d \in air, D!Lose(d) \/ D!Unreachable(d) PROVE DInv'
  <2>1. CASE D!Echoing BY <1>9, <2>1, ELossStep
  <2>2. CASE ~D!Echoing
    <3>1. /\ air' = air \ {d} /\ lost' = lost \cup {d.to, d.from}
          /\ UNCHANGED <<protocol, stD, heard, i, newline, dups, strangers>>
      BY <1>9 DEF D!Lose, D!Unreachable
    <3> QED BY <2>2, <3>1, NLossStep
  <2> QED BY <2>1, <2>2
<1>10. CASE UNCHANGED varsD BY <1>10, DQuietStep DEF varsD
<1>11. CASE D!Next BY <1>11, <1>1, <1>2, <1>3, <1>4, <1>5, <1>6, <1>7, <1>8, <1>9 DEF D!Next, D!UechoServer
<1> QED BY <1>10, <1>11 DEF Next, InP, InF, InD, vars

\* Whatever is lost, repeated, reordered or sent by somebody else, clients
\* print answers to messages they have sent, a connected client never a
\* stranger's.  A line of news, cut to the receiver's buffer, or a datagram of
\* bound_host2.c is printed at most as often as it was sent to a receiver that
\* had joined, and was duplicated; without loss and duplicates, exactly as often
\* as it was sent and is not on its way.
THEOREM DatagramsPrinted == Spec => []PrintsWhatWasSent
<1>1. Init => DInv BY DInitInv DEF Init
<1>2. DInv /\ [Next]_vars => DInv' BY DStep
<1> QED BY <1>1, <1>2, DInvPrints, PTL DEF Spec
-----------------------------------------------------------------------------
(* Pairs on one connection                                                 *)
(*                                                                         *)
(* As long as nobody is killed a pair goes through phases: Idle, nobody is *)
(* connected; Live, both processes have the connection open; ToClient and  *)
(* ToServer, one has closed it and the other one still reads; Left,        *)
(* echo_client.c has quit without reading all; Over, both have read what   *)
(* they will.  When echo_stdclient.c cuts its line both are Stuck.         *)
(* op_server.c goes through the phases again with every client.            *)

OneWay == pair \in {"hello", "tcp"}
TwoWay == pair \in {"file", "sep"}
Cut == pair = "std" /\ ~(m < StdBuf)
EchoPair == pair \in {"echo", "reuse", "quit"} \/ (pair = "std" /\ m < StdBuf)
Echoing == pair \in {"echo", "reuse", "quit", "mp"} \/ (pair = "std" /\ m < StdBuf)

PLocal ==
  /\ pair \in {"hello", "tcp", "file", "sep", "echo", "reuse", "quit", "std", "op", "mp"} /\ m \in Nat \ {0}
  /\ stP \in [P!Procs -> {"run", "done", "exited", "killed"}]
  /\ pcP \in [P!Procs -> Nat] /\ part \in [P!Procs -> Nat]
  /\ hold \in [P!Procs -> Nat] /\ got \in [P!Procs -> Nat]
PTcp ==
  /\ rx \in [P!Ends -> Nat] /\ err \in [P!Ends -> {"ok", "reset", "broken"}]
  /\ fin \in [P!Ends -> BOOLEAN] /\ open \in [P!Ends -> BOOLEAN] /\ shut \in [P!Ends -> BOOLEAN]

\* Bytes that were written to an end of the connection.
ToS == rx["S"] + got["S"]
ToC == rx["C"] + got["C"]

\* After this call a program does not read any more.
LastRead(p) ==
  IF OneWay THEN (IF p = "S" THEN 0 ELSE 2)
  ELSE IF TwoWay THEN (IF p = "S" THEN 5 ELSE 2)
  ELSE IF p = "S" THEN 3 ELSE IF pair = "mp" THEN 2 ELSE 2 * Rounds + 1
Finished(p) == pcP[p] > LastRead(p) /\ got[p] \in P!Promise(p)
Over ==
  /\ OneWay \/ TwoWay \/ Echoing
  /\ m \in Nat \ {0}
  /\ pcP \in [P!Procs -> Nat] /\ DOMAIN stP = P!Procs /\ (IF pair = "mp" THEN pcP["W"] > 0 ELSE stP["W"] = "done")
  /\ Finished("S") /\ Finished("C")

\* Before a client is connected.
Idle ==
  /\ pcP["S"] \in {1, 2} /\ pcP["C"] = 1 /\ pcP["W"] = 1
  /\ \A p \in P!Procs : part[p] = 0 /\ hold[p] = 0 /\ got[p] = 0
  /\ stP["S"] \in {"run", "exited"} /\ stP["C"] \in {"run", "exited"} /\ stP["W"] \in {"run", "done"}
  /\ stP["S"] = "run" => net = IF pcP["S"] = 1 THEN "down" ELSE "listening"
  /\ stP["S"] # "run" => net = "over"
  /\ IF pair = "mp" THEN stP["C"] = "run" => stP["W"] = "run" ELSE stP["W"] = "done"

\* What the server has done while both are connected.
ServerSends ==
  /\ hold["S"] = 0 /\ pcP["S"] \in 2..5 /\ (OneWay => pcP["S"] < 5)
  /\ shut["S"] <=> pcP["S"] = 5
  /\ pcP["S"] = 2 => ToC = 0 /\ part["S"] = 0
  /\ pcP["S"] = 3 => ToC = part["S"] /\ part["S"] < m
  /\ pcP["S"] > 3 => ToC = m
  /\ pcP["S"] = 4 => part["S"] = 0
  /\ pcP["S"] < 5 => got["S"] = 0
  /\ pcP["S"] = 5 => got["S"] = part["S"] /\ part["S"] < P!Thanks /\ (pair = "file" => part["S"] = 0)
ServerEchoes ==
  /\ ~shut["S"] /\ pcP["S"] \in 2..4
  /\ ToC + hold["S"] + part["S"] = got["S"]
  /\ pcP["S"] = 2 => got["S"] = 0
  /\ IF pair = "std" THEN part["S"] < m ELSE part["S"] = 0
  /\ pcP["S"] = 4 => pair = "mp" /\ got["S"] = Rounds * m /\ hold["S"] = 0 /\ shut["C"]

\* What the client has done.
ClientReads ==
  /\ ~shut["C"] /\ pcP["C"] = 2 /\ part["C"] = 0 /\ ToS = 0 /\ (pair = "hello" => got["C"] = 0)
ClientThanks ==
  /\ ~shut["C"] /\ pcP["C"] \in 2..4
  /\ pcP["C"] = 2 => part["C"] = 0 /\ ToS = 0
  /\ pcP["C"] > 2 => got["C"] = m /\ pcP["S"] = 5
  /\ pcP["C"] = 3 => ToS = part["C"] /\ part["C"] < P!Thanks
  /\ pcP["C"] = 4 => ToS = P!Thanks
\* In round j + 1, or after the last one.
ClientRound(j) ==
  \/ j < Rounds /\ pcP["C"] = 2 * j + 2 /\ part["C"] < m /\ ToS = j * m + part["C"] /\ got["C"] = j * m
  \/ j < Rounds /\ pcP["C"] = 2 * j + 3 /\ part["C"] < m /\ ToS = j * m + m /\ got["C"] = j * m + part["C"]
  \/ j = Rounds /\ pcP["C"] = 2 * j + 2 /\ part["C"] = 0 /\ ToS = j * m /\ got["C"] = j * m
\* The line behind which the user quits.
ClientQuits ==
  /\ pair = "quit" /\ got["C"] = Rounds * m
  /\ \/ pcP["C"] = 2 * Rounds + 2 /\ part["C"] < ClientBuf /\ ToS = Rounds * m + part["C"]
     \/ pcP["C"] = 2 * Rounds + 3 /\ ToS = Rounds * m + ClientBuf
ClientEchoes == ~shut["C"] /\ ((\E j \in Nat : ClientRound(j)) \/ ClientQuits)
WriterRound(j) ==
  \/ j < Rounds /\ pcP["W"] = j + 2 /\ part["W"] < m /\ ToS = j * m + part["W"]
  \/ j = Rounds /\ pcP["W"] = j + 2 /\ part["W"] = 0 /\ ToS = j * m
WriterStops == shut["C"] /\ pcP["W"] = Rounds + 3 /\ part["W"] = 0
WriterAt ==
  \/ stP["W"] = "run" /\ ~shut["C"] /\ pcP["W"] = 1 /\ part["W"] = 0 /\ ToS = 0
  \/ stP["W"] = "run" /\ ~shut["C"] /\ \E j \in Nat : WriterRound(j)
  \/ WriterStops /\ ToS = Rounds * m
ClientParent == pcP["C"] = 2 /\ part["C"] = 0 /\ hold["W"] = 0 /\ WriterAt

Connection ==
  /\ stP["S"] = "run" /\ stP["C"] = "run" /\ (pair # "mp" => stP["W"] = "done") /\ hold["C"] = 0
  /\ open["S"] /\ open["C"] /\ err["S"] = "ok" /\ err["C"] = "ok"
  /\ fin["S"] = shut["C"] /\ fin["C"] = shut["S"]
ServerPart == IF Echoing THEN ServerEchoes ELSE ServerSends
ClientPart ==
  /\ OneWay => ClientReads
  /\ TwoWay => ClientThanks
  /\ EchoPair => ClientEchoes
  /\ pair = "mp" => ClientParent
Live ==
  /\ pair # "op" /\ ~Cut /\ Connection /\ net = (IF pcP["S"] = 2 THEN "queued" ELSE "up")
  /\ ServerPart /\ ClientPart

\* The server has closed, the client reads what is left.
ToClient ==
  /\ OneWay \/ pair = "mp"
  /\ stP["S"] = "done" /\ Finished("S") /\ stP["C"] = "run" /\ pcP["C"] = 2 /\ part["C"] = 0 /\ hold["C"] = 0
  /\ err["C"] = "ok" /\ ToC = (IF OneWay THEN m ELSE Rounds * m) /\ (pair = "hello" => got["C"] = 0)
  /\ IF pair = "mp" THEN WriterStops /\ hold["W"] = 0 ELSE stP["W"] = "done"
\* The client has closed, the server reads what is left.
ToServer ==
  /\ TwoWay \/ (EchoPair /\ pair # "quit")
  /\ stP["C"] = "done" /\ Finished("C") /\ stP["S"] = "run" /\ pcP["S"] = LastRead("S") /\ hold["S"] = 0
  /\ err["S"] = "ok" /\ stP["W"] = "done"
  /\ TwoWay => ToS = P!Thanks /\ got["S"] = part["S"] /\ part["S"] < P!Thanks /\ (pair = "file" => part["S"] = 0)
  /\ EchoPair => got["S"] = Rounds * m /\ rx["S"] = 0 /\ part["S"] = 0

\* echo_client.c has quit; the server reads what is left, or SIGPIPE ends it.
Left ==
  /\ pair = "quit" /\ stP["C"] = "done" /\ Finished("C") /\ stP["W"] = "done" /\ pcP["S"] = 3 /\ part["S"] = 0
  /\ \/ stP["S"] = "run" /\ rx \in [P!Ends -> Nat] /\ ToS = Rounds * m + ClientBuf
     \/ stP["S"] = "exited"
\* The server waits for the end of the line, the client for an answer.
Stuck ==
  /\ Cut /\ Connection /\ ~shut["S"] /\ ~shut["C"] /\ hold["S"] = 0 /\ rx["C"] = 0
  /\ pcP["S"] \in {2, 3} /\ part["S"] = got["S"] /\ (pcP["S"] = 2 => got["S"] = 0)
  /\ \/ pcP["C"] = 2 /\ part["C"] < StdBuf - 1 /\ ToS = part["C"]
     \/ pcP["C"] = 3 /\ ToS = StdBuf - 1

\* op_server.c in call x of round r + 1.
OpAt(r, x) == r \in Nat /\ pcP["S"] = 2 + 5 * r + x /\ hold["S"] = 0 /\ hold["C"] = 0
Before(r) == r * (m + 1)
OpServes(r, x) ==
  /\ x < 2 => part["S"] = 0 /\ got["S"] = Before(r) /\ ToC = 0
  /\ x = 2 => part["S"] < m /\ got["S"] = Before(r) + 1 + part["S"] /\ ToC = 0
  /\ x > 2 => got["S"] = Before(r) + 1 + m
  /\ x = 3 => ToC = part["S"] /\ part["S"] < P!Thanks
  /\ x = 4 => ToC = P!Thanks
OpAsks(r) ==
  \/ pcP["C"] = 2 /\ part["C"] < m + 1 /\ ToS = Before(r) + part["C"]
  \/ pcP["C"] = 3 /\ part["C"] = 0 /\ ToS = Before(r) + m + 1
OpLive(r, x) ==
  /\ OpAt(r, x) /\ r < Rounds /\ x \in 0..4 /\ PTcp /\ Connection /\ ~shut["S"] /\ ~shut["C"]
  /\ net = IF x = 0 THEN "queued" ELSE "up"
  /\ OpServes(r, x) /\ got["C"] = 0 /\ OpAsks(r)
\* A client that has its answer.
Served == pcP["C"] = 4 /\ got["C"] \in 1..P!Thanks
OpTail(r, x) ==
  /\ OpAt(r, x) /\ r < Rounds /\ x \in 3..4 /\ Served /\ stP["S"] \in {"run", "exited"}
  /\ got["S"] = Before(r) + 1 + m
\* The server is back in accept(), or has returned.
OpRest(r) ==
  /\ OpAt(r, 0) /\ r <= Rounds /\ part["S"] = 0 /\ got["S"] = Before(r)
  /\ (stP["S"] = "run" /\ net = "listening") \/ (r = Rounds /\ stP["S"] = "done")
  /\ \/ r < Rounds /\ stP["C"] = "run" /\ pcP["C"] = 1 /\ part["C"] = 0 /\ got["C"] = 0
     \/ /\ stP["C"] = "run" /\ pcP["C"] = 3 /\ part["C"] = 0 /\ got["C"] = 0
        /\ PTcp /\ rx["C"] = P!Thanks /\ err["C"] = "ok"
     \/ Served
OpPhase ==
  pair = "op" /\ stP["W"] = "done"
  /\ ((\E r \in Nat, x \in 0..4 : OpLive(r, x) \/ OpTail(r, x)) \/ \E r \in Nat : OpRest(r))

PInv ==
  \/ victim # "none" \/ Over
  \/ PLocal /\ (Idle \/ OpPhase \/ Left)
  \/ PLocal /\ PTcp /\ (Live \/ ToClient \/ ToServer \/ Stuck)

\* The call a process is in.
IsCall(p, o, l, x, y) == pcP[p] \in 1..Len(P!Script(p)) /\ P!Op(p) = P!Call(o, l, x, y)

\* It is in no other one.
LEMMA CallOnly ==
  ASSUME NEW p, NEW o, NEW l, NEW x, NEW y, IsCall(p, o, l, x, y)
  PROVE  /\ \A z : P!At(p, z) => stP[p] = "run" /\ z = o
         /\ stP[p] = "run" => P!At(p, o)
         /\ ~(pcP[p] > Len(P!Script(p)))
         /\ P!Op(p).op = o /\ P!Op(p).n = l /\ P!Op(p).eof = x /\ P!Op(p).bad = y
<1>1. pcP[p] \in 1..Len(P!Script(p)) /\ P!Op(p) = [op |-> o, n |-> l, eof |-> x, bad |-> y]
  BY DEF IsCall, P!Call
<1>2. P!Op(p).op = o /\ P!Op(p).n = l /\ P!Op(p).eof = x /\ P!Op(p).bad = y BY <1>1
<1>3. Len(P!Script(p)) \in Int \/ 1..Len(P!Script(p)) = {} OBVIOUS
<1> QED BY <1>1, <1>2 DEF P!At

\* A repeated sequence of calls.
LEMMA Repeated ==
  ASSUME NEW R, NEW k \in Nat, NEW calls \in Seq(R)
  PROVE  /\ P!Repeat(k, calls) \in Seq(R) /\ Len(P!Repeat(k, calls)) = k * Len(calls)
         /\ \A j \in 1..(k * Len(calls)) : P!Repeat(k, calls)[j] = calls[((j - 1) % Len(calls)) + 1]
<1> DEFINE N == k * Len(calls)
<1>1. Len(calls) \in Nat /\ N \in Nat OBVIOUS
<1>2. P!Repeat(k, calls) = [j \in 1..N |-> calls[((j - 1) % Len(calls)) + 1]] BY DEF P!Repeat
<1>3. \A j \in 1..N : calls[((j - 1) % Len(calls)) + 1] \in R
  <2> SUFFICES ASSUME NEW j \in 1..N PROVE calls[((j - 1) % Len(calls)) + 1] \in R OBVIOUS
  <2>1. Len(calls) > 0 BY <1>1
  <2>2. PICK l : l = Len(calls) OBVIOUS
  <2>3. (j - 1) % l \in 0..(l - 1) BY <1>1, <2>1, <2>2
  <2>4. ((j - 1) % l) + 1 \in 1..l BY <1>1, <2>2, <2>3
  <2> QED BY <2>2, <2>4
<1> HIDE DEF N
<1>4. P!Repeat(k, calls) \in [1..N -> R] BY <1>2, <1>3
<1>5. P!Repeat(k, calls) \in Seq(R) /\ Len(P!Repeat(k, calls)) = N BY <1>1, <1>4, SeqDef, LenProperties
<1> QED BY <1>2, <1>5 DEF N

\* A sequence of calls that is written in two parts.
Joined(u, s, t, R) ==
  /\ u \in Seq(R) /\ Len(u) = Len(s) + Len(t)
  /\ \A j \in 1..Len(s) : u[j] = s[j]
  /\ \A j \in 1..Len(t) : u[Len(s) + j] = t[j]
\* Concatenation joins two sequences of calls, one after the other.
LEMMA InTwo ==
  ASSUME NEW R, NEW s \in Seq(R), NEW t \in Seq(R)
  PROVE  Joined(s \o t, s, t, R)
<1>1. Len(s) \in Nat /\ Len(t) \in Nat OBVIOUS
<1>2. ASSUME NEW j \in 1..Len(t) PROVE (s \o t)[Len(s) + j] = t[j]
  <2>1. Len(s) + j \in 1..(Len(s) + Len(t)) /\ ~(Len(s) + j <= Len(s)) /\ Len(s) + j - Len(s) = j BY <1>1
  <2> QED BY <2>1, ConcatProperties
<1>3. s \o t \in Seq(R) /\ Len(s \o t) = Len(s) + Len(t) BY ConcatProperties
<1>4. ASSUME NEW j \in 1..Len(s) PROVE (s \o t)[j] = s[j]
  <2>1. j \in 1..(Len(s) + Len(t)) /\ j <= Len(s) BY <1>1
  <2> QED BY <2>1, ConcatProperties
<1> QED BY <1>2, <1>3, <1>4 DEF Joined

\* One call, and then others in rounds.
InRounds(u, c, k, s, l, R) ==
  /\ u \in Seq(R) /\ Len(u) = 1 + k * l /\ u[1] = c
  /\ \A j \in 1..(k * l) : u[1 + j] = s[((j - 1) % l) + 1]
\* A call followed by a repeated sequence is what InRounds says.
LEMMA ThenRounds ==
  ASSUME NEW R, NEW c \in R, NEW s \in Seq(R), NEW k \in Nat, NEW l, Len(s) = l
  PROVE  InRounds(<<c>> \o P!Repeat(k, s), c, k, s, l, R)
<1>1. PICK t, v : t = P!Repeat(k, s) /\ v = <<c>> OBVIOUS
<1>2. t \in Seq(R) /\ Len(t) = k * l /\ \A j \in 1..(k * l) : t[j] = s[((j - 1) % l) + 1] BY <1>1, Repeated
<1>3. v \in Seq(R) /\ Len(v) = 1 /\ v[1] = c BY <1>1
<1>4. PICK u : u = v \o t OBVIOUS
<1>5. Joined(u, v, t, R) BY <1>2, <1>3, <1>4, InTwo
<1>6. u \in Seq(R) /\ Len(u) = 1 + k * l /\ u[1] = c BY <1>2, <1>3, <1>5 DEF Joined
<1>7. \A j \in 1..(k * l) : u[1 + j] = s[((j - 1) % l) + 1] BY <1>2, <1>3, <1>5 DEF Joined
<1>8. InRounds(u, c, k, s, l, R) BY <1>6, <1>7 DEF InRounds
<1> QED BY <1>1, <1>4, <1>8

\* The server that sends, in its calls.
LEMMA SenderCalls ==
  ASSUME OneWay \/ TwoWay
  PROVE  /\ Len(P!Script("S")) = IF OneWay THEN 3 ELSE 5
         /\ pcP["S"] = 1 => IsCall("S", "listen", 0, "next", "next")
         /\ pcP["S"] = 2 => IsCall("S", "accept", 0, "next", "next")
         /\ pcP["S"] = 3 => IsCall("S", "write", m, "next", "next")
         /\ TwoWay /\ pcP["S"] = 4 => IsCall("S", "shutdown", 0, "next", "next")
         /\ pair = "file" /\ pcP["S"] = 5 => IsCall("S", "once", P!Thanks, "next", "next")
         /\ pair = "sep" /\ pcP["S"] = 5 => IsCall("S", "exact", P!Thanks, "next", "next")
<1> DEFINE l == P!Call("listen", 0, "next", "next")
           a == P!Call("accept", 0, "next", "next")
           w == P!Call("write", m, "next", "next")
           h == P!Call("shutdown", 0, "next", "next")
           o == P!Call("once", P!Thanks, "next", "next")
           x == P!Call("exact", P!Thanks, "next", "next")
<1>1. CASE OneWay
  <2>1. P!Script("S") = <<l, a>> \o <<w>>
    BY <1>1 DEF OneWay, P!Script, P!HelloServer, P!TcpServer, P!Start, P!Simple, P!Write
  <2> HIDE DEF l, a, w
  <2>2. P!Script("S") = <<l, a, w>> BY <2>1
  <2>3. Len(P!Script("S")) = 3 /\ P!Script("S")[1] = l /\ P!Script("S")[2] = a /\ P!Script("S")[3] = w BY <2>2
  <2>4. ~TwoWay /\ pair # "file" /\ pair # "sep" BY <1>1 DEF OneWay, TwoWay
  <2>5. pcP["S"] = 1 => IsCall("S", "listen", 0, "next", "next") BY <2>3 DEF IsCall, P!Op, l
  <2>6. pcP["S"] = 2 => IsCall("S", "accept", 0, "next", "next") BY <2>3 DEF IsCall, P!Op, a
  <2>7. pcP["S"] = 3 => IsCall("S", "write", m, "next", "next") BY <2>3 DEF IsCall, P!Op, w
  <2> QED BY <1>1, <2>3, <2>4, <2>5, <2>6, <2>7
<1>2. CASE pair = "file"
  <2>1. P!Script("S") = <<l, a>> \o <<w, h, o>>
    BY <1>2 DEF P!Script, P!FileServer, P!Start, P!Simple, P!Write, P!ReadOnce
  <2> HIDE DEF l, a, w, h, o
  <2>2. P!Script("S") = <<l, a, w, h, o>> BY <2>1
  <2>3. /\ Len(P!Script("S")) = 5 /\ P!Script("S")[1] = l /\ P!Script("S")[2] = a /\ P!Script("S")[3] = w
        /\ P!Script("S")[4] = h /\ P!Script("S")[5] = o
    BY <2>2
  <2>4. ~OneWay /\ pair # "sep" BY <1>2 DEF OneWay
  <2>5. pcP["S"] = 1 => IsCall("S", "listen", 0, "next", "next") BY <2>3 DEF IsCall, P!Op, l
  <2>6. pcP["S"] = 2 => IsCall("S", "accept", 0, "next", "next") BY <2>3 DEF IsCall, P!Op, a
  <2>7. pcP["S"] = 3 => IsCall("S", "write", m, "next", "next") BY <2>3 DEF IsCall, P!Op, w
  <2>8. pcP["S"] = 4 => IsCall("S", "shutdown", 0, "next", "next") BY <2>3 DEF IsCall, P!Op, h
  <2>9. pcP["S"] = 5 => IsCall("S", "once", P!Thanks, "next", "next") BY <2>3 DEF IsCall, P!Op, o
  <2> QED BY <1>2, <2>3, <2>4, <2>5, <2>6, <2>7, <2>8, <2>9
<1>3. CASE pair = "sep"
  <2>1. P!Script("S") = <<l, a>> \o <<w, h, x>>
    BY <1>3 DEF P!Script, P!SepServer, P!Start, P!Simple, P!Write, P!ReadExact
  <2> HIDE DEF l, a, w, h, x
  <2>2. P!Script("S") = <<l, a, w, h, x>> BY <2>1
  <2>3. /\ Len(P!Script("S")) = 5 /\ P!Script("S")[1] = l /\ P!Script("S")[2] = a /\ P!Script("S")[3] = w
        /\ P!Script("S")[4] = h /\ P!Script("S")[5] = x
    BY <2>2
  <2>4. ~OneWay /\ pair # "file" BY <1>3 DEF OneWay
  <2>5. pcP["S"] = 1 => IsCall("S", "listen", 0, "next", "next") BY <2>3 DEF IsCall, P!Op, l
  <2>6. pcP["S"] = 2 => IsCall("S", "accept", 0, "next", "next") BY <2>3 DEF IsCall, P!Op, a
  <2>7. pcP["S"] = 3 => IsCall("S", "write", m, "next", "next") BY <2>3 DEF IsCall, P!Op, w
  <2>8. pcP["S"] = 4 => IsCall("S", "shutdown", 0, "next", "next") BY <2>3 DEF IsCall, P!Op, h
  <2>9. pcP["S"] = 5 => IsCall("S", "exact", P!Thanks, "next", "next") BY <2>3 DEF IsCall, P!Op, x
  <2> QED BY <1>3, <2>3, <2>4, <2>5, <2>6, <2>7, <2>8, <2>9
<1> QED BY <1>1, <1>2, <1>3 DEF TwoWay

\* The server that echoes.
LEMMA EchoerCalls ==
  ASSUME Echoing \/ Cut
  PROVE  /\ Len(P!Script("S")) = IF pair = "std" THEN 4 ELSE 3
         /\ pcP["S"] = 1 => IsCall("S", "listen", 0, "next", "next")
         /\ pcP["S"] = 2 => IsCall("S", "accept", 0, "next", "next")
         /\ pair # "std" /\ pcP["S"] = 3 => IsCall("S", "echo", BufSize, "next", "again")
         /\ pair = "std" /\ pcP["S"] = 3 => IsCall("S", "line", m, "next", "line")
         /\ pair = "std" /\ pcP["S"] = 4 => IsCall("S", "write", m, "next", "next")
<1> DEFINE l == P!Call("listen", 0, "next", "next")
           a == P!Call("accept", 0, "next", "next")
           w == P!Call("write", m, "next", "next")
           b == P!Call("echo", BufSize, "next", "again")
           x == P!Call("line", m, "next", "line")
<1>1. CASE pair # "std"
  <2>1. P!Script("S") = <<l, a>> \o <<b>>
    <3>1. pair \in {"echo", "reuse", "quit", "mp"} BY <1>1 DEF Echoing, Cut
    <3> QED BY <3>1 DEF P!Script, P!EchoServer, P!ReuseaddrServer, P!Start, P!Simple, P!Echo
  <2> HIDE DEF l, a, b
  <2>2. P!Script("S") = <<l, a, b>> BY <2>1
  <2>3. Len(P!Script("S")) = 3 /\ P!Script("S")[1] = l /\ P!Script("S")[2] = a /\ P!Script("S")[3] = b BY <2>2
  <2>4. pcP["S"] = 1 => IsCall("S", "listen", 0, "next", "next") BY <2>3 DEF IsCall, P!Op, l
  <2>5. pcP["S"] = 2 => IsCall("S", "accept", 0, "next", "next") BY <2>3 DEF IsCall, P!Op, a
  <2>6. pcP["S"] = 3 => IsCall("S", "echo", BufSize, "next", "again") BY <2>3 DEF IsCall, P!Op, b
  <2> QED BY <1>1, <2>3, <2>4, <2>5, <2>6
<1>2. CASE pair = "std"
  <2>1. P!Script("S") = <<l, a>> \o <<x, w>>
    BY <1>2 DEF P!Script, P!EchoStdServer, P!Start, P!Simple, P!Write, P!EchoLines
  <2> HIDE DEF l, a, w, x
  <2>2. P!Script("S") = <<l, a, x, w>> BY <2>1
  <2>3. /\ Len(P!Script("S")) = 4 /\ P!Script("S")[1] = l /\ P!Script("S")[2] = a /\ P!Script("S")[3] = x
        /\ P!Script("S")[4] = w
    BY <2>2
  <2>4. pcP["S"] = 1 => IsCall("S", "listen", 0, "next", "next") BY <2>3 DEF IsCall, P!Op, l
  <2>5. pcP["S"] = 2 => IsCall("S", "accept", 0, "next", "next") BY <2>3 DEF IsCall, P!Op, a
  <2>6. pcP["S"] = 3 => IsCall("S", "line", m, "next", "line") BY <2>3 DEF IsCall, P!Op, x
  <2>7. pcP["S"] = 4 => IsCall("S", "write", m, "next", "next") BY <2>3 DEF IsCall, P!Op, w
  <2> QED BY <1>2, <2>3, <2>4, <2>5, <2>6, <2>7
<1> QED BY <1>1, <1>2

\* What the assumptions say of the constants.
LEMMA PConstants ==
  /\ Cap \in Nat /\ BufSize \in Nat /\ Rounds \in Nat /\ Cap > 0 /\ BufSize > 0 /\ Rounds > 0 /\ P!Thanks = 2
  /\ ClientBuf \in Nat /\ ClientBuf > 0 /\ StdBuf \in Nat /\ StdBuf > 1
BY StreamAssumption DEF P!Thanks

\* Division by a larger and by a smaller number.
LEMMA Quotient ==
  ASSUME NEW a \in Nat, NEW l \in Nat, l > 0
  PROVE  (a < l => a \div l = 0) /\ (~(a < l) => a \div l \in Nat /\ a \div l >= 1)
OBVIOUS
\* The first indices of a sequence that is repeated.
LEMMA FirstIndices == ASSUME NEW l \in Nat, l > 1 PROVE 0 % l = 0 /\ 1 % l = 1
OBVIOUS

\* The clients that read once or until the end of the file.
LEMMA ReaderCalls ==
  ASSUME OneWay \/ TwoWay \/ pair = "mp"
  PROVE  /\ Len(P!Script("C")) = IF TwoWay THEN 3 ELSE 2
         /\ pcP["C"] = 1 => IsCall("C", "connect", 0, "next", "next")
         /\ pair = "hello" /\ pcP["C"] = 2 => IsCall("C", "once", m, "next", "exit")
         /\ pair # "hello" /\ pcP["C"] = 2 => \E y : IsCall("C", "all", Cap, "next", y)
         /\ TwoWay /\ pcP["C"] = 3 => IsCall("C", "write", P!Thanks, "next", "next")
<1> DEFINE c == P!Call("connect", 0, "next", "next")
           o == P!Call("once", m, "next", "exit")
           w == P!Call("write", P!Thanks, "next", "next")
<1>1. CASE pair = "hello"
  <2>1. P!Script("C") = <<c, o>>
    BY <1>1 DEF P!Script, P!HelloClient, P!Simple, P!ReadOnce
  <2> HIDE DEF c, o
  <2>2. Len(P!Script("C")) = 2 /\ P!Script("C")[1] = c /\ P!Script("C")[2] = o BY <2>1
  <2>3. ~TwoWay BY <1>1 DEF TwoWay
  <2>4. pcP["C"] = 1 => IsCall("C", "connect", 0, "next", "next") BY <2>2 DEF IsCall, P!Op, c
  <2>5. pcP["C"] = 2 => IsCall("C", "once", m, "next", "exit") BY <2>2 DEF IsCall, P!Op, o
  <2> QED BY <1>1, <2>2, <2>3, <2>4, <2>5
<1>2. CASE pair \in {"tcp", "mp"}
  <2>1. PICK y : P!Script("C") = <<c, P!Call("all", Cap, "next", y)>>
    <3>1. CASE pair = "tcp"
      <4>1. P!Script("C") = <<c, P!Call("all", Cap, "next", "exit")>>
        BY <3>1 DEF P!Script, P!TcpClient, P!Simple, P!ReadAll
      <4> QED BY <4>1
    <3>2. CASE pair = "mp"
      <4>1. P!Script("C") = <<c, P!Call("all", Cap, "next", "again")>>
        BY <3>2 DEF P!Script, P!MpReader, P!Simple, P!ReadAll
      <4> QED BY <4>1
    <3> QED BY <1>2, <3>1, <3>2
  <2> DEFINE a == P!Call("all", Cap, "next", y)
  <2>2. P!Script("C") = <<c, a>> BY <2>1
  <2> HIDE DEF c, a
  <2>3. Len(P!Script("C")) = 2 /\ P!Script("C")[1] = c /\ P!Script("C")[2] = a BY <2>2
  <2>4. ~TwoWay /\ pair # "hello" BY <1>2 DEF TwoWay
  <2>5. pcP["C"] = 1 => IsCall("C", "connect", 0, "next", "next") BY <2>3 DEF IsCall, P!Op, c
  <2>6. pcP["C"] = 2 => IsCall("C", "all", Cap, "next", y) BY <2>3 DEF IsCall, P!Op, a
  <2> QED BY <2>3, <2>4, <2>5, <2>6
<1>3. CASE TwoWay
  <2>1. PICK y : P!Script("C") = <<c, P!Call("all", Cap, "next", y), w>>
    <3>1. CASE pair = "file"
      <4>1. P!Script("C") = <<c, P!Call("all", Cap, "next", "exit"), w>>
        BY <3>1 DEF P!Script, P!FileClient, P!Simple, P!ReadAll, P!Write
      <4> QED BY <4>1
    <3>2. CASE pair = "sep"
      <4>1. P!Script("C") = <<c, P!Call("all", Cap, "next", "next"), w>>
        BY <3>2 DEF P!Script, P!SepClient, P!Simple, P!ReadAll, P!Write
      <4> QED BY <4>1
    <3> QED BY <1>3, <3>1, <3>2 DEF TwoWay
  <2> DEFINE a == P!Call("all", Cap, "next", y)
  <2>2. P!Script("C") = <<c, a, w>> BY <2>1
  <2> HIDE DEF c, a, w
  <2>3. Len(P!Script("C")) = 3 /\ P!Script("C")[1] = c /\ P!Script("C")[2] = a /\ P!Script("C")[3] = w BY <2>2
  <2>4. pair # "hello" BY <1>3 DEF TwoWay
  <2>5. pcP["C"] = 1 => IsCall("C", "connect", 0, "next", "next") BY <2>3 DEF IsCall, P!Op, c
  <2>6. pcP["C"] = 2 => IsCall("C", "all", Cap, "next", y) BY <2>3 DEF IsCall, P!Op, a
  <2>7. pcP["C"] = 3 => IsCall("C", "write", P!Thanks, "next", "next") BY <2>3 DEF IsCall, P!Op, w
  <2> QED BY <1>3, <2>3, <2>4, <2>5, <2>6, <2>7
<1> QED BY <1>1, <1>2, <1>3 DEF OneWay

\* A line that fits into the buffer of echo_stdclient.c is one piece.
LEMMA WholeLine ==
  ASSUME m \in Nat \ {0}, m < StdBuf
  PROVE  P!StdLine = <<P!Call("write", m, "next", "next"), P!Call("exact", m, "next", "next")>>
<1>1. P!Pieces = 0
  <2>1. m - 1 \in Nat /\ StdBuf - 1 \in Nat /\ StdBuf - 1 > 0 /\ m - 1 < StdBuf - 1 BY PConstants
  <2> QED BY <2>1, Quotient DEF P!Pieces
<1>2. P!PieceSize(1) = m
  <2>1. ~(1 <= 0) /\ m - 0 * (StdBuf - 1) = m BY PConstants
  <2> QED BY <1>1, <2>1 DEF P!PieceSize
<1>3. (1 + 1) \div 2 = 1 /\ (2 + 1) \div 2 = 1 /\ 1 % 2 = 1 /\ 2 % 2 = 0 /\ 2 * (0 + 1) = 2 OBVIOUS
<1> DEFINE g(k) == IF k % 2 = 1 THEN P!Write(P!PieceSize((k + 1) \div 2))
                   ELSE P!ReadExact(P!PieceSize((k + 1) \div 2), "next", "next")
<1>4. P!StdLine = [k \in 1..2 |-> g(k)] BY <1>1, <1>3 DEF P!StdLine
<1>5. g(1) = P!Write(m) /\ g(2) = P!ReadExact(m, "next", "next") BY <1>2, <1>3
<1> HIDE DEF g
<1>6. P!StdLine = <<P!Write(m), P!ReadExact(m, "next", "next")>> BY <1>4, <1>5
<1> QED BY <1>6 DEF P!Write, P!ReadExact

\* The clients of the echo servers write and read in rounds.
LEMMA EchoClientCalls ==
  ASSUME EchoPair, m \in Nat \ {0}
  PROVE  /\ Len(P!Script("C")) = IF pair = "quit" THEN 2 * Rounds + 2 ELSE 2 * Rounds + 1
         /\ pcP["C"] = 1 => IsCall("C", "connect", 0, "next", "next")
         /\ \A j \in Nat : j < Rounds /\ pcP["C"] = 2 * j + 2 => IsCall("C", "write", m, "next", "next")
         /\ \A j \in Nat : j < Rounds /\ pcP["C"] = 2 * j + 3 => \E x, y : IsCall("C", "exact", m, x, y)
         /\ pair = "quit" /\ pcP["C"] = 2 * Rounds + 2 => IsCall("C", "write", ClientBuf, "next", "next")
<1> DEFINE c == P!Call("connect", 0, "next", "next")
           w == P!Call("write", m, "next", "next")
           z == P!Call("write", ClientBuf, "next", "next")
           v(x, y) == <<c>> \o P!Repeat(Rounds, <<w, P!Call("exact", m, x, y)>>)
<1>1. PICK x, y : P!Script("C") = IF pair = "quit" THEN v(x, y) \o <<z>> ELSE v(x, y)
  <2>1. CASE pair \in {"echo", "reuse"}
    <3>1. P!Script("C") = v("again", "exit")
      BY <2>1 DEF P!Script, P!EchoClient, P!Simple, P!Write, P!ReadExact
    <3> QED BY <2>1, <3>1
  <2>2. CASE pair = "std"
    <3>1. m < StdBuf BY <2>2 DEF EchoPair
    <3>2. P!Script("C") = <<P!Simple("connect")>> \o P!Repeat(Rounds, P!StdLine)
      BY <2>2 DEF P!Script, P!EchoStdClient
    <3>3. P!Script("C") = v("next", "next") BY <3>1, <3>2, WholeLine DEF P!Simple
    <3> QED BY <2>2, <3>3
  <2>3. CASE pair = "quit"
    <3>1. P!Script("C") = v("again", "exit") \o <<z>>
      BY <2>3 DEF P!Script, P!EchoClientQuit, P!EchoClient, P!Simple, P!Write, P!ReadExact
    <3> QED BY <2>3, <3>1
  <2> QED BY <2>1, <2>2, <2>3 DEF EchoPair
<1> DEFINE o == P!Call("exact", m, x, y)
           s == <<w, o>>
           R == {c, w, o, z}
           b == v(x, y)
           u == P!Script("C")
<1>2. b = <<c>> \o P!Repeat(Rounds, s) OBVIOUS
<1>3. u = IF pair = "quit" THEN b \o <<z>> ELSE b BY <1>1
<1> HIDE DEF c, w, z, o, v
<1>4. s \in Seq(R) /\ Len(s) = 2 /\ s[1] = w /\ s[2] = o /\ c \in R OBVIOUS
<1> HIDE DEF s, R, u, b
<1>5. Rounds \in Nat BY PConstants
<1>6. InRounds(b, c, Rounds, s, 2, R) BY <1>2, <1>4, <1>5, ThenRounds
<1>7. /\ b \in Seq(R) /\ Len(b) = 2 * Rounds + 1 /\ b[1] = c
      /\ \A j \in 1..(Rounds * 2) : b[1 + j] = s[((j - 1) % 2) + 1]
  BY <1>5, <1>6 DEF InRounds
<1>8. /\ Len(u) = IF pair = "quit" THEN 2 * Rounds + 2 ELSE 2 * Rounds + 1
      /\ \A j \in 1..(2 * Rounds + 1) : u[j] = b[j]
      /\ pair = "quit" => u[2 * Rounds + 2] = z
  <2>1. CASE pair = "quit"
    <3>1. PICK t : t = <<z>> OBVIOUS
    <3>6. t \in Seq(R) /\ Len(t) = 1 /\ t[1] = z BY <3>1 DEF R
    <3>2. u = b \o t BY <1>3, <2>1, <3>1
    <3>3. Joined(u, b, t, R) BY <1>7, <3>2, <3>6, InTwo
    <3>4. Len(u) = (2 * Rounds + 1) + 1 /\ (\A j \in 1..(2 * Rounds + 1) : u[j] = b[j]) /\ u[(2 * Rounds + 1) + 1] = z
      <4>1. /\ Len(u) = Len(b) + Len(t) /\ \A j \in 1..Len(b) : u[j] = b[j]
            /\ \A j \in 1..Len(t) : u[Len(b) + j] = t[j]
        BY <3>3 DEF Joined
      <4>2. 1 \in 1..Len(t) BY <3>6
      <4> QED BY <1>7, <3>6, <4>1, <4>2
    <3>5. (2 * Rounds + 1) + 1 = 2 * Rounds + 2 BY <1>5
    <3> QED BY <2>1, <3>4, <3>5
  <2>2. CASE pair # "quit" BY <1>3, <1>7, <2>2
  <2> QED BY <2>1, <2>2
<1>9. \A j \in 1..(2 * Rounds + 1) : j \in 1..Len(u) BY <1>5, <1>8
<1>10. pcP["C"] = 1 => IsCall("C", "connect", 0, "next", "next")
  <2>1. 1 \in 1..(2 * Rounds + 1) BY <1>5
  <2> QED BY <1>7, <1>8, <1>9, <2>1 DEF IsCall, P!Op, c, u
<1>11. ASSUME NEW j \in Nat, j < Rounds, pcP["C"] = 2 * j + 2 PROVE IsCall("C", "write", m, "next", "next")
  <2>1. 2 * j + 1 \in 1..(Rounds * 2) /\ ((2 * j + 1) - 1) % 2 = 0 BY <1>5, <1>11
  <2>2. 1 + (2 * j + 1) = 2 * j + 2 /\ 2 * j + 2 \in 1..(2 * Rounds + 1) BY <1>5, <2>1
  <2>3. u[2 * j + 2] = w BY <1>4, <1>7, <1>8, <2>1, <2>2
  <2> QED BY <1>9, <1>11, <2>2, <2>3 DEF IsCall, P!Op, w, u
<1>12. ASSUME NEW j \in Nat, j < Rounds, pcP["C"] = 2 * j + 3 PROVE IsCall("C", "exact", m, x, y)
  <2>1. 2 * j + 2 \in 1..(Rounds * 2) /\ ((2 * j + 2) - 1) % 2 = 1 BY <1>5, <1>12
  <2>2. 1 + (2 * j + 2) = 2 * j + 3 /\ 2 * j + 3 \in 1..(2 * Rounds + 1) BY <1>5, <2>1
  <2>3. u[2 * j + 3] = o BY <1>4, <1>7, <1>8, <2>1, <2>2
  <2> QED BY <1>9, <1>12, <2>2, <2>3 DEF IsCall, P!Op, o, u
<1>13. ASSUME pair = "quit", pcP["C"] = 2 * Rounds + 2 PROVE IsCall("C", "write", ClientBuf, "next", "next")
  <2>1. 2 * Rounds + 2 \in 1..Len(u) /\ u[2 * Rounds + 2] = z BY <1>5, <1>8, <1>13
  <2> QED BY <1>13, <2>1 DEF IsCall, P!Op, z, u
<1> QED BY <1>8, <1>10, <1>11, <1>12, <1>13 DEF u

\* A longer line starts with a piece that leaves room for the NUL.
LEMMA CutClientCalls ==
  ASSUME Cut, m \in Nat \ {0}
  PROVE  /\ pcP["C"] = 1 => IsCall("C", "connect", 0, "next", "next")
         /\ pcP["C"] = 2 => IsCall("C", "write", StdBuf - 1, "next", "next")
         /\ pcP["C"] = 3 => IsCall("C", "exact", StdBuf - 1, "next", "next")
<1> DEFINE c == P!Call("connect", 0, "next", "next")
           g(k) == IF k % 2 = 1 THEN P!Write(P!PieceSize((k + 1) \div 2))
                   ELSE P!ReadExact(P!PieceSize((k + 1) \div 2), "next", "next")
           l == 2 * (P!Pieces + 1)
           s == P!StdLine
           R == {c} \cup {g(k) : k \in 1..l}
           u == P!Script("C")
<1>1. pair = "std" /\ ~(m < StdBuf) BY DEF Cut
<1>2. P!Pieces \in Nat /\ P!Pieces >= 1
  <2>1. m - 1 \in Nat /\ StdBuf - 1 \in Nat /\ StdBuf - 1 > 0 /\ ~(m - 1 < StdBuf - 1) BY <1>1, PConstants
  <2> QED BY <2>1, Quotient DEF P!Pieces
<1>3. P!PieceSize(1) = StdBuf - 1 BY <1>2 DEF P!PieceSize
<1>4. (1 + 1) \div 2 = 1 /\ (2 + 1) \div 2 = 1 /\ 1 % 2 = 1 /\ 2 % 2 = 0 OBVIOUS
<1>5. g(1) = P!Call("write", StdBuf - 1, "next", "next") /\ g(2) = P!Call("exact", StdBuf - 1, "next", "next")
  BY <1>3, <1>4 DEF P!Write, P!ReadExact
<1>6. s = [k \in 1..l |-> g(k)] BY DEF P!StdLine
<1>7. u = <<c>> \o P!Repeat(Rounds, s) BY <1>1 DEF P!Script, P!EchoStdClient, P!Simple
<1>8. l \in Nat /\ l > 1 /\ 1 \in 1..l /\ 2 \in 1..l BY <1>2
<1> HIDE DEF c, g, l, s, u
<1>9. s \in Seq(R) /\ Len(s) = l /\ s[1] = g(1) /\ s[2] = g(2) /\ c \in R
  <2>1. s \in [1..l -> R] BY <1>6
  <2> HIDE DEF R
  <2>2. s \in Seq(R) /\ Len(s) = l BY <1>8, <2>1, SeqDef, LenProperties
  <2> QED BY <1>6, <1>8, <2>2 DEF R
<1> HIDE DEF R
<1>10. Rounds \in Nat /\ Rounds > 0 BY PConstants
<1>11. InRounds(u, c, Rounds, s, l, R) BY <1>7, <1>9, <1>10, ThenRounds
<1>12. PICK q \in Nat : q = Rounds * l /\ q >= 2
  <2>1. Rounds * l >= l /\ Rounds * l \in Nat BY <1>8, <1>10
  <2> QED BY <1>8, <2>1
<1>13. Len(u) = 1 + q /\ u[1] = c /\ \A j \in 1..q : u[1 + j] = s[((j - 1) % l) + 1] BY <1>11, <1>12 DEF InRounds
<1>14. u[2] = g(1) /\ u[3] = g(2)
  <2>1. 0 % l = 0 /\ 1 % l = 1 BY <1>8, FirstIndices
  <2>2. 1 \in 1..q /\ 2 \in 1..q /\ 1 - 1 = 0 /\ 2 - 1 = 1 BY <1>12
  <2>3. u[1 + 1] = s[(0 % l) + 1] /\ u[1 + 2] = s[(1 % l) + 1] BY <1>13, <2>2
  <2>4. (0 % l) + 1 = 1 /\ (1 % l) + 1 = 2 /\ 1 + 1 = 2 /\ 1 + 2 = 3 BY <2>1
  <2> QED BY <1>9, <2>3, <2>4
<1>15. 1 \in 1..Len(u) /\ 2 \in 1..Len(u) /\ 3 \in 1..Len(u) BY <1>12, <1>13
<1>16. pcP["C"] = 1 => IsCall("C", "connect", 0, "next", "next") BY <1>13, <1>15 DEF IsCall, P!Op, c, u
<1>17. pcP["C"] = 2 => IsCall("C", "write", StdBuf - 1, "next", "next") BY <1>5, <1>14, <1>15 DEF IsCall, P!Op, u
<1>18. pcP["C"] = 3 => IsCall("C", "exact", StdBuf - 1, "next", "next") BY <1>5, <1>14, <1>15 DEF IsCall, P!Op, u
<1> QED BY <1>16, <1>17, <1>18

\* The child of echo_mpclient.c.
LEMMA WriterCalls ==
  ASSUME pair = "mp"
  PROVE  /\ Len(P!Script("W")) = Rounds + 3
         /\ pcP["W"] = 1 => IsCall("W", "forked", 0, "next", "next")
         /\ \A j \in Nat : j < Rounds /\ pcP["W"] = j + 2 => IsCall("W", "write", m, "next", "next")
         /\ pcP["W"] = Rounds + 2 => IsCall("W", "shutdown", 0, "next", "next")
         /\ pcP["W"] = Rounds + 3 => IsCall("W", "write", 1, "next", "next")
<1> DEFINE c == P!Call("forked", 0, "next", "next")
           w == P!Call("write", m, "next", "next")
           h == P!Call("shutdown", 0, "next", "next")
           z == P!Call("write", 1, "next", "next")
           s == <<w>>
           t == <<h, z>>
           R == {c, w, h, z}
           v == <<c>> \o P!Repeat(Rounds, s)
           u == P!Script("W")
<1>1. u = v \o t BY DEF P!Script, P!MpWriter, P!Simple, P!Write
<1> HIDE DEF c, w, h, z
<1>2. s \in Seq(R) /\ Len(s) = 1 /\ s[1] = w /\ c \in R OBVIOUS
<1>3. t \in Seq(R) /\ Len(t) = 2 /\ t[1] = h /\ t[2] = z OBVIOUS
<1>4. Rounds \in Nat BY PConstants
<1> HIDE DEF s, t, R, u
<1>5. InRounds(v, c, Rounds, s, 1, R) BY <1>2, <1>4, ThenRounds
<1> HIDE DEF v
<1>6. /\ v \in Seq(R) /\ Len(v) = Rounds + 1 /\ v[1] = c
      /\ \A j \in 1..Rounds : v[1 + j] = s[((j - 1) % 1) + 1]
  <2>1. Rounds * 1 = Rounds BY <1>4
  <2> QED BY <1>4, <1>5, <2>1 DEF InRounds
<1>7. /\ Len(u) = Len(v) + Len(t) /\ (\A j \in 1..Len(v) : u[j] = v[j])
      /\ \A j \in 1..Len(t) : u[Len(v) + j] = t[j]
  <2>1. Joined(v \o t, v, t, R) BY <1>3, <1>6, InTwo
  <2> QED BY <1>1, <2>1 DEF Joined
<1>8. Len(u) = Rounds + 3 /\ u[1] = c BY <1>3, <1>4, <1>6, <1>7
<1>9. u[Rounds + 2] = h /\ u[Rounds + 3] = z
  <2>1. (Rounds + 1) + 1 = Rounds + 2 /\ (Rounds + 1) + 2 = Rounds + 3 BY <1>4
  <2>2. u[(Rounds + 1) + 1] = h /\ u[(Rounds + 1) + 2] = z BY <1>3, <1>6, <1>7
  <2> QED BY <2>1, <2>2
<1>10. pcP["W"] = 1 => IsCall("W", "forked", 0, "next", "next") BY <1>4, <1>8 DEF IsCall, P!Op, c, u
<1>11. ASSUME NEW j \in Nat, j < Rounds, pcP["W"] = j + 2 PROVE IsCall("W", "write", m, "next", "next")
  <2>1. j + 1 \in 1..Rounds /\ ((j + 1) - 1) % 1 = 0 /\ 1 + (j + 1) = j + 2 /\ j + 2 \in 1..(Rounds + 3) BY <1>4, <1>11
  <2>2. v[j + 2] = w BY <1>2, <1>6, <2>1
  <2>3. j + 2 \in 1..Len(v) BY <1>4, <1>6, <1>11
  <2>4. u[j + 2] = w BY <1>7, <2>2, <2>3
  <2> QED BY <1>8, <1>11, <2>1, <2>4 DEF IsCall, P!Op, w, u
<1>12. pcP["W"] = Rounds + 2 => IsCall("W", "shutdown", 0, "next", "next") BY <1>4, <1>8, <1>9 DEF IsCall, P!Op, h, u
<1>13. pcP["W"] = Rounds + 3 => IsCall("W", "write", 1, "next", "next") BY <1>4, <1>8, <1>9 DEF IsCall, P!Op, z, u
<1> QED BY <1>8, <1>10, <1>11, <1>12, <1>13 DEF u

\* op_server.c.
LEMMA OpServerCalls ==
  ASSUME pair = "op"
  PROVE  /\ Len(P!Script("S")) = 5 * Rounds + 1
         /\ pcP["S"] = 1 => IsCall("S", "listen", 0, "next", "next")
         /\ \A r \in Nat : r < Rounds =>
              /\ pcP["S"] = 2 + 5 * r => IsCall("S", "accept", 0, "next", "next")
              /\ pcP["S"] = 2 + 5 * r + 1 => IsCall("S", "once", 1, "next", "next")
              /\ pcP["S"] = 2 + 5 * r + 2 => IsCall("S", "exact", m, "again", "again")
              /\ pcP["S"] = 2 + 5 * r + 3 => IsCall("S", "write", P!Thanks, "next", "next")
              /\ pcP["S"] = 2 + 5 * r + 4 => IsCall("S", "close", 0, "next", "next")
<1> DEFINE c == P!Call("listen", 0, "next", "next")
           a == P!Call("accept", 0, "next", "next")
           o == P!Call("once", 1, "next", "next")
           x == P!Call("exact", m, "again", "again")
           w == P!Call("write", P!Thanks, "next", "next")
           z == P!Call("close", 0, "next", "next")
           s == <<a, o, x, w, z>>
           R == {c, a, o, x, w, z}
           u == P!Script("S")
<1>1. u = <<c>> \o P!Repeat(Rounds, s)
  BY DEF P!Script, P!OpServer, P!Simple, P!Write, P!ReadOnce, P!ReadExact
<1> HIDE DEF c, a, o, x, w, z
<1>2. s \in Seq(R) /\ Len(s) = 5 /\ s[1] = a /\ s[2] = o /\ s[3] = x /\ s[4] = w /\ s[5] = z /\ c \in R OBVIOUS
<1> HIDE DEF s, R, u
<1>3. Rounds \in Nat BY PConstants
<1>4. InRounds(u, c, Rounds, s, 5, R) BY <1>1, <1>2, <1>3, ThenRounds
<1>5. Len(u) = 5 * Rounds + 1 /\ u[1] = c /\ \A j \in 1..(Rounds * 5) : u[1 + j] = s[((j - 1) % 5) + 1]
  BY <1>3, <1>4 DEF InRounds
<1>6. ASSUME NEW r \in Nat, r < Rounds, NEW k \in 0..4
      PROVE  u[2 + 5 * r + k] = s[k + 1] /\ 2 + 5 * r + k \in 1..(5 * Rounds + 1)
  <2>1. PICK j : j = 5 * r + k + 1 OBVIOUS
  <2>2. j \in 1..(Rounds * 5) /\ (j - 1) % 5 = k /\ 1 + j = 2 + 5 * r + k BY <1>3, <1>6, <2>1
  <2>3. u[1 + j] = s[k + 1] BY <1>5, <2>2
  <2> QED BY <1>3, <2>2, <2>3
<1>7. pcP["S"] = 1 => IsCall("S", "listen", 0, "next", "next") BY <1>3, <1>5 DEF IsCall, P!Op, c, u
<1>8. ASSUME NEW r \in Nat, r < Rounds, pcP["S"] = 2 + 5 * r PROVE IsCall("S", "accept", 0, "next", "next")
  <2>1. 2 + 5 * r + 0 = 2 + 5 * r /\ 0 + 1 = 1 /\ 0 \in 0..4 OBVIOUS
  <2>2. u[2 + 5 * r + 0] = s[0 + 1] /\ 2 + 5 * r + 0 \in 1..(5 * Rounds + 1) BY <1>6, <1>8, <2>1
  <2>3. u[2 + 5 * r] = a /\ 2 + 5 * r \in 1..(5 * Rounds + 1) BY <1>2, <2>1, <2>2
  <2> QED BY <1>5, <1>8, <2>3 DEF IsCall, P!Op, a, u
<1>9. ASSUME NEW r \in Nat, r < Rounds, pcP["S"] = 2 + 5 * r + 1 PROVE IsCall("S", "once", 1, "next", "next")
  <2>1. u[2 + 5 * r + 1] = o /\ 2 + 5 * r + 1 \in 1..(5 * Rounds + 1) BY <1>2, <1>6, <1>9
  <2> QED BY <1>5, <1>9, <2>1 DEF IsCall, P!Op, o, u
<1>10. ASSUME NEW r \in Nat, r < Rounds, pcP["S"] = 2 + 5 * r + 2 PROVE IsCall("S", "exact", m, "again", "again")
  <2>1. u[2 + 5 * r + 2] = x /\ 2 + 5 * r + 2 \in 1..(5 * Rounds + 1) BY <1>2, <1>6, <1>10
  <2> QED BY <1>5, <1>10, <2>1 DEF IsCall, P!Op, x, u
<1>11. ASSUME NEW r \in Nat, r < Rounds, pcP["S"] = 2 + 5 * r + 3 PROVE IsCall("S", "write", P!Thanks, "next", "next")
  <2>1. u[2 + 5 * r + 3] = w /\ 2 + 5 * r + 3 \in 1..(5 * Rounds + 1) BY <1>2, <1>6, <1>11
  <2> QED BY <1>5, <1>11, <2>1 DEF IsCall, P!Op, w, u
<1>12. ASSUME NEW r \in Nat, r < Rounds, pcP["S"] = 2 + 5 * r + 4 PROVE IsCall("S", "close", 0, "next", "next")
  <2>1. u[2 + 5 * r + 4] = z /\ 2 + 5 * r + 4 \in 1..(5 * Rounds + 1) BY <1>2, <1>6, <1>12
  <2> QED BY <1>5, <1>12, <2>1 DEF IsCall, P!Op, z, u
<1> QED BY <1>5, <1>7, <1>8, <1>9, <1>10, <1>11, <1>12 DEF u

\* Its client.
LEMMA OpClientCalls ==
  ASSUME pair = "op"
  PROVE  /\ Len(P!Script("C")) = 3
         /\ pcP["C"] = 1 => IsCall("C", "connect", 0, "next", "next")
         /\ pcP["C"] = 2 => IsCall("C", "write", m + 1, "next", "next")
         /\ pcP["C"] = 3 => IsCall("C", "once", P!Thanks, "next", "next")
<1> DEFINE c == P!Call("connect", 0, "next", "next")
           w == P!Call("write", m + 1, "next", "next")
           o == P!Call("once", P!Thanks, "next", "next")
<1>1. P!Script("C") = <<c, w, o>> BY DEF P!Script, P!OpClient, P!Simple, P!Write, P!ReadOnce
<1> HIDE DEF c, w, o
<1>2. Len(P!Script("C")) = 3 /\ P!Script("C")[1] = c /\ P!Script("C")[2] = w /\ P!Script("C")[3] = o BY <1>1
<1>3. pcP["C"] = 1 => IsCall("C", "connect", 0, "next", "next") BY <1>2 DEF IsCall, P!Op, c
<1>4. pcP["C"] = 2 => IsCall("C", "write", m + 1, "next", "next") BY <1>2 DEF IsCall, P!Op, w
<1>5. pcP["C"] = 3 => IsCall("C", "once", P!Thanks, "next", "next") BY <1>2 DEF IsCall, P!Op, o
<1> QED BY <1>2, <1>3, <1>4, <1>5

-----------------------------------------------------------------------------
(* Pairs on one connection: what a call does                               *)

PSame == pair' = pair /\ m' = m /\ victim' = victim /\ runs' = runs
Quiet == stP' = stP /\ net' = net /\ fin' = fin /\ err' = err /\ open' = open /\ shut' = shut /\ PSame
Moves(p) == pcP' = [pcP EXCEPT ![p] = @ + 1] /\ part' = [part EXCEPT ![p] = 0]

\* The least of two numbers.
LEMMA MinOfTwo ==
  ASSUME NEW a \in Int, NEW b \in Int, NEW k \in 1..P!Min({a, b})
  PROVE  k \in Nat /\ k > 0 /\ k <= a /\ k <= b
<1> DEFINE x == P!Min({a, b})
<1>1. \E y \in {a, b} : \A z \in {a, b} : y <= z
  <2>1. CASE a <= b BY <2>1
  <2>2. CASE b <= a BY <2>2
  <2> QED BY <2>1, <2>2
<1>2. x \in {a, b} /\ \A z \in {a, b} : x <= z BY <1>1 DEF P!Min
<1> HIDE DEF x
<1>3. x \in Int /\ x <= a /\ x <= b BY <1>2
<1>4. k \in 1..x BY DEF x
<1> QED BY <1>3, <1>4

\* A write() of l bytes passes k of them on.
Writes(p, q, k, l) ==
  /\ k \in Nat /\ k > 0 /\ rx' = [rx EXCEPT ![q] = @ + k] /\ got' = got /\ hold' = hold /\ Quiet
  /\ \/ part[p] + k = l /\ Moves(p)
     \/ part[p] + k < l /\ pcP' = pcP /\ part' = [part EXCEPT ![p] = @ + k]
WritesSome(p, q, l) == PLocal' /\ PTcp' /\ \E k : Writes(p, q, k, l)
\* A step in a write() call of a connection that stands is such a write.
LEMMA CallWrites ==
  ASSUME PLocal, PTcp, NEW p \in P!Procs, NEW e \in P!Ends, NEW q \in P!Ends, P!End(p) = e, P!Peer(e) = q,
         NEW l \in Nat, NEW x, NEW y, IsCall(p, "write", l, x, y), stP[p] = "run", hold[p] = 0, part[p] < l,
         ~shut[e], err[e] = "ok", open[q], P!Proc(p)
  PROVE  WritesSome(p, q, l)
<1>1. /\ \A z : P!At(p, z) => z = "write"
      /\ P!At(p, "write") /\ ~(pcP[p] > Len(P!Script(p))) /\ P!Op(p).n = l
  BY CallOnly
<1>2. P!WriteStep(p) /\ PSame
  BY <1>1 DEF P!Proc, P!ReadStep, P!ListenStep, P!ConnectStep, P!AcceptStep, P!ShutdownStep, P!CloseStep,
              P!ForkedStep, P!Return, PSame
<1>3. P!ToWrite(p) = l - part[p] BY <1>1 DEF P!ToWrite
<1>4. /\ \E k \in 1..P!Min({P!ToWrite(p), Cap - rx[q]}) : rx' = [rx EXCEPT ![q] = @ + k] /\ P!Wrote(p, k)
      /\ stP' = stP /\ fin' = fin /\ err' = err /\ open' = open /\ shut' = shut /\ net' = net /\ got' = got
  BY <1>2 DEF P!WriteStep, P!Alive
<1>5. PICK k \in 1..P!Min({l - part[p], Cap - rx[q]}) : rx' = [rx EXCEPT ![q] = @ + k] /\ P!Wrote(p, k)
  BY <1>3, <1>4
<1>6. part[p] \in Nat /\ rx[q] \in Nat /\ pcP[p] \in Nat BY DEF PLocal, PTcp
<1>7. k \in Nat /\ k > 0 /\ k <= l - part[p]
  <2>1. l - part[p] \in Int /\ Cap - rx[q] \in Int BY <1>6, PConstants
  <2> QED BY <1>5, <2>1, MinOfTwo
<1>8. /\ hold' = hold
      /\ \/ part[p] + k = l /\ Moves(p)
         \/ part[p] + k < l /\ pcP' = pcP /\ part' = [part EXCEPT ![p] = @ + k]
  <2>1. CASE part[p] + k >= l
    <3>1. part[p] + k = l BY <1>6, <1>7, <2>1
    <3>2. hold' = hold /\ P!Advance(p) BY <1>1, <1>5, <2>1 DEF P!Wrote
    <3> QED BY <3>1, <3>2 DEF P!Advance, Moves
  <2>2. CASE ~(part[p] + k >= l)
    <3>1. part[p] + k < l BY <1>6, <1>7, <2>2
    <3>2. hold' = hold /\ pcP' = pcP /\ part' = [part EXCEPT ![p] = @ + k] BY <1>1, <1>5, <2>2 DEF P!Wrote
    <3> QED BY <3>1, <3>2
  <2> QED BY <2>1, <2>2
<1>9. Writes(p, q, k, l) BY <1>2, <1>4, <1>5, <1>7, <1>8 DEF Writes, Quiet
<1>10. PTcp' BY <1>4, <1>5, <1>6, <1>7 DEF PTcp
<1>11. PLocal'
  <2>1. pcP' \in [P!Procs -> Nat] /\ part' \in [P!Procs -> Nat] BY <1>6, <1>7, <1>8 DEF PLocal, Moves
  <2> QED BY <1>2, <1>4, <1>8, <2>1 DEF PLocal, PSame
<1> QED BY <1>9, <1>10, <1>11 DEF WritesSome

\* An echo server passes on k of the bytes it holds.
Echoes(p, q, k) ==
  /\ k \in Nat /\ k > 0 /\ k <= hold[p] /\ rx' = [rx EXCEPT ![q] = @ + k] /\ got' = got
  /\ hold' = [hold EXCEPT ![p] = @ - k] /\ Quiet /\ pcP' = pcP /\ part' = part
EchoesSome(p, q) == PLocal' /\ PTcp' /\ \E k : Echoes(p, q, k)
\* A step of an echo server that holds bytes passes some of them on.
LEMMA CallEchoes ==
  ASSUME PLocal, PTcp, NEW p \in P!Procs, NEW e \in P!Ends, NEW q \in P!Ends, P!End(p) = e, P!Peer(e) = q,
         NEW o \in {"echo", "line"}, NEW l, NEW x, NEW y, IsCall(p, o, l, x, y), stP[p] = "run", hold[p] > 0,
         ~shut[e], err[e] = "ok", open[q], P!Proc(p)
  PROVE  EchoesSome(p, q)
<1>1. (\A z : P!At(p, z) => z = o) /\ ~(pcP[p] > Len(P!Script(p))) BY CallOnly
<1>2. hold[p] \in Nat /\ rx[q] \in Nat /\ ~P!At(p, "write") BY <1>1 DEF PLocal, PTcp
<1>3. P!WriteStep(p) /\ PSame
  <2>1. ~P!ReadStep(p) BY <1>2 DEF P!ReadStep
  <2> QED BY <1>1, <2>1 DEF P!Proc, P!ListenStep, P!ConnectStep, P!AcceptStep, P!ShutdownStep, P!CloseStep,
                            P!ForkedStep, P!Return, PSame
<1>4. P!ToWrite(p) = hold[p] BY <1>2 DEF P!ToWrite
<1>5. /\ \E k \in 1..P!Min({P!ToWrite(p), Cap - rx[q]}) : rx' = [rx EXCEPT ![q] = @ + k] /\ P!Wrote(p, k)
      /\ stP' = stP /\ fin' = fin /\ err' = err /\ open' = open /\ shut' = shut /\ net' = net /\ got' = got
  BY <1>3 DEF P!WriteStep, P!Alive
<1>6. PICK k \in 1..P!Min({hold[p], Cap - rx[q]}) : rx' = [rx EXCEPT ![q] = @ + k] /\ P!Wrote(p, k)
  BY <1>4, <1>5
<1>7. k \in Nat /\ k > 0 /\ k <= hold[p]
  <2>1. hold[p] \in Int /\ Cap - rx[q] \in Int BY <1>2, PConstants
  <2> QED BY <1>6, <2>1, MinOfTwo
<1>8. hold' = [hold EXCEPT ![p] = @ - k] /\ pcP' = pcP /\ part' = part BY <1>2, <1>6 DEF P!Wrote, P!Stay
<1>9. Echoes(p, q, k) BY <1>3, <1>5, <1>6, <1>7, <1>8 DEF Echoes, Quiet
<1>10. PTcp' BY <1>2, <1>5, <1>6, <1>7 DEF PTcp
<1>11. PLocal'
  <2>1. hold' \in [P!Procs -> Nat] BY <1>2, <1>7, <1>8 DEF PLocal
  <2> QED BY <1>3, <1>5, <1>8, <2>1 DEF PLocal, PSame
<1> QED BY <1>9, <1>10, <1>11 DEF EchoesSome

\* A read() of a call of l bytes returns k bytes, or meets the end of the file.
Takes(p, e, k, l) ==
  /\ k \in Nat /\ k > 0 /\ k <= rx[e] /\ k <= l - part[p]
  /\ rx' = [rx EXCEPT ![e] = @ - k] /\ got' = [got EXCEPT ![p] = @ + k] /\ Quiet
SeesEnd(p, e) == rx[e] = 0 /\ fin[e] /\ rx' = rx /\ got' = got /\ hold' = hold /\ Moves(p) /\ Quiet
SeesNothing(e) == rx[e] = 0 /\ fin[e]
\* A step in a read() call takes bytes, or there is nothing and never will be.
LEMMA CallReads ==
  ASSUME PLocal, PTcp, NEW p \in P!Procs, NEW e \in P!Ends, P!End(p) = e,
         NEW o \in {"once", "exact", "all", "echo", "line"}, NEW l \in Nat, NEW x, NEW y, IsCall(p, o, l, x, y),
         stP[p] = "run", hold[p] = 0, err[e] = "ok", P!Proc(p)
  PROVE  \/ (\E k : Takes(p, e, k, l) /\ P!AfterData(p, k)) /\ PTcp' /\ got' \in [P!Procs -> Nat]
         \/ SeesNothing(e) /\ (x = "next" => SeesEnd(p, e) /\ PLocal' /\ PTcp')
<1>1. /\ \A z : P!At(p, z) => z = o
      /\ ~(pcP[p] > Len(P!Script(p))) /\ P!Op(p).n = l /\ P!Op(p).eof = x
  BY CallOnly
<1>2. part[p] \in Nat /\ rx[e] \in Nat /\ pcP[p] \in Nat /\ hold[p] \in Nat /\ got[p] \in Nat /\ fin[e] \in BOOLEAN
  BY DEF PLocal, PTcp
<1>3. P!ReadStep(p) /\ PSame
  <2>1. ~P!WriteStep(p) BY <1>1, <1>2 DEF P!WriteStep
  <2> QED BY <1>1, <2>1 DEF P!Proc, P!ListenStep, P!ConnectStep, P!AcceptStep, P!ShutdownStep, P!CloseStep,
                            P!ForkedStep, P!Return, PSame
<1>4. PICK k \in P!ReadResult(e, l - part[p]) :
       \/ /\ k > 0
          /\ rx' = [rx EXCEPT ![e] = @ - k] /\ got' = [got EXCEPT ![p] = @ + k]
          /\ P!AfterData(p, k) /\ P!Alive /\ UNCHANGED <<fin, err, open, shut, net>>
       \/ /\ k = 0 /\ P!AfterFailure(p, x) /\ UNCHANGED <<rx, fin, err, open, shut>> /\ UNCHANGED got
       \/ k = -1
  BY <1>1, <1>3 DEF P!ReadStep, P!tcp
<1>5. CASE rx[e] > 0
  <2>1. k \in 1..P!Min({rx[e], l - part[p]}) BY <1>4, <1>5 DEF P!ReadResult
  <2>2. k \in Nat /\ k > 0 /\ k <= rx[e] /\ k <= l - part[p]
    <3>1. rx[e] \in Int /\ l - part[p] \in Int BY <1>2
    <3> QED BY <2>1, <3>1, MinOfTwo
  <2>3. /\ rx' = [rx EXCEPT ![e] = @ - k] /\ got' = [got EXCEPT ![p] = @ + k]
        /\ P!AfterData(p, k) /\ stP' = stP /\ fin' = fin /\ err' = err /\ open' = open /\ shut' = shut /\ net' = net
    BY <1>4, <2>2 DEF P!Alive
  <2>4. Takes(p, e, k, l) BY <1>3, <2>2, <2>3 DEF Takes, Quiet
  <2>5. PTcp' BY <1>2, <2>2, <2>3 DEF PTcp
  <2>6. got' \in [P!Procs -> Nat] BY <1>2, <2>2, <2>3 DEF PLocal
  <2> QED BY <2>3, <2>4, <2>5, <2>6
<1>6. CASE rx[e] = 0
  <2>1. k = 0 /\ fin[e]
    <3>1. P!ReadResult(e, l - part[p]) = IF fin[e] THEN {0} ELSE {} BY <1>6 DEF P!ReadResult
    <3> QED BY <1>4, <3>1
  <2>2. /\ P!AfterFailure(p, x) /\ rx' = rx /\ fin' = fin /\ err' = err /\ open' = open /\ shut' = shut /\ got' = got
    BY <1>4, <2>1
  <2>3. ASSUME x = "next" PROVE SeesEnd(p, e) /\ PLocal' /\ PTcp'
    <3>1. Moves(p) /\ stP' = stP /\ hold' = hold /\ net' = net
      BY <2>2, <2>3 DEF P!AfterFailure, P!Advance, P!Alive, Moves
    <3>2. SeesEnd(p, e) BY <1>3, <1>6, <2>1, <2>2, <3>1 DEF SeesEnd, Quiet
    <3>3. PTcp' BY <2>2 DEF PTcp
    <3>4. pcP' \in [P!Procs -> Nat] /\ part' \in [P!Procs -> Nat] BY <1>2, <3>1 DEF PLocal, Moves
    <3>5. PLocal' BY <1>3, <2>2, <3>1, <3>4 DEF PLocal, PSame
    <3> QED BY <3>2, <3>3, <3>5
  <2> QED BY <1>6, <2>1, <2>3 DEF SeesNothing
<1> QED BY <1>2, <1>5, <1>6

\* What a call does with the bytes.
Keeps(p, o, k, l) ==
  CASE o = "once" -> Moves(p) /\ hold' = hold
    [] o = "all" -> pcP' = pcP /\ part' = part /\ hold' = hold
    [] o = "echo" -> pcP' = pcP /\ part' = part /\ hold' = [hold EXCEPT ![p] = k]
    [] o = "exact" -> /\ hold' = hold
                      /\ IF part[p] + k = l THEN Moves(p) ELSE pcP' = pcP /\ part' = [part EXCEPT ![p] = @ + k]
    [] o = "line" -> /\ pcP' = pcP
                     /\ IF part[p] + k = l
                          THEN part' = [part EXCEPT ![p] = 0] /\ hold' = [hold EXCEPT ![p] = l]
                          ELSE part' = [part EXCEPT ![p] = @ + k] /\ hold' = hold
ReadsSome(p, e, o, l) == PLocal' /\ PTcp' /\ \E k : Takes(p, e, k, l) /\ Keeps(p, o, k, l)
EndRead(p, e, x) == SeesNothing(e) /\ (x = "next" => SeesEnd(p, e) /\ PLocal' /\ PTcp')
\* The same, with what each kind of call does with the bytes.
LEMMA CallTakes ==
  ASSUME PLocal, PTcp, NEW p \in P!Procs, NEW e \in P!Ends, P!End(p) = e,
         NEW o \in {"once", "exact", "all", "echo", "line"}, NEW l \in Nat, NEW x, NEW y, IsCall(p, o, l, x, y),
         stP[p] = "run", hold[p] = 0, err[e] = "ok", P!Proc(p)
  PROVE  ReadsSome(p, e, o, l) \/ EndRead(p, e, x)
<1>1. \/ (\E k : Takes(p, e, k, l) /\ P!AfterData(p, k)) /\ PTcp' /\ got' \in [P!Procs -> Nat]
      \/ SeesNothing(e) /\ (x = "next" => SeesEnd(p, e) /\ PLocal' /\ PTcp')
  BY CallReads
<1>2. CASE SeesNothing(e) /\ (x = "next" => SeesEnd(p, e) /\ PLocal' /\ PTcp') BY <1>2 DEF EndRead
<1>3. CASE (\E k : Takes(p, e, k, l) /\ P!AfterData(p, k)) /\ PTcp' /\ got' \in [P!Procs -> Nat]
  <2>1. PICK k : Takes(p, e, k, l) /\ P!AfterData(p, k) BY <1>3
  <2>2. P!Op(p).op = o /\ P!Op(p).n = l BY CallOnly
  <2>3. k \in Nat /\ Quiet BY <2>1 DEF Takes
  <2>4. part[p] \in Nat /\ pcP[p] \in Nat /\ hold[p] \in Nat /\ DOMAIN hold = P!Procs BY DEF PLocal
  <2>5. Keeps(p, o, k, l) /\ pcP' \in [P!Procs -> Nat] /\ part' \in [P!Procs -> Nat] /\ hold' \in [P!Procs -> Nat]
    <3>1. CASE o = "once"
      <4>1. Moves(p) /\ hold' = hold BY <2>1, <2>2, <3>1 DEF P!AfterData, P!Advance, Moves
      <4> QED BY <2>4, <3>1, <4>1 DEF Keeps, Moves, PLocal
    <3>2. CASE o = "all"
      <4>1. pcP' = pcP /\ part' = part /\ hold' = hold BY <2>1, <2>2, <3>2 DEF P!AfterData, P!Stay
      <4> QED BY <2>4, <3>2, <4>1 DEF Keeps, PLocal
    <3>3. CASE o = "echo"
      <4>1. pcP' = pcP /\ part' = part /\ hold' = [hold EXCEPT ![p] = k]
        BY <2>1, <2>2, <3>3 DEF P!AfterData, P!Stay
      <4> QED BY <2>3, <2>4, <3>3, <4>1 DEF Keeps, PLocal
    <3>4. CASE o = "exact"
      <4>1. /\ hold' = hold
            /\ IF part[p] + k = l THEN Moves(p) ELSE pcP' = pcP /\ part' = [part EXCEPT ![p] = @ + k]
        BY <2>1, <2>2, <3>4 DEF P!AfterData, P!Advance, Moves
      <4> QED BY <2>3, <2>4, <3>4, <4>1 DEF Keeps, PLocal, Moves
    <3>5. CASE o = "line"
      <4>1. /\ part' = [part EXCEPT ![p] = IF part[p] + k = l THEN 0 ELSE @ + k]
            /\ hold' = [hold EXCEPT ![p] = IF part[p] + k = l THEN l ELSE 0] /\ pcP' = pcP
        BY <2>1, <2>2, <3>5 DEF P!AfterData
      <4>2. /\ pcP' = pcP
            /\ IF part[p] + k = l
                 THEN part' = [part EXCEPT ![p] = 0] /\ hold' = [hold EXCEPT ![p] = l]
                 ELSE part' = [part EXCEPT ![p] = @ + k] /\ hold' = hold
        <5>1. [hold EXCEPT ![p] = 0] = hold BY <2>4 DEF PLocal
        <5> QED BY <4>1, <5>1
      <4>3. Keeps(p, o, k, l) BY <3>5, <4>2 DEF Keeps
      <4> QED BY <2>3, <2>4, <4>1, <4>3 DEF PLocal
    <3> QED BY <3>1, <3>2, <3>3, <3>4, <3>5
  <2>6. PLocal' BY <1>3, <2>3, <2>5 DEF PLocal, Quiet, PSame
  <2> QED BY <1>3, <2>1, <2>5, <2>6 DEF ReadsSome
<1> QED BY <1>1, <1>2, <1>3

\* The other calls.
LEMMA OtherCalls ==
  ASSUME PLocal, NEW p \in P!Procs, NEW o, NEW l, NEW x, NEW y, IsCall(p, o, l, x, y),
         o \notin {"write", "once", "exact", "all", "echo", "line"}, hold[p] = 0, P!Proc(p)
  PROVE  /\ PSame /\ stP[p] = "run"
         /\ o = "listen" => P!ListenStep(p)
         /\ o = "connect" => P!ConnectStep(p)
         /\ o = "accept" => P!AcceptStep(p)
         /\ o = "shutdown" => P!ShutdownStep(p)
         /\ o = "close" => P!CloseStep(p)
         /\ o = "forked" => P!ForkedStep(p)
<1>1. (\A z : P!At(p, z) => stP[p] = "run" /\ z = o) /\ ~(pcP[p] > Len(P!Script(p))) BY CallOnly
<1>2. ~P!WriteStep(p) /\ ~P!ReadStep(p) /\ ~P!Return(p) BY <1>1 DEF P!WriteStep, P!ReadStep, P!Return
<1> QED BY <1>1, <1>2 DEF P!Proc, P!ListenStep, P!ConnectStep, P!AcceptStep, P!ShutdownStep, P!CloseStep,
                          P!ForkedStep, PSame

\* After the last call.
LEMMA AfterCalls ==
  ASSUME PLocal, NEW p \in P!Procs, NEW N \in Nat, Len(P!Script(p)) = N, pcP[p] > N, hold[p] = 0, P!Proc(p)
  PROVE  PSame /\ P!Return(p)
<1>1. pcP[p] \in Nat BY DEF PLocal
<1>2. \A z : ~P!At(p, z) BY <1>1 DEF P!At
<1> QED BY <1>2 DEF P!Proc, P!ListenStep, P!ConnectStep, P!AcceptStep, P!ShutdownStep, P!CloseStep,
                    P!ForkedStep, P!WriteStep, P!ReadStep, PSame

\* A process that has ended, or only waits for its parent's connection.
LEMMA NoCalls ==
  ASSUME NEW p, stP[p] # "run" PROVE ~P!Proc(p)
BY DEF P!Proc, P!ListenStep, P!ConnectStep, P!AcceptStep, P!ShutdownStep, P!CloseStep,
       P!ForkedStep, P!WriteStep, P!ReadStep, P!Return, P!At

\* A step that is no read(): the process goes on, and has read what it had read.
LEMMA ProcFrame ==
  ASSUME NEW p \in P!Procs, P!Proc(p), ~P!ReadStep(p)
  PROVE  /\ PSame /\ got' = got
         /\ pcP' = pcP \/ pcP' = [pcP EXCEPT ![p] = @ + 1]
         /\ stP' = stP \/ \E h : stP' = [stP EXCEPT ![p] = h]
<1>1. PSame BY DEF P!Proc, PSame
<1>2. CASE P!WriteStep(p)
  <2>1. got' = got BY <1>2 DEF P!WriteStep
  <2>2. (\E k : P!Wrote(p, k)) \/ pcP' = pcP BY <1>2 DEF P!WriteStep
  <2>3. \A k : P!Wrote(p, k) => pcP' = pcP \/ pcP' = [pcP EXCEPT ![p] = @ + 1]
    BY DEF P!Wrote, P!Advance, P!Stay
  <2>4. stP' = stP \/ \E h : stP' = [stP EXCEPT ![p] = h] BY <1>2 DEF P!WriteStep, P!EndProcess, P!Alive
  <2> QED BY <1>1, <2>1, <2>2, <2>3, <2>4
<1>3. CASE P!ListenStep(p) \/ P!ConnectStep(p)
  BY <1>1, <1>3 DEF P!ListenStep, P!ConnectStep, P!EndProcess, P!Alive, P!Advance
<1>4. CASE P!AcceptStep(p) \/ P!ShutdownStep(p) \/ P!CloseStep(p)
  BY <1>1, <1>4 DEF P!AcceptStep, P!ShutdownStep, P!CloseStep, P!Alive, P!Advance
<1>5. CASE P!ForkedStep(p) \/ P!Return(p)
  BY <1>1, <1>5 DEF P!ForkedStep, P!Return, P!EndProcess, P!Alive, P!Advance, P!Stay
<1> QED BY <1>2, <1>3, <1>4, <1>5 DEF P!Proc

\* Behind LastRead there is no read().
LEMMA ReadsBefore ==
  ASSUME pcP \in [P!Procs -> Nat], OneWay \/ TwoWay \/ Echoing, m \in Nat \ {0}, NEW p \in {"S", "C"},
         pcP[p] > LastRead(p)
  PROVE  ~P!ReadStep(p)
<1>1. pcP["S"] \in Nat /\ pcP["C"] \in Nat /\ Rounds \in Nat BY PConstants DEF P!Procs
<1>2. SUFFICES ASSUME NEW o \in {"once", "exact", "all", "echo", "line"} PROVE ~P!At(p, o) BY DEF P!ReadStep
<1>3. ASSUME NEW N \in Nat, Len(P!Script(p)) = N, pcP[p] > N PROVE ~P!At(p, o) BY <1>1, <1>3 DEF P!At
<1>4. ASSUME NEW z, NEW l, NEW x, NEW y, IsCall(p, z, l, x, y), z \notin {"once", "exact", "all", "echo", "line"}
      PROVE  ~P!At(p, o)
  BY <1>4, CallOnly
<1>5. CASE OneWay /\ p = "S"
  <2>1. Len(P!Script("S")) = 3 BY <1>5, SenderCalls
  <2>2. pcP["S"] > 0 BY <1>5 DEF LastRead
  <2>3. pcP["S"] \in {1, 2, 3} \/ pcP["S"] > 3 BY <1>1, <2>2
  <2>4. CASE pcP["S"] = 1
    <3>1. IsCall("S", "listen", 0, "next", "next") BY <1>5, <2>4, SenderCalls
    <3> QED BY <1>4, <1>5, <3>1
  <2>5. CASE pcP["S"] = 2
    <3>1. IsCall("S", "accept", 0, "next", "next") BY <1>5, <2>5, SenderCalls
    <3> QED BY <1>4, <1>5, <3>1
  <2>6. CASE pcP["S"] = 3
    <3>1. IsCall("S", "write", m, "next", "next") BY <1>5, <2>6, SenderCalls
    <3> QED BY <1>4, <1>5, <3>1
  <2>7. CASE pcP["S"] > 3 BY <1>3, <1>5, <2>1, <2>7
  <2> QED BY <2>3, <2>4, <2>5, <2>6, <2>7
<1>6. CASE TwoWay /\ p = "S"
  <2>1. ~OneWay BY <1>6 DEF OneWay, TwoWay
  <2>2. Len(P!Script("S")) = 5 BY <1>6, <2>1, SenderCalls
  <2>3. pcP["S"] > 5 BY <1>6, <2>1 DEF LastRead
  <2> QED BY <1>3, <1>6, <2>2, <2>3
<1>7. CASE Echoing /\ p = "S"
  <2>1. ~OneWay /\ ~TwoWay BY <1>7 DEF OneWay, TwoWay, Echoing
  <2>2. pcP["S"] > 3 BY <1>7, <2>1 DEF LastRead
  <2>3. CASE pair # "std"
    <3>1. Len(P!Script("S")) = 3 BY <1>7, <2>3, EchoerCalls
    <3> QED BY <1>3, <1>7, <2>2, <3>1
  <2>4. CASE pair = "std"
    <3>1. Len(P!Script("S")) = 4 BY <1>7, <2>4, EchoerCalls
    <3>2. CASE pcP["S"] = 4
      <4>1. IsCall("S", "write", m, "next", "next") BY <1>7, <2>4, <3>2, EchoerCalls
      <4> QED BY <1>4, <1>7, <4>1
    <3>3. CASE pcP["S"] > 4 BY <1>3, <1>7, <3>1, <3>3
    <3> QED BY <1>1, <2>2, <3>2, <3>3
  <2> QED BY <2>3, <2>4
<1>8. CASE (OneWay \/ pair = "mp") /\ p = "C"
  <2>1. ~TwoWay BY <1>8 DEF OneWay, TwoWay
  <2>2. Len(P!Script("C")) = 2 BY <1>8, <2>1, ReaderCalls
  <2>3. pcP["C"] > 2 BY <1>8, <2>1 DEF LastRead
  <2> QED BY <1>3, <1>8, <2>2, <2>3
<1>9. CASE TwoWay /\ p = "C"
  <2>1. ~OneWay BY <1>9 DEF OneWay, TwoWay
  <2>2. Len(P!Script("C")) = 3 BY <1>9, ReaderCalls
  <2>3. pcP["C"] > 2 BY <1>9, <2>1 DEF LastRead
  <2>4. CASE pcP["C"] = 3
    <3>1. IsCall("C", "write", P!Thanks, "next", "next") BY <1>9, <2>4, ReaderCalls
    <3> QED BY <1>4, <1>9, <3>1
  <2>5. CASE pcP["C"] > 3 BY <1>3, <1>9, <2>2, <2>5
  <2> QED BY <1>1, <2>3, <2>4, <2>5
<1>10. CASE EchoPair /\ p = "C"
  <2>1. ~OneWay /\ ~TwoWay /\ pair # "mp" BY <1>10 DEF OneWay, TwoWay, EchoPair
  <2>2. pcP["C"] > 2 * Rounds + 1 BY <1>10, <2>1 DEF LastRead
  <2>3. CASE pair # "quit"
    <3>1. Len(P!Script("C")) = 2 * Rounds + 1 /\ 2 * Rounds + 1 \in Nat BY <1>1, <1>10, <2>3, EchoClientCalls
    <3> QED BY <1>3, <1>10, <2>2, <3>1
  <2>4. CASE pair = "quit"
    <3>1. Len(P!Script("C")) = 2 * Rounds + 2 /\ 2 * Rounds + 2 \in Nat BY <1>1, <1>10, <2>4, EchoClientCalls
    <3>2. CASE pcP["C"] = 2 * Rounds + 2
      <4>1. IsCall("C", "write", ClientBuf, "next", "next") BY <1>10, <2>4, <3>2, EchoClientCalls
      <4> QED BY <1>4, <1>10, <4>1
    <3>3. CASE pcP["C"] > 2 * Rounds + 2 BY <1>3, <1>10, <3>1, <3>3
    <3> QED BY <1>1, <2>2, <3>2, <3>3
  <2> QED BY <2>3, <2>4
<1> QED BY <1>5, <1>6, <1>7, <1>8, <1>9, <1>10 DEF Echoing, EchoPair

\* Nor in the child of echo_mpclient.c.
LEMMA WriterNeverReads ==
  ASSUME pcP \in [P!Procs -> Nat], IF pair = "mp" THEN pcP["W"] > 0 ELSE stP["W"] = "done"
  PROVE  ~P!ReadStep("W")
<1>1. CASE pair # "mp" BY <1>1 DEF P!ReadStep, P!At
<1>2. CASE pair = "mp"
  <2>1. pcP["W"] \in Nat /\ Rounds \in Nat BY PConstants DEF P!Procs
  <2>2. SUFFICES ASSUME NEW o \in {"once", "exact", "all", "echo", "line"}, P!At("W", o) PROVE FALSE BY DEF P!ReadStep
  <2>3. ASSUME NEW z, NEW l, NEW x, NEW y, IsCall("W", z, l, x, y) PROVE z = o BY <2>2, <2>3, CallOnly
  <2>4. Len(P!Script("W")) = Rounds + 3 BY <1>2, WriterCalls
  <2>5. pcP["W"] <= Rounds + 3 BY <2>2, <2>4 DEF P!At
  <2>6. pcP["W"] # 1 BY <1>2, <2>3, WriterCalls
  <2>7. pcP["W"] # Rounds + 2 /\ pcP["W"] # Rounds + 3 BY <1>2, <2>3, WriterCalls
  <2>8. \A j \in Nat : ~(j < Rounds /\ pcP["W"] = j + 2) BY <1>2, <2>3, WriterCalls
  <2>9. pcP["W"] > 0 BY <1>2
  <2> QED BY <2>1, <2>5, <2>6, <2>7, <2>8, <2>9
<1> QED BY <1>1, <1>2

\* What both have read stays.
LEMMA OverStep ==
  ASSUME Over, NEW p \in P!Procs, P!Proc(p) PROVE Over'
<1>1. /\ OneWay \/ TwoWay \/ Echoing
      /\ m \in Nat \ {0}
      /\ pcP \in [P!Procs -> Nat] /\ DOMAIN stP = P!Procs
      /\ IF pair = "mp" THEN pcP["W"] > 0 ELSE stP["W"] = "done"
      /\ pcP["S"] > LastRead("S") /\ got["S"] \in P!Promise("S")
      /\ pcP["C"] > LastRead("C") /\ got["C"] \in P!Promise("C")
  BY DEF Over, Finished
<1>2. ~P!ReadStep(p)
  <2>1. CASE p \in {"S", "C"} BY <1>1, <2>1, ReadsBefore
  <2>2. CASE p = "W" BY <1>1, <2>2, WriterNeverReads
  <2> QED BY <2>1, <2>2 DEF P!Procs
<1>3. /\ PSame /\ got' = got
      /\ pcP' = pcP \/ pcP' = [pcP EXCEPT ![p] = @ + 1]
      /\ stP' = stP \/ \E h : stP' = [stP EXCEPT ![p] = h]
  BY <1>2, ProcFrame
<1>4. pair' = pair /\ m' = m BY <1>3 DEF PSame
<1>5. /\ pcP' \in [P!Procs -> Nat] /\ pcP'["S"] >= pcP["S"] /\ pcP'["C"] >= pcP["C"] /\ pcP'["W"] >= pcP["W"]
      /\ pcP["S"] \in Nat /\ pcP["C"] \in Nat /\ pcP["W"] \in Nat
  BY <1>1, <1>3 DEF P!Procs
<1>6. DOMAIN stP' = P!Procs BY <1>1, <1>3
<1>7. pair # "mp" => stP'["W"] = "done"
  <2> SUFFICES ASSUME pair # "mp" PROVE stP'["W"] = "done" OBVIOUS
  <2>1. p # "W" BY <1>1, NoCalls
  <2> QED BY <1>1, <1>3, <2>1 DEF P!Procs
<1>8. IF pair' = "mp" THEN pcP'["W"] > 0 ELSE stP'["W"] = "done"
  <2>1. CASE pair = "mp"
    <3>1. pcP["W"] > 0 BY <1>1, <2>1
    <3>2. pcP'["W"] \in Nat BY <1>5 DEF P!Procs
    <3> QED BY <1>4, <1>5, <2>1, <3>1, <3>2
  <2>2. CASE pair # "mp" BY <1>4, <1>7, <2>2
  <2> QED BY <2>1, <2>2
<1>9. (OneWay \/ TwoWay \/ Echoing)' BY <1>1, <1>4 DEF OneWay, TwoWay, Echoing
<1>10. LastRead("S")' = LastRead("S") /\ LastRead("C")' = LastRead("C") BY <1>4 DEF LastRead, OneWay, TwoWay
<1>11. P!Promise("S")' = P!Promise("S") /\ P!Promise("C")' = P!Promise("C") BY <1>4 DEF P!Promise, P!Thanks
<1>12. LastRead("S") \in Nat /\ LastRead("C") \in Nat BY PConstants DEF LastRead
<1>13. pcP'["S"] \in Nat /\ pcP'["C"] \in Nat BY <1>5 DEF P!Procs
<1>14. pcP'["S"] > LastRead("S") /\ pcP'["C"] > LastRead("C") BY <1>1, <1>5, <1>12, <1>13
<1>15. Finished("S")' BY <1>1, <1>3, <1>10, <1>11, <1>14 DEF Finished
<1>16. Finished("C")' BY <1>1, <1>3, <1>10, <1>11, <1>14 DEF Finished
<1> QED BY <1>1, <1>4, <1>5, <1>6, <1>8, <1>9, <1>15, <1>16 DEF Over

\* The first calls of all the programs.
LEMMA FirstCalls ==
  ASSUME PLocal
  PROVE  /\ pcP["S"] = 1 => IsCall("S", "listen", 0, "next", "next")
         /\ pcP["S"] = 2 => IsCall("S", "accept", 0, "next", "next")
         /\ pcP["C"] = 1 => IsCall("C", "connect", 0, "next", "next")
         /\ pair = "mp" /\ pcP["W"] = 1 => IsCall("W", "forked", 0, "next", "next")
<1>1. OneWay \/ TwoWay \/ EchoPair \/ Cut \/ pair = "op" \/ pair = "mp" BY DEF PLocal, OneWay, TwoWay, EchoPair, Cut
<1>2. CASE OneWay \/ TwoWay
  <2>1. pair # "mp" BY <1>2 DEF OneWay, TwoWay
  <2> QED BY <1>2, <2>1, SenderCalls, ReaderCalls
<1>3. CASE EchoPair
  <2>1. pair # "mp" /\ Echoing /\ m \in Nat \ {0} BY <1>3 DEF EchoPair, Echoing, PLocal
  <2> QED BY <1>3, <2>1, EchoerCalls, EchoClientCalls
<1>4. CASE pair = "op"
  <2>1. Rounds \in Nat /\ 0 < Rounds /\ 0 \in Nat /\ 2 + 5 * 0 = 2 BY PConstants
  <2>2. pcP["S"] = 2 => IsCall("S", "accept", 0, "next", "next") BY <1>4, <2>1, OpServerCalls
  <2> QED BY <1>4, <2>2, OpServerCalls, OpClientCalls
<1>5. CASE pair = "mp"
  <2>1. Echoing BY <1>5 DEF Echoing
  <2> QED BY <1>5, <2>1, EchoerCalls, ReaderCalls, WriterCalls
<1>6. CASE Cut
  <2>1. pair # "mp" /\ m \in Nat \ {0} BY <1>6 DEF Cut, PLocal
  <2> QED BY <1>6, <2>1, EchoerCalls, CutClientCalls
<1> QED BY <1>1, <1>2, <1>3, <1>4, <1>5, <1>6

\* The client has just connected to a server that waits for it.
Fresh ==
  /\ hold["S"] = 0 /\ hold["C"] = 0
  /\ pcP["C"] = 2 /\ part["C"] = 0 /\ got["C"] = 0 /\ part["S"] = 0
  /\ stP["S"] = "run" /\ stP["C"] = "run" /\ (pair # "mp" => stP["W"] = "done") /\ net = "queued"
  /\ rx = [e \in P!Ends |-> 0] /\ fin = [e \in P!Ends |-> FALSE] /\ err = [e \in P!Ends |-> "ok"]
  /\ open = [e \in P!Ends |-> TRUE] /\ shut = [e \in P!Ends |-> FALSE]
\* connect() gives an empty connection that is open at both ends.
LEMMA FreshTcp ==
  ASSUME Fresh
  PROVE  /\ PTcp /\ Connection /\ ~shut["S"] /\ ~shut["C"]
         /\ ToC = 0 /\ (got["S"] \in Nat => ToS = got["S"])
         /\ part["C"] = 0 /\ part["S"] = 0 /\ hold["S"] = 0 /\ pcP["C"] = 2 /\ got["C"] = 0
<1>1. /\ \A e \in P!Ends : rx[e] = 0 /\ fin[e] = FALSE /\ err[e] = "ok" /\ open[e] = TRUE /\ shut[e] = FALSE
      /\ PTcp
  BY DEF Fresh, PTcp
<1>2. "S" \in P!Ends /\ "C" \in P!Ends /\ "S" \in P!Procs /\ "C" \in P!Procs /\ "W" \in P!Procs BY DEF P!Ends, P!Procs
<1>3. Connection BY <1>1, <1>2 DEF Fresh, Connection
<1>4. got["C"] = 0 /\ rx["C"] = 0 /\ rx["S"] = 0 BY <1>1, <1>2 DEF Fresh
<1>5. ToC = 0 /\ (got["S"] \in Nat => ToS = got["S"]) BY <1>4 DEF ToC, ToS
<1> QED BY <1>1, <1>2, <1>3, <1>5 DEF Fresh

\* From there a pair that serves one client is Live.
LEMMA FreshLive ==
  /\ PLocal /\ Fresh /\ pair # "op" /\ ~Cut /\ pcP["S"] = 2 /\ got["S"] = 0 /\ part["W"] = 0
  /\ pair = "mp" => pcP["W"] = 1 /\ stP["W"] = "run" /\ hold["W"] = 0
  => Live
<1> SUFFICES ASSUME PLocal, Fresh, pair # "op", ~Cut, pcP["S"] = 2, got["S"] = 0, part["W"] = 0,
                    pair = "mp" => pcP["W"] = 1 /\ stP["W"] = "run" /\ hold["W"] = 0
             PROVE  Live
  OBVIOUS
<1>1. m \in Nat /\ m > 0 /\ Rounds \in Nat /\ Rounds > 0 BY PConstants DEF PLocal
<1>2. /\ PTcp /\ Connection /\ ~shut["S"] /\ ~shut["C"] /\ ToC = 0 /\ ToS = 0
      /\ part["C"] = 0 /\ part["S"] = 0 /\ hold["S"] = 0 /\ pcP["C"] = 2 /\ got["C"] = 0
  BY FreshTcp
<1>3. ServerSends BY <1>2 DEF ServerSends, PTcp, P!Ends
<1>4. ServerEchoes BY <1>1, <1>2 DEF ServerEchoes
<1>5. ClientReads BY <1>2 DEF ClientReads
<1>6. ClientThanks BY <1>2 DEF ClientThanks
<1>7. ClientEchoes
  <2>1. ClientRound(0) BY <1>1, <1>2 DEF ClientRound
  <2> QED BY <1>2, <2>1 DEF ClientEchoes
<1>8. pair = "mp" => ClientParent BY <1>2 DEF ClientParent, WriterAt
<1> QED BY <1>2, <1>3, <1>4, <1>5, <1>6, <1>7, <1>8 DEF Live, ServerPart, ClientPart, Fresh
\* A line that the client will cut is on its way to be Stuck.
LEMMA FreshStuck ==
  PLocal /\ Fresh /\ Cut /\ pcP["S"] = 2 /\ got["S"] = 0 => Stuck
<1> SUFFICES ASSUME PLocal, Fresh, Cut, pcP["S"] = 2, got["S"] = 0 PROVE Stuck OBVIOUS
<1>1. /\ PTcp /\ Connection /\ ~shut["S"] /\ ~shut["C"] /\ ToC = 0 /\ ToS = 0
      /\ part["C"] = 0 /\ part["S"] = 0 /\ hold["S"] = 0 /\ pcP["C"] = 2 /\ got["C"] = 0
  BY FreshTcp
<1>2. rx["C"] = 0 BY <1>1 DEF ToC, PTcp, P!Ends
<1>3. 0 < StdBuf - 1 BY PConstants
<1> QED BY <1>1, <1>2, <1>3 DEF Stuck
OpFresh ==
  \A r \in Nat : PLocal /\ Fresh /\ r < Rounds /\ pcP["S"] = 2 + 5 * r /\ got["S"] = Before(r) => OpLive(r, 0)
\* From there op_server.c is in the first call of a round.
LEMMA FreshOp == OpFresh
<1> SUFFICES ASSUME NEW r \in Nat, PLocal, Fresh, r < Rounds, pcP["S"] = 2 + 5 * r, got["S"] = Before(r)
             PROVE  OpLive(r, 0)
  BY DEF OpFresh
<1>1. m \in Nat /\ m > 0 /\ Rounds \in Nat /\ Rounds > 0 /\ got["S"] \in Nat BY PConstants DEF PLocal, P!Procs
<1>2. /\ PTcp /\ Connection /\ ~shut["S"] /\ ~shut["C"] /\ ToC = 0 /\ ToS = got["S"]
      /\ part["C"] = 0 /\ part["S"] = 0 /\ hold["S"] = 0 /\ pcP["C"] = 2 /\ got["C"] = 0
  BY <1>1, FreshTcp
<1>3. OpServes(r, 0) BY <1>2 DEF OpServes
<1>4. OpAt(r, 0) BY <1>2 DEF OpAt, Connection
<1>5. ToS = Before(r) + part["C"] BY <1>1, <1>2
<1>6. OpAsks(r) BY <1>1, <1>2, <1>5 DEF OpAsks
<1> QED BY <1>1, <1>2, <1>3, <1>4, <1>6 DEF OpLive, Fresh

\* A step changes neither the programs nor the length of a message.
LEMMA KindsStay ==
  ASSUME PSame
  PROVE  /\ OneWay' = OneWay /\ TwoWay' = TwoWay /\ EchoPair' = EchoPair /\ Echoing' = Echoing
         /\ Cut' = Cut /\ pair' = pair /\ m' = m /\ P!Thanks' = P!Thanks
         /\ P!Promise("S")' = P!Promise("S") /\ P!Promise("C")' = P!Promise("C")
         /\ LastRead("S")' = LastRead("S") /\ LastRead("C")' = LastRead("C")
<1>1. pair' = pair /\ m' = m BY DEF PSame
<1>2. OneWay' = OneWay /\ TwoWay' = TwoWay /\ EchoPair' = EchoPair /\ Echoing' = Echoing /\ Cut' = Cut
  BY <1>1 DEF OneWay, TwoWay, EchoPair, Echoing, Cut
<1>3. P!Thanks' = P!Thanks BY DEF P!Thanks
<1>4. P!Promise("S")' = P!Promise("S") /\ P!Promise("C")' = P!Promise("C") BY <1>1 DEF P!Promise, P!Thanks
<1>5. LastRead("S")' = LastRead("S") /\ LastRead("C")' = LastRead("C") BY <1>1 DEF LastRead, OneWay, TwoWay
<1> QED BY <1>1, <1>2, <1>3, <1>4, <1>5

\* Nobody can tell the connection.
LEMMA IdleStep ==
  ASSUME PLocal, Idle, NEW p \in P!Procs, P!Proc(p) PROVE PInv'
<1> USE DEF P!Procs
<1>1. stP[p] = "run" /\ hold[p] = 0 BY NoCalls DEF Idle
<1>2. /\ pcP["S"] \in {1, 2} /\ pcP["C"] = 1 /\ pcP["W"] = 1 /\ "S" \in P!Procs /\ "C" \in P!Procs /\ "W" \in P!Procs
  BY DEF Idle
<1>3. pair \in {"hello", "tcp", "file", "sep", "echo", "reuse", "quit", "std", "op", "mp"} /\ m \in Nat \ {0} BY DEF PLocal
<1>4. SUFFICES ASSUME PSame => ~(PLocal /\ Idle)' PROVE PInv' BY DEF PInv
<1>5. CASE p = "S"
  <2>1. CASE pcP["S"] = 1
    <3>1. PSame /\ P!ListenStep("S") BY <1>1, <1>5, <2>1, FirstCalls, OtherCalls
    <3>2. hold' = hold /\ got' = got BY <3>1 DEF P!ListenStep
    <3>3. CASE net' = "listening" /\ P!Advance("S") /\ P!Alive
      <4>1. PLocal' BY <3>1, <3>2, <3>3 DEF PLocal, PSame, P!Advance, P!Alive
      <4>2. pcP'["S"] = 2 /\ pcP'["C"] = 1 /\ pcP'["W"] = 1 /\ \A q \in P!Procs : part'[q] = 0
        BY <1>2, <2>1, <3>3 DEF PLocal, Idle, P!Advance
      <4>3. stP' = stP /\ pair' = pair BY <3>1, <3>3 DEF P!Alive, PSame
      <4>4. Idle' BY <1>1, <1>5, <3>2, <3>3, <4>2, <4>3 DEF Idle
      <4> QED BY <1>4, <3>1, <4>1, <4>4
    <3>4. CASE P!EndProcess("S", "exited") /\ UNCHANGED <<pcP, part>>
      <4>1. stP' = [stP EXCEPT !["S"] = "exited"] /\ net' = "over" /\ pcP' = pcP /\ part' = part
        BY <3>4 DEF P!EndProcess
      <4>2. PLocal' BY <3>1, <3>2, <4>1 DEF PLocal, PSame
      <4>3. Idle' BY <2>1, <3>1, <3>2, <4>1 DEF PLocal, Idle, PSame
      <4> QED BY <1>4, <3>1, <4>2, <4>3
    <3> QED BY <3>1, <3>3, <3>4 DEF P!ListenStep
  <2>2. CASE pcP["S"] = 2
    <3>1. P!AcceptStep("S") BY <1>1, <1>5, <2>2, FirstCalls, OtherCalls
    <3>2. net = "queued" BY <3>1 DEF P!AcceptStep
    <3> QED BY <1>1, <1>5, <2>2, <3>2 DEF Idle
  <2> QED BY <1>2, <2>1, <2>2
<1>6. CASE p = "W"
  <2>1. pair = "mp" BY <1>1, <1>6 DEF Idle
  <2>2. PSame /\ P!ForkedStep("W") BY <1>1, <1>2, <1>6, <2>1, FirstCalls, OtherCalls
  <2>3. /\ stP["C"] # "run" /\ stP' = [stP EXCEPT !["W"] = "done"] /\ pcP' = pcP /\ part' = part
        /\ hold' = hold /\ got' = got /\ net' = net
    BY <1>2, <2>2 DEF P!ForkedStep, P!Stay
  <2>4. PLocal' BY <2>2, <2>3 DEF PLocal, PSame
  <2>5. Idle' BY <2>1, <2>2, <2>3 DEF PLocal, Idle, PSame
  <2> QED BY <1>4, <2>2, <2>4, <2>5
<1>7. CASE p = "C"
  <2>1. PSame /\ P!ConnectStep("C") BY <1>1, <1>2, <1>7, FirstCalls, OtherCalls
  <2>2. hold' = hold /\ got' = got BY <2>1 DEF P!ConnectStep
  <2>3. CASE net # "listening"
    <3>1. stP' = [stP EXCEPT !["C"] = "exited"] /\ net' = net /\ pcP' = pcP /\ part' = part
      BY <2>1, <2>3 DEF P!ConnectStep, P!EndProcess
    <3>2. PLocal' BY <2>1, <2>2, <3>1 DEF PLocal, PSame
    <3>3. Idle' BY <2>1, <2>2, <3>1 DEF PLocal, Idle, PSame
    <3> QED BY <1>4, <2>1, <3>2, <3>3
  <2>4. CASE net = "listening"
    <3>1. /\ net' = "queued" /\ P!Advance("C") /\ stP' = stP
          /\ rx' = [e \in P!Ends |-> 0] /\ fin' = [e \in P!Ends |-> FALSE] /\ err' = [e \in P!Ends |-> "ok"]
          /\ open' = [e \in P!Ends |-> TRUE] /\ shut' = [e \in P!Ends |-> FALSE]
      BY <2>1, <2>4 DEF P!ConnectStep, P!Alive
    <3>2. pcP' = [pcP EXCEPT !["C"] = 2] /\ part' = [part EXCEPT !["C"] = 0]
      BY <1>2, <3>1 DEF P!Advance, PLocal
    <3>3. PLocal' BY <2>1, <2>2, <3>1, <3>2 DEF PLocal, PSame
    <3>4. stP["S"] = "run" /\ pcP["S"] = 2 BY <1>2, <2>4 DEF Idle
    <3>5. pcP'["S"] = 2 /\ pcP'["C"] = 2 /\ pcP'["W"] = 1 BY <1>2, <3>2, <3>4 DEF PLocal
    <3>6. \A q \in P!Procs : part'[q] = 0 /\ hold'[q] = 0 /\ got'[q] = 0 BY <2>2, <3>2 DEF Idle, PLocal
    <3>7. stP'["S"] = "run" /\ stP'["C"] = "run" /\ stP'["W"] = IF pair = "mp" THEN "run" ELSE "done"
      BY <1>1, <1>7, <3>1, <3>4 DEF Idle
    <3>8. Fresh' BY <2>1, <3>1, <3>5, <3>6, <3>7 DEF Fresh, PSame
    <3>9. PTcp' BY <3>1 DEF PTcp
    <3>10. CASE pair = "op"
      <4>1. 0 \in Nat /\ 0 < Rounds /\ 2 + 5 * 0 = 2 BY PConstants
      <4>2. Before(0)' = 0 BY <1>3, <2>1 DEF Before, PSame
      <4>3. OpFresh' BY FreshOp, PTL
      <4>4. OpLive(0, 0)' BY <3>3, <3>5, <3>6, <3>8, <4>1, <4>2, <4>3 DEF OpFresh
      <4>5. OpPhase' BY <2>1, <3>7, <3>10, <4>4 DEF OpPhase, PSame
      <4> QED BY <3>3, <4>5 DEF PInv
    <3>11. CASE pair # "op" /\ ~Cut
      <4>1. (/\ PLocal /\ Fresh /\ pair # "op" /\ ~Cut /\ pcP["S"] = 2 /\ got["S"] = 0 /\ part["W"] = 0
             /\ pair = "mp" => pcP["W"] = 1 /\ stP["W"] = "run" /\ hold["W"] = 0
             => Live)'
        BY FreshLive, PTL
      <4>2. pair' = pair /\ Cut' = Cut BY <2>1, KindsStay
      <4>3. Live' BY <3>3, <3>5, <3>6, <3>7, <3>8, <3>11, <4>1, <4>2
      <4> QED BY <3>3, <3>9, <4>3 DEF PInv
    <3>12. CASE Cut
      <4>1. (PLocal /\ Fresh /\ Cut /\ pcP["S"] = 2 /\ got["S"] = 0 => Stuck)' BY FreshStuck, PTL
      <4>2. Cut' = Cut BY <2>1, KindsStay
      <4>3. Stuck' BY <3>3, <3>5, <3>6, <3>8, <3>12, <4>1, <4>2
      <4> QED BY <3>3, <3>9, <4>3 DEF PInv
    <3> QED BY <3>10, <3>11, <3>12
  <2> QED BY <2>3, <2>4
<1> QED BY <1>5, <1>6, <1>7

-----------------------------------------------------------------------------
(* Pairs on one connection: both are connected                             *)

\* What a step of one process leaves to the others.
KeepS ==
  /\ shut'["S"] = shut["S"] /\ (shut["C"] => shut'["C"]) /\ pcP'["S"] = pcP["S"] /\ part'["S"] = part["S"] /\ hold'["S"] = hold["S"]
  /\ got'["S"] = got["S"] /\ ToC' = ToC
KeepC ==
  /\ shut'["C"] = shut["C"] /\ pcP'["C"] = pcP["C"] /\ part'["C"] = part["C"]
  /\ got'["C"] = got["C"] /\ ToS' = ToS
KeepW == stP'["W"] = stP["W"] /\ pcP'["W"] = pcP["W"] /\ part'["W"] = part["W"] /\ hold'["W"] = hold["W"]
\* What the server has done stands while the client takes a step.
LEMMA ServerKept ==
  ASSUME PSame, KeepS, ServerPart PROVE ServerPart'
<1>1. pair' = pair /\ m' = m /\ OneWay' = OneWay /\ Echoing' = Echoing /\ P!Thanks' = P!Thanks BY KindsStay
<1>2. CASE Echoing
  <2>1. ServerEchoes BY <1>2 DEF ServerPart
  <2>2. ServerEchoes' BY <1>1, <2>1 DEF ServerEchoes, KeepS
  <2> QED BY <1>1, <1>2, <2>2 DEF ServerPart
<1>3. CASE ~Echoing
  <2>1. ServerSends BY <1>3 DEF ServerPart
  <2>2. ServerSends' BY <1>1, <2>1 DEF ServerSends, KeepS
  <2> QED BY <1>1, <1>3, <2>2 DEF ServerPart
<1> QED BY <1>2, <1>3

\* What the client has done stands while the server takes a step.
LEMMA ClientKept ==
  ASSUME PSame, KeepC, KeepW, pcP["S"] = 5 => pcP'["S"] = 5, ClientPart PROVE ClientPart'
<1>1. /\ pair' = pair /\ m' = m /\ OneWay' = OneWay /\ TwoWay' = TwoWay /\ EchoPair' = EchoPair
      /\ P!Thanks' = P!Thanks
  BY KindsStay
<1>2. OneWay => ClientReads' BY <1>1 DEF ClientPart, ClientReads, KeepC
<1>3. TwoWay => ClientThanks' BY <1>1 DEF ClientPart, ClientThanks, KeepC
<1>4. EchoPair => ClientEchoes'
  <2> SUFFICES ASSUME EchoPair PROVE ClientEchoes' OBVIOUS
  <2>1. (\E j \in Nat : ClientRound(j)) \/ ClientQuits BY DEF ClientPart, ClientEchoes
  <2>2. ASSUME NEW j \in Nat, ClientRound(j) PROVE ClientRound(j)' BY <1>1, <2>2 DEF ClientRound, KeepC
  <2>3. ClientQuits => ClientQuits' BY <1>1 DEF ClientQuits, KeepC
  <2>4. ~shut'["C"] BY DEF ClientPart, ClientEchoes, KeepC
  <2> QED BY <2>1, <2>2, <2>3, <2>4 DEF ClientEchoes
<1>5. pair = "mp" => ClientParent'
  <2> SUFFICES ASSUME pair = "mp" PROVE ClientParent' OBVIOUS
  <2>1. pcP["C"] = 2 /\ part["C"] = 0 /\ hold["W"] = 0 /\ WriterAt BY DEF ClientPart, ClientParent
  <2>2. \A j \in Nat : WriterRound(j) => WriterRound(j)'
    <3> SUFFICES ASSUME NEW j \in Nat, WriterRound(j) PROVE WriterRound(j)' OBVIOUS
    <3> QED BY <1>1 DEF WriterRound, KeepC, KeepW
  <2>3. CASE stP["W"] = "run" /\ ~shut["C"] /\ pcP["W"] = 1 /\ part["W"] = 0 /\ ToS = 0
    BY <2>1, <2>3 DEF ClientParent, WriterAt, KeepC, KeepW
  <2>4. CASE stP["W"] = "run" /\ ~shut["C"] /\ \E j \in Nat : WriterRound(j)
    <3>1. \E j \in Nat : WriterRound(j)' BY <2>2, <2>4
    <3>2. WriterAt' BY <2>4, <3>1 DEF WriterAt, KeepC, KeepW
    <3> QED BY <2>1, <3>2 DEF ClientParent, KeepC, KeepW
  <2>5. CASE WriterStops /\ ToS = Rounds * m
    <3>1. WriterStops' BY <2>5 DEF WriterStops, KeepC, KeepW
    <3> QED BY <1>1, <2>1, <2>5, <3>1 DEF ClientParent, WriterAt, KeepC, KeepW
  <2> QED BY <2>1, <2>3, <2>4, <2>5 DEF WriterAt
<1> QED BY <1>1, <1>2, <1>3, <1>4, <1>5 DEF ClientPart

\* A step that leaves the connection as it is.
LEMMA ConnectionKept ==
  ASSUME Connection, Quiet, hold'["C"] = hold["C"] PROVE Connection'
BY DEF Connection, Quiet, PSame
\* The parts of Live, one by one, give the invariant.
LEMMA LiveKept ==
  ASSUME PLocal', PTcp', PSame, pair # "op", ~Cut, Connection', net' = (IF pcP'["S"] = 2 THEN "queued" ELSE "up"),
         ServerPart', ClientPart'
  PROVE  PInv'
<1>1. pair' = pair /\ Cut' = Cut BY KindsStay
<1>2. Live' BY <1>1 DEF Live
<1> QED BY <1>2 DEF PInv

\* accept().
LEMMA LiveAccept ==
  ASSUME PLocal, PTcp, Live, pcP["S"] = 2, P!Proc("S") PROVE PInv'
<1> USE DEF P!Procs
<1>1. hold["S"] = 0
  <2>1. CASE Echoing
    <3>1. ServerEchoes BY <2>1 DEF Live, ServerPart
    <3> QED BY <3>1 DEF ServerEchoes, PLocal, PTcp, ToC, P!Ends
  <2>2. CASE ~Echoing BY <2>2 DEF Live, ServerPart, ServerSends
  <2> QED BY <2>1, <2>2
<1>2. PSame /\ P!AcceptStep("S") BY <1>1, FirstCalls, OtherCalls
<1>3. /\ net' = "up" /\ P!Advance("S") /\ stP' = stP /\ hold' = hold /\ got' = got /\ rx' = rx /\ fin' = fin
      /\ err' = err /\ open' = open /\ shut' = shut
  BY <1>2 DEF P!AcceptStep, P!Alive, P!tcp
<1>4. pcP' = [pcP EXCEPT !["S"] = 3] /\ part' = [part EXCEPT !["S"] = 0]
  BY <1>3 DEF P!Advance, PLocal
<1>5. /\ pcP'["S"] = 3 /\ pcP'["C"] = pcP["C"] /\ pcP'["W"] = pcP["W"]
      /\ part'["S"] = 0 /\ part'["C"] = part["C"] /\ part'["W"] = part["W"]
  BY <1>4 DEF PLocal
<1>6. PLocal' /\ PTcp' BY <1>2, <1>3, <1>4 DEF PLocal, PTcp, PSame
<1>7. Connection' BY <1>2, <1>3 DEF Live, Connection, PSame
<1>8. KeepC /\ KeepW BY <1>3, <1>5 DEF KeepC, KeepW, ToS
<1>9. ClientPart' BY <1>2, <1>8, ClientKept DEF Live
<1>10. m \in Nat /\ m > 0 BY DEF PLocal
<1>11. ToC' = ToC BY <1>3 DEF ToC
<1>12. OneWay' = OneWay /\ Echoing' = Echoing /\ pair' = pair /\ m' = m BY <1>2, KindsStay
<1>13. ServerPart'
  <2>1. CASE Echoing
    <3>1. ServerEchoes BY <2>1 DEF Live, ServerPart
    <3>2. part["S"] \in Nat /\ got["S"] \in Nat /\ ToC \in Nat BY DEF PLocal, PTcp, ToC, P!Ends
    <3>3. part["S"] = 0 BY <1>1, <3>1, <3>2 DEF ServerEchoes
    <3>4. ServerEchoes' BY <1>1, <1>3, <1>5, <1>10, <1>11, <1>12, <3>1, <3>3 DEF ServerEchoes
    <3> QED BY <1>12, <2>1, <3>4 DEF ServerPart
  <2>2. CASE ~Echoing
    <3>1. ServerSends BY <2>2 DEF Live, ServerPart
    <3>2. ServerSends' BY <1>3, <1>5, <1>10, <1>11, <1>12, <3>1 DEF ServerSends
    <3> QED BY <1>12, <2>2, <3>2 DEF ServerPart
  <2> QED BY <2>1, <2>2
<1> QED BY <1>2, <1>3, <1>5, <1>6, <1>7, <1>9, <1>13, LiveKept DEF Live

\* The server that sends writes.
LEMMA LiveSends ==
  ASSUME PLocal, PTcp, Live, OneWay \/ TwoWay, pcP["S"] = 3, P!Proc("S") PROVE PInv'
<1> USE DEF P!Procs, P!Ends
<1>1. ~Echoing /\ pair # "op" BY DEF Echoing, OneWay, TwoWay
<1>2. ServerSends /\ Connection BY <1>1 DEF Live, ServerPart
<1>3. WritesSome("S", "C", m)
  <2>1. IsCall("S", "write", m, "next", "next") BY SenderCalls
  <2>2. /\ "S" \in P!Procs /\ "S" \in P!Ends /\ "C" \in P!Ends /\ P!End("S") = "S" /\ P!Peer("S") = "C" /\ m \in Nat
        /\ stP["S"] = "run" /\ hold["S"] = 0 /\ part["S"] < m /\ ~shut["S"] /\ err["S"] = "ok" /\ open["C"]
    <3>1. shut["S"] <=> pcP["S"] = 5 BY <1>2 DEF ServerSends
    <3>2. ~shut["S"] BY <3>1
    <3> QED BY <1>2, <3>2 DEF Connection, ServerSends, P!End, P!Peer, PLocal
  <2> QED BY <2>1, <2>2, CallWrites
<1>4. PICK k : Writes("S", "C", k, m) BY <1>3 DEF WritesSome
<1>5. PLocal' /\ PTcp' BY <1>3 DEF WritesSome
<1>6. k \in Nat /\ k > 0 /\ got' = got /\ hold' = hold /\ Quiet /\ rx'["S"] = rx["S"] /\ rx'["C"] = rx["C"] + k
  BY <1>4 DEF Writes, PTcp
<1>7. PSame /\ stP' = stP /\ net' = net /\ shut' = shut BY <1>6 DEF Quiet
<1>8. /\ pcP'["C"] = pcP["C"] /\ pcP'["W"] = pcP["W"] /\ part'["C"] = part["C"] /\ part'["W"] = part["W"]
      /\ \/ part["S"] + k = m /\ pcP'["S"] = 4 /\ part'["S"] = 0
         \/ part["S"] + k < m /\ pcP'["S"] = 3 /\ part'["S"] = part["S"] + k
  BY <1>4 DEF Writes, Moves, PLocal
<1>9. Connection' BY <1>2, <1>6, ConnectionKept
<1>10. ClientPart'
  <2>1. KeepC /\ KeepW BY <1>6, <1>7, <1>8 DEF KeepC, KeepW, ToS
  <2> QED BY <1>7, <2>1, ClientKept DEF Live
<1>11. ServerPart'
  <2>1. m' = m /\ OneWay' = OneWay /\ Echoing' = Echoing BY <1>7, KindsStay
  <2>2. ToC = part["S"] /\ part["S"] \in Nat /\ m \in Nat /\ rx["C"] \in Nat /\ got["C"] \in Nat
    BY <1>2 DEF ServerSends, PLocal, PTcp
  <2>3. ToC' = part["S"] + k BY <1>6, <2>2 DEF ToC
  <2>4. ServerSends' BY <1>2, <1>6, <1>7, <1>8, <2>1, <2>2, <2>3 DEF ServerSends
  <2> QED BY <1>1, <2>1, <2>4 DEF ServerPart
<1> QED BY <1>1, <1>5, <1>7, <1>8, <1>9, <1>10, <1>11, LiveKept DEF Live

\* It closes one direction.
LEMMA LiveHalfClose ==
  ASSUME PLocal, PTcp, Live, TwoWay, pcP["S"] = 4, P!Proc("S") PROVE PInv'
<1> USE DEF P!Procs, P!Ends
<1>1. ~Echoing /\ ~OneWay /\ pair # "op" BY DEF Echoing, OneWay, TwoWay
<1>2. ServerSends /\ Connection /\ ClientThanks BY <1>1 DEF Live, ServerPart, ClientPart
<1>3. PSame /\ P!ShutdownStep("S")
  <2>1. IsCall("S", "shutdown", 0, "next", "next") BY SenderCalls
  <2> QED BY <1>2, <2>1, OtherCalls DEF ServerSends
<1>4. /\ P!Advance("S") /\ stP' = stP /\ hold' = hold /\ got' = got /\ rx' = rx /\ err' = err /\ open' = open
      /\ net' = net /\ shut' = [shut EXCEPT !["S"] = TRUE] /\ fin' = [fin EXCEPT !["C"] = TRUE]
  BY <1>3 DEF P!ShutdownStep, P!Alive, P!End, P!Peer
<1>5. pcP' = [pcP EXCEPT !["S"] = 5] /\ part' = [part EXCEPT !["S"] = 0] BY <1>4 DEF P!Advance, PLocal
<1>6. /\ pcP'["S"] = 5 /\ pcP'["C"] = pcP["C"] /\ pcP'["W"] = pcP["W"]
      /\ part'["S"] = 0 /\ part'["C"] = part["C"] /\ part'["W"] = part["W"]
  BY <1>5 DEF PLocal
<1>7. shut'["S"] = TRUE /\ shut'["C"] = shut["C"] /\ fin'["C"] = TRUE /\ fin'["S"] = fin["S"] BY <1>4 DEF PTcp
<1>8. PLocal' /\ PTcp' BY <1>3, <1>4, <1>5 DEF PLocal, PTcp, PSame
<1>9. Connection' BY <1>2, <1>3, <1>4, <1>7 DEF Connection, PSame
<1>10. ClientPart'
  <2>1. KeepC /\ KeepW BY <1>4, <1>6, <1>7 DEF KeepC, KeepW, ToS
  <2> QED BY <1>3, <2>1, ClientKept DEF Live
<1>11. ServerPart'
  <2>1. m' = m /\ OneWay' = OneWay /\ Echoing' = Echoing /\ P!Thanks' = 2 BY <1>3, KindsStay, PConstants
  <2>2. ToC' = ToC /\ ToC = m /\ got["S"] = 0 BY <1>2, <1>4 DEF ToC, ServerSends
  <2>3. hold'["S"] = 0 /\ got'["S"] = 0 /\ (shut'["S"] <=> pcP'["S"] = 5) /\ pcP'["S"] \in 2..5
    BY <1>2, <1>4, <1>6, <1>7, <2>2 DEF ServerSends
  <2>4. ServerSends' BY <1>1, <1>6, <2>1, <2>2, <2>3 DEF ServerSends
  <2> QED BY <1>1, <2>1, <2>4 DEF ServerPart
<1>12. net' = "up" BY <1>4 DEF Live
<1> QED BY <1>1, <1>3, <1>6, <1>8, <1>9, <1>10, <1>11, <1>12, LiveKept DEF Live

\* Both have read what they will.
LEMMA OverReached ==
  ASSUME PLocal', PSame, OneWay \/ TwoWay \/ Echoing, IF pair = "mp" THEN pcP'["W"] > 0 ELSE stP'["W"] = "done",
         pcP'["S"] > LastRead("S"), got'["S"] \in P!Promise("S"),
         pcP'["C"] > LastRead("C"), got'["C"] \in P!Promise("C")
  PROVE  PInv'
<1>1. /\ OneWay' = OneWay /\ TwoWay' = TwoWay /\ Echoing' = Echoing /\ pair' = pair
      /\ P!Promise("S")' = P!Promise("S") /\ P!Promise("C")' = P!Promise("C")
      /\ LastRead("S")' = LastRead("S") /\ LastRead("C")' = LastRead("C")
  BY KindsStay
<1>2. Finished("S")' /\ Finished("C")' BY <1>1 DEF Finished
<1>3. pcP' \in [P!Procs -> Nat] /\ DOMAIN stP' = P!Procs /\ m' \in Nat \ {0} BY DEF PLocal
<1>4. Over' BY <1>1, <1>2, <1>3 DEF Over
<1> QED BY <1>4 DEF PInv

\* What file_server.c and sep_server.c read is the end of their work.
ReadsThanks(k) ==
  /\ k \in Nat /\ k > 0 /\ rx'["S"] = rx["S"] - k /\ got'["S"] = got["S"] + k /\ got'["C"] = got["C"]
  /\ rx'["C"] = rx["C"] /\ k <= rx["S"]
  /\ Quiet /\ hold' = hold /\ PLocal' /\ PTcp'
  /\ pcP'["C"] = pcP["C"] /\ pcP'["W"] = pcP["W"] /\ part'["C"] = part["C"] /\ part'["W"] = part["W"]
  /\ \/ pcP'["S"] = 6 /\ (IF pair = "file" THEN got'["S"] \in 1..P!Thanks ELSE got'["S"] = P!Thanks)
     \/ pcP'["S"] = 5 /\ pair = "sep" /\ part'["S"] = part["S"] + k /\ part'["S"] < P!Thanks
\* A step of those two servers in their last read() is such a read.
LEMMA ThanksRead ==
  ASSUME PLocal, PTcp, TwoWay, stP["S"] = "run", pcP["S"] = 5, hold["S"] = 0, err["S"] = "ok",
         rx["S"] > 0 \/ ~fin["S"], got["S"] = part["S"], part["S"] < P!Thanks, pair = "file" => part["S"] = 0, P!Proc("S")
  PROVE  \E k : ReadsThanks(k)
<1> USE DEF P!Procs, P!Ends
<1>1. /\ "S" \in P!Procs /\ "S" \in P!Ends /\ P!End("S") = "S" /\ P!Thanks \in Nat /\ P!Thanks = 2
      /\ part["S"] \in Nat /\ rx["S"] \in Nat
  BY PConstants DEF P!End, PLocal, PTcp
<1>2. ~SeesNothing("S") BY <1>1 DEF SeesNothing
<1>3. CASE pair = "file"
  <2>1. IsCall("S", "once", P!Thanks, "next", "next") BY <1>3, SenderCalls
  <2>2. "once" \in {"once", "exact", "all", "echo", "line"} OBVIOUS
  <2>3. ReadsSome("S", "S", "once", P!Thanks) \/ EndRead("S", "S", "next") BY <1>1, <2>1, <2>2, CallTakes
  <2>4. PICK k : Takes("S", "S", k, P!Thanks) /\ Keeps("S", "once", k, P!Thanks)
    BY <1>2, <2>3 DEF ReadsSome, EndRead
  <2>5. PLocal' /\ PTcp' BY <1>2, <2>3 DEF ReadsSome, EndRead
  <2>6. Moves("S") /\ hold' = hold BY <2>4 DEF Keeps
  <2>7. /\ k \in Nat /\ k > 0 /\ rx'["S"] = rx["S"] - k /\ got'["S"] = got["S"] + k /\ got'["C"] = got["C"]
        /\ rx'["C"] = rx["C"] /\ Quiet /\ k <= rx["S"] /\ k <= P!Thanks - part["S"]
    BY <2>4 DEF Takes, PLocal, PTcp
  <2>8. /\ pcP'["S"] = 6 /\ pcP'["C"] = pcP["C"] /\ pcP'["W"] = pcP["W"]
        /\ part'["C"] = part["C"] /\ part'["W"] = part["W"]
    BY <2>6 DEF Moves, PLocal
  <2>9. got'["S"] \in 1..P!Thanks BY <1>1, <1>3, <2>7
  <2>10. ReadsThanks(k) BY <1>3, <2>5, <2>6, <2>7, <2>8, <2>9 DEF ReadsThanks
  <2> QED BY <2>10
<1>4. CASE pair = "sep"
  <2>1. IsCall("S", "exact", P!Thanks, "next", "next") BY <1>4, SenderCalls
  <2>2. "exact" \in {"once", "exact", "all", "echo", "line"} OBVIOUS
  <2>3. ReadsSome("S", "S", "exact", P!Thanks) \/ EndRead("S", "S", "next") BY <1>1, <2>1, <2>2, CallTakes
  <2>4. PICK k : Takes("S", "S", k, P!Thanks) /\ Keeps("S", "exact", k, P!Thanks)
    BY <1>2, <2>3 DEF ReadsSome, EndRead
  <2>5. PLocal' /\ PTcp' BY <1>2, <2>3 DEF ReadsSome, EndRead
  <2>6. /\ hold' = hold
        /\ IF part["S"] + k = P!Thanks THEN Moves("S") ELSE pcP' = pcP /\ part' = [part EXCEPT !["S"] = @ + k]
    BY <2>4 DEF Keeps
  <2>7. /\ k \in Nat /\ k > 0 /\ rx'["S"] = rx["S"] - k /\ got'["S"] = got["S"] + k /\ got'["C"] = got["C"]
        /\ rx'["C"] = rx["C"] /\ Quiet /\ k <= rx["S"] /\ k <= P!Thanks - part["S"]
    BY <2>4 DEF Takes, PLocal, PTcp
  <2>8. /\ pcP'["C"] = pcP["C"] /\ pcP'["W"] = pcP["W"] /\ part'["C"] = part["C"] /\ part'["W"] = part["W"]
        /\ IF part["S"] + k = P!Thanks THEN pcP'["S"] = 6 ELSE pcP'["S"] = 5 /\ part'["S"] = part["S"] + k
    BY <2>6 DEF Moves, PLocal
  <2>9. \/ pcP'["S"] = 6 /\ got'["S"] = P!Thanks
        \/ pcP'["S"] = 5 /\ part'["S"] = part["S"] + k /\ part'["S"] < P!Thanks
    BY <1>1, <2>7, <2>8
  <2>10. ReadsThanks(k) BY <1>4, <2>5, <2>6, <2>7, <2>8, <2>9 DEF ReadsThanks
  <2> QED BY <2>10
<1> QED BY <1>3, <1>4 DEF TwoWay

\* They read while the client is connected.
LEMMA LiveReadsThanks ==
  ASSUME PLocal, PTcp, Live, TwoWay, pcP["S"] = 5, P!Proc("S") PROVE PInv'
<1> USE DEF P!Procs, P!Ends
<1>1. ~Echoing /\ ~OneWay /\ pair # "op" /\ pair # "mp" BY DEF Echoing, OneWay, TwoWay
<1>2. ServerSends /\ Connection /\ ClientThanks BY <1>1 DEF Live, ServerPart, ClientPart
<1>3. \E k : ReadsThanks(k)
  <2>1. /\ stP["S"] = "run" /\ hold["S"] = 0 /\ err["S"] = "ok" /\ fin["S"] = shut["C"] /\ ~shut["C"]
        /\ got["S"] = part["S"] /\ part["S"] < P!Thanks /\ (pair = "file" => part["S"] = 0)
    BY <1>2 DEF ServerSends, ClientThanks, Connection
  <2>2. rx["S"] > 0 \/ ~fin["S"] BY <2>1
  <2> QED BY <2>1, <2>2, ThanksRead
<1>4. PICK k : ReadsThanks(k) BY <1>3
<1>5. /\ k \in Nat /\ k > 0 /\ rx'["S"] = rx["S"] - k /\ got'["S"] = got["S"] + k /\ got'["C"] = got["C"]
      /\ rx'["C"] = rx["C"] /\ k <= rx["S"] /\ Quiet /\ hold' = hold /\ PLocal' /\ PTcp'
      /\ pcP'["C"] = pcP["C"] /\ pcP'["W"] = pcP["W"] /\ part'["C"] = part["C"] /\ part'["W"] = part["W"]
  BY <1>4 DEF ReadsThanks
<1>6. rx["S"] \in Nat /\ got["S"] \in Nat /\ pcP["C"] \in Nat /\ P!Thanks = 2 BY PConstants DEF PTcp, PLocal
<1>7. ToS' = ToS /\ ToS > 0 BY <1>5, <1>6 DEF ToS
<1>8. pcP["C"] > 2 /\ got["C"] = m BY <1>2, <1>7 DEF ClientThanks
<1>9. PSame /\ stP' = stP /\ net' = net /\ shut' = shut /\ stP["W"] = "done"
  BY <1>1, <1>2, <1>5 DEF Quiet, Connection
<1>10. CASE pcP'["S"] = 6 /\ (IF pair = "file" THEN got'["S"] \in 1..P!Thanks ELSE got'["S"] = P!Thanks)
  <2>1. LastRead("S") = 5 /\ LastRead("C") = 2 BY <1>1 DEF LastRead
  <2>2. got'["S"] \in P!Promise("S") /\ m \in P!Promise("C")
    BY <1>10 DEF P!Promise, TwoWay
  <2> QED BY <1>1, <1>5, <1>6, <1>8, <1>9, <1>10, <2>1, <2>2, OverReached
<1>11. CASE pcP'["S"] = 5 /\ pair = "sep" /\ part'["S"] = part["S"] + k /\ part'["S"] < P!Thanks
  <2>1. Connection' BY <1>2, <1>5, ConnectionKept
  <2>2. ClientPart'
    <3>1. KeepC /\ KeepW BY <1>5, <1>7, <1>9 DEF KeepC, KeepW
    <3> QED BY <1>9, <1>11, <3>1, ClientKept DEF Live
  <2>3. ServerPart'
    <3>1. m' = m /\ pair' = pair /\ OneWay' = OneWay /\ Echoing' = Echoing /\ P!Thanks' = P!Thanks BY <1>9, KindsStay
    <3>2. ToC' = ToC /\ ToC = m BY <1>2, <1>5 DEF ToC, ServerSends
    <3>3. got'["S"] = part'["S"] /\ hold'["S"] = 0 /\ (shut'["S"] <=> pcP'["S"] = 5)
      BY <1>2, <1>5, <1>9, <1>11 DEF ServerSends
    <3>4. ServerSends' BY <1>1, <1>11, <3>1, <3>2, <3>3 DEF ServerSends
    <3> QED BY <1>1, <3>1, <3>4 DEF ServerPart
  <2>4. net' = "up" BY <1>9 DEF Live
  <2> QED BY <1>1, <1>5, <1>9, <1>11, <2>1, <2>2, <2>3, <2>4, LiveKept DEF Live
<1> QED BY <1>4, <1>10, <1>11 DEF ReadsThanks

\* The server closes a connection on which it has read everything.
ServerCloses ==
  /\ PSame /\ stP' = [stP EXCEPT !["S"] = "done"] /\ pcP' = pcP /\ part' = part /\ hold' = hold /\ got' = got
  /\ rx' = rx /\ err' = err /\ shut' = shut /\ PLocal' /\ PTcp'
\* A server that has read everything and returns closes its end so.
LEMMA ServerReturns ==
  ASSUME PLocal, PTcp, NEW N \in Nat, Len(P!Script("S")) = N, pcP["S"] > N, hold["S"] = 0, rx["S"] = 0, err["C"] = "ok",
         net = "up", open["S"], P!Proc("S")
  PROVE  ServerCloses
<1> USE DEF P!Procs, P!Ends
<1>1. PSame /\ P!Return("S") BY AfterCalls
<1>2. P!EndProcess("S", "done") /\ pcP' = pcP /\ part' = part /\ hold' = hold /\ got' = got BY <1>1 DEF P!Return
<1>3. stP' = [stP EXCEPT !["S"] = "done"] /\ P!CloseEnd("S") BY <1>2 DEF P!EndProcess, P!End
<1>4. /\ open' = [open EXCEPT !["S"] = FALSE] /\ fin' = [fin EXCEPT !["C"] = TRUE]
      /\ err' = [err EXCEPT !["C"] = "ok"] /\ rx' = [rx EXCEPT !["S"] = 0] /\ shut' = shut
  <2>1. ~(rx["S"] > 0 \/ ("S" = "S" /\ net = "queued")) /\ P!Peer("S") = "C" BY DEF P!Peer
  <2>2. fin' = [fin EXCEPT !["C"] = TRUE] /\ err' = [err EXCEPT !["C"] = @] BY <1>3, <2>1 DEF P!CloseEnd
  <2> QED BY <1>3, <2>2 DEF P!CloseEnd, PTcp
<1>5. rx' = rx /\ err' = err BY <1>4 DEF PTcp
<1>6. PTcp' BY <1>4, <1>5 DEF PTcp
<1>7. PLocal' BY <1>1, <1>2, <1>3 DEF PLocal, PSame
<1> QED BY <1>1, <1>2, <1>3, <1>4, <1>5, <1>6, <1>7 DEF ServerCloses

\* With that a one-way server, or mpserver.c, leaves Live for ToClient.
LEMMA LiveReturns ==
  ASSUME PLocal, PTcp, Live, OneWay \/ pair = "mp", pcP["S"] = 4, P!Proc("S") PROVE PInv'
<1> USE DEF P!Procs, P!Ends
<1>1. /\ Rounds \in Nat /\ m \in Nat /\ rx["S"] \in Nat /\ got["S"] \in Nat /\ rx["C"] \in Nat /\ got["C"] \in Nat
      /\ part["S"] \in Nat /\ hold["S"] \in Nat /\ Rounds * m \in Nat
  BY PConstants DEF PLocal, PTcp
<1>2. Connection /\ net = "up" BY DEF Live
<1>3. stP["C"] = "run" /\ open["S"] /\ err["C"] = "ok" /\ hold["C"] = 0 BY <1>2 DEF Connection
<1>4. CASE OneWay
  <2>1. ~Echoing /\ ~TwoWay /\ pair # "mp" BY <1>4 DEF OneWay, Echoing, TwoWay
  <2>2. ServerSends /\ ClientReads BY <1>4, <2>1 DEF Live, ServerPart, ClientPart
  <2>3. /\ hold["S"] = 0 /\ ToC = m /\ got["S"] = 0 /\ ToS = 0 /\ pcP["C"] = 2 /\ part["C"] = 0
        /\ (pair = "hello" => got["C"] = 0)
    BY <2>2 DEF ServerSends, ClientReads
  <2>4. rx["S"] = 0 BY <1>1, <2>3 DEF ToS
  <2>5. Len(P!Script("S")) = 3 /\ 3 \in Nat /\ pcP["S"] > 3 BY <1>4, SenderCalls
  <2>6. ServerCloses BY <1>2, <1>3, <2>3, <2>4, <2>5, ServerReturns
  <2>7. /\ PSame /\ stP'["S"] = "done" /\ stP'["C"] = "run" /\ stP'["W"] = stP["W"]
        /\ pcP' = pcP /\ part' = part /\ hold' = hold /\ got' = got /\ err' = err /\ rx' = rx /\ PLocal' /\ PTcp'
    BY <1>3, <2>6 DEF ServerCloses, PLocal
  <2>8. LastRead("S") = 0 /\ 0 \in P!Promise("S") BY <1>4 DEF LastRead, P!Promise, OneWay
  <2>9. /\ OneWay' = OneWay /\ pair' = pair /\ m' = m /\ P!Promise("S")' = P!Promise("S")
        /\ LastRead("S")' = LastRead("S") /\ ToC' = ToC
    <3>1. ToC' = ToC BY <2>7 DEF ToC
    <3> QED BY <2>7, <3>1, KindsStay
  <2>10. Finished("S")'
    <3>1. pcP'["S"] > LastRead("S") /\ got'["S"] \in P!Promise("S") BY <2>3, <2>7, <2>8
    <3> QED BY <2>9, <3>1 DEF Finished
  <2>11. stP["W"] = "done" BY <1>2, <2>1 DEF Connection
  <2>12. ToClient' BY <1>3, <1>4, <2>1, <2>3, <2>7, <2>9, <2>10, <2>11 DEF ToClient
  <2> QED BY <2>7, <2>12 DEF PInv
<1>5. CASE pair = "mp"
  <2>1. Echoing /\ ~OneWay /\ ~TwoWay /\ ~EchoPair BY <1>5 DEF OneWay, Echoing, TwoWay, EchoPair
  <2>2. ServerEchoes /\ ClientParent BY <1>5, <2>1 DEF Live, ServerPart, ClientPart
  <2>3. /\ hold["S"] = 0 /\ got["S"] = Rounds * m /\ shut["C"] /\ pcP["C"] = 2 /\ part["C"] = 0 /\ hold["W"] = 0
        /\ part["S"] = 0 /\ ToC + hold["S"] + part["S"] = got["S"]
    BY <1>5, <2>2 DEF ServerEchoes, ClientParent
  <2>4. WriterStops /\ ToS = Rounds * m BY <2>2, <2>3 DEF ClientParent, WriterAt
  <2>5. rx["S"] = 0 BY <1>1, <2>3, <2>4 DEF ToS
  <2>6. ToC = Rounds * m BY <1>1, <2>3 DEF ToC
  <2>7. Len(P!Script("S")) = 3 /\ 3 \in Nat /\ pcP["S"] > 3 BY <1>5, <2>1, EchoerCalls
  <2>8. ServerCloses BY <1>2, <1>3, <2>3, <2>5, <2>7, ServerReturns
  <2>9. /\ PSame /\ stP'["S"] = "done" /\ stP'["C"] = "run" /\ stP'["W"] = stP["W"] /\ shut' = shut
        /\ pcP' = pcP /\ part' = part /\ hold' = hold /\ got' = got /\ err' = err /\ rx' = rx /\ PLocal' /\ PTcp'
    BY <1>3, <2>8 DEF ServerCloses, PLocal
  <2>10. LastRead("S") = 3 /\ Rounds * m \in P!Promise("S") BY <1>5, <2>1 DEF LastRead, P!Promise
  <2>11. /\ OneWay' = OneWay /\ pair' = pair /\ m' = m /\ P!Promise("S")' = P!Promise("S")
        /\ LastRead("S")' = LastRead("S") /\ ToC' = ToC
    <3>1. ToC' = ToC BY <2>9 DEF ToC
    <3> QED BY <2>9, <3>1, KindsStay
  <2>12. Finished("S")'
    <3>1. pcP'["S"] > LastRead("S") /\ got'["S"] \in P!Promise("S") BY <2>3, <2>9, <2>10
    <3> QED BY <2>11, <3>1 DEF Finished
  <2>13. WriterStops' BY <2>4, <2>9 DEF WriterStops
  <2>14. ToClient' BY <1>3, <1>5, <2>1, <2>3, <2>6, <2>9, <2>11, <2>12, <2>13 DEF ToClient
  <2> QED BY <2>9, <2>14 DEF PInv
<1> QED BY <1>4, <1>5

\* The echo server writes what it holds.
LEMMA LiveEchoes ==
  ASSUME PLocal, PTcp, Live, Echoing, pcP["S"] = 3, hold["S"] > 0, P!Proc("S") PROVE PInv'
<1> USE DEF P!Procs, P!Ends
<1>1. pair # "op" BY DEF Echoing
<1>2. ServerEchoes /\ Connection BY DEF Live, ServerPart
<1>3. EchoesSome("S", "C")
  <2>1. /\ "S" \in P!Procs /\ "S" \in P!Ends /\ "C" \in P!Ends /\ P!End("S") = "S" /\ P!Peer("S") = "C"
        /\ stP["S"] = "run" /\ ~shut["S"] /\ err["S"] = "ok" /\ open["C"]
    BY <1>2 DEF Connection, ServerEchoes, P!End, P!Peer
  <2>2. CASE pair # "std"
    <3>1. IsCall("S", "echo", BufSize, "next", "again") /\ "echo" \in {"echo", "line"} BY <2>2, EchoerCalls
    <3> QED BY <2>1, <3>1, CallEchoes
  <2>3. CASE pair = "std"
    <3>1. IsCall("S", "line", m, "next", "line") /\ "line" \in {"echo", "line"} BY <2>3, EchoerCalls
    <3> QED BY <2>1, <3>1, CallEchoes
  <2> QED BY <2>2, <2>3
<1>4. PICK k : Echoes("S", "C", k) BY <1>3 DEF EchoesSome
<1>5. PLocal' /\ PTcp' BY <1>3 DEF EchoesSome
<1>6. /\ k \in Nat /\ k <= hold["S"] /\ got' = got /\ pcP' = pcP /\ part' = part /\ Quiet
      /\ hold'["S"] = hold["S"] - k /\ hold'["C"] = hold["C"] /\ hold'["W"] = hold["W"]
      /\ rx'["S"] = rx["S"] /\ rx'["C"] = rx["C"] + k
  BY <1>4 DEF Echoes, PTcp, PLocal
<1>7. PSame /\ stP' = stP /\ net' = net /\ shut' = shut BY <1>6 DEF Quiet
<1>8. Connection' BY <1>2, <1>6, ConnectionKept
<1>9. ClientPart'
  <2>1. KeepC /\ KeepW BY <1>6, <1>7 DEF KeepC, KeepW, ToS
  <2> QED BY <1>6, <1>7, <2>1, ClientKept DEF Live
<1>10. ServerPart'
  <2>1. pair' = pair /\ m' = m /\ Echoing' = Echoing BY <1>7, KindsStay
  <2>2. part["S"] \in Nat /\ hold["S"] \in Nat /\ rx["C"] \in Nat /\ got["C"] \in Nat BY DEF PLocal, PTcp
  <2>3. ToC' = ToC + k /\ ToC \in Nat BY <1>6, <2>2 DEF ToC
  <2>4. ToC' + hold'["S"] + part'["S"] = got'["S"] BY <1>2, <1>6, <2>2, <2>3 DEF ServerEchoes
  <2>5. ServerEchoes' BY <1>2, <1>6, <1>7, <2>1, <2>4 DEF ServerEchoes
  <2> QED BY <2>1, <2>5 DEF ServerPart
<1> QED BY <1>1, <1>5, <1>6, <1>7, <1>8, <1>9, <1>10, LiveKept DEF Live

\* It reads.
EchoRead(k) ==
  /\ k \in Nat /\ k > 0 /\ rx'["S"] = rx["S"] - k /\ k <= rx["S"] /\ got'["S"] = got["S"] + k
  /\ got'["C"] = got["C"] /\ rx'["C"] = rx["C"] /\ Quiet /\ PLocal' /\ PTcp' /\ pcP' = pcP
  /\ part'["C"] = part["C"] /\ part'["W"] = part["W"] /\ hold'["C"] = hold["C"] /\ hold'["W"] = hold["W"]
  /\ hold'["S"] + part'["S"] = part["S"] + k
  /\ IF pair = "std" THEN part'["S"] < m ELSE part'["S"] = 0
EchoEnd == SeesNothing("S") /\ SeesEnd("S", "S") /\ PLocal' /\ PTcp'
\* A step of an echo server that holds nothing reads or meets the end.
LEMMA EchoServerReads ==
  ASSUME PLocal, PTcp, Echoing, stP["S"] = "run", pcP["S"] = 3, hold["S"] = 0, err["S"] = "ok",
         IF pair = "std" THEN part["S"] < m ELSE part["S"] = 0, P!Proc("S")
  PROVE  (\E k : EchoRead(k)) \/ EchoEnd
<1> USE DEF P!Procs, P!Ends
<1>1. /\ "S" \in P!Procs /\ "S" \in P!Ends /\ P!End("S") = "S" /\ part["S"] \in Nat /\ m \in Nat /\ BufSize \in Nat
      /\ m > 0
  BY PConstants DEF P!End, PLocal
<1>2. CASE pair # "std"
  <2>1. IsCall("S", "echo", BufSize, "next", "again") BY <1>2, EchoerCalls
  <2>2. "echo" \in {"once", "exact", "all", "echo", "line"} OBVIOUS
  <2>3. ReadsSome("S", "S", "echo", BufSize) \/ EndRead("S", "S", "next") BY <1>1, <2>1, <2>2, CallTakes
  <2>4. CASE EndRead("S", "S", "next") BY <2>4 DEF EndRead, EchoEnd
  <2>5. CASE ReadsSome("S", "S", "echo", BufSize)
    <3>1. PICK k : Takes("S", "S", k, BufSize) /\ Keeps("S", "echo", k, BufSize) BY <2>5 DEF ReadsSome
    <3>2. PLocal' /\ PTcp' BY <2>5 DEF ReadsSome
    <3>3. pcP' = pcP /\ part' = part /\ hold' = [hold EXCEPT !["S"] = k] BY <3>1 DEF Keeps
    <3>4. hold'["S"] = k /\ hold'["C"] = hold["C"] /\ hold'["W"] = hold["W"] BY <3>3 DEF PLocal
    <3>5. /\ k \in Nat /\ k > 0 /\ rx'["S"] = rx["S"] - k /\ k <= rx["S"] /\ got'["S"] = got["S"] + k
          /\ got'["C"] = got["C"] /\ rx'["C"] = rx["C"] /\ Quiet
      BY <3>1 DEF Takes, PLocal, PTcp
    <3>6. EchoRead(k) BY <1>1, <1>2, <3>2, <3>3, <3>4, <3>5 DEF EchoRead
    <3> QED BY <3>6
  <2> QED BY <2>3, <2>4, <2>5
<1>3. CASE pair = "std"
  <2>1. IsCall("S", "line", m, "next", "line") BY <1>3, EchoerCalls
  <2>2. "line" \in {"once", "exact", "all", "echo", "line"} OBVIOUS
  <2>3. ReadsSome("S", "S", "line", m) \/ EndRead("S", "S", "next") BY <1>1, <2>1, <2>2, CallTakes
  <2>4. CASE EndRead("S", "S", "next") BY <2>4 DEF EndRead, EchoEnd
  <2>5. CASE ReadsSome("S", "S", "line", m)
    <3>1. PICK k : Takes("S", "S", k, m) /\ Keeps("S", "line", k, m) BY <2>5 DEF ReadsSome
    <3>2. PLocal' /\ PTcp' BY <2>5 DEF ReadsSome
    <3>3. /\ pcP' = pcP
          /\ IF part["S"] + k = m
               THEN part' = [part EXCEPT !["S"] = 0] /\ hold' = [hold EXCEPT !["S"] = m]
               ELSE part' = [part EXCEPT !["S"] = @ + k] /\ hold' = hold
      BY <3>1 DEF Keeps
    <3>4. /\ hold'["C"] = hold["C"] /\ hold'["W"] = hold["W"] /\ part'["C"] = part["C"] /\ part'["W"] = part["W"]
          /\ IF part["S"] + k = m THEN part'["S"] = 0 /\ hold'["S"] = m ELSE part'["S"] = part["S"] + k /\ hold'["S"] = 0
      BY <3>3 DEF PLocal
    <3>5. /\ k \in Nat /\ k > 0 /\ rx'["S"] = rx["S"] - k /\ k <= rx["S"] /\ got'["S"] = got["S"] + k
          /\ got'["C"] = got["C"] /\ rx'["C"] = rx["C"] /\ Quiet /\ k <= m - part["S"]
      BY <3>1 DEF Takes, PLocal, PTcp
    <3>6. hold'["S"] + part'["S"] = part["S"] + k /\ part'["S"] < m BY <1>1, <3>4, <3>5
    <3>7. EchoRead(k) BY <1>3, <3>2, <3>3, <3>4, <3>5, <3>6 DEF EchoRead
    <3> QED BY <3>7
  <2> QED BY <2>3, <2>4, <2>5
<1> QED BY <1>2, <1>3

\* While the client is connected.
LEMMA LiveEchoReads ==
  ASSUME PLocal, PTcp, Live, Echoing, pcP["S"] = 3, hold["S"] = 0, P!Proc("S") PROVE PInv'
<1> USE DEF P!Procs, P!Ends
<1>1. pair # "op" /\ ~OneWay /\ ~TwoWay BY DEF Echoing, OneWay, TwoWay
<1>2. ServerEchoes /\ Connection BY DEF Live, ServerPart
<1>3. /\ rx["S"] \in Nat /\ got["S"] \in Nat /\ rx["C"] \in Nat /\ got["C"] \in Nat /\ part["S"] \in Nat
      /\ Rounds \in Nat /\ m \in Nat
  BY PConstants DEF PLocal, PTcp
<1>4. (\E k : EchoRead(k)) \/ EchoEnd
  <2>1. stP["S"] = "run" /\ err["S"] = "ok" /\ IF pair = "std" THEN part["S"] < m ELSE part["S"] = 0
    BY <1>2 DEF ServerEchoes, Connection
  <2> QED BY <2>1, EchoServerReads
<1>5. CASE \E k : EchoRead(k)
  <2>1. PICK k : EchoRead(k) BY <1>5
  <2>2. /\ k \in Nat /\ k > 0 /\ rx'["S"] = rx["S"] - k /\ k <= rx["S"] /\ got'["S"] = got["S"] + k
        /\ got'["C"] = got["C"] /\ rx'["C"] = rx["C"] /\ Quiet /\ PLocal' /\ PTcp' /\ pcP' = pcP
        /\ part'["C"] = part["C"] /\ part'["W"] = part["W"] /\ hold'["C"] = hold["C"] /\ hold'["W"] = hold["W"]
    BY <2>1 DEF EchoRead
  <2>3. PSame /\ stP' = stP /\ net' = net /\ shut' = shut BY <2>2 DEF Quiet
  <2>4. Connection' BY <1>2, <2>2, ConnectionKept
  <2>5. ToS' = ToS /\ ToC' = ToC /\ ToC \in Nat BY <1>3, <2>2 DEF ToS, ToC
  <2>6. ClientPart'
    <3>1. KeepC /\ KeepW BY <2>2, <2>3, <2>5 DEF KeepC, KeepW
    <3> QED BY <2>2, <2>3, <3>1, ClientKept DEF Live
  <2>7. ServerPart'
    <3>1. pair' = pair /\ m' = m /\ Echoing' = Echoing BY <2>3, KindsStay
    <3>2. ToC + part["S"] = got["S"] BY <1>2, <1>3, <2>5 DEF ServerEchoes
    <3>3. hold'["S"] \in Nat /\ part'["S"] \in Nat BY <2>2 DEF PLocal
    <3>4. ToC' + hold'["S"] + part'["S"] = got'["S"] BY <1>3, <2>1, <2>2, <2>5, <3>2, <3>3 DEF EchoRead
    <3>5. IF pair' = "std" THEN part'["S"] < m' ELSE part'["S"] = 0 BY <2>1, <3>1 DEF EchoRead
    <3>6. ServerEchoes' BY <1>2, <2>2, <2>3, <3>1, <3>4, <3>5 DEF ServerEchoes
    <3> QED BY <3>1, <3>6 DEF ServerPart
  <2> QED BY <1>1, <2>2, <2>3, <2>4, <2>6, <2>7, LiveKept DEF Live
<1>6. CASE EchoEnd
  <2>1. rx["S"] = 0 /\ fin["S"] /\ SeesEnd("S", "S") /\ PLocal' /\ PTcp' BY <1>6 DEF EchoEnd, SeesNothing
  <2>2. rx' = rx /\ got' = got /\ hold' = hold /\ Moves("S") /\ Quiet BY <2>1 DEF SeesEnd
  <2>3. /\ pcP'["S"] = 4 /\ pcP'["C"] = pcP["C"] /\ pcP'["W"] = pcP["W"]
        /\ part'["S"] = 0 /\ part'["C"] = part["C"] /\ part'["W"] = part["W"]
    BY <2>2 DEF Moves, PLocal
  <2>4. shut["C"] BY <1>2, <2>1 DEF Connection
  <2>5. pair = "mp"
    <3>1. ~EchoPair BY <2>4 DEF Live, ClientPart, ClientEchoes
    <3> QED BY <3>1 DEF EchoPair, Echoing
  <2>6. ToS = Rounds * m BY <2>4, <2>5 DEF Live, ClientPart, ClientParent, WriterAt
  <2>7. got["S"] = Rounds * m BY <1>3, <2>1, <2>6 DEF ToS
  <2>8. PSame /\ stP' = stP /\ net' = net /\ shut' = shut BY <2>2 DEF Quiet
  <2>9. Connection' BY <1>2, <2>2, ConnectionKept
  <2>10. ToS' = ToS /\ ToC' = ToC BY <2>2 DEF ToS, ToC
  <2>11. ClientPart'
    <3>1. KeepC /\ KeepW BY <2>2, <2>3, <2>8, <2>10 DEF KeepC, KeepW
    <3> QED BY <2>8, <3>1, ClientKept DEF Live
  <2>12. ServerPart'
    <3>1. pair' = pair /\ m' = m /\ Echoing' = Echoing BY <2>8, KindsStay
    <3>2. part["S"] = 0 BY <1>2, <2>5 DEF ServerEchoes
    <3>3. ServerEchoes' BY <1>2, <2>2, <2>3, <2>4, <2>5, <2>7, <2>8, <2>10, <3>1, <3>2 DEF ServerEchoes
    <3> QED BY <3>1, <3>3 DEF ServerPart
  <2>13. net' = "up" BY <2>8 DEF Live
  <2> QED BY <1>1, <2>1, <2>3, <2>8, <2>9, <2>11, <2>12, <2>13, LiveKept DEF Live
<1> QED BY <1>4, <1>5, <1>6

\* What the server does.
LEMMA LiveServer ==
  ASSUME PLocal, PTcp, Live, P!Proc("S") PROVE PInv'
<1>1. pair # "op" /\ ~Cut /\ ServerPart BY DEF Live
<1>2. OneWay \/ TwoWay \/ Echoing BY <1>1 DEF PLocal, OneWay, TwoWay, Echoing, Cut
<1>3. CASE Echoing
  <2>1. ServerEchoes BY <1>1, <1>3 DEF ServerPart
  <2>2. hold["S"] \in Nat BY DEF PLocal, P!Procs
  <2>3. pcP["S"] \in {2, 3, 4} /\ (pcP["S"] = 4 => pair = "mp") BY <2>1 DEF ServerEchoes
  <2> QED BY <1>3, <2>2, <2>3, LiveAccept, LiveEchoes, LiveEchoReads, LiveReturns
<1>4. CASE ~Echoing
  <2>1. ServerSends BY <1>1, <1>4 DEF ServerPart
  <2>2. pcP["S"] \in {2, 3, 4, 5} /\ (OneWay => pcP["S"] # 5) BY <2>1 DEF ServerSends
  <2> QED BY <1>2, <1>4, <2>2, LiveAccept, LiveSends, LiveHalfClose, LiveReadsThanks, LiveReturns
<1> QED BY <1>3, <1>4

\* A step of the client leaves the server's part alone.
LEMMA LiveKeptS ==
  ASSUME PLocal', PTcp', Live, Quiet, hold' = hold, KeepS, ClientPart' PROVE PInv'
<1>1. PSame /\ net' = net BY DEF Quiet
<1>2. Connection' BY ConnectionKept DEF Live
<1>3. ServerPart' BY <1>1, ServerKept DEF Live
<1> QED BY <1>1, <1>2, <1>3, LiveKept DEF Live, KeepS

\* The single read() of hello_client.c.
HelloRead(k) ==
  /\ k \in Nat /\ k > 0 /\ k <= rx["C"] /\ k <= m /\ got'["C"] = got["C"] + k /\ got'["S"] = got["S"]
  /\ pcP'["C"] = 3 /\ pcP'["S"] = pcP["S"] /\ Quiet /\ PLocal'
\* A step of hello_client.c in its read() is such a read.
LEMMA HelloReads ==
  ASSUME PLocal, PTcp, pair = "hello", stP["C"] = "run", pcP["C"] = 2, part["C"] = 0, hold["C"] = 0, err["C"] = "ok",
         rx["C"] > 0 \/ ~fin["C"], P!Proc("C")
  PROVE  \E k : HelloRead(k)
<1> USE DEF P!Procs, P!Ends
<1>1. "C" \in P!Procs /\ "C" \in P!Ends /\ P!End("C") = "C" /\ m \in Nat /\ rx["C"] \in Nat
  BY DEF P!End, PLocal, PTcp
<1>2. IsCall("C", "once", m, "next", "exit") BY ReaderCalls DEF OneWay
<1>3. "once" \in {"once", "exact", "all", "echo", "line"} OBVIOUS
<1>4. ReadsSome("C", "C", "once", m) \/ EndRead("C", "C", "next") BY <1>1, <1>2, <1>3, CallTakes
<1>5. ~EndRead("C", "C", "next") BY <1>1 DEF EndRead, SeesNothing
<1>6. PICK k : Takes("C", "C", k, m) /\ Keeps("C", "once", k, m) BY <1>4, <1>5 DEF ReadsSome
<1>7. Moves("C") BY <1>6 DEF Keeps
<1>8. pcP'["C"] = 3 /\ pcP'["S"] = pcP["S"] BY <1>7 DEF Moves, PLocal
<1>9. k \in Nat /\ k > 0 /\ k <= rx["C"] /\ k <= m - 0 /\ got'["C"] = got["C"] + k /\ got'["S"] = got["S"] /\ Quiet
  BY <1>6 DEF Takes, PLocal
<1>10. k <= m BY <1>1, <1>9
<1>11. HelloRead(k) BY <1>4, <1>5, <1>8, <1>9, <1>10 DEF HelloRead, ReadsSome
<1> QED BY <1>11

\* The clients that read until the end of the file.
AllRead(k) ==
  /\ k \in Nat /\ k > 0 /\ k <= rx["C"] /\ rx'["C"] = rx["C"] - k /\ rx'["S"] = rx["S"]
  /\ got'["C"] = got["C"] + k /\ got'["S"] = got["S"] /\ pcP' = pcP /\ part' = part /\ hold' = hold
  /\ Quiet /\ PLocal' /\ PTcp'
AllEnd == SeesNothing("C") /\ SeesEnd("C", "C") /\ PLocal' /\ PTcp'
\* A step of the other reading clients takes bytes or meets the end.
LEMMA AllReads ==
  ASSUME PLocal, PTcp, OneWay \/ TwoWay \/ pair = "mp", pair # "hello", stP["C"] = "run", pcP["C"] = 2, part["C"] = 0,
         hold["C"] = 0, err["C"] = "ok", P!Proc("C")
  PROVE  (\E k : AllRead(k)) \/ AllEnd
<1> USE DEF P!Procs, P!Ends
<1>1. "C" \in P!Procs /\ "C" \in P!Ends /\ P!End("C") = "C" /\ Cap \in Nat BY PConstants DEF P!End
<1>2. PICK y : IsCall("C", "all", Cap, "next", y) BY ReaderCalls
<1>3. "all" \in {"once", "exact", "all", "echo", "line"} OBVIOUS
<1>4. ReadsSome("C", "C", "all", Cap) \/ EndRead("C", "C", "next") BY <1>1, <1>2, <1>3, CallTakes
<1>5. CASE EndRead("C", "C", "next") BY <1>5 DEF EndRead, AllEnd
<1>6. CASE ReadsSome("C", "C", "all", Cap)
  <2>1. PICK k : Takes("C", "C", k, Cap) /\ Keeps("C", "all", k, Cap) BY <1>6 DEF ReadsSome
  <2>2. pcP' = pcP /\ part' = part /\ hold' = hold BY <2>1 DEF Keeps
  <2>3. /\ k \in Nat /\ k > 0 /\ k <= rx["C"] /\ rx'["C"] = rx["C"] - k /\ rx'["S"] = rx["S"]
        /\ got'["C"] = got["C"] + k /\ got'["S"] = got["S"] /\ Quiet
    BY <2>1 DEF Takes, PLocal, PTcp
  <2>4. AllRead(k) BY <1>6, <2>2, <2>3 DEF AllRead, ReadsSome
  <2> QED BY <2>4
<1> QED BY <1>4, <1>5, <1>6

\* They read while the server is connected.
LEMMA LiveReads ==
  ASSUME PLocal, PTcp, Live, OneWay \/ TwoWay \/ pair = "mp", pcP["C"] = 2, P!Proc("C") PROVE PInv'
<1> USE DEF P!Procs, P!Ends
<1>1. Connection /\ ServerPart /\ ClientPart BY DEF Live
<1>2. /\ stP["C"] = "run" /\ hold["C"] = 0 /\ err["C"] = "ok" /\ fin["C"] = shut["S"]
      /\ (pair # "mp" => stP["W"] = "done")
  BY <1>1 DEF Connection
<1>3. /\ rx["S"] \in Nat /\ got["S"] \in Nat /\ rx["C"] \in Nat /\ got["C"] \in Nat /\ m \in Nat /\ Rounds \in Nat
      /\ pcP["S"] \in Nat
  BY PConstants DEF PLocal, PTcp
<1>4. part["C"] = 0 BY <1>1 DEF ClientPart, ClientReads, ClientThanks, ClientParent
<1>5. CASE pair = "hello"
  <2>1. OneWay /\ ~Echoing /\ ~TwoWay BY <1>5 DEF OneWay, Echoing, TwoWay
  <2>2. ServerSends /\ ClientReads BY <1>1, <2>1 DEF ServerPart, ClientPart
  <2>3. ~shut["S"] /\ got["S"] = 0 /\ pcP["S"] > 1 BY <2>1, <2>2 DEF ServerSends
  <2>4. PICK k : HelloRead(k) BY <1>2, <1>4, <1>5, <2>3, HelloReads
  <2>5. /\ k \in Nat /\ k > 0 /\ k <= m /\ got'["C"] = got["C"] + k /\ got'["S"] = got["S"]
        /\ pcP'["C"] = 3 /\ pcP'["S"] = pcP["S"] /\ PSame /\ stP' = stP /\ PLocal'
    BY <2>4 DEF HelloRead, Quiet
  <2>6. got["C"] = 0 BY <1>5, <2>2 DEF ClientReads
  <2>7. LastRead("S") = 0 /\ LastRead("C") = 2 BY <2>1 DEF LastRead
  <2>8. P!Promise("S") = {0} /\ P!Promise("C") = 1..m BY <1>5 DEF P!Promise
  <2>9. got'["S"] \in P!Promise("S") /\ got'["C"] \in P!Promise("C") BY <1>3, <2>3, <2>5, <2>6, <2>8
  <2>10. pcP'["S"] > 0 /\ pcP'["C"] > 2 /\ pair # "mp" BY <1>3, <1>5, <2>3, <2>5
  <2> QED BY <1>2, <2>1, <2>5, <2>7, <2>9, <2>10, OverReached
<1>6. CASE pair # "hello"
  <2>1. (\E k : AllRead(k)) \/ AllEnd BY <1>2, <1>4, <1>6, AllReads
  <2>2. CASE \E k : AllRead(k)
    <3>1. PICK k : AllRead(k) BY <2>2
    <3>2. /\ k \in Nat /\ k > 0 /\ k <= rx["C"] /\ rx'["C"] = rx["C"] - k /\ rx'["S"] = rx["S"]
          /\ got'["C"] = got["C"] + k /\ got'["S"] = got["S"] /\ pcP' = pcP /\ part' = part /\ hold' = hold
          /\ Quiet /\ PLocal' /\ PTcp'
      BY <3>1 DEF AllRead
    <3>3. PSame /\ shut' = shut /\ stP' = stP BY <3>2 DEF Quiet
    <3>4. ToC' = ToC /\ ToS' = ToS BY <1>3, <3>2 DEF ToC, ToS
    <3>5. KeepS BY <3>2, <3>3, <3>4 DEF KeepS
    <3>6. /\ pair' = pair /\ m' = m /\ OneWay' = OneWay /\ TwoWay' = TwoWay /\ EchoPair' = EchoPair
          /\ P!Thanks' = P!Thanks
      BY <3>3, KindsStay
    <3>7. OneWay => ClientReads' BY <1>1, <1>6, <3>2, <3>3, <3>4, <3>6 DEF ClientPart, ClientReads
    <3>8. TwoWay => ClientThanks' BY <1>1, <3>2, <3>3, <3>4, <3>6 DEF ClientPart, ClientThanks
    <3>9. pair = "mp" => ClientParent'
      <4> SUFFICES ASSUME pair = "mp" PROVE ClientParent' OBVIOUS
      <4>1. ClientParent BY <1>1 DEF ClientPart
      <4>2. \A j \in Nat : WriterRound(j) => WriterRound(j)' BY <3>2, <3>4, <3>6 DEF WriterRound
      <4>3. WriterStops => WriterStops' BY <3>2, <3>3 DEF WriterStops
      <4>4. WriterAt' BY <3>2, <3>3, <3>4, <3>6, <4>1, <4>2, <4>3 DEF ClientParent, WriterAt
      <4> QED BY <3>2, <4>1, <4>4 DEF ClientParent
    <3>10. ~EchoPair BY DEF OneWay, TwoWay, EchoPair
    <3>11. ClientPart' BY <3>6, <3>7, <3>8, <3>9, <3>10 DEF ClientPart
    <3> QED BY <3>2, <3>5, <3>11, LiveKeptS
  <2>3. CASE AllEnd
    <3>1. rx["C"] = 0 /\ fin["C"] /\ SeesEnd("C", "C") /\ PLocal' /\ PTcp' BY <2>3 DEF AllEnd, SeesNothing
    <3>2. rx' = rx /\ got' = got /\ hold' = hold /\ Moves("C") /\ Quiet BY <3>1 DEF SeesEnd
    <3>3. shut["S"] BY <1>2, <3>1
    <3>4. ~Echoing BY <1>1, <3>3 DEF ServerPart, ServerEchoes
    <3>5. ServerSends BY <1>1, <3>4 DEF ServerPart
    <3>6. pcP["S"] = 5 BY <3>3, <3>5 DEF ServerSends
    <3>7. ~OneWay /\ ToC = m BY <3>5, <3>6 DEF ServerSends
    <3>8. TwoWay /\ ~EchoPair /\ pair # "mp" BY <3>4, <3>7 DEF Echoing, TwoWay, EchoPair
    <3>9. got["C"] = m BY <1>3, <3>1, <3>7 DEF ToC
    <3>10. /\ pcP'["C"] = 3 /\ pcP'["S"] = 5 /\ part'["C"] = 0 /\ part'["S"] = part["S"]
      BY <3>2, <3>6 DEF Moves, PLocal
    <3>11. PSame /\ shut' = shut /\ stP' = stP BY <3>2 DEF Quiet
    <3>12. ToC' = ToC /\ ToS' = ToS BY <3>2 DEF ToC, ToS
    <3>13. KeepS BY <3>2, <3>6, <3>10, <3>11, <3>12 DEF KeepS
    <3>14. /\ pair' = pair /\ m' = m /\ OneWay' = OneWay /\ TwoWay' = TwoWay /\ EchoPair' = EchoPair
           /\ P!Thanks' = P!Thanks
      BY <3>11, KindsStay
    <3>15. ClientThanks BY <1>1, <3>8 DEF ClientPart
    <3>16. ToS = 0 /\ ~shut["C"] /\ P!Thanks = 2 BY <3>15, PConstants DEF ClientThanks
    <3>17. ClientThanks' BY <3>2, <3>9, <3>10, <3>11, <3>12, <3>14, <3>16 DEF ClientThanks
    <3>18. ClientPart' BY <3>7, <3>8, <3>14, <3>17 DEF ClientPart
    <3> QED BY <3>1, <3>2, <3>13, <3>18, LiveKeptS
  <2> QED BY <2>1, <2>2, <2>3
<1> QED BY <1>5, <1>6

\* A client, or its child, writes to a server that is connected.
ClientWrote(p, k, l) ==
  /\ k \in Nat /\ k > 0 /\ got' = got /\ hold' = hold /\ Quiet /\ PLocal' /\ PTcp' /\ KeepS /\ ToS' = ToS + k
  /\ \A q \in P!Procs : q # p => pcP'[q] = pcP[q] /\ part'[q] = part[q]
  /\ \/ part[p] + k = l /\ pcP'[p] = pcP[p] + 1 /\ part'[p] = 0
     \/ part[p] + k < l /\ pcP'[p] = pcP[p] /\ part'[p] = part[p] + k
\* A step of the client side in a write() is such a write.
LEMMA ClientWrites ==
  ASSUME PLocal, PTcp, Connection, NEW p \in {"C", "W"}, NEW l \in Nat, IsCall(p, "write", l, "next", "next"),
         stP[p] = "run", hold[p] = 0, part[p] < l, ~shut["C"], P!Proc(p)
  PROVE  \E k : ClientWrote(p, k, l)
<1> USE DEF P!Procs, P!Ends
<1>1. /\ p \in P!Procs /\ "S" \in P!Ends /\ "C" \in P!Ends /\ P!End(p) = "C" /\ P!Peer("C") = "S"
      /\ err["C"] = "ok" /\ open["S"]
  BY DEF Connection, P!End, P!Peer
<1>2. WritesSome(p, "S", l) BY <1>1, CallWrites
<1>3. PICK k : Writes(p, "S", k, l) BY <1>2 DEF WritesSome
<1>4. /\ k \in Nat /\ k > 0 /\ got' = got /\ hold' = hold /\ Quiet /\ rx'["C"] = rx["C"] /\ rx'["S"] = rx["S"] + k
      /\ rx["S"] \in Nat /\ got["S"] \in Nat
  BY <1>3 DEF Writes, PTcp, PLocal
<1>5. /\ \A q \in P!Procs : q # p => pcP'[q] = pcP[q] /\ part'[q] = part[q]
      /\ \/ part[p] + k = l /\ pcP'[p] = pcP[p] + 1 /\ part'[p] = 0
         \/ part[p] + k < l /\ pcP'[p] = pcP[p] /\ part'[p] = part[p] + k
  BY <1>3 DEF Writes, Moves, PLocal
<1>6. ToS' = ToS + k /\ ToC' = ToC BY <1>4 DEF ToS, ToC
<1>7. KeepS BY <1>4, <1>5, <1>6 DEF KeepS, Quiet
<1>8. ClientWrote(p, k, l) BY <1>2, <1>4, <1>5, <1>6, <1>7 DEF ClientWrote, WritesSome
<1> QED BY <1>8

\* The answer of file_client.c and sep_client.c.
LEMMA LiveThanks ==
  ASSUME PLocal, PTcp, Live, TwoWay, pcP["C"] = 3, P!Proc("C") PROVE PInv'
<1> USE DEF P!Procs, P!Ends
<1>1. ~OneWay /\ ~EchoPair /\ pair # "mp" BY DEF OneWay, TwoWay, EchoPair
<1>2. Connection /\ ClientThanks BY DEF Live, ClientPart
<1>3. /\ ~shut["C"] /\ got["C"] = m /\ pcP["S"] = 5 /\ ToS = part["C"] /\ part["C"] < P!Thanks /\ P!Thanks = 2
      /\ stP["C"] = "run" /\ hold["C"] = 0 /\ part["C"] \in Nat /\ P!Thanks \in Nat
  BY <1>2, PConstants DEF ClientThanks, Connection, PLocal
<1>4. IsCall("C", "write", P!Thanks, "next", "next") BY ReaderCalls
<1>5. "C" \in {"C", "W"} OBVIOUS
<1>6. PICK k : ClientWrote("C", k, P!Thanks) BY <1>2, <1>3, <1>4, <1>5, ClientWrites
<1>7. /\ k \in Nat /\ k > 0 /\ got' = got /\ hold' = hold /\ Quiet /\ PLocal' /\ PTcp' /\ KeepS /\ ToS' = ToS + k
      /\ \/ part["C"] + k = P!Thanks /\ pcP'["C"] = pcP["C"] + 1 /\ part'["C"] = 0
         \/ part["C"] + k < P!Thanks /\ pcP'["C"] = pcP["C"] /\ part'["C"] = part["C"] + k
  BY <1>6 DEF ClientWrote
<1>8. PSame /\ shut' = shut BY <1>7 DEF Quiet
<1>9. /\ pair' = pair /\ m' = m /\ OneWay' = OneWay /\ TwoWay' = TwoWay /\ EchoPair' = EchoPair
      /\ P!Thanks' = P!Thanks
  BY <1>8, KindsStay
<1>10. ClientThanks' BY <1>3, <1>7, <1>8, <1>9 DEF ClientThanks, KeepS
<1>11. ClientPart' BY <1>1, <1>9, <1>10 DEF ClientPart
<1> QED BY <1>7, <1>11, LiveKeptS

\* A client closes a connection on which it has read everything.
LEMMA ClientReturns ==
  ASSUME PLocal, PTcp, Live, TwoWay \/ EchoPair, NEW N \in Nat, Len(P!Script("C")) = N, pcP["C"] > N, rx["C"] = 0,
         P!Proc("C")
  PROVE  /\ PSame /\ stP' = [stP EXCEPT !["C"] = "done"] /\ pcP' = pcP /\ part' = part /\ hold' = hold /\ got' = got
         /\ rx' = rx /\ err' = err /\ PLocal' /\ PTcp'
<1> USE DEF P!Procs, P!Ends
<1>1. Connection /\ net \in {"queued", "up"} BY DEF Live
<1>2. /\ stP["W"] = "done" /\ hold["C"] = 0 /\ err["S"] = "ok" /\ open["C"]
  BY <1>1 DEF Connection, TwoWay, EchoPair
<1>3. PSame /\ P!Return("C") BY <1>2, AfterCalls
<1>4. P!EndProcess("C", "done") /\ pcP' = pcP /\ part' = part /\ hold' = hold /\ got' = got BY <1>3 DEF P!Return
<1>5. stP' = [stP EXCEPT !["C"] = "done"] /\ P!CloseEnd("C")
  <2>1. \A q \in P!Procs \ {"C"} : P!End(q) = P!End("C") => stP[q] # "run" BY <1>2 DEF P!End
  <2> QED BY <1>1, <1>2, <1>4, <2>1 DEF P!EndProcess, P!End
<1>6. /\ open' = [open EXCEPT !["C"] = FALSE] /\ fin' = [fin EXCEPT !["S"] = TRUE]
      /\ err' = [err EXCEPT !["S"] = "ok"] /\ rx' = [rx EXCEPT !["C"] = 0] /\ shut' = shut
  <2>1. ~(rx["C"] > 0 \/ ("C" = "S" /\ net = "queued")) /\ P!Peer("C") = "S" BY DEF P!Peer
  <2>2. fin' = [fin EXCEPT !["S"] = TRUE] /\ err' = [err EXCEPT !["S"] = @] BY <1>5, <2>1 DEF P!CloseEnd
  <2> QED BY <1>2, <1>5, <2>2 DEF P!CloseEnd, PTcp
<1>7. rx' = rx /\ err' = err BY <1>2, <1>6 DEF PTcp
<1>8. PTcp' BY <1>6, <1>7 DEF PTcp
<1>9. PLocal' BY <1>3, <1>4, <1>5 DEF PLocal, PSame
<1> QED BY <1>3, <1>4, <1>5, <1>7, <1>8, <1>9

\* So the client of file_server.c or sep_server.c leaves Live for ToServer.
LEMMA LiveThanksReturn ==
  ASSUME PLocal, PTcp, Live, TwoWay, pcP["C"] = 4, P!Proc("C") PROVE PInv'
<1> USE DEF P!Procs, P!Ends
<1>1. ~OneWay /\ ~Echoing /\ ~EchoPair /\ pair # "mp" BY DEF OneWay, TwoWay, EchoPair, Echoing
<1>2. Connection /\ ClientThanks /\ ServerSends BY <1>1 DEF Live, ClientPart, ServerPart
<1>3. /\ got["C"] = m /\ pcP["S"] = 5 /\ ToS = P!Thanks /\ stP["S"] = "run" /\ stP["W"] = "done"
      /\ err["S"] = "ok" /\ rx["C"] \in Nat /\ m \in Nat
  BY <1>1, <1>2 DEF ClientThanks, Connection, PTcp, PLocal
<1>4. /\ ToC = m /\ hold["S"] = 0 /\ got["S"] = part["S"] /\ part["S"] < P!Thanks /\ (pair = "file" => part["S"] = 0)
  BY <1>2, <1>3 DEF ServerSends
<1>5. rx["C"] = 0 BY <1>3, <1>4 DEF ToC
<1>6. Len(P!Script("C")) = 3 /\ 3 \in Nat /\ pcP["C"] > 3 BY ReaderCalls
<1>7. /\ PSame /\ stP' = [stP EXCEPT !["C"] = "done"] /\ pcP' = pcP /\ part' = part /\ hold' = hold /\ got' = got
      /\ rx' = rx /\ err' = err /\ PLocal' /\ PTcp'
  BY <1>5, <1>6, ClientReturns
<1>8. /\ pair' = pair /\ m' = m /\ TwoWay' = TwoWay /\ EchoPair' = EchoPair /\ P!Thanks' = P!Thanks
      /\ LastRead("S")' = LastRead("S") /\ LastRead("C")' = LastRead("C") /\ P!Promise("C")' = P!Promise("C")
  BY <1>7, KindsStay
<1>9. LastRead("S") = 5 /\ LastRead("C") = 2 BY <1>1 DEF LastRead
<1>10. m \in P!Promise("C") BY DEF P!Promise, TwoWay
<1>11. Finished("C")'
  <2>1. pcP'["C"] > LastRead("C") /\ got'["C"] \in P!Promise("C") BY <1>3, <1>7, <1>9, <1>10
  <2> QED BY <1>8, <2>1 DEF Finished
<1>12. stP'["C"] = "done" /\ stP'["S"] = "run" /\ stP'["W"] = "done" BY <1>3, <1>7 DEF PLocal
<1>13. ToS' = ToS BY <1>7 DEF ToS
<1>14. ToServer' BY <1>1, <1>3, <1>4, <1>7, <1>8, <1>9, <1>11, <1>12, <1>13 DEF ToServer
<1> QED BY <1>7, <1>14 DEF PInv

\* The client of an echo server writes its message.
LEMMA LiveAsks ==
  ASSUME PLocal, PTcp, Live, EchoPair, NEW j \in Nat, j < Rounds, pcP["C"] = 2 * j + 2, ClientRound(j), P!Proc("C")
  PROVE  PInv'
<1> USE DEF P!Procs, P!Ends
<1>1. ~OneWay /\ ~TwoWay /\ pair # "mp" BY DEF OneWay, TwoWay, EchoPair
<1>2. Connection /\ ClientEchoes BY DEF Live, ClientPart
<1>3. Rounds \in Nat /\ part["C"] \in Nat /\ m \in Nat \ {0} /\ m \in Nat /\ j * m \in Nat BY PConstants DEF PLocal
<1>4. part["C"] < m /\ ToS = j * m + part["C"] /\ got["C"] = j * m BY <1>3 DEF ClientRound
<1>5. ~shut["C"] /\ stP["C"] = "run" /\ hold["C"] = 0 /\ "C" \in {"C", "W"} BY <1>2 DEF ClientEchoes, Connection
<1>6. IsCall("C", "write", m, "next", "next") BY <1>3, EchoClientCalls
<1>7. PICK k : ClientWrote("C", k, m) BY <1>2, <1>3, <1>4, <1>5, <1>6, ClientWrites
<1>8. /\ k \in Nat /\ k > 0 /\ got' = got /\ hold' = hold /\ Quiet /\ PLocal' /\ PTcp' /\ KeepS /\ ToS' = ToS + k
      /\ \/ part["C"] + k = m /\ pcP'["C"] = pcP["C"] + 1 /\ part'["C"] = 0
         \/ part["C"] + k < m /\ pcP'["C"] = pcP["C"] /\ part'["C"] = part["C"] + k
  BY <1>7 DEF ClientWrote
<1>9. PSame /\ shut' = shut BY <1>8 DEF Quiet
<1>10. pair' = pair /\ m' = m /\ OneWay' = OneWay /\ TwoWay' = TwoWay /\ EchoPair' = EchoPair
  BY <1>9, KindsStay
<1>11. ClientRound(j)'
  <2>1. CASE part["C"] + k = m /\ pcP'["C"] = pcP["C"] + 1 /\ part'["C"] = 0
    <3>1. pcP'["C"] = 2 * j + 3 /\ part'["C"] < m BY <1>3, <1>4, <2>1
    <3>2. ToS' = j * m + m /\ got'["C"] = j * m + part'["C"] BY <1>3, <1>4, <1>8, <2>1
    <3> QED BY <1>10, <3>1, <3>2 DEF ClientRound
  <2>2. CASE part["C"] + k < m /\ pcP'["C"] = pcP["C"] /\ part'["C"] = part["C"] + k
    <3>1. ToS' = j * m + part'["C"] /\ got'["C"] = j * m BY <1>3, <1>4, <1>8, <2>2
    <3> QED BY <1>10, <2>2, <3>1 DEF ClientRound
  <2> QED BY <1>8, <2>1, <2>2
<1>12. ClientEchoes' BY <1>5, <1>9, <1>11 DEF ClientEchoes
<1>13. ClientPart' BY <1>1, <1>10, <1>12 DEF ClientPart
<1> QED BY <1>8, <1>13, LiveKeptS

\* It reads the answer.
LEMMA LiveAnswers ==
  ASSUME PLocal, PTcp, Live, EchoPair, NEW j \in Nat, j < Rounds, pcP["C"] = 2 * j + 3, ClientRound(j), P!Proc("C")
  PROVE  PInv'
<1> USE DEF P!Procs, P!Ends
<1>1. ~OneWay /\ ~TwoWay /\ pair # "mp" /\ Echoing BY DEF OneWay, TwoWay, EchoPair, Echoing
<1>2. Connection /\ ClientEchoes /\ ServerEchoes BY <1>1 DEF Live, ClientPart, ServerPart
<1>3. /\ Rounds \in Nat /\ part["C"] \in Nat /\ m \in Nat \ {0} /\ m \in Nat /\ j * m \in Nat /\ rx["C"] \in Nat
      /\ got["C"] \in Nat
  BY PConstants DEF PLocal, PTcp
<1>4. part["C"] < m /\ ToS = j * m + m /\ got["C"] = j * m + part["C"] BY <1>3 DEF ClientRound
<1>5. /\ ~shut["C"] /\ stP["C"] = "run" /\ hold["C"] = 0 /\ err["C"] = "ok" /\ ~fin["C"]
      /\ "C" \in P!Procs /\ "C" \in P!Ends /\ P!End("C") = "C"
  BY <1>2 DEF ClientEchoes, ServerEchoes, Connection, P!End
<1>6. PICK x, y : IsCall("C", "exact", m, x, y) BY <1>3, EchoClientCalls
<1>7. "exact" \in {"once", "exact", "all", "echo", "line"} OBVIOUS
<1>8. ReadsSome("C", "C", "exact", m) \/ EndRead("C", "C", x) BY <1>3, <1>5, <1>6, <1>7, CallTakes
<1>9. ~EndRead("C", "C", x) BY <1>5 DEF EndRead, SeesNothing
<1>10. PICK k : Takes("C", "C", k, m) /\ Keeps("C", "exact", k, m) BY <1>8, <1>9 DEF ReadsSome
<1>11. PLocal' /\ PTcp' BY <1>8, <1>9 DEF ReadsSome
<1>12. /\ k \in Nat /\ k > 0 /\ k <= rx["C"] /\ k <= m - part["C"] /\ rx'["C"] = rx["C"] - k /\ rx'["S"] = rx["S"]
       /\ got'["C"] = got["C"] + k /\ got'["S"] = got["S"] /\ Quiet
  BY <1>10 DEF Takes, PLocal, PTcp
<1>13. /\ hold' = hold
       /\ IF part["C"] + k = m THEN Moves("C") ELSE pcP' = pcP /\ part' = [part EXCEPT !["C"] = @ + k]
  BY <1>10 DEF Keeps
<1>14. /\ pcP'["S"] = pcP["S"] /\ part'["S"] = part["S"]
       /\ IF part["C"] + k = m THEN pcP'["C"] = 2 * j + 4 /\ part'["C"] = 0
                               ELSE pcP'["C"] = 2 * j + 3 /\ part'["C"] = part["C"] + k
  BY <1>13 DEF Moves, PLocal
<1>15. PSame /\ shut' = shut BY <1>12 DEF Quiet
<1>16. pair' = pair /\ m' = m /\ OneWay' = OneWay /\ TwoWay' = TwoWay /\ EchoPair' = EchoPair
  BY <1>15, KindsStay
<1>17. ToC' = ToC /\ ToS' = ToS BY <1>3, <1>12 DEF ToC, ToS
<1>18. KeepS BY <1>12, <1>13, <1>14, <1>15, <1>17 DEF KeepS
<1>19. \E l \in Nat : ClientRound(l)'
  <2>1. CASE part["C"] + k = m
    <3>1. PICK l \in Nat : l = j + 1 OBVIOUS
    <3>2. l * m = j * m + m BY <1>3, <3>1
    <3>3. pcP'["C"] = 2 * l + 2 /\ part'["C"] = 0 /\ 0 < m BY <1>3, <1>4, <1>14, <2>1, <3>1
    <3>4. ToS' = l * m /\ got'["C"] = l * m
      <4>1. ToS' = l * m BY <1>4, <1>17, <3>2
      <4>2. PICK t : t = j * m OBVIOUS
      <4>3. got'["C"] = t + m BY <1>3, <1>4, <1>12, <2>1, <4>2
      <4> QED BY <3>2, <4>1, <4>2, <4>3
    <3>5. l * m + 0 = l * m BY <1>3, <3>2
    <3>6. l < Rounds \/ l = Rounds BY <1>3, <3>1
    <3>7. ClientRound(l)' BY <1>16, <3>3, <3>4, <3>5, <3>6 DEF ClientRound
    <3> QED BY <3>7
  <2>2. CASE part["C"] + k # m
    <3>1. part'["C"] = part["C"] + k /\ part'["C"] < m BY <1>3, <1>12, <1>14, <2>2
    <3>2. got'["C"] = j * m + part'["C"] BY <1>3, <1>4, <1>12, <3>1
    <3>3. ClientRound(j)' BY <1>4, <1>14, <1>16, <1>17, <2>2, <3>1, <3>2 DEF ClientRound
    <3> QED BY <3>3
  <2> QED BY <2>1, <2>2
<1>20. ClientEchoes' BY <1>5, <1>15, <1>19 DEF ClientEchoes
<1>21. ClientPart' BY <1>1, <1>16, <1>20 DEF ClientPart
<1> QED BY <1>11, <1>12, <1>13, <1>18, <1>21, LiveKeptS

\* What went round is nowhere in between.
LEMMA NothingLeft ==
  ASSUME NEW a \in Nat, NEW b \in Nat, NEW c \in Nat, NEW d \in Nat, NEW g \in Nat, NEW t \in Nat,
         a + g = t, b + t + c + d = g
  PROVE  b = 0 /\ a = 0 /\ c = 0 /\ d = 0 /\ g = t
OBVIOUS

\* It returns after the last round.
LEMMA LiveEchoReturn ==
  ASSUME PLocal, PTcp, Live, EchoPair, pair # "quit", pcP["C"] = 2 * Rounds + 2, ClientRound(Rounds), P!Proc("C") PROVE PInv'
<1> USE DEF P!Procs, P!Ends
<1>1. ~OneWay /\ ~TwoWay /\ pair # "mp" /\ Echoing BY DEF OneWay, TwoWay, EchoPair, Echoing
<1>2. Connection /\ ServerEchoes BY <1>1 DEF Live, ServerPart
<1>3. /\ Rounds \in Nat /\ Rounds > 0 /\ part["C"] \in Nat /\ m \in Nat \ {0} /\ m > 0 /\ rx["C"] \in Nat /\ got["C"] \in Nat
      /\ rx["S"] \in Nat /\ got["S"] \in Nat /\ hold["S"] \in Nat /\ part["S"] \in Nat
  BY PConstants DEF PLocal, PTcp
<1>4. PICK t : t = Rounds * m OBVIOUS
<1>5. t \in Nat /\ t > 0 BY <1>3, <1>4
<1>6. ToS = t /\ got["C"] = t BY <1>3, <1>4 DEF ClientRound
<1>7. ToC + hold["S"] + part["S"] = got["S"] BY <1>2 DEF ServerEchoes
<1>8. rx["C"] = 0 /\ rx["S"] = 0 /\ hold["S"] = 0 /\ part["S"] = 0 /\ got["S"] = t
  <2>1. rx["S"] + got["S"] = t /\ rx["C"] + t + hold["S"] + part["S"] = got["S"] BY <1>6, <1>7 DEF ToC, ToS
  <2>2. rx["C"] \in Nat /\ rx["S"] \in Nat /\ got["S"] \in Nat /\ hold["S"] \in Nat /\ part["S"] \in Nat BY <1>3
  <2> QED BY <1>5, <2>1, <2>2, NothingLeft
<1>9. pcP["S"] = 3 BY <1>1, <1>2, <1>5, <1>8 DEF ServerEchoes
<1>10. /\ stP["S"] = "run" /\ stP["W"] = "done" /\ err["S"] = "ok" BY <1>1, <1>2 DEF Connection
<1>11. Len(P!Script("C")) = 2 * Rounds + 1 /\ 2 * Rounds + 1 \in Nat /\ pcP["C"] > 2 * Rounds + 1
  BY <1>3, EchoClientCalls
<1>12. /\ PSame /\ stP' = [stP EXCEPT !["C"] = "done"] /\ pcP' = pcP /\ part' = part /\ hold' = hold /\ got' = got
       /\ rx' = rx /\ err' = err /\ PLocal' /\ PTcp'
  BY <1>8, <1>11, ClientReturns
<1>13. /\ pair' = pair /\ m' = m /\ TwoWay' = TwoWay /\ EchoPair' = EchoPair
       /\ LastRead("S")' = LastRead("S") /\ LastRead("C")' = LastRead("C") /\ P!Promise("C")' = P!Promise("C")
  BY <1>12, KindsStay
<1>14. LastRead("S") = 3 /\ LastRead("C") = 2 * Rounds + 1 BY <1>1 DEF LastRead
<1>15. t \in P!Promise("C") BY <1>4 DEF P!Promise, EchoPair
<1>16. Finished("C")'
  <2>1. pcP'["C"] > LastRead("C") /\ got'["C"] \in P!Promise("C") BY <1>6, <1>11, <1>12, <1>14, <1>15
  <2> QED BY <1>13, <2>1 DEF Finished
<1>17. stP'["C"] = "done" /\ stP'["S"] = "run" /\ stP'["W"] = "done" BY <1>10, <1>12 DEF PLocal
<1>18. ToServer' BY <1>1, <1>4, <1>8, <1>9, <1>10, <1>12, <1>13, <1>14, <1>16, <1>17 DEF ToServer
<1> QED BY <1>12, <1>18 DEF PInv

\* Behind the last round the user of "quit" types one more line.
LEMMA LastRound ==
  ASSUME PLocal, pair = "quit", ClientRound(Rounds) PROVE ClientQuits
<1>1. Rounds \in Nat /\ m \in Nat /\ Rounds * m \in Nat /\ ClientBuf \in Nat /\ ClientBuf > 0
  BY PConstants DEF PLocal
<1>2. pcP["C"] = 2 * Rounds + 2 /\ part["C"] = 0 /\ ToS = Rounds * m /\ got["C"] = Rounds * m
  BY <1>1 DEF ClientRound
<1>3. ToS = Rounds * m + part["C"] BY <1>1, <1>2
<1> QED BY <1>1, <1>2, <1>3 DEF ClientQuits

\* It writes the line that fills its buffer.
LEMMA LiveLastLine ==
  ASSUME PLocal, PTcp, Live, ClientQuits, pcP["C"] = 2 * Rounds + 2, P!Proc("C") PROVE PInv'
<1> USE DEF P!Procs, P!Ends
<1>1. pair = "quit" /\ EchoPair /\ ~OneWay /\ ~TwoWay /\ pair # "mp" BY DEF OneWay, TwoWay, EchoPair, ClientQuits
<1>2. Connection /\ ClientEchoes BY <1>1 DEF Live, ClientPart
<1>3. /\ Rounds \in Nat /\ part["C"] \in Nat /\ m \in Nat \ {0} /\ Rounds * m \in Nat /\ ClientBuf \in Nat
      /\ ClientBuf > 0
  BY PConstants DEF PLocal
<1>4. part["C"] < ClientBuf /\ ToS = Rounds * m + part["C"] /\ got["C"] = Rounds * m BY <1>3 DEF ClientQuits
<1>5. ~shut["C"] /\ stP["C"] = "run" /\ hold["C"] = 0 /\ "C" \in {"C", "W"} BY <1>2 DEF ClientEchoes, Connection
<1>6. IsCall("C", "write", ClientBuf, "next", "next") BY <1>1, <1>3, EchoClientCalls
<1>7. PICK k : ClientWrote("C", k, ClientBuf) BY <1>2, <1>3, <1>4, <1>5, <1>6, ClientWrites
<1>8. /\ k \in Nat /\ k > 0 /\ got' = got /\ hold' = hold /\ Quiet /\ PLocal' /\ PTcp' /\ KeepS /\ ToS' = ToS + k
      /\ \/ part["C"] + k = ClientBuf /\ pcP'["C"] = pcP["C"] + 1 /\ part'["C"] = 0
         \/ part["C"] + k < ClientBuf /\ pcP'["C"] = pcP["C"] /\ part'["C"] = part["C"] + k
  BY <1>7 DEF ClientWrote
<1>9. PSame /\ shut' = shut BY <1>8 DEF Quiet
<1>10. pair' = pair /\ m' = m /\ OneWay' = OneWay /\ TwoWay' = TwoWay /\ EchoPair' = EchoPair
  BY <1>9, KindsStay
<1>11. ClientQuits'
  <2>1. CASE part["C"] + k = ClientBuf /\ pcP'["C"] = pcP["C"] + 1 /\ part'["C"] = 0
    <3>1. pcP'["C"] = 2 * Rounds + 3 BY <1>3, <2>1
    <3>2. ToS' = Rounds * m + ClientBuf BY <1>3, <1>4, <1>8, <2>1
    <3> QED BY <1>1, <1>4, <1>8, <1>10, <3>1, <3>2 DEF ClientQuits
  <2>2. CASE part["C"] + k < ClientBuf /\ pcP'["C"] = pcP["C"] /\ part'["C"] = part["C"] + k
    <3>1. ToS' = Rounds * m + part'["C"] BY <1>3, <1>4, <1>8, <2>2
    <3> QED BY <1>1, <1>4, <1>8, <1>10, <2>2, <3>1 DEF ClientQuits
  <2> QED BY <1>8, <2>1, <2>2
<1>12. ClientEchoes' BY <1>5, <1>9, <1>11 DEF ClientEchoes
<1>13. ClientPart' BY <1>1, <1>10, <1>12 DEF ClientPart
<1> QED BY <1>8, <1>13, LiveKeptS

\* It leaves; what it has not read makes the close a reset.
LEMMA LiveQuitReturn ==
  ASSUME PLocal, PTcp, Live, ClientQuits, pcP["C"] = 2 * Rounds + 3, P!Proc("C") PROVE PInv'
<1> USE DEF P!Procs, P!Ends
<1>1. pair = "quit" /\ EchoPair /\ Echoing /\ ~OneWay /\ ~TwoWay /\ pair # "mp"
  BY DEF OneWay, TwoWay, EchoPair, Echoing, ClientQuits
<1>2. Connection /\ ServerEchoes BY <1>1 DEF Live, ServerPart
<1>3. /\ Rounds \in Nat /\ Rounds > 0 /\ m \in Nat \ {0} /\ m > 0 /\ ClientBuf \in Nat /\ rx["C"] \in Nat
      /\ rx["S"] \in Nat /\ got["S"] \in Nat /\ hold["S"] \in Nat /\ part["S"] \in Nat
  BY PConstants DEF PLocal, PTcp
<1>4. PICK t : t = Rounds * m OBVIOUS
<1>5. t \in Nat /\ t > 0 BY <1>3, <1>4
<1>6. ToS = t + ClientBuf /\ got["C"] = t BY <1>3, <1>4 DEF ClientQuits
<1>7. pcP["S"] = 3 /\ part["S"] = 0
  <2>1. ToC + hold["S"] + part["S"] = got["S"] BY <1>2 DEF ServerEchoes
  <2>2. got["S"] > 0 BY <1>3, <1>5, <1>6, <2>1 DEF ToC
  <2> QED BY <1>1, <1>2, <2>2 DEF ServerEchoes
<1>8. stP["S"] = "run" /\ stP["W"] = "done" /\ hold["C"] = 0 /\ open["C"] BY <1>1, <1>2 DEF Connection
<1>9. Len(P!Script("C")) = 2 * Rounds + 2 /\ 2 * Rounds + 2 \in Nat /\ pcP["C"] > 2 * Rounds + 2
  BY <1>1, <1>3, EchoClientCalls
<1>10. PSame /\ P!Return("C") BY <1>8, <1>9, AfterCalls
<1>11. P!EndProcess("C", "done") /\ pcP' = pcP /\ part' = part /\ hold' = hold /\ got' = got BY <1>10 DEF P!Return
<1>12. net \in {"queued", "up"} BY DEF Live
<1>13. stP' = [stP EXCEPT !["C"] = "done"] /\ P!CloseEnd("C")
  <2>1. \A q \in P!Procs \ {"C"} : P!End(q) = P!End("C") => stP[q] # "run" BY <1>8 DEF P!End
  <2> QED BY <1>8, <1>11, <1>12, <2>1 DEF P!EndProcess, P!End
<1>14. rx' = [rx EXCEPT !["C"] = 0] BY <1>13 DEF P!CloseEnd
<1>15. rx' \in [P!Ends -> Nat] /\ rx'["S"] = rx["S"] BY <1>14 DEF PTcp
<1>16. PLocal' BY <1>10, <1>11, <1>13 DEF PLocal, PSame
<1>17. pair' = pair /\ m' = m /\ LastRead("C")' = LastRead("C") /\ P!Promise("C")' = P!Promise("C")
  BY <1>10, KindsStay
<1>18. LastRead("C") = 2 * Rounds + 1 BY <1>1 DEF LastRead
<1>19. t \in P!Promise("C") BY <1>1, <1>4 DEF P!Promise
<1>20. Finished("C")'
  <2>1. pcP'["C"] > LastRead("C") /\ got'["C"] \in P!Promise("C") BY <1>3, <1>6, <1>11, <1>18, <1>19
  <2> QED BY <1>17, <2>1 DEF Finished
<1>21. stP'["C"] = "done" /\ stP'["S"] = "run" /\ stP'["W"] = "done" BY <1>8, <1>13 DEF PLocal
<1>22. ToS' = Rounds * m + ClientBuf BY <1>4, <1>6, <1>11, <1>15 DEF ToS
<1>23. Left' BY <1>1, <1>7, <1>11, <1>15, <1>17, <1>20, <1>21, <1>22 DEF Left
<1> QED BY <1>16, <1>23 DEF PInv

\* The line behind which the user quits.
LEMMA LiveQuits ==
  ASSUME PLocal, PTcp, Live, ClientQuits, P!Proc("C") PROVE PInv'
<1>1. pcP["C"] = 2 * Rounds + 2 \/ pcP["C"] = 2 * Rounds + 3 BY DEF ClientQuits
<1> QED BY <1>1, LiveLastLine, LiveQuitReturn

\* What the client does.
LEMMA LiveClient ==
  ASSUME PLocal, PTcp, Live, P!Proc("C") PROVE PInv'
<1>1. pair # "op" /\ ~Cut /\ ClientPart BY DEF Live
<1>2. OneWay \/ TwoWay \/ EchoPair \/ pair = "mp" BY <1>1 DEF PLocal, OneWay, TwoWay, EchoPair, Cut
<1>3. CASE OneWay \/ pair = "mp"
  <2>1. pcP["C"] = 2 BY <1>1, <1>3 DEF ClientPart, ClientReads, ClientParent
  <2> QED BY <1>3, <2>1, LiveReads
<1>4. CASE TwoWay
  <2>1. pcP["C"] \in {2, 3, 4} BY <1>1, <1>4 DEF ClientPart, ClientThanks
  <2> QED BY <1>4, <2>1, LiveReads, LiveThanks, LiveThanksReturn
<1>5. CASE EchoPair
  <2>1. (\E j \in Nat : ClientRound(j)) \/ ClientQuits BY <1>1, <1>5 DEF ClientPart, ClientEchoes
  <2>2. CASE ClientQuits BY <2>2, LiveQuits
  <2>3. ASSUME NEW j \in Nat, ClientRound(j) PROVE PInv'
    <3>1. \/ j < Rounds /\ pcP["C"] = 2 * j + 2
          \/ j < Rounds /\ pcP["C"] = 2 * j + 3
          \/ j = Rounds /\ pcP["C"] = 2 * j + 2
      BY <2>3 DEF ClientRound
    <3>2. CASE j = Rounds /\ pcP["C"] = 2 * j + 2 /\ pair # "quit" BY <1>5, <2>3, <3>2, LiveEchoReturn
    <3>3. CASE j = Rounds /\ pcP["C"] = 2 * j + 2 /\ pair = "quit"
      <4>1. ClientQuits BY <2>3, <3>3, LastRound
      <4> QED BY <4>1, LiveQuits
    <3>4. CASE j < Rounds /\ pcP["C"] = 2 * j + 2 BY <1>5, <2>3, <3>4, LiveAsks
    <3>5. CASE j < Rounds /\ pcP["C"] = 2 * j + 3 BY <1>5, <2>3, <3>5, LiveAnswers
    <3> QED BY <3>1, <3>2, <3>3, <3>4, <3>5
  <2> QED BY <2>1, <2>2, <2>3
<1> QED BY <1>2, <1>3, <1>4, <1>5

\* The child of echo_mpclient.c exists.
LEMMA LiveForked ==
  ASSUME PLocal, PTcp, Live, pair = "mp", pcP["W"] = 1, ToS = 0, ~shut["C"], P!Proc("W") PROVE PInv'
<1> USE DEF P!Procs, P!Ends
<1>1. ~OneWay /\ ~TwoWay /\ ~EchoPair BY DEF OneWay, TwoWay, EchoPair
<1>2. Connection /\ ClientParent BY DEF Live, ClientPart
<1>3. hold["W"] = 0 /\ pcP["C"] = 2 /\ part["C"] = 0 BY <1>2 DEF ClientParent
<1>4. m \in Nat /\ m > 0 /\ Rounds \in Nat /\ Rounds > 0 BY PConstants DEF PLocal
<1>5. PSame /\ stP["W"] = "run" /\ P!ForkedStep("W")
  <2>1. IsCall("W", "forked", 0, "next", "next") BY WriterCalls
  <2> QED BY <1>3, <2>1, OtherCalls
<1>6. /\ P!Advance("W") /\ stP' = stP /\ hold' = hold /\ got' = got /\ net' = net
      /\ rx' = rx /\ fin' = fin /\ err' = err /\ open' = open /\ shut' = shut
  BY <1>3, <1>5 DEF P!ForkedStep, P!Alive, P!tcp
<1>7. pcP' = [pcP EXCEPT !["W"] = 2] /\ part' = [part EXCEPT !["W"] = 0] BY <1>6 DEF P!Advance, PLocal
<1>8. /\ pcP'["S"] = pcP["S"] /\ pcP'["C"] = 2 /\ pcP'["W"] = 2
      /\ part'["S"] = part["S"] /\ part'["C"] = 0 /\ part'["W"] = 0
  BY <1>3, <1>7 DEF PLocal
<1>9. PLocal' /\ PTcp' BY <1>5, <1>6, <1>7 DEF PLocal, PTcp, PSame
<1>10. Quiet BY <1>5, <1>6 DEF Quiet
<1>11. ToC' = ToC /\ ToS' = 0 BY <1>6 DEF ToC, ToS
<1>12. KeepS BY <1>6, <1>8, <1>11 DEF KeepS
<1>13. pair' = pair /\ m' = m /\ OneWay' = OneWay /\ TwoWay' = TwoWay /\ EchoPair' = EchoPair BY <1>5, KindsStay
<1>14. WriterRound(0)' BY <1>4, <1>8, <1>11, <1>13 DEF WriterRound
<1>15. WriterAt' BY <1>5, <1>6, <1>14 DEF WriterAt
<1>16. ClientParent' BY <1>3, <1>6, <1>8, <1>15 DEF ClientParent
<1>17. ClientPart' BY <1>1, <1>13, <1>16 DEF ClientPart
<1> QED BY <1>6, <1>9, <1>10, <1>12, <1>17, LiveKeptS

\* It writes a message.
LEMMA LiveWriterWrites ==
  ASSUME PLocal, PTcp, Live, pair = "mp", NEW j \in Nat, j < Rounds, pcP["W"] = j + 2, WriterRound(j), ~shut["C"],
         stP["W"] = "run", P!Proc("W")
  PROVE  PInv'
<1> USE DEF P!Procs, P!Ends
<1>1. ~OneWay /\ ~TwoWay /\ ~EchoPair BY DEF OneWay, TwoWay, EchoPair
<1>2. Connection /\ ClientParent BY DEF Live, ClientPart
<1>3. hold["W"] = 0 /\ pcP["C"] = 2 /\ part["C"] = 0 BY <1>2 DEF ClientParent
<1>4. m \in Nat /\ m > 0 /\ Rounds \in Nat /\ part["W"] \in Nat /\ j * m \in Nat BY PConstants DEF PLocal
<1>5. part["W"] < m /\ ToS = j * m + part["W"] BY <1>4 DEF WriterRound
<1>6. IsCall("W", "write", m, "next", "next") /\ "W" \in {"C", "W"} BY WriterCalls
<1>7. PICK k : ClientWrote("W", k, m) BY <1>2, <1>3, <1>4, <1>5, <1>6, ClientWrites
<1>8. /\ k \in Nat /\ k > 0 /\ got' = got /\ hold' = hold /\ Quiet /\ PLocal' /\ PTcp' /\ KeepS /\ ToS' = ToS + k
      /\ \/ part["W"] + k = m /\ pcP'["W"] = pcP["W"] + 1 /\ part'["W"] = 0
         \/ part["W"] + k < m /\ pcP'["W"] = pcP["W"] /\ part'["W"] = part["W"] + k
  BY <1>7 DEF ClientWrote
<1>9. pcP'["C"] = 2 /\ part'["C"] = 0
  <2>1. "C" \in P!Procs /\ "C" # "W" OBVIOUS
  <2> QED BY <1>3, <1>7, <2>1 DEF ClientWrote
<1>10. PSame /\ shut' = shut /\ stP' = stP BY <1>8 DEF Quiet
<1>11. pair' = pair /\ m' = m /\ OneWay' = OneWay /\ TwoWay' = TwoWay /\ EchoPair' = EchoPair BY <1>10, KindsStay
<1>12. \E l \in Nat : WriterRound(l)'
  <2>1. CASE part["W"] + k = m /\ pcP'["W"] = pcP["W"] + 1 /\ part'["W"] = 0
    <3>1. PICK l \in Nat : l = j + 1 OBVIOUS
    <3>2. l * m = j * m + m BY <1>4, <3>1
    <3>3. pcP'["W"] = l + 2 /\ (l < Rounds \/ l = Rounds) BY <1>4, <2>1, <3>1
    <3>4. ToS' = l * m
      <4>1. PICK t : t = j * m OBVIOUS
      <4>2. ToS' = t + m BY <1>4, <1>5, <1>8, <2>1, <4>1
      <4> QED BY <3>2, <4>1, <4>2
    <3>5. l * m + 0 = l * m BY <1>4, <3>2
    <3>6. WriterRound(l)' BY <1>4, <1>11, <2>1, <3>3, <3>4, <3>5 DEF WriterRound
    <3> QED BY <3>6
  <2>2. CASE part["W"] + k < m /\ pcP'["W"] = pcP["W"] /\ part'["W"] = part["W"] + k
    <3>1. ToS' = j * m + part'["W"] BY <1>4, <1>5, <1>8, <2>2
    <3>2. WriterRound(j)' BY <1>11, <2>2, <3>1 DEF WriterRound
    <3> QED BY <3>2
  <2> QED BY <1>8, <2>1, <2>2
<1>13. WriterAt' BY <1>10, <1>12 DEF WriterAt
<1>14. ClientParent' BY <1>3, <1>8, <1>9, <1>13 DEF ClientParent
<1>15. ClientPart' BY <1>1, <1>11, <1>14 DEF ClientPart
<1> QED BY <1>8, <1>15, LiveKeptS

\* It closes the direction to the server.
LEMMA LiveWriterShuts ==
  ASSUME PLocal, PTcp, Live, pair = "mp", pcP["W"] = Rounds + 2, WriterRound(Rounds), ~shut["C"], P!Proc("W") PROVE PInv'
<1> USE DEF P!Procs, P!Ends
<1>1. ~OneWay /\ ~TwoWay /\ ~EchoPair BY DEF OneWay, TwoWay, EchoPair
<1>2. Connection /\ ClientParent BY DEF Live, ClientPart
<1>3. hold["W"] = 0 /\ pcP["C"] = 2 /\ part["C"] = 0 BY <1>2 DEF ClientParent
<1>4. m \in Nat /\ m > 0 /\ Rounds \in Nat /\ ToS = Rounds * m BY PConstants DEF PLocal, WriterRound
<1>5. PSame /\ stP["W"] = "run" /\ P!ShutdownStep("W")
  <2>1. IsCall("W", "shutdown", 0, "next", "next") BY WriterCalls
  <2> QED BY <1>3, <2>1, OtherCalls
<1>6. /\ P!Advance("W") /\ stP' = stP /\ hold' = hold /\ got' = got /\ net' = net
      /\ rx' = rx /\ fin' = [fin EXCEPT !["S"] = TRUE] /\ err' = err /\ open' = open /\ shut' = [shut EXCEPT !["C"] = TRUE]
  BY <1>5 DEF P!ShutdownStep, P!Alive, P!End, P!Peer
<1>7. pcP' = [pcP EXCEPT !["W"] = Rounds + 3] /\ part' = [part EXCEPT !["W"] = 0]
  BY <1>4, <1>6 DEF P!Advance, PLocal
<1>8. /\ pcP'["S"] = pcP["S"] /\ pcP'["C"] = 2 /\ pcP'["W"] = Rounds + 3
      /\ part'["S"] = part["S"] /\ part'["C"] = 0 /\ part'["W"] = 0
  BY <1>3, <1>7 DEF PLocal
<1>9. shut'["C"] = TRUE /\ shut'["S"] = shut["S"] /\ fin'["S"] = TRUE /\ fin'["C"] = fin["C"] BY <1>6 DEF PTcp
<1>10. PLocal' /\ PTcp' BY <1>4, <1>5, <1>6, <1>7 DEF PLocal, PTcp, PSame
<1>11. ToC' = ToC /\ ToS' = ToS BY <1>6 DEF ToC, ToS
<1>12. Connection' BY <1>2, <1>5, <1>6, <1>9 DEF Connection, PSame
<1>13. ServerPart'
  <2>1. KeepS BY <1>6, <1>8, <1>9, <1>11 DEF KeepS
  <2> QED BY <1>5, <2>1, ServerKept DEF Live
<1>14. pair' = pair /\ m' = m /\ OneWay' = OneWay /\ TwoWay' = TwoWay /\ EchoPair' = EchoPair BY <1>5, KindsStay
<1>15. WriterStops' BY <1>8, <1>9 DEF WriterStops
<1>16. WriterAt' BY <1>4, <1>11, <1>14, <1>15 DEF WriterAt
<1>17. ClientParent' BY <1>3, <1>6, <1>8, <1>16 DEF ClientParent
<1>18. ClientPart' BY <1>1, <1>14, <1>17 DEF ClientPart
<1> QED BY <1>5, <1>6, <1>8, <1>10, <1>12, <1>13, <1>18, LiveKept DEF Live

\* Its last write() ends it; the parent still has the connection.
LEMMA WriterDies ==
  ASSUME PLocal, pair = "mp", WriterStops, hold["W"] = 0, stP["C"] = "run", P!Proc("W")
  PROVE  /\ PSame /\ stP' = [stP EXCEPT !["W"] = "exited"] /\ pcP' = pcP /\ part' = part /\ hold' = hold /\ got' = got
         /\ net' = net /\ rx' = rx /\ fin' = fin /\ err' = err /\ open' = open /\ shut' = shut /\ PLocal'
<1> USE DEF P!Procs, P!Ends
<1>1. IsCall("W", "write", 1, "next", "next") BY WriterCalls DEF WriterStops
<1>2. (\A z : P!At("W", z) => z = "write") /\ ~(pcP["W"] > Len(P!Script("W"))) BY <1>1, CallOnly
<1>3. P!WriteStep("W") /\ PSame
  BY <1>2 DEF P!Proc, P!ReadStep, P!ListenStep, P!ConnectStep, P!AcceptStep, P!ShutdownStep, P!CloseStep,
              P!ForkedStep, P!Return, PSame
<1>4. shut["C"] /\ P!End("W") = "C" BY DEF WriterStops, P!End
<1>5. P!EndProcess("W", "exited") /\ pcP' = pcP /\ part' = part /\ hold' = hold /\ got' = got
  BY <1>3, <1>4 DEF P!WriteStep
<1>6. ~(\A q \in P!Procs \ {"W"} : P!End(q) = P!End("W") => stP[q] # "run")
  <2>1. "C" \in P!Procs \ {"W"} /\ P!End("C") = P!End("W") BY DEF P!End
  <2> QED BY <2>1
<1>7. /\ stP' = [stP EXCEPT !["W"] = "exited"] /\ net' = net
      /\ rx' = rx /\ fin' = fin /\ err' = err /\ open' = open /\ shut' = shut
  BY <1>5, <1>6 DEF P!EndProcess, P!tcp
<1>8. PLocal' BY <1>3, <1>5, <1>7 DEF PLocal, PSame
<1> QED BY <1>3, <1>5, <1>7, <1>8

\* With that the pair stays Live: the parent still reads.
LEMMA LiveWriterDies ==
  ASSUME PLocal, PTcp, Live, pair = "mp", WriterStops, ToS = Rounds * m, P!Proc("W") PROVE PInv'
<1> USE DEF P!Procs, P!Ends
<1>1. ~OneWay /\ ~TwoWay /\ ~EchoPair BY DEF OneWay, TwoWay, EchoPair
<1>2. Connection /\ ClientParent BY DEF Live, ClientPart
<1>3. hold["W"] = 0 /\ pcP["C"] = 2 /\ part["C"] = 0 /\ stP["C"] = "run" /\ stP["S"] = "run"
  BY <1>2 DEF ClientParent, Connection
<1>4. /\ PSame /\ stP' = [stP EXCEPT !["W"] = "exited"] /\ pcP' = pcP /\ part' = part /\ hold' = hold /\ got' = got
      /\ net' = net /\ rx' = rx /\ fin' = fin /\ err' = err /\ open' = open /\ shut' = shut /\ PLocal'
  BY <1>3, WriterDies
<1>5. stP'["S"] = "run" /\ stP'["C"] = "run" BY <1>3, <1>4 DEF PLocal
<1>6. PTcp' BY <1>4 DEF PTcp
<1>7. pair' = pair /\ m' = m /\ OneWay' = OneWay /\ TwoWay' = TwoWay /\ EchoPair' = EchoPair BY <1>4, KindsStay
<1>8. Connection' BY <1>2, <1>4, <1>5, <1>7 DEF Connection
<1>9. ToC' = ToC /\ ToS' = ToS BY <1>4 DEF ToC, ToS
<1>10. ServerPart'
  <2>1. KeepS BY <1>4, <1>9 DEF KeepS
  <2> QED BY <1>4, <2>1, ServerKept DEF Live
<1>11. WriterStops' BY <1>4 DEF WriterStops
<1>12. WriterAt' BY <1>7, <1>9, <1>11 DEF WriterAt
<1>13. ClientParent' BY <1>3, <1>4, <1>12 DEF ClientParent
<1>14. ClientPart' BY <1>1, <1>7, <1>13 DEF ClientPart
<1> QED BY <1>4, <1>6, <1>8, <1>10, <1>14, LiveKept DEF Live

\* What the child does.
LEMMA LiveWriter ==
  ASSUME PLocal, PTcp, Live, P!Proc("W") PROVE PInv'
<1>1. stP["W"] = "run" BY NoCalls
<1>2. pair = "mp" BY <1>1 DEF Live, Connection
<1>3. WriterAt BY <1>2 DEF Live, ClientPart, ClientParent
<1>4. CASE ~shut["C"] /\ pcP["W"] = 1 /\ part["W"] = 0 /\ ToS = 0 BY <1>2, <1>4, LiveForked
<1>5. CASE ~shut["C"] /\ \E j \in Nat : WriterRound(j)
  <2>1. PICK j \in Nat : WriterRound(j) BY <1>5
  <2>2. (j < Rounds /\ pcP["W"] = j + 2) \/ (j = Rounds /\ pcP["W"] = j + 2) BY <2>1 DEF WriterRound
  <2>3. CASE j < Rounds /\ pcP["W"] = j + 2 BY <1>1, <1>2, <1>5, <2>1, <2>3, LiveWriterWrites
  <2>4. CASE j = Rounds /\ pcP["W"] = j + 2 BY <1>2, <1>5, <2>1, <2>4, LiveWriterShuts
  <2> QED BY <2>2, <2>3, <2>4
<1>6. CASE WriterStops /\ ToS = Rounds * m BY <1>2, <1>6, LiveWriterDies
<1> QED BY <1>3, <1>4, <1>5, <1>6 DEF WriterAt

-----------------------------------------------------------------------------
(* Pairs on one connection: one has closed it                              *)

\* The client reads what is left.
LEMMA ToClientStep ==
  ASSUME PLocal, PTcp, ToClient, NEW p \in P!Procs, P!Proc(p) PROVE PInv'
<1> USE DEF P!Procs, P!Ends
<1>1. stP[p] = "run" BY NoCalls
<1>2. p # "S" BY <1>1 DEF ToClient
<1>3. OneWay \/ pair = "mp" BY DEF ToClient
<1>4. /\ stP["S"] = "done" /\ Finished("S") /\ stP["C"] = "run" /\ pcP["C"] = 2 /\ part["C"] = 0 /\ hold["C"] = 0
      /\ err["C"] = "ok" /\ ToC = (IF OneWay THEN m ELSE Rounds * m) /\ (pair = "hello" => got["C"] = 0)
      /\ IF pair = "mp" THEN WriterStops /\ hold["W"] = 0 ELSE stP["W"] = "done"
  BY DEF ToClient
<1>5. /\ rx["C"] \in Nat /\ got["C"] \in Nat /\ pcP["S"] \in Nat /\ m \in Nat /\ m > 0 /\ Rounds \in Nat
      /\ pcP["W"] \in Nat
  BY PConstants DEF PLocal, PTcp
<1>6. pcP["S"] > LastRead("S") /\ got["S"] \in P!Promise("S") BY <1>4 DEF Finished
<1>7. LastRead("C") = 2 /\ ~TwoWay /\ ~EchoPair /\ (pair = "mp" => ~OneWay)
  BY <1>3 DEF LastRead, OneWay, TwoWay, EchoPair
<1>8. IF pair = "mp" THEN pcP["W"] > 0 ELSE stP["W"] = "done" BY <1>4, <1>5, PConstants DEF WriterStops
<1>9. OneWay \/ TwoWay \/ Echoing BY <1>3 DEF Echoing
<1>10. CASE p = "W"
  <2>1. pair = "mp" BY <1>1, <1>4, <1>10
  <2>2. /\ PSame /\ stP' = [stP EXCEPT !["W"] = "exited"] /\ pcP' = pcP /\ part' = part /\ hold' = hold /\ got' = got
        /\ net' = net /\ rx' = rx /\ fin' = fin /\ err' = err /\ open' = open /\ shut' = shut /\ PLocal'
    BY <1>4, <1>10, <2>1, WriterDies
  <2>3. /\ pair' = pair /\ m' = m /\ OneWay' = OneWay /\ P!Promise("S")' = P!Promise("S")
        /\ LastRead("S")' = LastRead("S")
    BY <2>2, KindsStay
  <2>4. stP'["S"] = "done" /\ stP'["C"] = "run" BY <1>4, <2>2 DEF PLocal
  <2>5. PTcp' BY <2>2 DEF PTcp
  <2>6. Finished("S")' BY <1>6, <2>2, <2>3 DEF Finished
  <2>7. WriterStops' BY <1>4, <2>1, <2>2 DEF WriterStops
  <2>8. ToC' = ToC BY <2>2 DEF ToC
  <2>9. ToClient' BY <1>3, <1>4, <2>1, <2>2, <2>3, <2>4, <2>6, <2>7, <2>8 DEF ToClient
  <2> QED BY <2>2, <2>5, <2>9 DEF PInv
<1>11. CASE p = "C" /\ pair = "hello"
  <2>1. OneWay BY <1>11 DEF OneWay
  <2>2. rx["C"] > 0 BY <1>4, <1>5, <1>11, <2>1 DEF ToC
  <2>3. PICK k : HelloRead(k) BY <1>4, <1>11, <2>2, HelloReads
  <2>4. /\ k \in Nat /\ k > 0 /\ k <= m /\ got'["C"] = got["C"] + k /\ got'["S"] = got["S"]
        /\ pcP'["C"] = 3 /\ pcP'["S"] = pcP["S"] /\ PSame /\ stP' = stP /\ PLocal'
    BY <2>3 DEF HelloRead, Quiet
  <2>5. P!Promise("C") = 1..m BY <1>11 DEF P!Promise
  <2>6. got'["C"] \in P!Promise("C") /\ pcP'["C"] > 2 BY <1>4, <1>5, <1>11, <2>4, <2>5
  <2> QED BY <1>6, <1>7, <1>8, <1>9, <1>11, <2>4, <2>6, OverReached
<1>12. CASE p = "C" /\ pair # "hello"
  <2>1. (\E k : AllRead(k)) \/ AllEnd BY <1>3, <1>4, <1>12, AllReads
  <2>2. CASE \E k : AllRead(k)
    <3>1. PICK k : AllRead(k) BY <2>2
    <3>2. /\ k \in Nat /\ k > 0 /\ k <= rx["C"] /\ rx'["C"] = rx["C"] - k /\ rx'["S"] = rx["S"]
          /\ got'["C"] = got["C"] + k /\ got'["S"] = got["S"] /\ pcP' = pcP /\ part' = part /\ hold' = hold
          /\ Quiet /\ PLocal' /\ PTcp'
      BY <3>1 DEF AllRead
    <3>3. PSame /\ stP' = stP /\ err' = err /\ shut' = shut BY <3>2 DEF Quiet
    <3>4. /\ pair' = pair /\ m' = m /\ OneWay' = OneWay /\ P!Promise("S")' = P!Promise("S")
          /\ LastRead("S")' = LastRead("S")
      BY <3>3, KindsStay
    <3>5. ToC' = ToC BY <1>5, <3>2 DEF ToC
    <3>6. Finished("S")' BY <1>6, <3>2, <3>4 DEF Finished
    <3>7. pair = "mp" => WriterStops' BY <1>4, <3>2, <3>3 DEF WriterStops
    <3>8. ToClient' BY <1>3, <1>4, <1>12, <3>2, <3>3, <3>4, <3>5, <3>6, <3>7 DEF ToClient
    <3> QED BY <3>2, <3>8 DEF PInv
  <2>3. CASE AllEnd
    <3>1. rx["C"] = 0 /\ SeesEnd("C", "C") /\ PLocal' BY <2>3 DEF AllEnd, SeesNothing
    <3>2. got' = got /\ Moves("C") /\ PSame /\ stP' = stP BY <3>1 DEF SeesEnd, Quiet
    <3>3. pcP'["C"] = 3 /\ pcP'["S"] = pcP["S"] /\ pcP'["W"] = pcP["W"] BY <1>4, <3>2 DEF Moves, PLocal
    <3>4. got["C"] = (IF OneWay THEN m ELSE Rounds * m) BY <1>4, <1>5, <3>1 DEF ToC
    <3>5. got["C"] \in P!Promise("C")
      <4>1. CASE OneWay BY <1>12, <3>4, <4>1 DEF P!Promise, OneWay
      <4>2. CASE ~OneWay
        <5>1. pair = "mp" BY <1>3, <4>2
        <5> QED BY <3>4, <4>2, <5>1 DEF P!Promise
      <4> QED BY <4>1, <4>2
    <3>6. pcP'["C"] > 2 BY <3>3
    <3> QED BY <1>6, <1>7, <1>8, <1>9, <3>1, <3>2, <3>3, <3>5, <3>6, OverReached
  <2> QED BY <2>1, <2>2, <2>3
<1> QED BY <1>2, <1>10, <1>11, <1>12

\* The server does.
LEMMA ToServerStep ==
  ASSUME PLocal, PTcp, ToServer, NEW p \in P!Procs, P!Proc(p) PROVE PInv'
<1> USE DEF P!Procs, P!Ends
<1>1. stP[p] = "run" BY NoCalls
<1>2. p = "S" BY <1>1 DEF ToServer
<1>3. /\ TwoWay \/ (EchoPair /\ pair # "quit")
      /\ stP["C"] = "done" /\ Finished("C") /\ stP["S"] = "run" /\ pcP["S"] = LastRead("S") /\ hold["S"] = 0
      /\ err["S"] = "ok" /\ stP["W"] = "done"
  BY DEF ToServer
<1>4. pcP["C"] > LastRead("C") /\ got["C"] \in P!Promise("C") BY <1>3 DEF Finished
<1>5. pair # "mp" /\ ~OneWay /\ (EchoPair => Echoing /\ ~TwoWay) BY <1>3 DEF OneWay, TwoWay, EchoPair, Echoing
<1>6. rx["S"] \in Nat /\ got["S"] \in Nat /\ part["S"] \in Nat /\ P!Thanks = 2 BY PConstants DEF PLocal, PTcp
<1>7. CASE TwoWay
  <2>1. LastRead("S") = 5 BY <1>5, <1>7 DEF LastRead
  <2>2. ToS = P!Thanks /\ got["S"] = part["S"] /\ part["S"] < P!Thanks /\ (pair = "file" => part["S"] = 0)
    BY <1>7 DEF ToServer
  <2>3. rx["S"] > 0 BY <1>6, <2>2 DEF ToS
  <2>4. \E k : ReadsThanks(k) BY <1>2, <1>3, <1>7, <2>1, <2>2, <2>3, ThanksRead
  <2>5. PICK k : ReadsThanks(k) BY <2>4
  <2>6. /\ k \in Nat /\ k > 0 /\ rx'["S"] = rx["S"] - k /\ got'["S"] = got["S"] + k /\ got'["C"] = got["C"]
        /\ k <= rx["S"] /\ Quiet /\ hold' = hold /\ PLocal' /\ PTcp' /\ pcP'["C"] = pcP["C"]
    BY <2>5 DEF ReadsThanks
  <2>7. PSame /\ stP' = stP /\ err' = err BY <2>6 DEF Quiet
  <2>8. ToS' = ToS BY <1>6, <2>6 DEF ToS
  <2>9. CASE pcP'["S"] = 6 /\ (IF pair = "file" THEN got'["S"] \in 1..P!Thanks ELSE got'["S"] = P!Thanks)
    <3>1. got'["S"] \in P!Promise("S") BY <1>7, <2>9 DEF P!Promise, TwoWay
    <3>2. pcP'["S"] > 5 BY <2>9
    <3> QED BY <1>3, <1>4, <1>5, <1>7, <2>1, <2>6, <2>7, <3>1, <3>2, OverReached
  <2>10. CASE pcP'["S"] = 5 /\ pair = "sep" /\ part'["S"] = part["S"] + k /\ part'["S"] < P!Thanks
    <3>1. /\ pair' = pair /\ m' = m /\ TwoWay' = TwoWay /\ EchoPair' = EchoPair /\ P!Thanks' = P!Thanks
          /\ P!Promise("C")' = P!Promise("C") /\ LastRead("S")' = LastRead("S") /\ LastRead("C")' = LastRead("C")
      BY <2>7, KindsStay
    <3>2. Finished("C")' BY <1>4, <2>6, <3>1 DEF Finished
    <3>3. ~EchoPair BY <1>5, <1>7
    <3>4. got'["S"] = part'["S"] BY <2>2, <2>6, <2>10
    <3>5. ToServer' BY <1>3, <1>7, <2>1, <2>2, <2>6, <2>7, <2>8, <2>10, <3>1, <3>2, <3>3, <3>4 DEF ToServer
    <3> QED BY <2>6, <3>5 DEF PInv
  <2> QED BY <2>5, <2>9, <2>10 DEF ReadsThanks
<1>8. CASE EchoPair /\ pair # "quit"
  <2>1. got["S"] = Rounds * m /\ rx["S"] = 0 /\ part["S"] = 0 BY <1>8 DEF ToServer
  <2>2. LastRead("S") = 3 /\ m \in Nat /\ m > 0 BY <1>5, <1>8 DEF LastRead, PLocal
  <2>3. IF pair = "std" THEN part["S"] < m ELSE part["S"] = 0 BY <2>1, <2>2
  <2>4. (\E k : EchoRead(k)) \/ EchoEnd BY <1>2, <1>3, <1>5, <1>8, <2>2, <2>3, EchoServerReads
  <2>5. ~(\E k : EchoRead(k)) BY <2>1 DEF EchoRead
  <2>6. SeesEnd("S", "S") /\ PLocal' BY <2>4, <2>5 DEF EchoEnd
  <2>7. got' = got /\ Moves("S") /\ PSame /\ stP' = stP BY <2>6 DEF SeesEnd, Quiet
  <2>8. pcP'["S"] = 4 /\ pcP'["C"] = pcP["C"] BY <1>3, <2>2, <2>7 DEF Moves, PLocal
  <2>9. got["S"] \in P!Promise("S") BY <1>8, <2>1 DEF P!Promise, EchoPair
  <2>10. pcP'["S"] > 3 BY <2>8
  <2> QED BY <1>3, <1>4, <1>5, <1>8, <2>2, <2>6, <2>7, <2>8, <2>9, <2>10, OverReached
<1> QED BY <1>3, <1>7, <1>8

\* The server behind a client that has quit.
LEMMA LeftStep ==
  ASSUME PLocal, Left, NEW p \in P!Procs, P!Proc(p) PROVE PInv'
<1> USE DEF P!Procs, P!Ends
<1>1. stP[p] = "run" BY NoCalls
<1>2. p = "S" BY <1>1 DEF Left
<1>3. /\ pair = "quit" /\ stP["C"] = "done" /\ Finished("C") /\ stP["W"] = "done" /\ pcP["S"] = 3 /\ part["S"] = 0
      /\ rx \in [P!Ends -> Nat] /\ ToS = Rounds * m + ClientBuf
  BY <1>1, <1>2 DEF Left
<1>4. Echoing /\ ~OneWay /\ ~TwoWay BY <1>3 DEF Echoing, OneWay, TwoWay
<1>5. /\ rx["S"] \in Nat /\ rx["C"] \in Nat /\ got["S"] \in Nat /\ hold["S"] \in Nat /\ BufSize \in Nat /\ Cap \in Nat
      /\ "S" \in P!Procs /\ P!End("S") = "S" /\ P!Peer("S") = "C"
  BY <1>3, PConstants DEF PLocal, P!End, P!Peer
<1>6. IsCall("S", "echo", BufSize, "next", "again") BY <1>3, <1>4, EchoerCalls
<1>7. /\ \A z : P!At("S", z) => z = "echo"
      /\ ~(pcP["S"] > Len(P!Script("S"))) /\ P!Op("S").op = "echo" /\ P!Op("S").n = BufSize /\ P!Op("S").eof = "next"
      /\ P!Op("S").bad = "again"
  BY <1>6, CallOnly
<1>8. (P!WriteStep("S") \/ P!ReadStep("S")) /\ PSame
  BY <1>2, <1>7 DEF P!Proc, P!ListenStep, P!ConnectStep, P!AcceptStep, P!ShutdownStep, P!CloseStep,
                    P!ForkedStep, P!Return, PSame
<1>9. /\ pair' = pair /\ m' = m /\ LastRead("C")' = LastRead("C") /\ P!Promise("C")' = P!Promise("C")
  BY <1>8, KindsStay
<1>10. pcP["C"] > LastRead("C") /\ got["C"] \in P!Promise("C") BY <1>3 DEF Finished
<1>11. ASSUME stP' = stP, pcP' = pcP, part' = part, got'["C"] = got["C"], rx' \in [P!Ends -> Nat],
              rx'["S"] + got'["S"] = rx["S"] + got["S"], got' \in [P!Procs -> Nat], hold' \in [P!Procs -> Nat]
       PROVE  PInv'
  <2>1. Finished("C")' BY <1>9, <1>10, <1>11 DEF Finished
  <2>2. ToS' = Rounds * m + ClientBuf BY <1>3, <1>11 DEF ToS
  <2>3. Left' BY <1>1, <1>2, <1>3, <1>9, <1>11, <2>1, <2>2 DEF Left
  <2>4. PLocal' BY <1>8, <1>11 DEF PLocal, PSame
  <2> QED BY <2>3, <2>4 DEF PInv
<1>12. CASE P!WriteStep("S")
  <2>1. got' = got BY <1>12 DEF P!WriteStep
  <2>2. ~P!At("S", "write") /\ P!ToWrite("S") = hold["S"] BY <1>7 DEF P!ToWrite
  <2>3. ASSUME NEW k \in Nat, k <= hold["S"], P!Wrote("S", k)
        PROVE  pcP' = pcP /\ part' = part /\ hold' \in [P!Procs -> Nat]
    <3>1. hold' = [hold EXCEPT !["S"] = @ - k] /\ pcP' = pcP /\ part' = part BY <2>2, <2>3 DEF P!Wrote, P!Stay
    <3>2. hold["S"] - k \in Nat BY <1>5, <2>3
    <3> QED BY <3>1, <3>2 DEF PLocal
  <2>4. CASE P!EndProcess("S", "exited") /\ UNCHANGED <<pcP, part, hold>>
    <3>1. stP' = [stP EXCEPT !["S"] = "exited"] BY <2>4 DEF P!EndProcess
    <3>2. stP'["S"] = "exited" /\ stP'["C"] = "done" /\ stP'["W"] = "done" BY <1>3, <3>1 DEF PLocal
    <3>3. Finished("C")' BY <1>9, <1>10, <2>1, <2>4 DEF Finished
    <3>4. Left' BY <1>3, <1>9, <2>4, <3>2, <3>3 DEF Left
    <3>5. PLocal' BY <1>8, <2>1, <2>4, <3>1 DEF PLocal, PSame
    <3> QED BY <3>4, <3>5 DEF PInv
  <2>5. CASE P!Wrote("S", P!ToWrite("S")) /\ stP' = stP /\ rx' = rx
    <3>1. P!Wrote("S", hold["S"]) /\ hold["S"] <= hold["S"] BY <1>5, <2>2, <2>5
    <3>2. pcP' = pcP /\ part' = part /\ hold' \in [P!Procs -> Nat] BY <1>5, <2>3, <3>1
    <3>3. got' \in [P!Procs -> Nat] /\ got'["C"] = got["C"] /\ rx' \in [P!Ends -> Nat] BY <1>3, <2>1, <2>5 DEF PLocal
    <3>4. rx'["S"] + got'["S"] = rx["S"] + got["S"] BY <2>1, <2>5
    <3> QED BY <1>11, <2>5, <3>2, <3>3, <3>4
  <2>6. CASE /\ \E k \in 1..P!Min({P!ToWrite("S"), Cap - rx["C"]}) : rx' = [rx EXCEPT !["C"] = @ + k] /\ P!Wrote("S", k)
             /\ stP' = stP
    <3>1. PICK k \in 1..P!Min({hold["S"], Cap - rx["C"]}) : rx' = [rx EXCEPT !["C"] = @ + k] /\ P!Wrote("S", k)
      BY <2>2, <2>6
    <3>2. k \in Nat /\ k <= hold["S"]
      <4>1. hold["S"] \in Int /\ Cap - rx["C"] \in Int BY <1>5
      <4> QED BY <3>1, <4>1, MinOfTwo
    <3>3. pcP' = pcP /\ part' = part /\ hold' \in [P!Procs -> Nat] BY <2>3, <3>1, <3>2
    <3>4. rx["C"] + k \in Nat BY <1>5, <3>2
    <3>5. rx' \in [P!Ends -> Nat] /\ rx'["S"] = rx["S"] BY <1>3, <3>1, <3>4
    <3>6. got' \in [P!Procs -> Nat] /\ got'["C"] = got["C"] BY <2>1 DEF PLocal
    <3>7. rx'["S"] + got'["S"] = rx["S"] + got["S"] BY <2>1, <3>5
    <3> QED BY <1>11, <2>6, <3>3, <3>5, <3>6, <3>7
  <2> QED BY <1>5, <1>12, <2>4, <2>5, <2>6 DEF P!WriteStep, P!Alive
<1>13. CASE P!ReadStep("S")
  <2>1. BufSize - part["S"] = BufSize BY <1>3, <1>5
  <2>2. PICK k \in P!ReadResult("S", BufSize) :
         \/ /\ k > 0
            /\ rx' = [rx EXCEPT !["S"] = @ - k] /\ got' = [got EXCEPT !["S"] = @ + k]
            /\ P!AfterData("S", k) /\ P!Alive
         \/ /\ k = 0 /\ P!AfterFailure("S", "next") /\ got' = got
         \/ /\ k = -1 /\ P!AfterFailure("S", "again") /\ rx' = rx /\ got' = got
    BY <1>5, <1>7, <1>13, <2>1 DEF P!ReadStep, P!tcp
  <2>3. CASE k > 0
    <3>1. rx["S"] > 0 BY <1>5, <2>2, <2>3 DEF P!ReadResult
    <3>2. k \in 1..P!Min({rx["S"], BufSize}) BY <2>2, <3>1 DEF P!ReadResult
    <3>3. k \in Nat /\ k <= rx["S"]
      <4>1. rx["S"] \in Int /\ BufSize \in Int BY <1>5
      <4> QED BY <3>2, <4>1, MinOfTwo
    <3>4. /\ rx' = [rx EXCEPT !["S"] = @ - k] /\ got' = [got EXCEPT !["S"] = @ + k]
          /\ P!AfterData("S", k) /\ stP' = stP
      BY <2>2, <2>3 DEF P!Alive
    <3>5. pcP' = pcP /\ part' = part /\ hold' = [hold EXCEPT !["S"] = k] BY <1>7, <3>4 DEF P!AfterData, P!Stay
    <3>6. hold' \in [P!Procs -> Nat] BY <3>3, <3>5 DEF PLocal
    <3>7. rx["S"] - k \in Nat /\ got["S"] + k \in Nat BY <1>5, <3>3
    <3>8. rx' \in [P!Ends -> Nat] /\ rx'["S"] = rx["S"] - k BY <1>3, <3>4, <3>7
    <3>9. got' \in [P!Procs -> Nat] /\ got'["S"] = got["S"] + k /\ got'["C"] = got["C"] BY <3>4, <3>7 DEF PLocal
    <3>10. rx'["S"] + got'["S"] = rx["S"] + got["S"] BY <1>5, <3>3, <3>8, <3>9
    <3> QED BY <1>11, <3>4, <3>5, <3>6, <3>8, <3>9, <3>10
  <2>4. CASE k = 0
    <3>1. rx["S"] = 0
      <4>1. ASSUME rx["S"] > 0 PROVE FALSE
        <5>1. k \in 1..P!Min({rx["S"], BufSize}) BY <2>2, <4>1 DEF P!ReadResult
        <5>2. rx["S"] \in Int /\ BufSize \in Int BY <1>5
        <5>3. k > 0 BY <5>1, <5>2, MinOfTwo
        <5> QED BY <2>4, <5>3
      <4> QED BY <1>5, <4>1
    <3>2. P!AfterFailure("S", "next") /\ got' = got BY <2>2, <2>4
    <3>3. stP' = stP /\ hold' = hold /\ pcP' = [pcP EXCEPT !["S"] = @ + 1] /\ part' = [part EXCEPT !["S"] = 0]
      BY <3>2 DEF P!AfterFailure, P!Advance, P!Alive
    <3>4. PLocal' BY <1>8, <3>2, <3>3 DEF PLocal, PSame
    <3>5. pcP'["S"] = 4 /\ pcP'["C"] = pcP["C"] BY <1>3, <3>3 DEF PLocal
    <3>6. LastRead("S") = 3 BY <1>4 DEF LastRead
    <3>7. got["S"] = Rounds * m + ClientBuf BY <1>3, <1>5, <3>1 DEF ToS
    <3>8. P!Promise("S") = {Rounds * m + ClientBuf} BY <1>3 DEF P!Promise
    <3>9. pcP'["S"] > LastRead("S") /\ got'["S"] \in P!Promise("S") BY <3>2, <3>5, <3>6, <3>7, <3>8
    <3>10. pcP'["C"] > LastRead("C") /\ got'["C"] \in P!Promise("C") BY <1>10, <3>2, <3>5
    <3>11. IF pair = "mp" THEN pcP'["W"] > 0 ELSE stP'["W"] = "done" BY <1>3, <3>3
    <3> QED BY <1>4, <1>8, <3>4, <3>9, <3>10, <3>11, OverReached
  <2>5. CASE k = -1
    <3>1. P!AfterFailure("S", "again") /\ rx' = rx /\ got' = got BY <2>2, <2>5
    <3>2. stP' = stP /\ hold' = hold /\ pcP' = pcP /\ part' = part BY <3>1 DEF P!AfterFailure, P!Stay, P!Alive
    <3>3. got' \in [P!Procs -> Nat] /\ hold' \in [P!Procs -> Nat] /\ rx' \in [P!Ends -> Nat] BY <1>3, <3>1, <3>2 DEF PLocal
    <3>4. rx'["S"] + got'["S"] = rx["S"] + got["S"] /\ got'["C"] = got["C"] BY <3>1
    <3> QED BY <1>11, <3>1, <3>2, <3>3, <3>4
  <2> QED BY <2>2, <2>3, <2>4, <2>5
<1> QED BY <1>8, <1>12, <1>13

\* A line that was cut: the server never sees its end, the client no answer.
LEMMA StuckStep ==
  ASSUME PLocal, PTcp, Stuck, NEW p \in P!Procs, P!Proc(p) PROVE PInv'
<1> USE DEF P!Procs, P!Ends
<1>1. stP[p] = "run" BY NoCalls
<1>2. /\ Cut /\ Connection /\ ~shut["S"] /\ ~shut["C"] /\ hold["S"] = 0 /\ rx["C"] = 0
      /\ pcP["S"] \in {2, 3} /\ part["S"] = got["S"] /\ (pcP["S"] = 2 => got["S"] = 0)
      /\ \/ pcP["C"] = 2 /\ part["C"] < StdBuf - 1 /\ ToS = part["C"]
         \/ pcP["C"] = 3 /\ ToS = StdBuf - 1
  BY DEF Stuck
<1>3. p # "W" /\ pair = "std" /\ ~(m < StdBuf) BY <1>1, <1>2 DEF Connection, Cut
<1>4. /\ rx["S"] \in Nat /\ got["S"] \in Nat /\ part["S"] \in Nat /\ part["C"] \in Nat /\ m \in Nat \ {0} /\ m \in Nat
      /\ StdBuf \in Nat /\ StdBuf > 1 /\ StdBuf - 1 \in Nat
  BY PConstants DEF PLocal, PTcp
<1>5. stP["S"] = "run" /\ stP["C"] = "run" /\ hold["C"] = 0 /\ err["S"] = "ok" /\ err["C"] = "ok" /\ ~fin["C"]
  BY <1>2 DEF Connection
<1>6. CASE p = "C" /\ pcP["C"] = 2
  <2>1. IsCall("C", "write", StdBuf - 1, "next", "next") BY <1>2, <1>4, <1>6, CutClientCalls
  <2>2. part["C"] < StdBuf - 1 /\ ToS = part["C"] /\ "C" \in {"C", "W"} BY <1>2, <1>6
  <2>3. PICK k : ClientWrote("C", k, StdBuf - 1) BY <1>2, <1>4, <1>5, <1>6, <2>1, <2>2, ClientWrites
  <2>4. /\ k \in Nat /\ k > 0 /\ got' = got /\ hold' = hold /\ Quiet /\ PLocal' /\ PTcp' /\ KeepS /\ ToS' = ToS + k
        /\ \/ part["C"] + k = StdBuf - 1 /\ pcP'["C"] = pcP["C"] + 1 /\ part'["C"] = 0
           \/ part["C"] + k < StdBuf - 1 /\ pcP'["C"] = pcP["C"] /\ part'["C"] = part["C"] + k
    BY <2>3 DEF ClientWrote
  <2>5. Connection' BY <1>2, <2>4, ConnectionKept
  <2>6. PSame /\ shut' = shut /\ Cut' = Cut
    <3>1. PSame /\ shut' = shut BY <2>4 DEF Quiet
    <3> QED BY <3>1, KindsStay
  <2>7. rx'["C"] = 0
    <3>1. ToC' = ToC /\ rx'["C"] \in Nat /\ got["C"] \in Nat BY <2>4 DEF KeepS, PTcp, PLocal
    <3> QED BY <1>2, <2>4, <3>1 DEF ToC
  <2>8. \/ pcP'["C"] = 2 /\ part'["C"] < StdBuf - 1 /\ ToS' = part'["C"]
        \/ pcP'["C"] = 3 /\ ToS' = StdBuf - 1
    BY <1>6, <2>2, <2>4
  <2>9. pcP'["S"] = pcP["S"] /\ part'["S"] = part["S"] BY <2>4 DEF KeepS
  <2>10. Stuck' BY <1>2, <2>4, <2>5, <2>6, <2>7, <2>8, <2>9 DEF Stuck
  <2> QED BY <2>4, <2>10 DEF PInv
<1>7. CASE p = "C" /\ pcP["C"] = 3
  <2>1. IsCall("C", "exact", StdBuf - 1, "next", "next") BY <1>2, <1>4, <1>7, CutClientCalls
  <2>2. "exact" \in {"once", "exact", "all", "echo", "line"} /\ "C" \in P!Ends /\ P!End("C") = "C" BY DEF P!End
  <2>3. ReadsSome("C", "C", "exact", StdBuf - 1) \/ EndRead("C", "C", "next")
    BY <1>4, <1>5, <1>7, <2>1, <2>2, CallTakes
  <2>4. ~EndRead("C", "C", "next") BY <1>5 DEF EndRead, SeesNothing
  <2>5. PICK k : Takes("C", "C", k, StdBuf - 1) BY <2>3, <2>4 DEF ReadsSome
  <2>6. k \in Nat /\ k > 0 /\ k <= rx["C"] BY <2>5 DEF Takes
  <2> QED BY <1>2, <2>6
<1>8. CASE p = "S" /\ pcP["S"] = 2
  <2>1. PSame /\ P!AcceptStep("S") BY <1>2, <1>8, FirstCalls, OtherCalls
  <2>2. /\ P!Advance("S") /\ stP' = stP /\ hold' = hold /\ got' = got /\ rx' = rx /\ fin' = fin
        /\ err' = err /\ open' = open /\ shut' = shut
    BY <2>1 DEF P!AcceptStep, P!Alive, P!tcp
  <2>3. pcP' = [pcP EXCEPT !["S"] = 3] /\ part' = [part EXCEPT !["S"] = 0] BY <1>8, <2>2 DEF P!Advance, PLocal
  <2>4. pcP'["S"] = 3 /\ pcP'["C"] = pcP["C"] /\ part'["S"] = 0 /\ part'["C"] = part["C"] BY <2>3 DEF PLocal
  <2>5. PLocal' /\ PTcp' BY <2>1, <2>2, <2>3 DEF PLocal, PTcp, PSame
  <2>6. Connection' BY <1>2, <2>1, <2>2 DEF Connection, PSame
  <2>7. Cut' = Cut /\ ToS' = ToS
    <3>1. ToS' = ToS BY <2>2 DEF ToS
    <3> QED BY <2>1, <3>1, KindsStay
  <2>8. Stuck' BY <1>2, <1>8, <2>2, <2>4, <2>6, <2>7 DEF Stuck
  <2> QED BY <2>5, <2>8 DEF PInv
<1>9. CASE p = "S" /\ pcP["S"] = 3
  <2>1. IsCall("S", "line", m, "next", "line") BY <1>2, <1>3, <1>9, EchoerCalls
  <2>2. "line" \in {"once", "exact", "all", "echo", "line"} /\ "S" \in P!Ends /\ P!End("S") = "S" BY DEF P!End
  <2>3. ReadsSome("S", "S", "line", m) \/ EndRead("S", "S", "next") BY <1>2, <1>4, <1>5, <1>9, <2>1, <2>2, CallTakes
  <2>4. ~fin["S"] BY <1>2 DEF Connection
  <2>5. ~EndRead("S", "S", "next") BY <2>4 DEF EndRead, SeesNothing
  <2>6. PICK k : Takes("S", "S", k, m) /\ Keeps("S", "line", k, m) BY <2>3, <2>5 DEF ReadsSome
  <2>7. PLocal' /\ PTcp' BY <2>3, <2>5 DEF ReadsSome
  <2>8. /\ k \in Nat /\ k > 0 /\ k <= rx["S"] /\ rx'["S"] = rx["S"] - k /\ rx'["C"] = rx["C"]
        /\ got'["S"] = got["S"] + k /\ Quiet
    BY <2>6 DEF Takes, PLocal, PTcp
  <2>9. ToS <= StdBuf - 1 BY <1>2, <1>4
  <2>10. part["S"] + k # m
    <3>1. part["S"] + k <= StdBuf - 1 BY <1>2, <1>4, <2>8, <2>9 DEF ToS
    <3> QED BY <1>3, <1>4, <2>8, <3>1
  <2>11. pcP' = pcP /\ part' = [part EXCEPT !["S"] = @ + k] /\ hold' = hold BY <2>6, <2>10 DEF Keeps
  <2>12. part'["S"] = part["S"] + k /\ part'["C"] = part["C"] BY <2>11 DEF PLocal
  <2>13. Connection' BY <1>2, <2>8, <2>11, ConnectionKept
  <2>14. PSame /\ shut' = shut /\ Cut' = Cut
    <3>1. PSame /\ shut' = shut BY <2>8 DEF Quiet
    <3> QED BY <3>1, KindsStay
  <2>15. ToS' = ToS BY <1>4, <2>8 DEF ToS
  <2>16. Stuck' BY <1>2, <1>9, <2>8, <2>11, <2>12, <2>13, <2>14, <2>15 DEF Stuck
  <2> QED BY <2>7, <2>16 DEF PInv
<1> QED BY <1>2, <1>3, <1>6, <1>7, <1>8, <1>9

-----------------------------------------------------------------------------
(* Pairs on one connection: op_server.c, one client after the other        *)

\* A phase of op_server.c is one of the invariant.
LEMMA OpReached ==
  ASSUME PLocal', pair' = "op", stP'["W"] = "done", NEW r \in Nat, NEW x \in 0..4,
         OpLive(r, x)' \/ OpTail(r, x)' \/ OpRest(r)'
  PROVE  PInv'
<1>1. OpPhase' BY DEF OpPhase
<1> QED BY <1>1 DEF PInv

\* A step of the server while the client is connected.
LEMMA OpServerStep ==
  ASSUME PLocal', PTcp', pair = "op", PSame, stP' = stP, stP["W"] = "done", NEW r \in Nat, NEW x \in 0..4, NEW z \in 1..4,
         OpLive(r, x), pcP'["S"] = 2 + 5 * r + z, hold'["S"] = 0, hold'["C"] = hold["C"], Connection', shut' = shut,
         net' = "up", OpServes(r, z)', got'["C"] = 0, KeepC
  PROVE  PInv'
<1>1. m' = m /\ pair' = pair BY DEF PSame
<1>2. OpAt(r, z)' BY DEF OpAt, OpLive
<1>3. OpAsks(r)' BY <1>1 DEF OpLive, OpAsks, Before, KeepC
<1>4. OpLive(r, z)' BY <1>2, <1>3 DEF OpLive
<1>5. z \in 0..4 OBVIOUS
<1> QED BY <1>1, <1>4, <1>5, OpReached

\* accept().
LEMMA OpAccept ==
  ASSUME PLocal, pair = "op", stP["W"] = "done", NEW r \in Nat, OpLive(r, 0), P!Proc("S") PROVE PInv'
<1> USE DEF P!Procs, P!Ends
<1>1. /\ pcP["S"] = 2 + 5 * r + 0 /\ hold["S"] = 0 /\ r < Rounds /\ PTcp /\ Connection /\ OpServes(r, 0)
      /\ got["C"] = 0
  BY DEF OpLive, OpAt
<1>2. pcP["S"] = 2 + 5 * r BY <1>1
<1>3. PSame /\ P!AcceptStep("S")
  <2>1. IsCall("S", "accept", 0, "next", "next") BY <1>1, <1>2, OpServerCalls
  <2> QED BY <1>1, <2>1, OtherCalls
<1>4. /\ net' = "up" /\ P!Advance("S") /\ stP' = stP /\ hold' = hold /\ got' = got /\ rx' = rx /\ fin' = fin
      /\ err' = err /\ open' = open /\ shut' = shut
  BY <1>3 DEF P!AcceptStep, P!Alive, P!tcp
<1>5. pcP' = [pcP EXCEPT !["S"] = 2 + 5 * r + 1] /\ part' = [part EXCEPT !["S"] = 0]
  BY <1>2, <1>4 DEF P!Advance, PLocal
<1>6. pcP'["S"] = 2 + 5 * r + 1 /\ pcP'["C"] = pcP["C"] /\ part'["S"] = 0 /\ part'["C"] = part["C"] BY <1>5 DEF PLocal
<1>7. PLocal' /\ PTcp' BY <1>1, <1>3, <1>4, <1>5 DEF PLocal, PTcp, PSame
<1>8. Connection' BY <1>1, <1>3, <1>4 DEF Connection, PSame
<1>9. KeepC BY <1>4, <1>6 DEF KeepC, ToS
<1>10. m' = m BY <1>3 DEF PSame
<1>11. ToC' = ToC BY <1>4 DEF ToC
<1>12. OpServes(r, 1)' BY <1>1, <1>4, <1>6, <1>10, <1>11 DEF OpServes, Before
<1>13. 1 \in 1..4 /\ 0 \in 0..4 OBVIOUS
<1> QED BY <1>1, <1>3, <1>4, <1>6, <1>7, <1>8, <1>9, <1>12, <1>13, OpServerStep

\* The number of operands: one read() of one byte.
LEMMA OpCount ==
  ASSUME PLocal, pair = "op", stP["W"] = "done", NEW r \in Nat, OpLive(r, 1), P!Proc("S") PROVE PInv'
<1> USE DEF P!Procs, P!Ends
<1>1. /\ pcP["S"] = 2 + 5 * r + 1 /\ hold["S"] = 0 /\ r < Rounds /\ PTcp /\ Connection /\ OpServes(r, 1)
      /\ got["C"] = 0 /\ ~shut["C"] /\ net = "up"
  BY DEF OpLive, OpAt
<1>2. /\ part["S"] = 0 /\ got["S"] = Before(r) /\ ToC = 0 /\ stP["S"] = "run" /\ err["S"] = "ok" /\ fin["S"] = shut["C"]
  BY <1>1 DEF OpServes, Connection
<1>3. rx["S"] \in Nat /\ got["S"] \in Nat /\ m \in Nat /\ m > 0 /\ "S" \in P!Procs /\ "S" \in P!Ends /\ P!End("S") = "S"
  BY <1>1 DEF PLocal, PTcp, P!End
<1>4. IsCall("S", "once", 1, "next", "next") /\ 1 \in Nat BY <1>1, OpServerCalls
<1>5. "once" \in {"once", "exact", "all", "echo", "line"} OBVIOUS
<1>6. ReadsSome("S", "S", "once", 1) \/ EndRead("S", "S", "next") BY <1>1, <1>2, <1>3, <1>4, <1>5, CallTakes
<1>7. ~EndRead("S", "S", "next") BY <1>1, <1>2 DEF EndRead, SeesNothing
<1>8. PICK k : Takes("S", "S", k, 1) /\ Keeps("S", "once", k, 1) BY <1>6, <1>7 DEF ReadsSome
<1>9. PLocal' /\ PTcp' BY <1>6, <1>7 DEF ReadsSome
<1>10. Moves("S") /\ hold' = hold BY <1>8 DEF Keeps
<1>11. /\ k \in Nat /\ k > 0 /\ k <= 1 - part["S"] /\ rx'["S"] = rx["S"] - k /\ got'["S"] = got["S"] + k
       /\ rx'["C"] = rx["C"] /\ got'["C"] = got["C"] /\ Quiet
  BY <1>1, <1>8 DEF Takes, PTcp, PLocal
<1>12. k = 1 BY <1>2, <1>11
<1>13. /\ pcP'["S"] = 2 + 5 * r + 2 /\ pcP'["C"] = pcP["C"] /\ part'["S"] = 0 /\ part'["C"] = part["C"]
  BY <1>1, <1>10 DEF Moves, PLocal
<1>14. PSame /\ stP' = stP /\ net' = net /\ shut' = shut BY <1>11 DEF Quiet
<1>15. Connection' BY <1>1, <1>10, <1>11, ConnectionKept
<1>16. ToS' = ToS /\ ToC' = ToC BY <1>3, <1>11 DEF ToS, ToC
<1>17. KeepC BY <1>11, <1>13, <1>14, <1>16 DEF KeepC
<1>18. got'["S"] = Before(r) + 1 + 0 BY <1>2, <1>3, <1>11, <1>12
<1>19. OpServes(r, 2)'
  <2>1. m' = m BY <1>14 DEF PSame
  <2>2. Before(r)' = Before(r) BY <2>1 DEF Before
  <2> QED BY <1>2, <1>3, <1>13, <1>16, <1>18, <2>1, <2>2 DEF OpServes
<1>20. 2 \in 1..4 /\ 1 \in 0..4 OBVIOUS
<1> QED BY <1>1, <1>9, <1>10, <1>11, <1>13, <1>14, <1>15, <1>17, <1>19, <1>20, OpServerStep

\* The operands: the loop goes on until it has all of them.
LEMMA OpOperands ==
  ASSUME PLocal, pair = "op", stP["W"] = "done", NEW r \in Nat, OpLive(r, 2), P!Proc("S") PROVE PInv'
<1> USE DEF P!Procs, P!Ends
<1>1. /\ pcP["S"] = 2 + 5 * r + 2 /\ hold["S"] = 0 /\ r < Rounds /\ PTcp /\ Connection /\ OpServes(r, 2)
      /\ got["C"] = 0 /\ ~shut["C"] /\ net = "up"
  BY DEF OpLive, OpAt
<1>2. /\ part["S"] < m /\ got["S"] = Before(r) + 1 + part["S"] /\ ToC = 0 /\ stP["S"] = "run" /\ err["S"] = "ok"
      /\ fin["S"] = shut["C"]
  BY <1>1 DEF OpServes, Connection
<1>3. /\ rx["S"] \in Nat /\ got["S"] \in Nat /\ part["S"] \in Nat /\ m \in Nat /\ m > 0
      /\ "S" \in P!Procs /\ "S" \in P!Ends /\ P!End("S") = "S" /\ Before(r) \in Nat
  BY <1>1 DEF PLocal, PTcp, P!End, Before
<1>4. IsCall("S", "exact", m, "again", "again") BY <1>1, OpServerCalls
<1>5. "exact" \in {"once", "exact", "all", "echo", "line"} OBVIOUS
<1>6. ReadsSome("S", "S", "exact", m) \/ EndRead("S", "S", "again") BY <1>1, <1>2, <1>3, <1>4, <1>5, CallTakes
<1>7. ~EndRead("S", "S", "again") BY <1>1, <1>2 DEF EndRead, SeesNothing
<1>8. PICK k : Takes("S", "S", k, m) /\ Keeps("S", "exact", k, m) BY <1>6, <1>7 DEF ReadsSome
<1>9. PLocal' /\ PTcp' BY <1>6, <1>7 DEF ReadsSome
<1>10. /\ hold' = hold
       /\ IF part["S"] + k = m THEN Moves("S") ELSE pcP' = pcP /\ part' = [part EXCEPT !["S"] = @ + k]
  BY <1>8 DEF Keeps
<1>11. /\ k \in Nat /\ k > 0 /\ k <= m - part["S"] /\ rx'["S"] = rx["S"] - k /\ got'["S"] = got["S"] + k
       /\ rx'["C"] = rx["C"] /\ got'["C"] = got["C"] /\ Quiet
  BY <1>1, <1>8 DEF Takes, PTcp, PLocal
<1>12. /\ pcP'["C"] = pcP["C"] /\ part'["C"] = part["C"]
       /\ IF part["S"] + k = m THEN pcP'["S"] = 2 + 5 * r + 3 /\ part'["S"] = 0
                               ELSE pcP'["S"] = 2 + 5 * r + 2 /\ part'["S"] = part["S"] + k
  BY <1>1, <1>10 DEF Moves, PLocal
<1>13. PSame /\ stP' = stP /\ net' = net /\ shut' = shut BY <1>11 DEF Quiet
<1>14. Connection' BY <1>1, <1>10, <1>11, ConnectionKept
<1>15. ToS' = ToS /\ ToC' = 0 BY <1>2, <1>3, <1>11 DEF ToS, ToC
<1>16. KeepC BY <1>11, <1>12, <1>13, <1>15 DEF KeepC
<1>17. m' = m /\ P!Thanks' = P!Thanks /\ P!Thanks = 2 BY <1>13, KindsStay, PConstants
<1>18. Before(r)' = Before(r) BY <1>17 DEF Before
<1>19. CASE part["S"] + k = m
  <2>1. got'["S"] = Before(r) + 1 + m BY <1>2, <1>3, <1>11, <1>19
  <2>2. OpServes(r, 3)' BY <1>12, <1>15, <1>17, <1>18, <1>19, <2>1 DEF OpServes
  <2>3. 3 \in 1..4 /\ 2 \in 0..4 OBVIOUS
  <2> QED BY <1>1, <1>9, <1>10, <1>11, <1>12, <1>13, <1>14, <1>16, <1>19, <2>2, <2>3, OpServerStep
<1>20. CASE part["S"] + k # m
  <2>1. part'["S"] = part["S"] + k /\ part'["S"] < m BY <1>3, <1>11, <1>12, <1>20
  <2>2. got'["S"] = Before(r) + 1 + part'["S"] BY <1>2, <1>3, <1>11, <2>1
  <2>3. OpServes(r, 2)' BY <1>15, <1>17, <1>18, <2>1, <2>2 DEF OpServes
  <2>4. 2 \in 1..4 /\ 2 \in 0..4 OBVIOUS
  <2> QED BY <1>1, <1>9, <1>10, <1>11, <1>12, <1>13, <1>14, <1>16, <1>20, <2>3, <2>4, OpServerStep
<1> QED BY <1>19, <1>20

\* The result.
LEMMA OpAnswers ==
  ASSUME PLocal, pair = "op", stP["W"] = "done", NEW r \in Nat, OpLive(r, 3), P!Proc("S") PROVE PInv'
<1> USE DEF P!Procs, P!Ends
<1>1. /\ pcP["S"] = 2 + 5 * r + 3 /\ hold["S"] = 0 /\ r < Rounds /\ PTcp /\ Connection /\ OpServes(r, 3)
      /\ got["C"] = 0 /\ ~shut["S"] /\ net = "up"
  BY DEF OpLive, OpAt
<1>2. /\ part["S"] < P!Thanks /\ got["S"] = Before(r) + 1 + m /\ ToC = part["S"] /\ stP["S"] = "run"
      /\ err["S"] = "ok" /\ open["C"]
  BY <1>1 DEF OpServes, Connection
<1>3. /\ rx["C"] \in Nat /\ part["S"] \in Nat /\ P!Thanks = 2 /\ P!Thanks \in Nat
      /\ "S" \in P!Procs /\ "S" \in P!Ends /\ "C" \in P!Ends /\ P!End("S") = "S" /\ P!Peer("S") = "C"
  BY <1>1, PConstants DEF PLocal, PTcp, P!End, P!Peer
<1>4. IsCall("S", "write", P!Thanks, "next", "next") BY <1>1, OpServerCalls
<1>5. WritesSome("S", "C", P!Thanks) BY <1>1, <1>2, <1>3, <1>4, CallWrites
<1>6. PICK k : Writes("S", "C", k, P!Thanks) BY <1>5 DEF WritesSome
<1>7. PLocal' /\ PTcp' BY <1>5 DEF WritesSome
<1>8. k \in Nat /\ k > 0 /\ got' = got /\ hold' = hold /\ Quiet /\ rx'["S"] = rx["S"] /\ rx'["C"] = rx["C"] + k
  BY <1>1, <1>6 DEF Writes, PTcp
<1>9. /\ pcP'["C"] = pcP["C"] /\ part'["C"] = part["C"]
      /\ \/ part["S"] + k = P!Thanks /\ pcP'["S"] = 2 + 5 * r + 4 /\ part'["S"] = 0
         \/ part["S"] + k < P!Thanks /\ pcP'["S"] = 2 + 5 * r + 3 /\ part'["S"] = part["S"] + k
  BY <1>1, <1>6 DEF Writes, Moves, PLocal
<1>10. PSame /\ stP' = stP /\ net' = net /\ shut' = shut BY <1>8 DEF Quiet
<1>11. Connection' BY <1>1, <1>8, ConnectionKept
<1>12. ToS' = ToS /\ ToC' = part["S"] + k BY <1>1, <1>2, <1>3, <1>8 DEF ToS, ToC
<1>13. KeepC BY <1>8, <1>9, <1>10, <1>12 DEF KeepC
<1>14. m' = m /\ P!Thanks' = P!Thanks BY <1>10, KindsStay
<1>15. Before(r)' = Before(r) BY <1>14 DEF Before
<1>16. CASE part["S"] + k = P!Thanks /\ pcP'["S"] = 2 + 5 * r + 4 /\ part'["S"] = 0
  <2>1. OpServes(r, 4)' BY <1>2, <1>8, <1>12, <1>14, <1>15, <1>16 DEF OpServes
  <2>2. 4 \in 1..4 /\ 3 \in 0..4 OBVIOUS
  <2> QED BY <1>1, <1>7, <1>8, <1>10, <1>11, <1>13, <1>16, <2>1, <2>2, OpServerStep
<1>17. CASE part["S"] + k < P!Thanks /\ pcP'["S"] = 2 + 5 * r + 3 /\ part'["S"] = part["S"] + k
  <2>1. OpServes(r, 3)' BY <1>2, <1>8, <1>12, <1>14, <1>15, <1>17 DEF OpServes
  <2>2. 3 \in 1..4 /\ 3 \in 0..4 OBVIOUS
  <2> QED BY <1>1, <1>7, <1>8, <1>10, <1>11, <1>13, <1>17, <2>1, <2>2, OpServerStep
<1> QED BY <1>9, <1>16, <1>17

\* close(): the server is back in accept().
OpBack(r) ==
  /\ PSame /\ stP' = stP /\ net' = "listening" /\ hold' = hold /\ got' = got /\ PLocal' /\ P!CloseEnd("S")
  /\ pcP'["S"] = 2 + 5 * (r + 1) + 0 /\ part'["S"] = 0 /\ pcP'["C"] = pcP["C"] /\ part'["C"] = part["C"]
\* A step of the server in close() takes it there.
LEMMA OpCloses ==
  ASSUME PLocal, pair = "op", NEW r \in Nat, r < Rounds, pcP["S"] = 2 + 5 * r + 4, hold["S"] = 0, P!Proc("S")
  PROVE  OpBack(r)
<1> USE DEF P!Procs, P!Ends
<1>1. IsCall("S", "close", 0, "next", "next") BY OpServerCalls
<1>2. PSame /\ P!CloseStep("S") BY <1>1, OtherCalls
<1>3. /\ P!Advance("S") /\ stP' = stP /\ net' = "listening" /\ hold' = hold /\ got' = got /\ P!CloseEnd("S")
  BY <1>2 DEF P!CloseStep, P!Alive, P!End
<1>4. /\ pcP'["S"] = 2 + 5 * (r + 1) + 0 /\ part'["S"] = 0 /\ pcP'["C"] = pcP["C"] /\ part'["C"] = part["C"]
  BY <1>3 DEF P!Advance, PLocal
<1>5. PLocal' BY <1>2, <1>3 DEF PLocal, PSame, P!Advance
<1> QED BY <1>2, <1>3, <1>4, <1>5 DEF OpBack

\* What a round adds to the bytes that were read.
LEMMA NextRound ==
  ASSUME NEW r \in Nat, m \in Nat, m' = m
  PROVE  Before(r + 1)' = Before(r) + 1 + m
<1>1. (r + 1) * (m + 1) = r * (m + 1) + (m + 1) OBVIOUS
<1>2. r * (m + 1) \in Nat OBVIOUS
<1> QED BY <1>1, <1>2 DEF Before

\* It closes while its client is connected: the answer is left to read.
LEMMA OpClose ==
  ASSUME PLocal, pair = "op", stP["W"] = "done", NEW r \in Nat, OpLive(r, 4), P!Proc("S") PROVE PInv'
<1> USE DEF P!Procs, P!Ends
<1>1. /\ pcP["S"] = 2 + 5 * r + 4 /\ hold["S"] = 0 /\ hold["C"] = 0 /\ r < Rounds /\ PTcp /\ Connection /\ OpServes(r, 4)
      /\ got["C"] = 0 /\ net = "up" /\ OpAsks(r)
  BY DEF OpLive, OpAt
<1>2. got["S"] = Before(r) + 1 + m /\ ToC = P!Thanks /\ stP["S"] = "run" /\ stP["C"] = "run" /\ err["C"] = "ok"
  BY <1>1 DEF OpServes, Connection
<1>3. /\ rx["C"] \in Nat /\ rx["S"] \in Nat /\ got["S"] \in Nat /\ part["C"] \in Nat /\ m \in Nat /\ Before(r) \in Nat
      /\ P!Thanks = 2 /\ Rounds \in Nat
  BY <1>1, PConstants DEF PLocal, PTcp, Before
<1>4. rx["S"] = 0 /\ pcP["C"] = 3 /\ part["C"] = 0 BY <1>1, <1>2, <1>3 DEF OpAsks, ToS
<1>5. rx["C"] = P!Thanks BY <1>1, <1>2, <1>3 DEF ToC
<1>6. OpBack(r) BY <1>1, OpCloses
<1>7. /\ PSame /\ stP' = stP /\ net' = "listening" /\ hold' = hold /\ got' = got /\ PLocal' /\ P!CloseEnd("S")
      /\ pcP'["S"] = 2 + 5 * (r + 1) + 0 /\ part'["S"] = 0 /\ pcP'["C"] = 3 /\ part'["C"] = 0
  BY <1>4, <1>6 DEF OpBack
<1>8. /\ open' = [open EXCEPT !["S"] = FALSE] /\ fin' = [fin EXCEPT !["C"] = TRUE]
      /\ err' = [err EXCEPT !["C"] = "ok"] /\ rx' = [rx EXCEPT !["S"] = 0] /\ shut' = shut
  <2>1. ~(rx["S"] > 0 \/ ("S" = "S" /\ net = "queued")) /\ P!Peer("S") = "C" BY <1>1, <1>4 DEF P!Peer
  <2>2. fin' = [fin EXCEPT !["C"] = TRUE] /\ err' = [err EXCEPT !["C"] = @] BY <1>7, <2>1 DEF P!CloseEnd
  <2> QED BY <1>1, <1>2, <1>7, <2>2 DEF P!CloseEnd, PTcp
<1>9. PTcp' BY <1>1, <1>8 DEF PTcp
<1>10. rx'["C"] = P!Thanks' /\ err'["C"] = "ok" BY <1>1, <1>5, <1>8 DEF PTcp, P!Thanks
<1>11. m' = m /\ pair' = pair BY <1>7 DEF PSame
<1>12. got'["S"] = Before(r + 1)' BY <1>2, <1>3, <1>7, <1>11, NextRound
<1>13. OpRest(r + 1)'
  <2>1. OpAt(r + 1, 0)' BY <1>1, <1>7 DEF OpAt
  <2>2. r + 1 \in Nat /\ r + 1 <= Rounds BY <1>1, <1>3
  <2>3. stP'["S"] = "run" /\ stP'["C"] = "run" /\ got'["C"] = 0 BY <1>1, <1>2, <1>7
  <2> QED BY <1>7, <1>9, <1>10, <1>12, <2>1, <2>2, <2>3 DEF OpRest
<1>14. r + 1 \in Nat /\ 0 \in 0..4 /\ stP'["W"] = "done" BY <1>7
<1> QED BY <1>7, <1>11, <1>13, <1>14, OpReached

\* The client writes the operands.
LEMMA OpClientWrites ==
  ASSUME PLocal, pair = "op", stP["W"] = "done", NEW r \in Nat, NEW x \in 0..4, OpLive(r, x), pcP["C"] = 2, P!Proc("C")
  PROVE  PInv'
<1> USE DEF P!Procs, P!Ends
<1>1. /\ OpAt(r, x) /\ r < Rounds /\ PTcp /\ Connection /\ ~shut["S"] /\ ~shut["C"]
      /\ net = (IF x = 0 THEN "queued" ELSE "up") /\ OpServes(r, x) /\ got["C"] = 0 /\ OpAsks(r)
  BY DEF OpLive
<1>2. /\ m \in Nat /\ m + 1 \in Nat /\ part["C"] \in Nat /\ Before(r) \in Nat /\ "C" \in {"C", "W"}
      /\ stP["C"] = "run" /\ hold["C"] = 0
  BY <1>1 DEF PLocal, Before, Connection
<1>3. part["C"] < m + 1 /\ ToS = Before(r) + part["C"] BY <1>1 DEF OpAsks
<1>4. IsCall("C", "write", m + 1, "next", "next") BY OpClientCalls
<1>5. PICK k : ClientWrote("C", k, m + 1) BY <1>1, <1>2, <1>3, <1>4, ClientWrites
<1>6. /\ k \in Nat /\ k > 0 /\ got' = got /\ hold' = hold /\ Quiet /\ PLocal' /\ PTcp' /\ KeepS /\ ToS' = ToS + k
      /\ \/ part["C"] + k = m + 1 /\ pcP'["C"] = pcP["C"] + 1 /\ part'["C"] = 0
         \/ part["C"] + k < m + 1 /\ pcP'["C"] = pcP["C"] /\ part'["C"] = part["C"] + k
  BY <1>5 DEF ClientWrote
<1>7. PSame /\ stP' = stP /\ net' = net /\ shut' = shut BY <1>6 DEF Quiet
<1>8. m' = m /\ pair' = pair /\ P!Thanks' = P!Thanks BY <1>7, KindsStay
<1>9. Before(r)' = Before(r) BY <1>8 DEF Before
<1>10. Connection' BY <1>1, <1>6, ConnectionKept
<1>11. OpAt(r, x)' BY <1>1, <1>6 DEF OpAt, KeepS
<1>12. OpServes(r, x)' BY <1>1, <1>6, <1>8, <1>9 DEF OpServes, KeepS
<1>13. OpAsks(r)'
  <2>1. CASE part["C"] + k = m + 1 /\ pcP'["C"] = pcP["C"] + 1 /\ part'["C"] = 0
    <3>1. ToS' = Before(r) + m + 1 /\ pcP'["C"] = 3 BY <1>2, <1>3, <1>6, <2>1
    <3> QED BY <1>8, <1>9, <2>1, <3>1 DEF OpAsks
  <2>2. CASE part["C"] + k < m + 1 /\ pcP'["C"] = pcP["C"] /\ part'["C"] = part["C"] + k
    <3>1. ToS' = Before(r) + part'["C"] BY <1>2, <1>3, <1>6, <2>2
    <3> QED BY <1>8, <1>9, <2>2, <3>1 DEF OpAsks
  <2> QED BY <1>6, <2>1, <2>2
<1>14. OpLive(r, x)' BY <1>1, <1>6, <1>7, <1>10, <1>11, <1>12, <1>13 DEF OpLive
<1> QED BY <1>6, <1>7, <1>8, <1>14, OpReached

\* It reads the result, once.
OpGets(k) ==
  /\ k \in Nat /\ k > 0 /\ k <= rx["C"] /\ got'["S"] = got["S"] /\ pcP'["S"] = pcP["S"] /\ part'["S"] = part["S"]
  /\ Served' /\ Quiet /\ hold' = hold /\ PLocal' /\ PTcp'
\* A step of the client in that read() takes its answer.
LEMMA OpClientReads ==
  ASSUME PLocal, PTcp, pair = "op", stP["C"] = "run", pcP["C"] = 3, part["C"] = 0, got["C"] = 0, hold["C"] = 0,
         err["C"] = "ok", rx["C"] > 0 \/ ~fin["C"], P!Proc("C")
  PROVE  \E k : OpGets(k)
<1> USE DEF P!Procs, P!Ends
<1>1. "C" \in P!Procs /\ "C" \in P!Ends /\ P!End("C") = "C" /\ rx["C"] \in Nat /\ P!Thanks \in Nat
  BY PConstants DEF P!End, PLocal, PTcp
<1>2. IsCall("C", "once", P!Thanks, "next", "next") BY OpClientCalls
<1>3. "once" \in {"once", "exact", "all", "echo", "line"} OBVIOUS
<1>4. ReadsSome("C", "C", "once", P!Thanks) \/ EndRead("C", "C", "next") BY <1>1, <1>2, <1>3, CallTakes
<1>5. ~EndRead("C", "C", "next") BY <1>1 DEF EndRead, SeesNothing
<1>6. PICK k : Takes("C", "C", k, P!Thanks) /\ Keeps("C", "once", k, P!Thanks) BY <1>4, <1>5 DEF ReadsSome
<1>7. Moves("C") /\ hold' = hold BY <1>6 DEF Keeps
<1>8. pcP'["C"] = 4 /\ pcP'["S"] = pcP["S"] /\ part'["S"] = part["S"] BY <1>7 DEF Moves, PLocal
<1>9. /\ k \in Nat /\ k > 0 /\ k <= rx["C"] /\ k <= P!Thanks - part["C"] /\ got'["C"] = got["C"] + k
      /\ got'["S"] = got["S"] /\ Quiet
  BY <1>6 DEF Takes, PLocal
<1>10. got'["C"] \in 1..P!Thanks BY <1>1, <1>9
<1>11. Served' BY <1>8, <1>10 DEF Served, P!Thanks
<1>12. OpGets(k) BY <1>4, <1>5, <1>7, <1>8, <1>9, <1>11 DEF OpGets, ReadsSome
<1> QED BY <1>12

\* It reads while the server is connected, and has been served.
LEMMA OpLiveReads ==
  ASSUME PLocal, pair = "op", stP["W"] = "done", NEW r \in Nat, NEW x \in 0..4, OpLive(r, x), pcP["C"] = 3, P!Proc("C")
  PROVE  PInv'
<1> USE DEF P!Procs, P!Ends
<1>1. /\ OpAt(r, x) /\ r < Rounds /\ PTcp /\ Connection /\ ~shut["S"] /\ OpServes(r, x) /\ got["C"] = 0 /\ OpAsks(r)
  BY DEF OpLive
<1>2. /\ stP["C"] = "run" /\ stP["S"] = "run" /\ hold["C"] = 0 /\ err["C"] = "ok" /\ fin["C"] = shut["S"] /\ part["C"] = 0
  BY <1>1 DEF Connection, OpAsks
<1>3. ~fin["C"] BY <1>1, <1>2
<1>4. PICK k : OpGets(k) BY <1>1, <1>2, <1>3, OpClientReads
<1>5. /\ k \in Nat /\ k > 0 /\ k <= rx["C"] /\ got'["S"] = got["S"] /\ pcP'["S"] = pcP["S"] /\ Served' /\ hold' = hold
      /\ PLocal' /\ PSame /\ stP' = stP
  BY <1>4 DEF OpGets, Quiet
<1>6. rx["C"] \in Nat /\ got["C"] \in Nat BY <1>1 DEF PTcp, PLocal
<1>7. ToC > 0 BY <1>5, <1>6 DEF ToC
<1>8. x \in 3..4 /\ got["S"] = Before(r) + 1 + m BY <1>1, <1>7 DEF OpServes
<1>9. m' = m /\ pair' = pair BY <1>5 DEF PSame
<1>10. OpTail(r, x)' BY <1>1, <1>2, <1>5, <1>8, <1>9 DEF OpTail, OpAt, Before
<1> QED BY <1>5, <1>9, <1>10, OpReached

\* Every step while server and client are connected.
LEMMA OpLiveStep ==
  ASSUME PLocal, pair = "op", stP["W"] = "done", NEW r \in Nat, NEW x \in 0..4, OpLive(r, x), NEW p \in P!Procs, P!Proc(p)
  PROVE  PInv'
<1>1. p # "W" BY NoCalls
<1>2. CASE p = "S"
  <2>1. x \in {0, 1, 2, 3, 4} OBVIOUS
  <2> QED BY <1>2, <2>1, OpAccept, OpCount, OpOperands, OpAnswers, OpClose
<1>3. CASE p = "C"
  <2>1. pcP["C"] \in {2, 3} BY DEF OpLive, OpAsks
  <2> QED BY <1>3, <2>1, OpClientWrites, OpLiveReads
<1> QED BY <1>1, <1>2, <1>3 DEF P!Procs

\* A process that has made all its calls ends, and nothing else of it changes.
LEMMA ReturnsOnly ==
  ASSUME PLocal, NEW p \in P!Procs, NEW N \in Nat, Len(P!Script(p)) = N, pcP[p] > N, hold[p] = 0, P!Proc(p)
  PROVE  /\ PSame /\ stP' = [stP EXCEPT ![p] = "done"] /\ pcP' = pcP /\ part' = part /\ hold' = hold /\ got' = got
         /\ net' = (IF p = "S" THEN "over" ELSE net) /\ PLocal'
         /\ net \notin {"queued", "up"} => rx' = rx /\ fin' = fin /\ err' = err /\ open' = open /\ shut' = shut
<1>1. PSame /\ P!Return(p) BY AfterCalls
<1>2. P!EndProcess(p, "done") /\ pcP' = pcP /\ part' = part /\ hold' = hold /\ got' = got BY <1>1 DEF P!Return
<1>3. stP' = [stP EXCEPT ![p] = "done"] /\ net' = IF p = "S" THEN "over" ELSE net BY <1>2 DEF P!EndProcess
<1>4. net \notin {"queued", "up"} => rx' = rx /\ fin' = fin /\ err' = err /\ open' = open /\ shut' = shut
  BY <1>2 DEF P!EndProcess, P!tcp
<1>5. PLocal' BY <1>1, <1>2, <1>3 DEF PLocal, PSame
<1> QED BY <1>1, <1>2, <1>3, <1>4, <1>5

\* Whatever the connection is, a write() passes bytes on, gives up or ends the process.
LEMMA WritesAnyhow ==
  ASSUME PLocal, NEW p \in P!Procs, NEW l \in Nat, IsCall(p, "write", l, "next", "next"), P!Proc(p)
  PROVE  /\ PSame /\ hold' = hold /\ got' = got /\ PLocal'
         /\ \/ stP' = [stP EXCEPT ![p] = "exited"] /\ pcP' = pcP
            \/ stP' = stP /\ (pcP' = [pcP EXCEPT ![p] = @ + 1] \/ pcP' = pcP)
<1> USE DEF P!Procs
<1>1. /\ \A z : P!At(p, z) => z = "write"
      /\ ~(pcP[p] > Len(P!Script(p))) /\ P!Op(p).n = l
  BY CallOnly
<1>2. stP[p] = "run" BY NoCalls
<1>3. P!At(p, "write") BY <1>2, CallOnly
<1>4. P!WriteStep(p) /\ PSame
  BY <1>1 DEF P!Proc, P!ReadStep, P!ListenStep, P!ConnectStep, P!AcceptStep, P!ShutdownStep, P!CloseStep,
              P!ForkedStep, P!Return, PSame
<1>5. P!ToWrite(p) = l - part[p] /\ part[p] \in Nat BY <1>1, <1>3 DEF P!ToWrite, PLocal
<1>6. got' = got BY <1>4 DEF P!WriteStep
<1>7. \/ P!EndProcess(p, "exited") /\ pcP' = pcP /\ part' = part /\ hold' = hold
      \/ P!Wrote(p, P!ToWrite(p)) /\ stP' = stP
      \/ (\E k \in 1..P!Min({P!ToWrite(p), Cap - rx[P!Peer(P!End(p))]}) : P!Wrote(p, k)) /\ stP' = stP
  BY <1>4 DEF P!WriteStep, P!Alive
<1>8. CASE P!EndProcess(p, "exited") /\ pcP' = pcP /\ part' = part /\ hold' = hold
  <2>1. stP' = [stP EXCEPT ![p] = "exited"] BY <1>8 DEF P!EndProcess
  <2>2. PLocal' BY <1>4, <1>6, <1>8, <2>1 DEF PLocal, PSame
  <2> QED BY <1>4, <1>6, <1>8, <2>1, <2>2
<1>9. ASSUME NEW k \in Int, k >= 0 \/ part[p] + k >= l, P!Wrote(p, k), stP' = stP
      PROVE  hold' = hold /\ PLocal' /\ (pcP' = [pcP EXCEPT ![p] = @ + 1] \/ pcP' = pcP)
  <2>1. CASE part[p] + k >= l
    <3>1. hold' = hold /\ P!Advance(p) BY <1>1, <1>3, <1>9, <2>1 DEF P!Wrote
    <3>2. pcP' = [pcP EXCEPT ![p] = @ + 1] /\ part' = [part EXCEPT ![p] = 0] BY <3>1 DEF P!Advance
    <3>3. PLocal' BY <1>4, <1>6, <1>9, <3>1, <3>2 DEF PLocal, PSame
    <3> QED BY <3>1, <3>2, <3>3
  <2>2. CASE ~(part[p] + k >= l)
    <3>1. hold' = hold /\ pcP' = pcP /\ part' = [part EXCEPT ![p] = @ + k] BY <1>1, <1>3, <1>9, <2>2 DEF P!Wrote
    <3>2. part[p] + k \in Nat BY <1>5, <1>9, <2>2
    <3>3. PLocal' BY <1>4, <1>6, <1>9, <3>1, <3>2 DEF PLocal, PSame
    <3> QED BY <3>1, <3>3
  <2> QED BY <2>1, <2>2
<1>10. CASE P!Wrote(p, P!ToWrite(p)) /\ stP' = stP
  <2>1. PICK k : k = l - part[p] OBVIOUS
  <2>2. k \in Int /\ part[p] + k >= l BY <1>5, <2>1
  <2>3. P!Wrote(p, k) BY <1>5, <1>10, <2>1
  <2> QED BY <1>4, <1>6, <1>9, <1>10, <2>2, <2>3
<1>11. CASE (\E k \in 1..P!Min({P!ToWrite(p), Cap - rx[P!Peer(P!End(p))]}) : P!Wrote(p, k)) /\ stP' = stP
  <2>1. PICK b : b = P!Min({P!ToWrite(p), Cap - rx[P!Peer(P!End(p))]}) OBVIOUS
  <2>2. PICK k \in 1..b : P!Wrote(p, k) BY <1>11, <2>1
  <2>3. k \in Int /\ k >= 0 OBVIOUS
  <2> QED BY <1>4, <1>6, <1>9, <1>11, <2>2, <2>3
<1> QED BY <1>7, <1>8, <1>10, <1>11

\* After the client has its answer.
LEMMA OpTailStep ==
  ASSUME PLocal, pair = "op", stP["W"] = "done", NEW r \in Nat, NEW x \in 0..4, OpTail(r, x), NEW p \in P!Procs, P!Proc(p)
  PROVE  PInv'
<1> USE DEF P!Procs
<1>1. p # "W" /\ stP[p] = "run" BY NoCalls
<1>2. /\ r < Rounds /\ x \in 3..4 /\ Served /\ stP["S"] \in {"run", "exited"} /\ got["S"] = Before(r) + 1 + m
      /\ pcP["S"] = 2 + 5 * r + x /\ hold["S"] = 0 /\ hold["C"] = 0
  BY DEF OpTail, OpAt
<1>3. m \in Nat /\ Rounds \in Nat /\ P!Thanks \in Nat BY PConstants DEF PLocal
<1>4. CASE p = "C"
  <2>1. Len(P!Script("C")) = 3 /\ 3 \in Nat /\ pcP["C"] > 3 BY <1>2, OpClientCalls DEF Served
  <2>2. /\ PSame /\ stP' = [stP EXCEPT !["C"] = "done"] /\ pcP' = pcP /\ part' = part /\ hold' = hold /\ got' = got
        /\ PLocal'
    BY <1>2, <1>4, <2>1, ReturnsOnly
  <2>3. stP'["S"] = stP["S"] /\ stP'["W"] = "done" BY <2>2 DEF PLocal
  <2>4. m' = m /\ pair' = pair BY <2>2 DEF PSame
  <2>5. Served' BY <1>2, <2>2 DEF Served, P!Thanks
  <2>6. OpTail(r, x)' BY <1>2, <2>2, <2>3, <2>4, <2>5 DEF OpTail, OpAt, Before
  <2> QED BY <2>2, <2>3, <2>4, <2>6, OpReached
<1>5. CASE p = "S" /\ x = 3
  <2>1. IsCall("S", "write", P!Thanks, "next", "next") BY <1>2, <1>5, OpServerCalls
  <2>2. /\ PSame /\ hold' = hold /\ got' = got /\ PLocal'
        /\ \/ stP' = [stP EXCEPT !["S"] = "exited"] /\ pcP' = pcP
           \/ stP' = stP /\ (pcP' = [pcP EXCEPT !["S"] = @ + 1] \/ pcP' = pcP)
    BY <1>3, <1>5, <2>1, WritesAnyhow
  <2>3. /\ stP'["S"] \in {"run", "exited"} /\ stP'["W"] = "done" /\ pcP'["C"] = pcP["C"]
        /\ pcP'["S"] = 2 + 5 * r + 3 \/ pcP'["S"] = 2 + 5 * r + 4
    BY <1>2, <1>5, <2>2 DEF PLocal
  <2>4. m' = m /\ pair' = pair BY <2>2 DEF PSame
  <2>5. Served' BY <1>2, <2>2, <2>3 DEF Served, P!Thanks
  <2>6. PICK z \in 3..4 : pcP'["S"] = 2 + 5 * r + z BY <2>3
  <2>7. OpTail(r, z)' BY <1>2, <2>2, <2>3, <2>4, <2>5, <2>6 DEF OpTail, OpAt, Before
  <2>8. z \in 0..4 OBVIOUS
  <2> QED BY <2>2, <2>3, <2>4, <2>7, <2>8, OpReached
<1>6. CASE p = "S" /\ x = 4
  <2>1. OpBack(r) BY <1>2, <1>6, OpCloses
  <2>2. /\ PSame /\ stP' = stP /\ net' = "listening" /\ hold' = hold /\ got' = got /\ PLocal'
        /\ pcP'["S"] = 2 + 5 * (r + 1) + 0 /\ part'["S"] = 0 /\ pcP'["C"] = pcP["C"]
    BY <2>1 DEF OpBack
  <2>3. m' = m /\ pair' = pair BY <2>2 DEF PSame
  <2>4. got'["S"] = Before(r + 1)' BY <1>2, <1>3, <2>2, <2>3, NextRound
  <2>5. Served' BY <1>2, <2>2 DEF Served, P!Thanks
  <2>6. OpRest(r + 1)'
    <3>1. OpAt(r + 1, 0)' BY <1>2, <2>2 DEF OpAt
    <3>2. r + 1 <= Rounds BY <1>2, <1>3
    <3> QED BY <1>1, <1>6, <2>2, <2>4, <2>5, <3>1, <3>2 DEF OpRest
  <2>7. r + 1 \in Nat /\ 0 \in 0..4 /\ stP'["W"] = "done" BY <2>2
  <2> QED BY <2>2, <2>3, <2>6, <2>7, OpReached
<1> QED BY <1>1, <1>2, <1>4, <1>5, <1>6

\* Between two clients.
LEMMA OpRestKept ==
  ASSUME PLocal', PSame, pair = "op", stP'["W"] = "done", NEW r \in Nat, OpRest(r), stP'["S"] = stP["S"], net' = net,
         hold' = hold, pcP'["S"] = pcP["S"], part'["S"] = part["S"], got'["S"] = got["S"], Served'
  PROVE  PInv'
<1>1. m' = m /\ pair' = pair BY DEF PSame
<1>2. OpRest(r)' BY <1>1 DEF OpRest, OpAt, Before
<1>3. 0 \in 0..4 OBVIOUS
<1> QED BY <1>1, <1>2, <1>3, OpReached

\* Between two clients the server waits; after the last one it returns.
LEMMA OpRestServer ==
  ASSUME PLocal, pair = "op", stP["W"] = "done", NEW r \in Nat, OpRest(r), P!Proc("S") PROVE PInv'
<1> USE DEF P!Procs
<1>1. stP["S"] = "run" BY NoCalls
<1>2. /\ pcP["S"] = 2 + 5 * r + 0 /\ hold["S"] = 0 /\ hold["C"] = 0 /\ r <= Rounds /\ part["S"] = 0 /\ got["S"] = Before(r)
      /\ net = "listening"
  BY <1>1 DEF OpRest, OpAt
<1>3. Rounds \in Nat BY PConstants
<1>4. CASE r < Rounds
  <2>1. IsCall("S", "accept", 0, "next", "next") BY <1>2, <1>4, OpServerCalls
  <2>2. P!AcceptStep("S") BY <1>2, <2>1, OtherCalls
  <2> QED BY <1>2, <2>2 DEF P!AcceptStep
<1>5. CASE r = Rounds
  <2>1. Len(P!Script("S")) = 5 * Rounds + 1 /\ 5 * Rounds + 1 \in Nat /\ pcP["S"] > 5 * Rounds + 1
    BY <1>2, <1>3, <1>5, OpServerCalls
  <2>2. /\ PSame /\ stP' = [stP EXCEPT !["S"] = "done"] /\ pcP' = pcP /\ part' = part /\ hold' = hold /\ got' = got
        /\ PLocal' /\ (net \notin {"queued", "up"} => rx' = rx /\ fin' = fin /\ err' = err /\ open' = open /\ shut' = shut)
    BY <1>2, <2>1, ReturnsOnly
  <2>3. rx' = rx /\ fin' = fin /\ err' = err /\ open' = open /\ shut' = shut BY <1>2, <2>2
  <2>4. stP'["S"] = "done" /\ stP'["C"] = stP["C"] /\ stP'["W"] = "done" BY <2>2 DEF PLocal
  <2>5. m' = m /\ pair' = pair /\ P!Thanks' = P!Thanks BY <2>2, KindsStay
  <2>6. PTcp => PTcp' BY <2>3 DEF PTcp
  <2>7. Served => Served' BY <2>2, <2>5 DEF Served
  <2>8. OpAt(r, 0)' /\ Before(r)' = Before(r) BY <1>2, <2>2, <2>5 DEF OpAt, Before
  <2>9. \/ /\ stP'["C"] = "run" /\ pcP'["C"] = 3 /\ part'["C"] = 0 /\ got'["C"] = 0
           /\ PTcp' /\ rx'["C"] = P!Thanks' /\ err'["C"] = "ok"
        \/ Served'
    BY <1>5, <2>2, <2>3, <2>4, <2>5, <2>6, <2>7 DEF OpRest
  <2>10. OpRest(r)' BY <1>2, <1>5, <2>2, <2>4, <2>8, <2>9 DEF OpRest
  <2>11. 0 \in 0..4 OBVIOUS
  <2> QED BY <2>2, <2>4, <2>5, <2>10, <2>11, OpReached
<1> QED BY <1>2, <1>3, <1>4, <1>5

\* Between two clients the client connects, reads its answer or returns.
LEMMA OpRestClient ==
  ASSUME PLocal, pair = "op", stP["W"] = "done", NEW r \in Nat, OpRest(r), P!Proc("C") PROVE PInv'
<1> USE DEF P!Procs, P!Ends
<1>1. stP["C"] = "run" BY NoCalls
<1>2. /\ OpAt(r, 0) /\ pcP["S"] = 2 + 5 * r + 0 /\ hold["S"] = 0 /\ hold["C"] = 0 /\ r <= Rounds /\ part["S"] = 0
      /\ got["S"] = Before(r)
  BY DEF OpRest, OpAt
<1>3. Rounds \in Nat /\ m \in Nat /\ P!Thanks = 2 BY PConstants DEF PLocal
<1>4. CASE Served
  <2>1. Len(P!Script("C")) = 3 /\ 3 \in Nat /\ pcP["C"] > 3 BY <1>4, OpClientCalls DEF Served
  <2>2. /\ PSame /\ stP' = [stP EXCEPT !["C"] = "done"] /\ pcP' = pcP /\ part' = part /\ hold' = hold /\ got' = got
        /\ net' = (IF "C" = "S" THEN "over" ELSE net) /\ PLocal'
    BY <1>2, <2>1, ReturnsOnly
  <2>3. stP'["S"] = stP["S"] /\ stP'["W"] = "done" /\ net' = net BY <2>2 DEF PLocal
  <2>4. Served' BY <1>4, <2>2 DEF Served, P!Thanks
  <2> QED BY <2>2, <2>3, <2>4, OpRestKept
<1>5. CASE /\ stP["C"] = "run" /\ pcP["C"] = 3 /\ part["C"] = 0 /\ got["C"] = 0
           /\ PTcp /\ rx["C"] = P!Thanks /\ err["C"] = "ok"
  <2>1. rx["C"] > 0 BY <1>3, <1>5
  <2>2. PICK k : OpGets(k) BY <1>2, <1>5, <2>1, OpClientReads
  <2>3. /\ got'["S"] = got["S"] /\ pcP'["S"] = pcP["S"] /\ part'["S"] = part["S"]
        /\ Served' /\ hold' = hold /\ PLocal' /\ PSame /\ stP' = stP /\ net' = net
    BY <2>2 DEF OpGets, Quiet
  <2> QED BY <2>3, OpRestKept
<1>6. CASE r < Rounds /\ stP["C"] = "run" /\ pcP["C"] = 1 /\ part["C"] = 0 /\ got["C"] = 0
  <2>1. stP["S"] = "run" /\ net = "listening" BY <1>3, <1>6 DEF OpRest
  <2>2. PSame /\ P!ConnectStep("C")
    <3>1. IsCall("C", "connect", 0, "next", "next") BY <1>6, OpClientCalls
    <3> QED BY <1>2, <3>1, OtherCalls
  <2>3. /\ net' = "queued" /\ P!Advance("C") /\ stP' = stP /\ hold' = hold /\ got' = got
        /\ rx' = [e \in P!Ends |-> 0] /\ fin' = [e \in P!Ends |-> FALSE] /\ err' = [e \in P!Ends |-> "ok"]
        /\ open' = [e \in P!Ends |-> TRUE] /\ shut' = [e \in P!Ends |-> FALSE]
    BY <2>1, <2>2 DEF P!ConnectStep, P!Alive
  <2>4. pcP' = [pcP EXCEPT !["C"] = 2] /\ part' = [part EXCEPT !["C"] = 0] BY <1>6, <2>3 DEF P!Advance, PLocal
  <2>5. PLocal' BY <2>2, <2>3, <2>4 DEF PLocal, PSame
  <2>6. pcP'["S"] = 2 + 5 * r /\ pcP'["C"] = 2 /\ part'["S"] = 0 /\ part'["C"] = 0 BY <1>2, <2>4 DEF PLocal
  <2>7. m' = m /\ pair' = pair BY <2>2 DEF PSame
  <2>8. Fresh' BY <1>2, <1>6, <2>1, <2>3, <2>6, <2>7 DEF Fresh
  <2>9. Before(r)' = Before(r) BY <2>7 DEF Before
  <2>10. OpFresh' BY FreshOp, PTL
  <2>11. got'["S"] = Before(r)' BY <1>2, <2>3, <2>9
  <2>12. OpLive(r, 0)' BY <1>6, <2>5, <2>6, <2>8, <2>10, <2>11 DEF OpFresh
  <2>13. 0 \in 0..4 /\ stP'["W"] = "done" BY <2>3
  <2> QED BY <2>5, <2>7, <2>12, <2>13, OpReached
<1> QED BY <1>4, <1>5, <1>6 DEF OpRest

\* The next client.
LEMMA NextClientStep ==
  ASSUME PLocal, Idle \/ OpPhase, P!NextClient PROVE PInv'
<1> USE DEF P!Procs
<1>1. /\ pair = "op" /\ stP["C"] # "run" /\ P!At("S", "accept") /\ net = "listening"
      /\ stP' = [stP EXCEPT !["C"] = "run"] /\ pcP' = [pcP EXCEPT !["C"] = 1] /\ part' = [part EXCEPT !["C"] = 0]
      /\ got' = [got EXCEPT !["C"] = 0]
      /\ pair' = pair /\ m' = m /\ hold' = hold /\ net' = net
  BY DEF P!NextClient
<1>2. /\ stP'["C"] = "run" /\ stP'["S"] = stP["S"] /\ stP'["W"] = stP["W"] /\ pcP'["C"] = 1 /\ pcP'["S"] = pcP["S"]
      /\ pcP'["W"] = pcP["W"] /\ part'["C"] = 0 /\ part'["S"] = part["S"] /\ part'["W"] = part["W"]
      /\ got'["C"] = 0 /\ got'["S"] = got["S"] /\ got'["W"] = got["W"]
  BY <1>1 DEF PLocal
<1>3. PLocal' BY <1>1 DEF PLocal
<1>4. CASE Idle
  <2>1. Idle' BY <1>1, <1>2, <1>4 DEF Idle
  <2> QED BY <1>3, <2>1 DEF PInv
<1>5. CASE OpPhase
  <2>1. stP["W"] = "done" BY <1>5 DEF OpPhase
  <2>2. ASSUME NEW r \in Nat, NEW x \in 0..4, OpLive(r, x) PROVE FALSE BY <1>1, <2>2 DEF OpLive, Connection
  <2>3. ASSUME NEW r \in Nat, NEW x \in 0..4, OpTail(r, x) PROVE FALSE
    <3>1. x \in {3, 4} /\ r < Rounds /\ pcP["S"] = 2 + 5 * r + x BY <2>3 DEF OpTail, OpAt
    <3>2. CASE x = 3
      <4>1. IsCall("S", "write", P!Thanks, "next", "next") BY <1>1, <3>1, <3>2, OpServerCalls
      <4> QED BY <1>1, <4>1, CallOnly
    <3>3. CASE x = 4
      <4>1. IsCall("S", "close", 0, "next", "next") BY <1>1, <3>1, <3>3, OpServerCalls
      <4> QED BY <1>1, <4>1, CallOnly
    <3> QED BY <3>1, <3>2, <3>3
  <2>4. PICK r \in Nat : OpRest(r) BY <1>5, <2>2, <2>3 DEF OpPhase
  <2>5. /\ pcP["S"] = 2 + 5 * r + 0 /\ hold["S"] = 0 /\ hold["C"] = 0 /\ part["S"] = 0 /\ got["S"] = Before(r)
        /\ r <= Rounds
    BY <2>4 DEF OpRest, OpAt
  <2>6. r < Rounds /\ stP["S"] = "run"
    <3>1. pcP["S"] <= 5 * Rounds + 1 /\ stP["S"] = "run" BY <1>1, OpServerCalls DEF P!At
    <3>2. Rounds \in Nat BY PConstants
    <3> QED BY <2>5, <3>1, <3>2
  <2>7. OpAt(r, 0)' /\ Before(r)' = Before(r) BY <1>1, <1>2, <2>5 DEF OpAt, Before
  <2>8. OpRest(r)' BY <1>1, <1>2, <2>5, <2>6, <2>7 DEF OpRest
  <2>9. 0 \in 0..4 OBVIOUS
  <2> QED BY <1>1, <1>2, <1>3, <2>1, <2>8, <2>9, OpReached
<1> QED BY <1>4, <1>5

-----------------------------------------------------------------------------
(* Pairs on one connection: what is delivered                              *)

\* A pair of programs goes through its phases.
LEMMA PStep ==
  ASSUME PInv, P!Next PROVE PInv'
<1>1. CASE victim # "none"
  <2>1. victim' = victim BY <1>1 DEF P!Next, P!Proc, P!Kill, P!NextClient
  <2> QED BY <1>1, <2>1 DEF PInv
<1>2. CASE victim = "none"
  <2>1. CASE \E p \in P!Procs : P!Proc(p)
    <3>1. PICK p \in P!Procs : P!Proc(p) BY <2>1
    <3>2. CASE Over
      <4>1. Over' BY <3>1, <3>2, OverStep
      <4> QED BY <4>1 DEF PInv
    <3>3. CASE PLocal /\ Idle BY <3>1, <3>3, IdleStep
    <3>4. CASE PLocal /\ OpPhase
      <4>1. pair = "op" /\ stP["W"] = "done" BY <3>4 DEF OpPhase
      <4>2. CASE \E r \in Nat, x \in 0..4 : OpLive(r, x) BY <3>1, <3>4, <4>1, <4>2, OpLiveStep
      <4>3. CASE \E r \in Nat, x \in 0..4 : OpTail(r, x) BY <3>1, <3>4, <4>1, <4>3, OpTailStep
      <4>4. CASE \E r \in Nat : OpRest(r)
        <5>1. PICK r \in Nat : OpRest(r) BY <4>4
        <5>2. p # "W" BY <3>1, <4>1, NoCalls
        <5>3. CASE p = "S" BY <3>1, <3>4, <4>1, <5>1, <5>3, OpRestServer
        <5>4. CASE p = "C" BY <3>1, <3>4, <4>1, <5>1, <5>4, OpRestClient
        <5> QED BY <5>2, <5>3, <5>4 DEF P!Procs
      <4> QED BY <3>4, <4>2, <4>3, <4>4 DEF OpPhase
    <3>5. CASE PLocal /\ PTcp /\ Live BY <3>1, <3>5, LiveServer, LiveClient, LiveWriter DEF P!Procs
    <3>6. CASE PLocal /\ PTcp /\ ToClient BY <3>1, <3>6, ToClientStep
    <3>7. CASE PLocal /\ PTcp /\ ToServer BY <3>1, <3>7, ToServerStep
    <3>8. CASE PLocal /\ Left BY <3>1, <3>8, LeftStep
    <3>9. CASE PLocal /\ PTcp /\ Stuck BY <3>1, <3>9, StuckStep
    <3> QED BY <1>2, <3>2, <3>3, <3>4, <3>5, <3>6, <3>7, <3>8, <3>9 DEF PInv
  <2>2. CASE \E p \in P!Procs : P!Kill(p)
    <3>1. PICK p \in P!Procs : P!Kill(p) BY <2>2
    <3>2. victim' # "none" BY <3>1 DEF P!Kill, P!Procs
    <3> QED BY <3>2 DEF PInv
  <2>3. CASE P!NextClient
    <3>1. pair = "op" BY <2>3 DEF P!NextClient
    <3>2. ~Over /\ ~Live /\ ~ToClient /\ ~ToServer /\ ~Left /\ ~Stuck
      BY <3>1 DEF Over, Live, ToClient, ToServer, Left, Stuck, OneWay, TwoWay, EchoPair, Echoing, Cut
    <3>3. PLocal /\ (Idle \/ OpPhase) BY <1>2, <3>2 DEF PInv
    <3> QED BY <2>3, <3>3, NextClientStep
  <2> QED BY <2>1, <2>2, <2>3 DEF P!Next
<1> QED BY <1>1, <1>2

\* A program that has returned has read what it was promised.
LEMMA PDelivers ==
  ASSUME PInv PROVE P!Delivered
<1> USE DEF P!Procs
<1>1. SUFFICES ASSUME NEW p \in {"S", "C"}, victim = "none", stP[p] = "done" PROVE got[p] \in P!Promise(p)
  BY DEF P!Delivered
<1>2. CASE Over BY <1>2 DEF Over, Finished
<1>3. CASE Idle BY <1>1, <1>3 DEF Idle
<1>4. CASE PLocal /\ OpPhase
  <2>1. pair = "op" BY <1>4 DEF OpPhase
  <2>2. P!Promise("C") = 1..P!Thanks /\ P!Promise("S") = {Rounds * (m + 1)} BY <2>1 DEF P!Promise
  <2>3. CASE \E r \in Nat, x \in 0..4 : OpLive(r, x) BY <1>1, <2>3 DEF OpLive, Connection
  <2>4. CASE \E r \in Nat, x \in 0..4 : OpTail(r, x) BY <1>1, <2>2, <2>4 DEF OpTail, Served
  <2>5. CASE \E r \in Nat : OpRest(r)
    <3>1. PICK r \in Nat : OpRest(r) BY <2>5
    <3>2. CASE p = "S"
      <4>1. r = Rounds /\ got["S"] = Before(r) BY <1>1, <3>1, <3>2 DEF OpRest
      <4> QED BY <2>2, <3>2, <4>1 DEF Before
    <3>3. CASE p = "C" BY <1>1, <2>2, <3>1, <3>3 DEF OpRest, Served
    <3> QED BY <3>2, <3>3
  <2> QED BY <1>4, <2>3, <2>4, <2>5 DEF OpPhase
<1>5. CASE Live BY <1>1, <1>5 DEF Live, Connection
<1>6. CASE ToClient BY <1>1, <1>6 DEF ToClient, Finished
<1>7. CASE ToServer BY <1>1, <1>7 DEF ToServer, Finished
<1>8. CASE Left BY <1>1, <1>8 DEF Left, Finished
<1>9. CASE Stuck BY <1>1, <1>9 DEF Stuck, Connection
<1> QED BY <1>1, <1>2, <1>3, <1>4, <1>5, <1>6, <1>7, <1>8, <1>9 DEF PInv

\* Before the first step nobody is connected.
LEMMA PInit ==
  ASSUME Init PROVE PInv
<1> USE DEF P!Procs
<1>1. P!Init BY DEF Init
<1>2. m \in Nat \ {0} BY <1>1, StreamAssumption DEF P!Init
<1>3. PLocal BY <1>1, <1>2 DEF P!Init, PLocal
<1>4. Idle BY <1>1 DEF P!Init, Idle
<1> QED BY <1>3, <1>4 DEF PInv

\* Nothing of the pair changes while another family is executed.
LEMMA PUnchanged ==
  ASSUME PInv, UNCHANGED varsP PROVE PInv'
<1>1. /\ pair' = pair /\ m' = m /\ stP' = stP /\ pcP' = pcP /\ part' = part /\ hold' = hold /\ got' = got /\ net' = net
      /\ rx' = rx /\ fin' = fin /\ err' = err /\ open' = open /\ shut' = shut /\ victim' = victim /\ runs' = runs
  BY DEF varsP
<1>2. /\ OneWay' = OneWay /\ TwoWay' = TwoWay /\ EchoPair' = EchoPair /\ Echoing' = Echoing /\ Cut' = Cut
      /\ P!Thanks' = P!Thanks /\ P!Promise("S")' = P!Promise("S") /\ P!Promise("C")' = P!Promise("C")
      /\ LastRead("S")' = LastRead("S") /\ LastRead("C")' = LastRead("C")
  BY <1>1, KindsStay DEF PSame
<1>3. ToS' = ToS /\ ToC' = ToC BY <1>1 DEF ToS, ToC
<1>4. PSame /\ Quiet /\ KeepS /\ KeepC /\ KeepW BY <1>1, <1>3 DEF PSame, Quiet, KeepS, KeepC, KeepW
<1>5. (PLocal => PLocal') /\ (PTcp => PTcp') /\ (Idle => Idle') BY <1>1 DEF PLocal, PTcp, Idle
<1>6. (Finished("S") => Finished("S")') /\ (Finished("C") => Finished("C")') BY <1>1, <1>2 DEF Finished
<1>7. Over => Over' BY <1>1, <1>2, <1>6 DEF Over
<1>8. Connection => Connection' BY <1>1, <1>4, ConnectionKept
<1>9. Live => Live' BY <1>1, <1>2, <1>4, <1>8, ServerKept, ClientKept DEF Live
<1>10. (WriterStops => WriterStops') /\ (Served => Served') BY <1>1, <1>2 DEF WriterStops, Served
<1>11. ToClient => ToClient' BY <1>1, <1>2, <1>3, <1>6, <1>10 DEF ToClient
<1>12. ToServer => ToServer' BY <1>1, <1>2, <1>3, <1>6 DEF ToServer
<1>13. ASSUME NEW r \in Nat, NEW x \in 0..4, OpLive(r, x) PROVE OpLive(r, x)'
  <2>1. Before(r)' = Before(r) BY <1>1 DEF Before
  <2>2. (OpServes(r, x) => OpServes(r, x)') /\ (OpAsks(r) => OpAsks(r)') BY <1>1, <1>2, <1>3, <2>1 DEF OpServes, OpAsks
  <2>3. OpAt(r, x) => OpAt(r, x)' BY <1>1 DEF OpAt
  <2> QED BY <1>1, <1>5, <1>8, <1>13, <2>2, <2>3 DEF OpLive
<1>14. ASSUME NEW r \in Nat, NEW x \in 0..4, OpTail(r, x) PROVE OpTail(r, x)'
  <2>1. Before(r)' = Before(r) BY <1>1 DEF Before
  <2>2. OpAt(r, x) => OpAt(r, x)' BY <1>1 DEF OpAt
  <2> QED BY <1>1, <1>10, <1>14, <2>1, <2>2 DEF OpTail
<1>15. ASSUME NEW r \in Nat, OpRest(r) PROVE OpRest(r)'
  <2>1. Before(r)' = Before(r) BY <1>1 DEF Before
  <2>2. OpAt(r, 0) => OpAt(r, 0)' BY <1>1 DEF OpAt
  <2> QED BY <1>1, <1>2, <1>5, <1>10, <1>15, <2>1, <2>2 DEF OpRest
<1>16. OpPhase => OpPhase' BY <1>1, <1>13, <1>14, <1>15 DEF OpPhase
<1>17. Left => Left' BY <1>1, <1>3, <1>6 DEF Left
<1>18. Stuck => Stuck' BY <1>1, <1>2, <1>3, <1>8 DEF Stuck
<1> QED BY <1>1, <1>5, <1>7, <1>9, <1>11, <1>12, <1>16, <1>17, <1>18 DEF PInv

\* However TCP cuts and joins the bytes that the pairs of programs exchange,
\* a program that returns from main() has read what its peer sent, or only the
\* first bytes where it makes a single read(): for every length of a message,
\* size of the buffers and number of rounds.  echo_client.c that quits behind a
\* line which filled its buffer has read the echo of every message before it.
THEOREM AllDelivered == Spec => []Delivered
<1>1. Init => PInv BY PInit
<1>2. PInv /\ [Next]_vars => PInv'
  <2> SUFFICES ASSUME PInv, [Next]_vars PROVE PInv' OBVIOUS
  <2>1. CASE InP(P!Next) BY <2>1, PStep DEF InP
  <2>2. CASE InF(F!Next) \/ InD(D!Next) BY <2>2, PUnchanged DEF InF, InD
  <2>3. CASE UNCHANGED vars BY <2>3, PUnchanged DEF vars
  <2> QED BY <2>1, <2>2, <2>3 DEF Next
<1>3. PInv => Delivered BY PDelivers DEF Delivered
<1> QED BY <1>1, <1>2, <1>3, PTL DEF Spec
=============================================================================
