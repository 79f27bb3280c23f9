------------------------- MODULE MultiplexingProofs --------------------------
(***************************************************************************)
(* Proof that no read() of the level-triggered servers can block, for any  *)
(* number of clients and any sizes of messages and buffers.                *)
(***************************************************************************)
EXTENDS Multiplexing, ProdConsLemmas, WellFoundedInduction

-----------------------------------------------------------------------------
(* Least elements                                                          *)

\* A set of natural numbers that is not empty has a least element: Min of it.
LEMMA MinInSet ==
  ASSUME NEW S, S \subseteq Nat, S # {}
  PROVE  Min(S) \in S /\ \A y \in S : Min(S) <= y
BY LeastNat DEF Min

\* The smaller of two.
LEMMA MinOfTwo ==
  ASSUME NEW a \in Nat, NEW b \in Nat
  PROVE  Min({a, b}) \in {a, b} /\ Min({a, b}) <= a /\ Min({a, b}) <= b
BY MinInSet

-----------------------------------------------------------------------------
(* The invariant                                                           *)

States == {"out", "open", "closed", "reset"}
Types ==
  /\ program \in {"select", "epoll", "EPLT", "EPET"} /\ backlog \in Seq(Clients)
  /\ table \in [Fds -> Clients \cup {None}] /\ events \subseteq Fds \cup {Listening}
  /\ cst \in [Clients -> States] /\ rx \in [Clients -> Nat]

Waits(c) == \E k \in 1..Len(backlog) : backlog[k] = c

\* A client that has come is in the queue for accept() or behind one
\* descriptor, until it is forgotten.
OnePlace ==
  /\ \A k, l \in 1..Len(backlog) : backlog[k] = backlog[l] => k = l
  /\ \A f, g \in Fds : table[f] # None /\ table[f] = table[g] => f = g
  /\ \A f \in Fds : table[f] # None => ~Waits(table[f]) /\ cst[table[f]] # "out"
  /\ \A k \in 1..Len(backlog) : cst[backlog[k]] # "out"

\* Events wait on open descriptors only.
EventsOpen == \A f \in events \ {Listening} : table[f] # None

MInv == Types /\ OnePlace /\ EventsOpen /\ NeverBlocksInRead

\* Nobody has come yet.
LEMMA MInit == Init => MInv
<1> SUFFICES ASSUME Init PROVE MInv OBVIOUS
<1>1. backlog = << >> /\ Len(backlog) = 0 BY DEF Init
<1>2. Types BY <1>1 DEF Init, Types, States
<1>3. OnePlace /\ EventsOpen /\ NeverBlocksInRead BY <1>1 DEF Init, OnePlace, EventsOpen, NeverBlocksInRead
<1> QED BY <1>2, <1>3 DEF MInv

\* There is a free descriptor for whoever waits for accept().
LEMMA FreeDescriptor ==
  ASSUME MInv, backlog # << >>
  PROVE  {g \in Fds : table[g] = None} # {}
<1> SUFFICES ASSUME \A g \in Fds : table[g] # None PROVE FALSE OBVIOUS
<1> DEFINE c == backlog[1]
           Others == Clients \ {c}
<1>1. 1 \in 1..Len(backlog) /\ c \in Clients BY DEF MInv, Types
<1>2. \A g \in Fds : table[g] \in Others
  <2> SUFFICES ASSUME NEW g \in Fds PROVE table[g] # c /\ table[g] \in Clients OBVIOUS
  <2> QED BY <1>1 DEF MInv, Types, OnePlace, Waits
<1>3. table \in Injection(Fds, Others)
  <2>1. table \in [Fds -> Others] BY <1>2 DEF MInv, Types
  <2>2. \A f, g \in Fds : table[f] = table[g] => f = g BY DEF MInv, OnePlace
  <2> QED BY <2>1, <2>2 DEF Injection, IsInjective
<1>4. IsFiniteSet(Others) /\ Cardinality(Others) = Cardinality(Clients) - 1
  BY <1>1, ServersAssumption, FS_RemoveElement
<1>5. Cardinality(Fds) <= Cardinality(Others) BY <1>3, <1>4, FS_Injection
<1>6. Cardinality(Clients) \in Nat BY ServersAssumption, FS_CardinalityType
<1>7. Cardinality(Fds) = Cardinality(Clients)
  <2>1. Fds = 4..(3 + Cardinality(Clients)) BY DEF Fds, Listening
  <2>2. 4 \in Int /\ 3 + Cardinality(Clients) \in Int BY <1>6
  <2>3. Cardinality(4..(3 + Cardinality(Clients)))
          = IF 4 > 3 + Cardinality(Clients) THEN 0 ELSE (3 + Cardinality(Clients)) - 4 + 1
    BY <2>2, FS_Interval
  <2> QED BY <1>6, <2>1, <2>3
<1> QED BY <1>4, <1>5, <1>6, <1>7

-----------------------------------------------------------------------------
(* The steps                                                               *)

\* The listening socket is none of the descriptors of clients.
LEMMA ListeningApart == Listening \notin Fds /\ Fds \subseteq Nat
<1>1. Cardinality(Clients) \in Nat BY ServersAssumption, FS_CardinalityType
<1> QED BY <1>1 DEF Fds, Listening

\* The client behind a descriptor of an event.
LEMMA EventClient ==
  ASSUME MInv, NEW f \in events, f # Listening
  PROVE  f \in Fds /\ table[f] \in Clients /\ table[f] # None
BY DEF MInv, Types, EventsOpen

\* A step of a client, or of the server on its behalf: what can be read stays.
LEMMA ClientStep ==
  ASSUME MInv, UNCHANGED <<program, backlog, table, events, pc, cur>>,
         cst' \in [Clients -> States], rx' \in [Clients -> Nat],
         \A c \in Clients : rx[c] > 0 => rx'[c] > 0,
         \A c \in Clients : cst[c] # "out" => cst'[c] # "out",
         \A c \in Clients : cst[c] \in {"closed", "reset"} => cst'[c] \in {"closed", "reset"}
  PROVE  MInv'
<1>1. Types' BY DEF MInv, Types
<1>2. OnePlace'
  <2>1. \A c : Waits(c)' <=> Waits(c) BY DEF Waits
  <2>2. \A k \in 1..Len(backlog) : backlog[k] \in Clients BY DEF MInv, Types
  <2>3. \A f \in Fds : table[f] # None => table[f] \in Clients BY DEF MInv, Types
  <2> QED BY <2>1, <2>2, <2>3 DEF MInv, OnePlace
<1>3. EventsOpen' BY DEF MInv, EventsOpen
<1>4. NeverBlocksInRead'
  <2>1. \A f \in events \ {Listening} : table[f] \in Clients BY EventClient
  <2>2. \A c \in Clients : Readable(c) => Readable(c)' BY DEF Readable
  <2>3. ET' <=> ET BY DEF ET
  <2> QED BY <2>1, <2>2, <2>3 DEF MInv, NeverBlocksInRead
<1> QED BY <1>1, <1>2, <1>3, <1>4 DEF MInv

\* Every step of a client that is connected.
LEMMA UserStep ==
  ASSUME MInv, NEW c \in Clients, User(c) \/ Kill(c), UNCHANGED program
  PROVE  MInv'
<1>1. cst \in [Clients -> States] /\ rx \in [Clients -> Nat] BY DEF MInv, Types
<1>2. CASE Type(c) BY <1>1, <1>2, ClientStep DEF Type, server
<1>3. CASE ClientRead(c) BY <1>1, <1>3, ClientStep DEF ClientRead, server
<1>4. CASE Fill(c) BY <1>1, <1>4, ClientStep DEF Fill, server
<1>5. CASE Quit(c) \/ Kill(c)
  <2>1. /\ cst' = [cst EXCEPT ![c] = IF tx[c] > 0 THEN "reset" ELSE "closed"]
        /\ UNCHANGED <<backlog, table, pc, events, cur, rx>>
    BY <1>5 DEF Quit, Kill, Leave
  <2>2. cst' \in [Clients -> States] /\ cst'[c] \in {"closed", "reset"} /\ \A d \in Clients \ {c} : cst'[d] = cst[d]
    BY <1>1, <2>1 DEF States
  <2> QED BY <1>1, <2>1, <2>2, ClientStep
<1>6. CASE ClientWrite(c)
  <2>1. PICK k \in 1..Min({wleft[c], Cap - rx[c]}) : rx' = [rx EXCEPT ![c] = @ + k] BY <1>6 DEF ClientWrite
  <2>2. k \in Nat /\ k > 0 OBVIOUS
  <2>3. UNCHANGED <<backlog, table, pc, events, cur, cst>> BY <1>6 DEF ClientWrite
  <2>4. rx' \in [Clients -> Nat] /\ \A d \in Clients : rx[d] > 0 => rx'[d] > 0 BY <1>1, <2>1, <2>2
  <2> QED BY <1>1, <2>3, <2>4, ClientStep
<1> QED BY <1>2, <1>3, <1>4, <1>5, <1>6 DEF User

\* A client comes: it is in no other place yet.
LEMMA ConnectStep ==
  ASSUME MInv, NEW c \in Clients, Connect(c), UNCHANGED program PROVE MInv'
<1>1. /\ cst[c] = "out" /\ cst' = [cst EXCEPT ![c] = "open"] /\ backlog' = Append(backlog, c)
      /\ UNCHANGED <<table, pc, events, cur, rx>>
  BY DEF Connect
<1>2. backlog \in Seq(Clients) /\ cst \in [Clients -> States] /\ Len(backlog) \in Nat BY DEF MInv, Types
<1>3. /\ Len(backlog') = Len(backlog) + 1 /\ backlog'[Len(backlog) + 1] = c
      /\ \A k \in 1..Len(backlog) : backlog'[k] = backlog[k]
  BY <1>1, <1>2
<1>4. cst'[c] = "open" /\ \A d \in Clients \ {c} : cst'[d] = cst[d] BY <1>1, <1>2
<1>5. Types' BY <1>1, <1>2 DEF MInv, Types, States
<1>6. ~Waits(c) BY <1>1 DEF MInv, OnePlace, Waits
<1>7. \A f \in Fds : table[f] # c
  <2>1. c # None BY ServersAssumption DEF None
  <2> QED BY <1>1, <2>1 DEF MInv, OnePlace
<1>8. \A d : Waits(d)' <=> (Waits(d) \/ d = c) BY <1>2, <1>3 DEF Waits
<1>9. OnePlace'
  <2>1. ASSUME NEW k \in 1..Len(backlog'), NEW l \in 1..Len(backlog'), backlog'[k] = backlog'[l] PROVE k = l
    <3>1. CASE k \in 1..Len(backlog) /\ l \in 1..Len(backlog)
      BY <1>3, <2>1, <3>1 DEF MInv, OnePlace
    <3>2. CASE k \in 1..Len(backlog) /\ l = Len(backlog) + 1 BY <1>3, <1>6, <2>1, <3>2 DEF Waits
    <3>3. CASE k = Len(backlog) + 1 /\ l \in 1..Len(backlog) BY <1>3, <1>6, <2>1, <3>3 DEF Waits
    <3> QED BY <1>2, <1>3, <3>1, <3>2, <3>3
  <2>2. \A f, g \in Fds : table[f] # None /\ table[f] = table[g] => f = g BY DEF MInv, OnePlace
  <2>3. ASSUME NEW f \in Fds, table[f] # None PROVE ~Waits(table[f])' /\ cst'[table[f]] # "out"
    <3>1. table[f] \in Clients \ {c} BY <1>7, <2>3 DEF MInv, Types
    <3>2. ~Waits(table[f]) /\ cst[table[f]] # "out" BY <2>3 DEF MInv, OnePlace
    <3>3. ~Waits(table[f])' BY <1>8, <3>1, <3>2, <1>1
    <3> QED BY <1>4, <3>1, <3>2, <3>3
  <2>4. ASSUME NEW k \in 1..Len(backlog') PROVE cst'[backlog'[k]] # "out"
    <3>1. CASE k \in 1..Len(backlog)
      <4>1. backlog[k] \in Clients /\ cst[backlog[k]] # "out" BY <1>2, <3>1 DEF MInv, OnePlace
      <4> QED BY <1>3, <1>4, <3>1, <4>1
    <3>2. CASE k = Len(backlog) + 1 BY <1>3, <1>4, <3>2
    <3> QED BY <1>2, <1>3, <3>1, <3>2
  <2> QED BY <1>1, <2>1, <2>2, <2>3, <2>4 DEF OnePlace
<1>10. EventsOpen' BY <1>1 DEF MInv, EventsOpen
<1>11. NeverBlocksInRead'
  <2>1. \A f \in events \ {Listening} : table[f] \in Clients \ {c} BY <1>7, EventClient
  <2>2. \A d \in Clients \ {c} : Readable(d) => Readable(d)' BY <1>1, <1>4 DEF Readable
  <2>3. ET' <=> ET BY DEF ET
  <2> QED BY <1>1, <2>1, <2>2, <2>3 DEF MInv, NeverBlocksInRead
<1> QED BY <1>5, <1>9, <1>10, <1>11 DEF MInv

\* select() or epoll_wait() reports what is ready.
LEMMA WaitStep == ASSUME MInv, Wait, UNCHANGED program PROVE MInv'
<1>1. /\ pc = "loop" /\ events' = Ready
      /\ UNCHANGED <<backlog, table, pc, cur, cst, rx>>
  BY DEF Wait, client
<1>2. Ready \subseteq Fds \cup {Listening} /\ \A f \in Ready \ {Listening} : table[f] # None BY DEF Ready
<1>3. Types' BY <1>1, <1>2 DEF MInv, Types
<1>4. OnePlace'
  <2>1. \A c : Waits(c)' <=> Waits(c) BY <1>1 DEF Waits
  <2> QED BY <1>1, <2>1 DEF MInv, OnePlace
<1>5. EventsOpen' BY <1>1, <1>2 DEF EventsOpen
<1>6. NeverBlocksInRead'
  <2>1. ~ET => \A f \in Ready \ {Listening} : Readable(table[f]) BY DEF Ready
  <2>2. ET' <=> ET BY DEF ET
  <2>3. \A c : Readable(c)' <=> Readable(c) BY <1>1 DEF Readable
  <2> QED BY <1>1, <1>2, <2>1, <2>2, <2>3 DEF NeverBlocksInRead
<1> QED BY <1>3, <1>4, <1>5, <1>6 DEF MInv

\* accept(): the descriptor it gives out is free, so no event waits on it.
LEMMA AcceptStep ==
  ASSUME MInv, NEW f \in events, pc = "loop", Accept(f), UNCHANGED program PROVE MInv'
<1> DEFINE new == Min({g \in Fds : table[g] = None})
<1>0. PICK c : c = Head(backlog) OBVIOUS
<1>1. /\ f = Listening /\ backlog # << >> /\ table' = [table EXCEPT ![new] = c]
      /\ backlog' = Tail(backlog) /\ events' = events \ {f} /\ UNCHANGED <<pc, cur, cst, rx>>
  BY <1>0 DEF Accept, client
<1>2. new \in Fds /\ table[new] = None
  <2>1. {g \in Fds : table[g] = None} \subseteq Nat BY ListeningApart
  <2>2. new \in {g \in Fds : table[g] = None} BY <1>1, <2>1, FreeDescriptor, MinInSet
  <2> QED BY <2>2
<1> HIDE DEF new
<1>3. backlog \in Seq(Clients) /\ table \in [Fds -> Clients \cup {None}] BY DEF MInv, Types
<1>4. /\ backlog' \in Seq(Clients) /\ Len(backlog') = Len(backlog) - 1 /\ c = backlog[1] /\ c \in Clients
      /\ Len(backlog) \in Nat /\ Len(backlog) > 0 /\ \A k \in 1..Len(backlog') : backlog'[k] = backlog[k + 1]
  <2>1. Len(backlog) \in Nat /\ Len(backlog) > 0 BY <1>1, <1>3, EmptySeq
  <2>2. /\ Tail(backlog) \in Seq(Clients) /\ Len(Tail(backlog)) = Len(backlog) - 1
        /\ \A k \in 1..Len(Tail(backlog)) : Tail(backlog)[k] = backlog[k + 1]
    BY <1>1, <1>3, HeadTailProperties
  <2>3. c = backlog[1] /\ backlog[1] \in Clients BY <1>0, <1>1, <1>3, <2>1
  <2> QED BY <1>1, <2>1, <2>2, <2>3
<1>5. table' \in [Fds -> Clients \cup {None}] /\ table'[new] = c /\ \A g \in Fds \ {new} : table'[g] = table[g]
  BY <1>1, <1>2, <1>3, <1>4
<1>6. Types' BY <1>1, <1>4, <1>5 DEF MInv, Types
<1>7. Waits(c) /\ ~Waits(c)' /\ \A d : Waits(d)' => Waits(d)
  <2>1. Waits(c) BY <1>4 DEF Waits
  <2>2. ASSUME Waits(c)' PROVE FALSE
    <3>1. PICK k \in 1..Len(backlog') : backlog'[k] = c BY <2>2 DEF Waits
    <3>2. k + 1 \in 1..Len(backlog) /\ 1 \in 1..Len(backlog) /\ backlog[k + 1] = backlog[1] BY <1>4, <3>1
    <3>3. k + 1 = 1 BY <3>2 DEF MInv, OnePlace
    <3> QED BY <3>3
  <2>3. ASSUME NEW d, Waits(d)' PROVE Waits(d)
    <3>1. PICK k \in 1..Len(backlog') : backlog'[k] = d BY <2>3 DEF Waits
    <3>2. k + 1 \in 1..Len(backlog) /\ backlog[k + 1] = d BY <1>4, <3>1
    <3> QED BY <3>2 DEF Waits
  <2> QED BY <2>1, <2>2, <2>3
<1>8. c # None /\ \A g \in Fds : table[g] # c
  <2>1. c # None BY <1>4, ServersAssumption DEF None
  <2> QED BY <1>7, <2>1 DEF MInv, OnePlace
<1>9. OnePlace'
  <2>1. \A k, l \in 1..Len(backlog') : backlog'[k] = backlog'[l] => k = l
    <3> SUFFICES ASSUME NEW k \in 1..Len(backlog'), NEW l \in 1..Len(backlog'), backlog'[k] = backlog'[l]
                 PROVE  k = l
      OBVIOUS
    <3>1. k + 1 \in 1..Len(backlog) /\ l + 1 \in 1..Len(backlog) /\ backlog[k + 1] = backlog[l + 1] BY <1>4
    <3>2. k + 1 = l + 1 BY <3>1 DEF MInv, OnePlace
    <3> QED BY <3>2
  <2>2. \A g, h \in Fds : table'[g] # None /\ table'[g] = table'[h] => g = h
    BY <1>5, <1>8 DEF MInv, OnePlace
  <2>3. ASSUME NEW g \in Fds, table'[g] # None PROVE ~Waits(table[g])' /\ cst'[table'[g]] # "out"
    <3>1. CASE g = new
      <4>1. cst[c] # "out" BY <1>4 DEF MInv, OnePlace
      <4> QED BY <1>1, <1>5, <1>7, <3>1, <4>1
    <3>2. CASE g # new
      <4>1. ~Waits(table[g]) /\ cst[table[g]] # "out" /\ table'[g] = table[g]
        BY <1>5, <2>3, <3>2 DEF MInv, OnePlace
      <4> QED BY <1>1, <1>7, <4>1
    <3> QED BY <3>1, <3>2
  <2>4. \A k \in 1..Len(backlog') : cst'[backlog'[k]] # "out" BY <1>1, <1>4 DEF MInv, OnePlace
  <2> QED BY <2>1, <2>2, <2>3, <2>4 DEF OnePlace
<1>10. \A g \in events \ {Listening} : g \in Fds /\ g # new BY <1>2, EventClient
<1>11. EventsOpen' BY <1>1, <1>5, <1>10 DEF MInv, EventsOpen
<1>12. NeverBlocksInRead'
  <2>1. \A d : Readable(d)' <=> Readable(d) BY <1>1 DEF Readable
  <2>2. ET' <=> ET BY DEF ET
  <2> QED BY <1>1, <1>5, <1>10, <2>1, <2>2 DEF MInv, NeverBlocksInRead
<1> QED BY <1>6, <1>9, <1>11, <1>12 DEF MInv

\* read() takes bytes of the client behind f; the others keep theirs.
LEMMA ReadDataStep ==
  ASSUME MInv, NEW f \in events, pc = "loop", ReadData(f), UNCHANGED program PROVE MInv'
<1> DEFINE c == table[f]
<1>1. /\ f \in Fds /\ rx[c] > 0 /\ hold' = Min({rx[c], BufSize}) /\ rx' = [rx EXCEPT ![c] = @ - hold']
      /\ cur' = f /\ pc' = "write" /\ UNCHANGED <<backlog, table, events, cst>>
  BY DEF ReadData, client
<1>2. c \in Clients /\ c # None BY <1>1, ListeningApart, EventClient
<1>3. rx \in [Clients -> Nat] BY DEF MInv, Types
<1>4. hold' \in Nat /\ hold' <= rx[c]
  <2>1. rx[c] \in Nat /\ BufSize \in Nat BY <1>2, <1>3 DEF BufSize
  <2> QED BY <1>1, <2>1, MinOfTwo
<1>5. rx' \in [Clients -> Nat] /\ \A d \in Clients \ {c} : rx'[d] = rx[d] BY <1>1, <1>2, <1>3, <1>4
<1> HIDE DEF c
<1>6. Types' BY <1>1, <1>5 DEF MInv, Types
<1>7. OnePlace'
  <2>1. \A d : Waits(d)' <=> Waits(d) BY <1>1 DEF Waits
  <2> QED BY <1>1, <2>1 DEF MInv, OnePlace
<1>8. EventsOpen' BY <1>1 DEF MInv, EventsOpen
<1>9. NeverBlocksInRead'
  <2> SUFFICES ASSUME ~ET, NEW g \in events \ {Listening}, g # f PROVE table[g] # None /\ Readable(table[g])'
    BY <1>1, <1>2 DEF NeverBlocksInRead, ET, c
  <2>1. g \in Fds /\ table[g] \in Clients /\ table[g] # None BY EventClient
  <2>2. table[g] # c BY <1>1, <2>1 DEF MInv, OnePlace, c
  <2>3. Readable(table[g]) BY DEF MInv, NeverBlocksInRead
  <2> QED BY <1>1, <1>5, <2>1, <2>2, <2>3 DEF Readable
<1> QED BY <1>6, <1>7, <1>8, <1>9 DEF MInv

\* read() returns 0: the descriptor and its event go together.
LEMMA ReadEofStep ==
  ASSUME MInv, NEW f \in events, pc = "loop", ReadEof(f), UNCHANGED program PROVE MInv'
<1>1. /\ f \in Fds /\ table' = [table EXCEPT ![f] = None] /\ events' = events \ {f}
      /\ UNCHANGED <<backlog, pc, cst, rx>>
  BY DEF ReadEof, client
<1>2. table' \in [Fds -> Clients \cup {None}] /\ table'[f] = None /\ \A g \in Fds \ {f} : table'[g] = table[g]
  BY <1>1 DEF MInv, Types
<1>3. Types' BY <1>1, <1>2 DEF MInv, Types
<1>4. OnePlace'
  <2>1. \A d : Waits(d)' <=> Waits(d) BY <1>1 DEF Waits
  <2>2. \A g \in Fds : table'[g] # None => g # f /\ table'[g] = table[g] BY <1>2
  <2> QED BY <1>1, <2>1, <2>2 DEF MInv, OnePlace
<1>5. \A g \in events' \ {Listening} : g \in Fds \ {f} BY <1>1, EventClient
<1>6. EventsOpen' BY <1>1, <1>2, <1>5 DEF MInv, EventsOpen
<1>7. NeverBlocksInRead'
  <2>1. \A d : Readable(d)' <=> Readable(d) BY <1>1 DEF Readable
  <2>2. ET' <=> ET BY DEF ET
  <2> QED BY <1>1, <1>2, <1>5, <2>1, <2>2 DEF MInv, NeverBlocksInRead
<1> QED BY <1>3, <1>4, <1>6, <1>7 DEF MInv

\* An event is dealt with, or given up after a failed read().
LEMMA EventGoneStep ==
  ASSUME MInv, NEW f, f \in events => f # Listening, events' = events \ {f} \/ events' = events,
         UNCHANGED <<program, backlog, table, rx>>, cst' \in [Clients -> States],
         (pc = "loop" /\ pc' = "loop") \/ (pc = "write" /\ f = cur /\ pc' = "loop" /\ (~ET => events' = events \ {f})),
         \A c \in Clients : cst[c] # "out" => cst'[c] # "out",
         \A c \in Clients : cst[c] \in {"closed", "reset"} => cst'[c] \in {"closed", "reset"}
  PROVE  MInv'
<1>1. Types' BY DEF MInv, Types
<1>2. OnePlace'
  <2>1. \A c : Waits(c)' <=> Waits(c) BY DEF Waits
  <2>2. \A k \in 1..Len(backlog) : backlog[k] \in Clients BY DEF MInv, Types
  <2>3. \A g \in Fds : table[g] # None => table[g] \in Clients BY DEF MInv, Types
  <2> QED BY <2>1, <2>2, <2>3 DEF MInv, OnePlace
<1>3. EventsOpen' BY DEF MInv, EventsOpen
<1>4. NeverBlocksInRead'
  <2>1. \A g \in events \ {Listening} : table[g] \in Clients BY EventClient
  <2>2. \A c \in Clients : Readable(c) => Readable(c)' BY DEF Readable
  <2>3. ET' <=> ET BY DEF ET
  <2> QED BY <2>1, <2>2, <2>3 DEF MInv, NeverBlocksInRead
<1> QED BY <1>1, <1>2, <1>3, <1>4 DEF MInv

\* read() on behalf of an event, or accept().
LEMMA HandleStep ==
  ASSUME MInv, NEW f \in events, Handle(f), UNCHANGED program PROVE MInv'
<1>0. pc = "loop" /\ cst \in [Clients -> States] BY DEF Handle, MInv, Types
<1>1. CASE ReadReset(f)
  <2>1. f \in Fds /\ cst' = [cst EXCEPT ![table[f]] = "closed"] /\ events' = events \ {f}
        /\ UNCHANGED <<backlog, table, pc, rx>>
    BY <1>1 DEF ReadReset
  <2>2. f # Listening /\ table[f] \in Clients BY <2>1, ListeningApart, EventClient
  <2>3. cst' \in [Clients -> States] /\ cst'[table[f]] = "closed" /\ \A c \in Clients \ {table[f]} : cst'[c] = cst[c]
    BY <1>0, <2>1, <2>2 DEF States
  <2> QED BY <1>0, <2>1, <2>2, <2>3, EventGoneStep
<1>2. CASE ReadAgain(f)
  <2>1. f \in Fds /\ events' = events \ {f} /\ UNCHANGED <<backlog, table, pc, cst, rx>>
    BY <1>2 DEF ReadAgain, client
  <2> QED BY <1>0, <2>1, ListeningApart, EventGoneStep
<1> QED BY <1>0, <1>1, <1>2, AcceptStep, ReadDataStep, ReadEofStep DEF Handle

\* write(): the event of the descriptor is over, or the rest is still to be
\* written, or SIGPIPE kills the server.
LEMMA WriteStep ==
  ASSUME MInv, WriteData \/ WriteLost, UNCHANGED program PROVE MInv'
<1>0. pc = "write" /\ UNCHANGED <<backlog, table, cur, rx>> BY DEF WriteData, WriteLost, client
<1>1. cst \in [Clients -> States] /\ rx \in [Clients -> Nat] BY DEF MInv, Types
<1>7. cst' = cst \/ cst' = [cst EXCEPT ![table[cur]] = "closed"] BY DEF WriteData, WriteLost, client
<1>8. /\ cst' \in [Clients -> States]
      /\ \A c \in Clients : cst[c] # "out" => cst'[c] # "out"
      /\ \A c \in Clients : cst[c] \in {"closed", "reset"} => cst'[c] \in {"closed", "reset"}
  BY <1>1, <1>7 DEF States
<1>2. CASE Echoed
  <2>1. pc' = "loop" /\ events' = (IF ET THEN events ELSE events \ {cur}) BY <1>2 DEF Echoed
  <2>2. CASE cur # Listening \/ Listening \notin events BY <1>0, <1>8, <2>1, <2>2, EventGoneStep
  <2>3. CASE cur = Listening /\ Listening \in events
    <3>1. Types' BY <1>0, <1>8, <2>1 DEF MInv, Types
    <3>2. OnePlace'
      <4>1. \A c : Waits(c)' <=> Waits(c) BY <1>0 DEF Waits
      <4>2. \A k \in 1..Len(backlog) : backlog[k] \in Clients BY DEF MInv, Types
      <4>3. \A g \in Fds : table[g] # None => table[g] \in Clients BY DEF MInv, Types
      <4> QED BY <1>0, <1>8, <4>1, <4>2, <4>3 DEF MInv, OnePlace
    <3>3. EventsOpen' BY <1>0, <2>1 DEF MInv, EventsOpen
    <3>4. NeverBlocksInRead'
      <4>1. \A d \in Clients : Readable(d) => Readable(d)' BY <1>0, <1>8 DEF Readable
      <4>2. ET' <=> ET BY DEF ET
      <4>3. \A g \in events \ {Listening} : table[g] \in Clients BY EventClient
      <4> QED BY <1>0, <2>1, <2>3, <4>1, <4>2, <4>3 DEF MInv, NeverBlocksInRead
    <3> QED BY <3>1, <3>2, <3>3, <3>4 DEF MInv
  <2> QED BY <2>2, <2>3
<1>3. CASE UNCHANGED <<pc, events>> BY <1>0, <1>1, <1>3, <1>8, ClientStep
<1>4. CASE pc' = "dead" /\ UNCHANGED <<events, cst>> /\ cst[table[cur]] # "open"
  <2>1. Types' BY <1>0, <1>4 DEF MInv, Types
  <2>2. OnePlace'
    <3>1. \A c : Waits(c)' <=> Waits(c) BY <1>0 DEF Waits
    <3> QED BY <1>0, <1>4, <3>1 DEF MInv, OnePlace
  <2>3. EventsOpen' BY <1>0, <1>4 DEF MInv, EventsOpen
  <2>4. NeverBlocksInRead'
    <3> SUFFICES ASSUME ~ET, NEW g \in events \ {Listening} PROVE table[g] # None /\ Readable(table[g])
      BY <1>0, <1>4 DEF NeverBlocksInRead, ET, Readable
    <3>1. g \in Fds /\ table[g] \in Clients /\ table[g] # None BY EventClient
    <3>2. CASE g = cur
      <4>1. cst[table[g]] # "out" /\ cst[table[g]] # "open" BY <1>4, <3>1, <3>2 DEF MInv, OnePlace
      <4> QED BY <1>1, <3>1, <4>1 DEF Readable, States
    <3>3. CASE g # cur BY <3>1, <3>3 DEF MInv, NeverBlocksInRead
    <3> QED BY <3>2, <3>3
  <2> QED BY <2>1, <2>2, <2>3, <2>4 DEF MInv
<1>5. CASE WriteData BY <1>2, <1>3, <1>5 DEF WriteData
<1>6. CASE WriteLost BY <1>2, <1>4, <1>6 DEF WriteLost
<1> QED BY <1>5, <1>6

\* Every step keeps the invariant.
LEMMA MStep == MInv /\ [Next]_vars => MInv'
<1> SUFFICES ASSUME MInv, [Next]_vars PROVE MInv' OBVIOUS
<1>1. CASE UNCHANGED vars
  <2>1. UNCHANGED <<program, backlog, table, events, pc, cur, cst, rx>> BY <1>1 DEF vars, server, client
  <2>2. cst \in [Clients -> States] /\ rx \in [Clients -> Nat] BY DEF MInv, Types
  <2> QED BY <2>1, <2>2, ClientStep
<1>2. CASE Next
  <2>1. UNCHANGED program BY <1>2 DEF Next
  <2>2. CASE Serve BY <2>1, <2>2, WaitStep, HandleStep, WriteStep DEF Serve
  <2>3. CASE \E c \in Clients : Connect(c) \/ User(c) \/ Kill(c) BY <2>1, <2>3, ConnectStep, UserStep
  <2> QED BY <1>2, <2>2, <2>3 DEF Next, Server, SelectServer, EpollServer, EPLTServer, EPETServer
<1> QED BY <1>1, <1>2

\* However clients come, leave, are killed and get descriptors that others have
\* given back in the same round, a server with blocking sockets reads only
\* where there is something to read.
THEOREM ReadsNeverBlock == Spec => []NeverBlocksInRead
<1>1. Init => MInv BY MInit
<1>2. MInv /\ [Next]_vars => MInv' BY MStep
<1>3. MInv => NeverBlocksInRead BY DEF MInv
<1> QED BY <1>1, <1>2, <1>3, PTL DEF Spec
=============================================================================
