------------------------ MODULE SessionManagerProofs ------------------------
(***************************************************************************)
(* TLAPS proofs about SessionManager, for every set of sessions, every     *)
(* limit and every bound.                                                  *)
(***************************************************************************)
EXTENDS SessionManager, SequenceTheorems, FiniteSetTheorems, WellFoundedInduction, TLAPS

(***************************************************************************)
(* The Map operators.                                                      *)
(***************************************************************************)
\* Map.set keeps a map of managed clients one, and adds one key.
LEMMA PutType ==
  ASSUME NEW map, map \in [DOMAIN map -> Managed], NEW s, NEW managed \in Managed
  PROVE  /\ Put(map, s, managed) \in [DOMAIN map \union {s} -> Managed]
         /\ DOMAIN Put(map, s, managed) = DOMAIN map \union {s}
         /\ Put(map, s, managed)[s] = managed
         /\ \A x \in DOMAIN map \ {s} : Put(map, s, managed)[x] = map[x]
BY DEF Put

\* Map.delete of several keys.
LEMMA WithoutType ==
  ASSUME NEW map, map \in [DOMAIN map -> Managed], NEW gone
  PROVE  /\ Without(map, gone) \in [DOMAIN map \ gone -> Managed]
         /\ DOMAIN Without(map, gone) = DOMAIN map \ gone
         /\ \A x \in DOMAIN map \ gone : Without(map, gone)[x] = map[x]
BY DEF Without

\* Touching a session keeps the order a relation on sessions.
LEMMA TouchType ==
  ASSUME NEW order \in SUBSET (Sessions \X Sessions), NEW s \in Sessions,
         NEW all \in SUBSET Sessions
  PROVE  Touch(order, s, all) \in SUBSET (Sessions \X Sessions)
BY DEF Touch

\* What evictIfNeeded does to the registry: it only takes clients out, and
\* every client it takes out is being stopped.
LEMMA EvictEffect ==
  ASSUME NEW map, map \in [DOMAIN map -> Managed], DOMAIN map \subseteq Sessions,
         NEW order \in SUBSET (Sessions \X Sessions), NEW max,
         NEW spared \in SUBSET Sessions,
         EvictIfNeeded(map, order, max, spared)
  PROVE  /\ DOMAIN clients' \subseteq DOMAIN map
         /\ clients' \in [DOMAIN clients' -> Managed]
         /\ \A s \in DOMAIN clients' : clients'[s] = map[s]
         /\ stopping' = stopping \union
              {<<s, map[s].generation>> : s \in DOMAIN map \ DOMAIN clients'}
         /\ older' \in SUBSET (Sessions \X Sessions)
         /\ unswept' = {} /\ exempt' = spared
<1>1. PICK victims \in SUBSET Candidates(map, spared) :
         /\ clients' = Without(map, victims)
         /\ older' = Among(order, DOMAIN map \ victims)
         /\ stopping' = stopping \union {<<s, map[s].generation>> : s \in victims}
         /\ unswept' = {} /\ exempt' = spared
  BY DEF EvictIfNeeded
<1>2. victims \subseteq DOMAIN map
  BY DEF Candidates
<1>3. /\ DOMAIN clients' = DOMAIN map \ victims
      /\ clients' \in [DOMAIN map \ victims -> Managed]
      /\ \A s \in DOMAIN map \ victims : clients'[s] = map[s]
  BY <1>1, WithoutType
<1>4. victims = DOMAIN map \ DOMAIN clients'
  BY <1>2, <1>3
<1>5. older' \in SUBSET (Sessions \X Sessions)
  BY <1>1 DEF Among
<1> QED
  BY <1>1, <1>3, <1>4, <1>5

\* What a removal does to the registry.
LEMMA RemoveEffect ==
  ASSUME TypeOK, NEW gone, Remove(gone)
  PROVE  /\ DOMAIN clients' = DOMAIN clients \ gone
         /\ clients' \in [DOMAIN clients' -> Managed]
         /\ \A s \in DOMAIN clients' : clients'[s] = clients[s]
         /\ older' \in SUBSET (Sessions \X Sessions)
         /\ UNCHANGED <<unswept, exempt>>
<1>1. clients' = Without(clients, gone) /\ clients \in [DOMAIN clients -> Managed]
  BY DEF Remove, TypeOK
<1>2. /\ DOMAIN clients' = DOMAIN clients \ gone
      /\ clients' \in [DOMAIN clients \ gone -> Managed]
      /\ \A s \in DOMAIN clients \ gone : clients'[s] = clients[s]
  BY <1>1, WithoutType
<1>3. older' \in SUBSET (Sessions \X Sessions)
  BY DEF Remove, Among, TypeOK
<1> QED
  BY <1>2, <1>3 DEF Remove

\* Protecting a client keeps it one of its generation.
LEMMA ProtectType ==
  ASSUME NEW managed \in Managed, NEW reason \in Reasons, NEW enabled \in BOOLEAN
  PROVE  /\ Protect(managed, reason, enabled) \in Managed
         /\ Protect(managed, reason, enabled).generation = managed.generation
BY DEF Protect, Managed

\* Every non-empty set of numbers has a least one.
LEMMA LeastNumber ==
  ASSUME NEW S \in SUBSET Nat, S # {}
  PROVE  \E i \in S : \A j \in S : i <= j
<1>1. PICK i \in S : \A j \in S : <<j, i>> \notin OpToRel(<, Nat)
  BY NatLessThanWellFounded, WFMin, Zenon
<1>2. \A j \in S : ~(j < i)
  BY <1>1 DEF OpToRel
<1> QED
  BY <1>2

\* A replay plays a prefix of the deferred queue.
LEMMA PlayedType ==
  ASSUME NEW queue \in Seq(Event)
  PROVE  Played(queue) \in Seq(Event)
<1> DEFINE exits == {i \in DOMAIN queue : queue[i].kind = "exit"}
           last == IF exits = {} THEN Len(queue)
                   ELSE CHOOSE i \in exits : \A j \in exits : i <= j
<1>1. CASE exits = {}
  <2>1. last = Len(queue)
    BY <1>1
  <2>2. SubSeq(queue, 1, Len(queue)) \in Seq(Event)
    OBVIOUS
  <2> QED
    BY <2>1, <2>2 DEF Played
<1>2. CASE exits # {}
  <2>1. exits \subseteq Nat
    OBVIOUS
  <2>2. \E i \in exits : \A j \in exits : i <= j
    BY <2>1, <1>2, LeastNumber
  <2>3. last \in DOMAIN queue
    BY <1>2, <2>2
  <2>4. SubSeq(queue, 1, last) \in Seq(Event)
    <3>1. last \in 1..Len(queue) /\ Len(queue) \in Nat
      BY <2>3
    <3>2. \A i \in 1..last : queue[i] \in Event
      BY <3>1, ElementOfSeq
    <3> QED
      BY <3>1, <3>2, SubSeqProperties
  <2> QED
    BY <2>4 DEF Played
<1> QED
  BY <1>1, <1>2

\* A replay plays nothing that is not in the queue.
LEMMA PlayedKinds ==
  ASSUME NEW queue \in Seq(Event), HasKind(Played(queue), "exit")
  PROVE  HasKind(queue, "exit")
<1>1. CASE ~HasKind(queue, "exit")
  <2>1. {i \in DOMAIN queue : queue[i].kind = "exit"} = {}
    BY <1>1 DEF HasKind
  <2>2. Played(queue) = queue
    BY <2>1, SubSeqFull DEF Played
  <2> QED
    BY <1>1, <2>2
<1> QED
  BY <1>1

(***************************************************************************)
(* The inductive invariant.  A client is issued once (Issued); a deferred  *)
(* exit belongs to a client that has exited (ExitQueued); and while        *)
(* stopAll waits, the workers it found are all being stopped (Draining).   *)
(***************************************************************************)
Issued == \A c \in running \union stopping \union barrier : c[2] <= generation[c[1]]

ExitQueued ==
  \A s \in Registered : HasKind(clients[s].queue, "exit") => ClientOf(s) \in exited

Draining == stopAll = "waiting" => barrier \intersect running \subseteq stopping

Safe == /\ RegisteredIsNewest /\ NoOrphanWorker /\ StopAllIsBarrier
        /\ Issued /\ ExitQueued /\ Draining

IInv == TypeOK /\ Safe

\* What every operation but a creation does to the Map: sessions leave it, and
\* those that stay keep their generation and gain no exit in their queue that
\* the client has not emitted.
Shrinks ==
  /\ DOMAIN clients' \subseteq DOMAIN clients
  /\ clients' \in [DOMAIN clients' -> Managed]
  /\ older' \in SUBSET (Sessions \X Sessions)
  /\ unswept' \in SUBSET Sessions /\ exempt' \in SUBSET Sessions
  /\ \A s \in DOMAIN clients' :
       /\ clients'[s].generation = clients[s].generation
       /\ HasKind(clients'[s].queue, "exit")
            => HasKind(clients[s].queue, "exit") \/ ClientOf(s) \in exited'

\* The clients whose registration a step ends.
Dropped == {ClientOf(s) : s \in DOMAIN clients \ DOMAIN clients'}

\* A step that only shrinks the Map keeps the type invariant.
LEMMA ShrinkTypeOK ==
  ASSUME TypeOK, Shrinks, UNCHANGED <<generation, barriers>>, limit' \in Limits,
         running' \subseteq running, exited' \subseteq Clients, stopping' \subseteq Clients,
         emitted' \in [Clients -> Nat], heard' \in [Sessions -> Seq(Event)]
  PROVE  TypeOK'
BY DEF TypeOK, Shrinks, barriers

\* A client of the Map is a client.
LEMMA ClientOfType ==
  ASSUME TypeOK, NEW s \in Registered
  PROVE  ClientOf(s) \in Clients
BY DEF TypeOK, Registered, ClientOf, Clients, Managed

\* A step that only shrinks the Map is safe when every client it drops is from
\* then on being stopped or has exited, and no other client starts stopping.
LEMMA ShrinkSafe ==
  ASSUME TypeOK, Safe, Shrinks, UNCHANGED <<generation, barriers>>,
         running' \subseteq running, exited \subseteq exited',
         stopping \subseteq stopping', stopping' \subseteq stopping \union Dropped,
         Dropped \subseteq stopping' \union exited'
  PROVE  Safe'
<1> USE DEF Registered, ClientOf, IsCurrent
<1>1. \A s \in DOMAIN clients' : s \in DOMAIN clients /\ ClientOf(s)' = ClientOf(s)
  BY DEF Shrinks
<1>2. RegisteredIsNewest'
  <2> SUFFICES ASSUME NEW s \in DOMAIN clients'
               PROVE  clients'[s].generation = generation'[s] /\ ClientOf(s)' \notin stopping'
    BY DEF RegisteredIsNewest
  <2>1. clients'[s].generation = generation'[s]
    BY DEF Safe, RegisteredIsNewest, Shrinks
  <2>2. ClientOf(s)' \notin stopping /\ ClientOf(s)' \notin Dropped
    BY <1>1 DEF Safe, RegisteredIsNewest, Dropped
  <2> QED
    BY <2>1, <2>2
<1>3. NoOrphanWorker'
  <2> SUFFICES ASSUME NEW c \in running', ~IsCurrent(c)'
               PROVE  c \in stopping' \/ c \in exited'
    BY DEF NoOrphanWorker
  <2>1. c \in running /\ c \in Clients
    BY DEF TypeOK
  <2>2. c = <<c[1], c[2]>>
    BY <2>1 DEF Clients
  <2>3. CASE IsCurrent(c)
    <3>1. c[1] \in DOMAIN clients /\ c = ClientOf(c[1])
      BY <2>2, <2>3
    <3>2. c[1] \notin DOMAIN clients'
      BY <3>1, <1>1, <2>3 DEF Shrinks
    <3> QED
      BY <3>1, <3>2 DEF Dropped
  <2>4. CASE ~IsCurrent(c)
    BY <2>1, <2>4 DEF Safe, NoOrphanWorker
  <2> QED
    BY <2>3, <2>4
<1>4. StopAllIsBarrier' /\ Draining'
  BY DEF Safe, StopAllIsBarrier, Draining, barriers
<1>5. Issued'
  <2> SUFFICES ASSUME NEW c \in Dropped
               PROVE  c[2] <= generation[c[1]]
    BY DEF Safe, Issued, barriers
  <2>1. PICK s \in DOMAIN clients : c = <<s, clients[s].generation>>
    BY DEF Dropped
  <2>2. clients[s].generation = generation[s]
    BY DEF Safe, RegisteredIsNewest
  <2>3. s \in Sessions /\ generation \in [Sessions -> 0..MaxGeneration]
    BY DEF TypeOK
  <2>4. generation[s] \in Int
    BY <2>3, BoundsAssumption
  <2> QED
    BY <2>1, <2>2, <2>4
<1>6. ExitQueued'
  BY <1>1 DEF Safe, ExitQueued, Shrinks
<1> QED
  BY <1>2, <1>3, <1>4, <1>5, <1>6 DEF Safe

(***************************************************************************)
(* The effect of the registry's operations, as Shrinks.                    *)
(***************************************************************************)
\* An eviction from a map that has the sessions, generations and queues of the
\* Map shrinks the Map, and stops exactly what it drops.
LEMMA EvictShrinks ==
  ASSUME TypeOK, NEW map, map \in [DOMAIN clients -> Managed],
         NEW order \in SUBSET (Sessions \X Sessions), NEW max,
         NEW spared \in SUBSET Sessions,
         \A s \in DOMAIN clients : /\ map[s].generation = clients[s].generation
                                   /\ map[s].queue = clients[s].queue,
         EvictIfNeeded(map, order, max, spared)
  PROVE  /\ Shrinks
         /\ stopping' = stopping \union Dropped
<1>1. DOMAIN map = DOMAIN clients /\ DOMAIN clients \subseteq Sessions
  BY DEF TypeOK
<1>2. /\ DOMAIN clients' \subseteq DOMAIN map
      /\ clients' \in [DOMAIN clients' -> Managed]
      /\ \A s \in DOMAIN clients' : clients'[s] = map[s]
      /\ stopping' = stopping \union
           {<<s, map[s].generation>> : s \in DOMAIN map \ DOMAIN clients'}
      /\ older' \in SUBSET (Sessions \X Sessions)
      /\ unswept' = {} /\ exempt' = spared
  BY <1>1, EvictEffect
<1>3. Shrinks
  BY <1>1, <1>2 DEF Shrinks
<1>4. {<<s, map[s].generation>> : s \in DOMAIN map \ DOMAIN clients'} = Dropped
  BY <1>1 DEF Dropped, ClientOf
<1> QED
  BY <1>2, <1>3, <1>4

\* A removal shrinks the Map.
LEMMA RemoveShrinks ==
  ASSUME TypeOK, NEW gone, Remove(gone)
  PROVE  /\ Shrinks
         /\ Dropped = {ClientOf(s) : s \in DOMAIN clients \intersect gone}
<1>1. /\ DOMAIN clients' = DOMAIN clients \ gone
      /\ clients' \in [DOMAIN clients' -> Managed]
      /\ \A s \in DOMAIN clients' : clients'[s] = clients[s]
      /\ older' \in SUBSET (Sessions \X Sessions)
      /\ UNCHANGED <<unswept, exempt>>
  BY RemoveEffect
<1>2. Shrinks
  BY <1>1 DEF Shrinks, TypeOK
<1>3. DOMAIN clients \ DOMAIN clients' = DOMAIN clients \intersect gone
  BY <1>1
<1> QED
  BY <1>2, <1>3 DEF Dropped

\* Leaving the Map alone, or changing what Put changes of one registered
\* client, drops nothing.
LEMMA PutShrinks ==
  ASSUME TypeOK, NEW s \in DOMAIN clients, NEW managed \in Managed,
         managed.generation = clients[s].generation,
         HasKind(managed.queue, "exit")
           => HasKind(clients[s].queue, "exit") \/ ClientOf(s) \in exited',
         clients' = Put(clients, s, managed),
         older' \in SUBSET (Sessions \X Sessions),
         unswept' \in SUBSET Sessions, exempt' \in SUBSET Sessions
  PROVE  Shrinks /\ Dropped = {}
<1>1. clients \in [DOMAIN clients -> Managed] /\ DOMAIN clients \union {s} = DOMAIN clients
  BY DEF TypeOK
<1>2. /\ clients' \in [DOMAIN clients -> Managed]
      /\ DOMAIN clients' = DOMAIN clients
      /\ clients'[s] = managed
      /\ \A x \in DOMAIN clients \ {s} : clients'[x] = clients[x]
  BY <1>1 DEF Put
<1>3. Shrinks
  BY <1>2 DEF Shrinks
<1> QED
  BY <1>2, <1>3 DEF Dropped

LEMMA SameShrinks ==
  ASSUME TypeOK, UNCHANGED <<clients, unswept, exempt>>,
         older' \in SUBSET (Sessions \X Sessions)
  PROVE  Shrinks /\ Dropped = {}
BY DEF TypeOK, Shrinks, Dropped

\* Forwarding events drops the client exactly when an exit is among them.
LEMMA ForwardShrinks ==
  ASSUME TypeOK, NEW s \in DOMAIN clients, NEW events \in Seq(Event), Forward(s, events)
  PROVE  /\ Shrinks
         /\ heard' \in [Sessions -> Seq(Event)]
         /\ Dropped \subseteq {ClientOf(s)}
         /\ Dropped # {} => HasKind(events, "exit")
<1> DEFINE open == [clients[s] EXCEPT !.deferred = FALSE, !.queue = <<>>]
<1>1. open \in Managed /\ open.generation = clients[s].generation /\ open.queue = <<>>
  <2>1. clients[s] \in Managed
    BY DEF TypeOK
  <2>2. <<>> \in Seq(Event)
    OBVIOUS
  <2> QED
    BY <2>1, <2>2 DEF Managed
<1>2. /\ Protect(open, "input", TRUE) \in Managed
      /\ Protect(open, "input", TRUE).generation = clients[s].generation
      /\ Protect(open, "input", TRUE).queue = <<>>
  BY <1>1, ReasonsAssumption DEF Protect, Managed
<1>3. ~HasKind(<<>>, "exit")
  BY DEF HasKind
<1>4. s \in Sessions /\ heard' \in [Sessions -> Seq(Event)]
  <2>1. heard \in [Sessions -> Seq(Event)] /\ s \in Sessions
    BY DEF TypeOK
  <2>2. heard[s] \o events \in Seq(Event)
    BY <2>1
  <2> QED
    BY <2>1, <2>2 DEF Forward
<1>5. CASE HasKind(events, "exit")
  BY <1>4, <1>5, RemoveShrinks DEF Forward
<1>6. CASE ~HasKind(events, "exit")
  <2>1. older' \in SUBSET (Sessions \X Sessions)
    <3>1. older \in SUBSET (Sessions \X Sessions) /\ Registered \in SUBSET Sessions
      BY DEF TypeOK, Registered
    <3>2. Touch(older, s, Registered) \in SUBSET (Sessions \X Sessions)
      BY <1>4, <3>1, TouchType
    <3> QED
      BY <1>6, <3>1, <3>2 DEF Forward
  <2>2. unswept' \in SUBSET Sessions /\ exempt' \in SUBSET Sessions
    BY <1>6 DEF Forward, TypeOK
  <2>3. PICK managed \in Managed : /\ managed.generation = clients[s].generation
                                   /\ managed.queue = <<>>
                                   /\ clients' = Put(clients, s, managed)
    BY <1>1, <1>2, <1>6 DEF Forward
  <2>4. Shrinks /\ Dropped = {}
    BY <2>1, <2>2, <2>3, <1>3, PutShrinks
  <2> QED
    BY <2>4, <1>4
<1> QED
  BY <1>5, <1>6

-----------------------------------------------------------------------------
(***************************************************************************)
(* One lemma per action.                                                   *)
(***************************************************************************)
LEMMA InitIInv == Init => IInv
<1> SUFFICES ASSUME Init PROVE IInv
  OBVIOUS
<1>1. DOMAIN clients = {} /\ clients \in [{} -> Managed]
  BY DEF Init
<1>2. TypeOK
  <2>1. \A s \in Sessions : 0 \in 0..MaxGeneration
    BY BoundsAssumption
  <2> QED
    BY <1>1, <2>1 DEF Init, TypeOK
<1>3. Safe
  BY <1>1 DEF Init, Safe, RegisteredIsNewest, NoOrphanWorker, StopAllIsBarrier,
              Issued, ExitQueued, Draining, Registered
<1> QED
  BY <1>2, <1>3 DEF IInv

\* What the callers' operations that create nothing leave alone.
LEMMA CallKeepsIInv ==
  ASSUME IInv, Shrinks, Dropped \subseteq Clients, stopping' = stopping \union Dropped,
         UNCHANGED <<generation, running, exited, emitted, heard, barriers>>,
         limit' \in Limits
  PROVE  IInv'
<1>1. TypeOK'
  <2>1. stopping' \subseteq Clients
    BY DEF IInv, TypeOK
  <2> QED
    BY <2>1, ShrinkTypeOK DEF IInv, TypeOK
<1>2. Safe'
  BY ShrinkSafe DEF IInv
<1> QED
  BY <1>1, <1>2 DEF IInv

LEMMA DroppedType ==
  ASSUME TypeOK
  PROVE  Dropped \subseteq Clients
BY ClientOfType DEF Dropped, Registered

LEMMA SetLimitStep ==
  ASSUME IInv, NEW max \in Limits, SetLimit(max)
  PROVE  IInv'
<1>1. Shrinks /\ stopping' = stopping \union Dropped
  <2>1. TypeOK /\ clients \in [DOMAIN clients -> Managed] /\ older \in SUBSET (Sessions \X Sessions)
    BY DEF IInv, TypeOK
  <2>2. EvictIfNeeded(clients, older, max, {})
    BY DEF SetLimit
  <2> QED
    BY <2>1, <2>2, EvictShrinks
<1> QED
  BY <1>1, DroppedType, CallKeepsIInv DEF SetLimit, IInv

LEMMA EnforceLimitStep ==
  ASSUME IInv, NEW spared \in SUBSET Sessions, EnforceLimit(spared)
  PROVE  IInv'
<1>1. Shrinks /\ stopping' = stopping \union Dropped
  <2>1. TypeOK /\ clients \in [DOMAIN clients -> Managed] /\ older \in SUBSET (Sessions \X Sessions)
    BY DEF IInv, TypeOK
  <2>2. EvictIfNeeded(clients, older, limit, spared)
    BY DEF EnforceLimit
  <2> QED
    BY <2>1, <2>2, EvictShrinks
<1> QED
  BY <1>1, DroppedType, CallKeepsIInv DEF EnforceLimit, IInv, TypeOK

LEMMA GetStep ==
  ASSUME IInv, NEW s \in Sessions, Get(s)
  PROVE  IInv'
<1>1. older' \in SUBSET (Sessions \X Sessions)
  BY TouchType DEF Get, IInv, TypeOK, Registered
<1>2. Shrinks /\ Dropped = {}
  BY <1>1, SameShrinks DEF Get, IInv
<1> QED
  BY <1>2, CallKeepsIInv DEF Get, IInv, TypeOK, processes

LEMMA SetProtectionStep ==
  ASSUME IInv, NEW s \in Sessions, NEW reason \in Reasons, NEW enabled \in BOOLEAN,
         SetProtection(s, reason, enabled)
  PROVE  IInv'
<1> DEFINE managed == Protect(clients[s], reason, enabled)
           map == Put(clients, s, managed)
           order == Touch(older, s, Registered)
<1>1. s \in DOMAIN clients /\ clients[s] \in Managed /\ TypeOK
  BY DEF SetProtection, Registered, IInv, TypeOK
<1>2. /\ managed \in Managed /\ managed.generation = clients[s].generation
      /\ managed.queue = clients[s].queue
  BY <1>1 DEF Protect, Managed
<1>3. order \in SUBSET (Sessions \X Sessions)
  BY <1>1, TouchType DEF TypeOK, Registered
<1>4. CASE enabled
  <2>1. /\ clients' = Put(clients, s, managed) /\ older' = order
        /\ UNCHANGED <<stopping, unswept, exempt>>
    BY <1>4 DEF SetProtection
  <2> HIDE DEF managed, order
  <2>2. Shrinks /\ Dropped = {}
    BY <2>1, <1>1, <1>2, <1>3, PutShrinks DEF TypeOK
  <2> QED
    BY <2>1, <2>2, CallKeepsIInv DEF SetProtection, IInv, TypeOK
<1>5. CASE ~enabled
  <2>1. EvictIfNeeded(map, order, limit, {})
    BY <1>5 DEF SetProtection
  <2>2. /\ map \in [DOMAIN clients -> Managed]
        /\ \A x \in DOMAIN clients : /\ map[x].generation = clients[x].generation
                                     /\ map[x].queue = clients[x].queue
    <3> HIDE DEF managed
    <3>1. clients \in [DOMAIN clients -> Managed] /\ DOMAIN clients \union {s} = DOMAIN clients
      BY <1>1 DEF TypeOK
    <3> QED
      BY <3>1, <1>2 DEF Put
  <2> HIDE DEF map, order, managed
  <2>3. {} \in SUBSET Sessions
    OBVIOUS
  <2>4. Shrinks /\ stopping' = stopping \union Dropped
    BY <2>1, <2>2, <2>3, <1>1, <1>3, EvictShrinks
  <2> QED
    BY <2>4, <1>1, DroppedType, CallKeepsIInv DEF SetProtection, IInv, TypeOK
<1> QED
  BY <1>4, <1>5

LEMMA StopStep ==
  ASSUME IInv, NEW s \in Sessions, Stop(s)
  PROVE  IInv'
<1>1. TypeOK /\ Remove({s}) /\ s \in DOMAIN clients
  BY DEF IInv, Stop, Registered
<1>2. Shrinks /\ Dropped = {ClientOf(x) : x \in DOMAIN clients \intersect {s}}
  BY <1>1, RemoveShrinks
<1>3. Dropped = {ClientOf(s)}
  BY <1>1, <1>2
<1> QED
  BY <1>1, <1>2, <1>3, DroppedType, CallKeepsIInv DEF Stop, IInv, TypeOK

\* A created client is new: its generation is above every one issued before.
LEMMA CreateStep ==
  ASSUME IInv, NEW s \in Sessions, NEW deferred \in BOOLEAN, CreateManaged(s, deferred)
  PROVE  IInv'
<1> DEFINE new == [generation |-> generation[s] + 1, protection |-> {},
                   deferred |-> deferred, queue |-> <<>>]
           client == <<s, generation[s] + 1>>
           map == Put(clients, s, new)
           order == Touch(older, s, Registered)
<1>1. /\ TypeOK /\ s \notin DOMAIN clients /\ generation[s] < MaxGeneration
      /\ generation[s] \in Nat
  BY BoundsAssumption DEF CreateManaged, Registered, IInv, TypeOK
<1>2. new \in Managed
  <2>1. generation[s] + 1 \in Generations
    BY <1>1, BoundsAssumption DEF Generations
  <2>2. <<>> \in Seq(Event)
    OBVIOUS
  <2> QED
    BY <2>1, <2>2 DEF Managed
<1>3. client \in Clients
  BY <1>1, BoundsAssumption DEF Clients, Generations
<1>4. /\ map \in [DOMAIN clients \union {s} -> Managed]
      /\ DOMAIN map = DOMAIN clients \union {s}
      /\ map[s] = new
      /\ \A x \in DOMAIN clients : map[x] = clients[x]
  <2> HIDE DEF new
  <2> QED
    BY <1>1, <1>2 DEF Put, TypeOK
<1>5. order \in SUBSET (Sessions \X Sessions)
  BY <1>1, TouchType DEF TypeOK, Registered
<1>6. /\ generation' = [generation EXCEPT ![s] = @ + 1]
      /\ running' = running \union {client}
      /\ UNCHANGED <<limit, exited, emitted, heard, barriers>>
  BY DEF CreateManaged
<1>7. /\ DOMAIN clients' \subseteq DOMAIN map
      /\ clients' \in [DOMAIN clients' -> Managed]
      /\ \A x \in DOMAIN clients' : clients'[x] = map[x]
      /\ stopping' = stopping \union
           {<<x, map[x].generation>> : x \in DOMAIN map \ DOMAIN clients'}
      /\ older' \in SUBSET (Sessions \X Sessions)
      /\ unswept' \in SUBSET Sessions /\ exempt' \in SUBSET Sessions
  <2>1. CASE deferred
    <3>1. /\ clients' = map /\ older' = order /\ unswept' = unswept \union {s}
          /\ UNCHANGED <<stopping, exempt>>
      BY <2>1 DEF CreateManaged, NewClient
    <3> HIDE DEF map, order
    <3> QED
      BY <3>1, <1>1, <1>4, <1>5 DEF TypeOK
  <2>2. CASE ~deferred
    <3>1. EvictIfNeeded(map, order, limit, {s})
      BY <2>2 DEF CreateManaged, NewClient
    <3>2. DOMAIN map \subseteq Sessions /\ map \in [DOMAIN map -> Managed] /\ {s} \in SUBSET Sessions
      BY <1>1, <1>4 DEF TypeOK
    <3> HIDE DEF map, order
    <3> QED
      BY <3>1, <3>2, <1>5, EvictEffect
  <2> QED
    BY <2>1, <2>2
<1> DEFINE dropped == {<<x, map[x].generation>> : x \in DOMAIN map \ DOMAIN clients'}
<1>8. \A x \in DOMAIN map : /\ map[x].generation = generation'[x] /\ x \in Sessions
                            /\ <<x, map[x].generation>> \notin stopping
                            /\ <<x, map[x].generation>> \in Clients
  <2> SUFFICES ASSUME NEW x \in DOMAIN map
               PROVE  /\ map[x].generation = generation'[x] /\ x \in Sessions
                      /\ <<x, map[x].generation>> \notin stopping
                      /\ <<x, map[x].generation>> \in Clients
    OBVIOUS
  <2>1. CASE x = s
    <3>1. map[x].generation = generation[s] + 1 /\ generation'[x] = generation[s] + 1
      BY <2>1, <1>4, <1>6 DEF IInv, TypeOK
    <3>2. client \notin stopping
      BY <1>1 DEF IInv, Safe, Issued
    <3> QED
      BY <2>1, <3>1, <3>2, <1>3
  <2>2. CASE x # s
    <3>1. x \in DOMAIN clients /\ map[x] = clients[x] /\ x \in Sessions
      BY <2>2, <1>4, <1>1 DEF TypeOK
    <3>2. generation'[x] = generation[x]
      BY <2>2, <3>1, <1>6, <1>1 DEF TypeOK
    <3>3. clients[x].generation = generation[x] /\ ClientOf(x) \notin stopping
      BY <3>1 DEF IInv, Safe, RegisteredIsNewest, Registered
    <3>4. ClientOf(x) \in Clients
      BY <3>1, <1>1, ClientOfType DEF Registered
    <3> QED
      BY <3>1, <3>2, <3>3, <3>4 DEF ClientOf
  <2> QED
    BY <2>1, <2>2
<1>9. TypeOK'
  <2>1. generation' \in [Sessions -> 0..MaxGeneration]
    BY <1>1, <1>6, BoundsAssumption DEF TypeOK
  <2>2. running' \subseteq Clients /\ stopping' \subseteq Clients
    BY <1>1, <1>3, <1>6, <1>7, <1>8 DEF TypeOK
  <2>3. DOMAIN clients' \subseteq Sessions
    BY <1>7, <1>8
  <2> QED
    BY <1>1, <1>6, <1>7, <2>1, <2>2, <2>3 DEF TypeOK, barriers
<1>10. \A x \in Sessions : generation[x] \in Nat /\ generation[x] <= generation'[x]
  BY <1>1, <1>6, BoundsAssumption DEF TypeOK
<1> HIDE DEF map
<1>11. RegisteredIsNewest'
  <2> SUFFICES ASSUME NEW x \in DOMAIN clients'
               PROVE  /\ clients'[x].generation = generation'[x]
                      /\ <<x, clients'[x].generation>> \notin stopping'
    BY DEF RegisteredIsNewest, Registered, ClientOf
  <2>1. x \in DOMAIN map /\ clients'[x] = map[x]
    BY <1>7
  <2> QED
    BY <2>1, <1>7, <1>8
<1>12. NoOrphanWorker'
  <2> SUFFICES ASSUME NEW c \in running', ~IsCurrent(c)'
               PROVE  c \in stopping' \/ c \in exited'
    BY DEF NoOrphanWorker
  <2>1. PICK x \in Sessions, g \in Generations : c = <<x, g>>
    BY <1>9 DEF TypeOK, Clients
  <2>2. ~(x \in DOMAIN clients' /\ map[x].generation = g)
    BY <2>1, <1>7 DEF IsCurrent, Registered
  <2>3. CASE x \in DOMAIN map /\ map[x].generation = g
    BY <2>1, <2>2, <2>3, <1>7
  <2>4. CASE ~(x \in DOMAIN map /\ map[x].generation = g)
    <3>1. c \in running
      BY <2>1, <2>4, <1>4, <1>6
    <3>2. ~IsCurrent(c)
      BY <2>1, <2>4, <1>4 DEF IsCurrent, Registered
    <3> QED
      BY <3>1, <3>2, <1>6, <1>7 DEF IInv, Safe, NoOrphanWorker
  <2> QED
    BY <2>3, <2>4
<1>13. client \notin barrier
  BY <1>1 DEF IInv, Safe, Issued
<1>14. StopAllIsBarrier' /\ Draining'
  BY <1>6, <1>7, <1>13 DEF IInv, Safe, StopAllIsBarrier, Draining, barriers
<1>15. Issued'
  <2> SUFFICES ASSUME NEW c \in running' \union stopping' \union barrier'
               PROVE  c[2] <= generation'[c[1]]
    BY DEF Issued
  <2>1. CASE c \in running \union stopping \union barrier
    <3>1. c \in Clients
      BY <2>1, <1>1 DEF TypeOK
    <3>2. c[1] \in Sessions /\ c[2] \in Nat /\ c[2] <= generation[c[1]]
      BY <2>1, <3>1 DEF IInv, Safe, Issued, Clients, Generations
    <3> QED
      BY <3>2, <1>10, <1>9, BoundsAssumption DEF TypeOK
  <2>2. CASE c = client
    BY <2>2, <1>1, <1>6 DEF TypeOK
  <2>3. CASE c \in {<<x, map[x].generation>> : x \in DOMAIN map \ DOMAIN clients'}
    <3>1. PICK x \in DOMAIN map : c = <<x, generation'[x]>> /\ x \in Sessions
      BY <2>3, <1>8
    <3>2. generation'[x] \in Int
      BY <3>1, <1>9, BoundsAssumption DEF TypeOK
    <3> QED
      BY <3>1, <3>2
  <2> QED
    BY <2>1, <2>2, <2>3, <1>6, <1>7 DEF barriers
<1>16. ExitQueued'
  <2> SUFFICES ASSUME NEW x \in DOMAIN clients', HasKind(clients'[x].queue, "exit")
               PROVE  <<x, clients'[x].generation>> \in exited'
    BY DEF ExitQueued, Registered, ClientOf
  <2>1. x \in DOMAIN map /\ clients'[x] = map[x]
    BY <1>7
  <2>2. x # s
    BY <2>1, <1>4 DEF HasKind
  <2>3. x \in DOMAIN clients /\ clients'[x] = clients[x]
    BY <2>1, <2>2, <1>4
  <2> QED
    BY <2>3, <1>6 DEF IInv, Safe, ExitQueued, Registered, ClientOf
<1> QED
  BY <1>9, <1>11, <1>12, <1>14, <1>15, <1>16 DEF IInv, Safe

\* An event of a client, current or not, deferred or not, keeps the Map shrinking
\* and drops at most that client, which is then being stopped or has exited.
LEMMA ForwardOrDeferShrinks ==
  ASSUME TypeOK, NEW c \in Clients, NEW event \in Event, ForwardOrDefer(c, event),
         event.kind = "exit" => c \in exited'
  PROVE  /\ Shrinks
         /\ heard' \in [Sessions -> Seq(Event)]
         /\ stopping \subseteq stopping' /\ stopping' \subseteq stopping \union Dropped
         /\ Dropped \subseteq Clients /\ Dropped \subseteq stopping' \union exited'
<1> DEFINE s == c[1]
<1>1. c = <<c[1], c[2]>>
  BY DEF Clients
<1>2. CASE ~IsCurrent(c)
  <2>1. Shrinks /\ Dropped = {}
    BY <1>2, SameShrinks DEF ForwardOrDefer, registry, TypeOK
  <2> QED
    BY <2>1, <1>2 DEF ForwardOrDefer, TypeOK
<1>3. CASE IsCurrent(c) /\ ~clients[s].deferred
  <2>1. s \in DOMAIN clients /\ c = ClientOf(s) /\ <<event>> \in Seq(Event)
    BY <1>1, <1>3 DEF IsCurrent, Registered, ClientOf
  <2>2. Forward(s, <<event>>) /\ UNCHANGED stopping
    BY <1>3 DEF ForwardOrDefer
  <2>3. /\ Shrinks
        /\ heard' \in [Sessions -> Seq(Event)]
        /\ Dropped \subseteq {c}
        /\ Dropped # {} => HasKind(<<event>>, "exit")
    BY <2>1, <2>2, ForwardShrinks
  <2>4. HasKind(<<event>>, "exit") => c \in exited'
    BY DEF HasKind
  <2> QED
    BY <2>2, <2>3, <2>4
<1>4. CASE IsCurrent(c) /\ clients[s].deferred /\ Overflows(clients[s], event)
  <2>1. s \in DOMAIN clients /\ c = ClientOf(s)
    BY <1>1, <1>4 DEF IsCurrent, Registered, ClientOf
  <2>2. Remove({s}) /\ stopping' = stopping \union {c} /\ UNCHANGED heard
    BY <1>4 DEF ForwardOrDefer
  <2>3. Shrinks /\ Dropped = {ClientOf(x) : x \in DOMAIN clients \intersect {s}}
    BY <2>2, RemoveShrinks
  <2>4. Dropped = {c}
    BY <2>1, <2>3
  <2> QED
    BY <2>2, <2>3, <2>4 DEF TypeOK
<1>5. CASE IsCurrent(c) /\ clients[s].deferred /\ ~Overflows(clients[s], event)
  <2>1. s \in DOMAIN clients /\ c = ClientOf(s)
    BY <1>1, <1>5 DEF IsCurrent, Registered, ClientOf
  <2>2. /\ clients' = [clients EXCEPT ![s].queue = Append(@, event)]
        /\ UNCHANGED <<older, unswept, exempt, stopping, heard>>
    BY <1>5 DEF ForwardOrDefer
  <2> DEFINE managed == [clients[s] EXCEPT !.queue = Append(@, event)]
  <2>3. clients[s] \in Managed
    BY <2>1 DEF TypeOK
  <2>4. /\ managed \in Managed /\ managed.generation = clients[s].generation
        /\ managed.queue = Append(clients[s].queue, event)
    <3>1. clients[s].queue \in Seq(Event)
      BY <2>3 DEF Managed
    <3>2. Append(clients[s].queue, event) \in Seq(Event)
      BY <3>1
    <3> QED
      BY <2>3, <3>2 DEF Managed
  <2>5. clients' = Put(clients, s, managed)
    <3>1. DOMAIN clients \union {s} = DOMAIN clients
      BY <2>1
    <3> QED
      BY <2>1, <2>2, <3>1 DEF Put, TypeOK
  <2>6. HasKind(managed.queue, "exit")
          => HasKind(clients[s].queue, "exit") \/ ClientOf(s) \in exited'
    <3> SUFFICES ASSUME NEW i \in DOMAIN managed.queue, managed.queue[i].kind = "exit"
                 PROVE  HasKind(clients[s].queue, "exit") \/ c \in exited'
      BY <2>1 DEF HasKind
    <3>1. clients[s].queue \in Seq(Event)
      BY <2>3 DEF Managed
    <3>2. \/ i \in DOMAIN clients[s].queue /\ managed.queue[i] = clients[s].queue[i]
          \/ managed.queue[i] = event
      BY <2>4, <3>1
    <3> QED
      BY <3>2 DEF HasKind
  <2> HIDE DEF managed
  <2>7. Shrinks /\ Dropped = {}
    BY <2>1, <2>2, <2>4, <2>5, <2>6, PutShrinks DEF TypeOK
  <2> QED
    BY <2>2, <2>7 DEF TypeOK
<1> QED
  BY <1>2, <1>3, <1>4, <1>5

\* The common part of the two client events.
LEMMA EventKeepsIInv ==
  ASSUME IInv, NEW c \in Clients, NEW event \in Event, ForwardOrDefer(c, event),
         event.kind = "exit" => c \in exited',
         UNCHANGED <<generation, limit, barriers>>, running' \subseteq running,
         exited \subseteq exited', exited' \subseteq Clients, emitted' \in [Clients -> Nat]
  PROVE  IInv'
<1>1. /\ Shrinks
      /\ heard' \in [Sessions -> Seq(Event)]
      /\ stopping \subseteq stopping' /\ stopping' \subseteq stopping \union Dropped
      /\ Dropped \subseteq Clients /\ Dropped \subseteq stopping' \union exited'
  BY ForwardOrDeferShrinks DEF IInv
<1>2. stopping' \subseteq Clients /\ limit' \in Limits
  BY <1>1 DEF IInv, TypeOK
<1>3. TypeOK'
  BY <1>1, <1>2, ShrinkTypeOK DEF IInv
<1>4. Safe'
  BY <1>1, ShrinkSafe DEF IInv
<1> QED
  BY <1>3, <1>4 DEF IInv

LEMMA ClientEmitsStep ==
  ASSUME IInv, NEW c \in Clients, NEW kind \in Kinds, NEW bytes \in PayloadBytes,
         ClientEmits(c, kind, bytes)
  PROVE  IInv'
<1>1. emitted[c] \in Nat /\ c[2] \in Generations
  BY DEF IInv, TypeOK, Clients
<1>2. NextEvent(c, kind, bytes) \in Event /\ NextEvent(c, kind, bytes).kind # "exit"
  BY <1>1, BoundsAssumption DEF NextEvent, Event, ClientEmits
<1>3. emitted' \in [Clients -> Nat]
  BY <1>1 DEF ClientEmits, IInv, TypeOK
<1> QED
  BY <1>2, <1>3, EventKeepsIInv DEF ClientEmits, IInv, TypeOK

LEMMA ClientExitsStep ==
  ASSUME IInv, NEW c \in Clients, NEW ended \in BOOLEAN, ClientExits(c, ended)
  PROVE  IInv'
<1>1. emitted[c] \in Nat /\ c[2] \in Generations
  BY DEF IInv, TypeOK, Clients
<1>2. NextEvent(c, "exit", 0) \in Event
  BY <1>1 DEF NextEvent, Event, Kinds
<1>3. emitted' \in [Clients -> Nat]
  BY <1>1 DEF ClientExits, IInv, TypeOK
<1> QED
  BY <1>2, <1>3, EventKeepsIInv DEF ClientExits, IInv, TypeOK

LEMMA WorkerEndsStep ==
  ASSUME IInv, NEW c \in Clients, WorkerEnds(c)
  PROVE  IInv'
<1>1. Shrinks /\ Dropped = {}
  BY SameShrinks DEF WorkerEnds, registry, IInv, TypeOK
<1>2. TypeOK'
  BY <1>1, ShrinkTypeOK DEF WorkerEnds, IInv, TypeOK
<1>3. Safe'
  BY <1>1, ShrinkSafe DEF WorkerEnds, IInv
<1> QED
  BY <1>2, <1>3 DEF IInv

LEMMA ActivateDeferredStep ==
  ASSUME IInv, NEW s \in Sessions, ActivateDeferred(s)
  PROVE  IInv'
<1>1. s \in DOMAIN clients /\ clients[s] \in Managed /\ TypeOK
  BY DEF ActivateDeferred, Registered, IInv, TypeOK
<1>2. clients[s].queue \in Seq(Event)
  BY <1>1 DEF Managed
<1>3. Played(clients[s].queue) \in Seq(Event)
  BY <1>2, PlayedType
<1>4. /\ Shrinks
      /\ heard' \in [Sessions -> Seq(Event)]
      /\ Dropped \subseteq {ClientOf(s)}
      /\ Dropped # {} => HasKind(Played(clients[s].queue), "exit")
  BY <1>1, <1>3, ForwardShrinks DEF ActivateDeferred
<1>5. HasKind(Played(clients[s].queue), "exit") => HasKind(clients[s].queue, "exit")
  BY <1>2, PlayedKinds
<1>6. Dropped \subseteq exited
  BY <1>1, <1>4, <1>5 DEF IInv, Safe, ExitQueued, Registered
<1>7. TypeOK'
  BY <1>4, ShrinkTypeOK DEF ActivateDeferred, processes, IInv, TypeOK
<1>8. Safe'
  BY <1>4, <1>6, ShrinkSafe DEF ActivateDeferred, processes, IInv
<1> QED
  BY <1>7, <1>8 DEF IInv

\* A settled stop takes the worker with it, so it leaves neither an orphan nor
\* a worker behind a returning stopAll.
LEMMA StopSettlesStep ==
  ASSUME IInv, NEW c \in Clients, StopSettles(c)
  PROVE  IInv'
<1> USE DEF StopSettles, registry, barriers
<1>1. TypeOK'
  BY DEF IInv, TypeOK
<1>2. RegisteredIsNewest' /\ ExitQueued'
  BY DEF IInv, Safe, RegisteredIsNewest, ExitQueued, Registered, ClientOf
<1>3. NoOrphanWorker'
  BY DEF IInv, Safe, NoOrphanWorker, IsCurrent, Registered
<1>4. StopAllIsBarrier' /\ Draining' /\ Issued'
  BY DEF IInv, Safe, StopAllIsBarrier, Draining, Issued
<1> QED
  BY <1>1, <1>2, <1>3, <1>4 DEF IInv, Safe

\* When stopAll is called every worker that has not exited is registered or
\* being stopped, so afterwards every one of them is being stopped.
LEMMA StopAllStep ==
  ASSUME IInv, StopAll
  PROVE  IInv'
<1>1. TypeOK /\ Remove(Registered)
  BY DEF IInv, StopAll
<1>2. Shrinks /\ Dropped = {ClientOf(s) : s \in DOMAIN clients \intersect Registered}
  BY <1>1, RemoveShrinks
<1>3. DOMAIN clients' = {} /\ Dropped = {ClientOf(s) : s \in Registered}
  BY <1>1, <1>2, RemoveEffect DEF Registered
<1>4. stopping' = stopping \union Dropped /\ Dropped \subseteq Clients
  BY <1>1, <1>3, DroppedType DEF StopAll
<1>5. TypeOK'
  BY <1>1, <1>2, <1>4 DEF TypeOK, StopAll, Shrinks
<1>6. \A c \in running \ exited : c \in stopping'
  <2> SUFFICES ASSUME NEW c \in running \ exited, c \notin stopping
               PROVE  c \in Dropped
    BY <1>4
  <2>1. IsCurrent(c) /\ c = <<c[1], c[2]>>
    BY <1>1 DEF IInv, Safe, NoOrphanWorker, TypeOK, Clients
  <2>2. c[1] \in Registered /\ c = ClientOf(c[1])
    BY <2>1 DEF IsCurrent, ClientOf
  <2> QED
    BY <1>3, <2>2
<1>7. RegisteredIsNewest' /\ ExitQueued'
  BY <1>3 DEF RegisteredIsNewest, ExitQueued, Registered
<1>8. NoOrphanWorker'
  BY <1>6 DEF StopAll, NoOrphanWorker
<1>9. StopAllIsBarrier' /\ Draining'
  BY <1>6 DEF StopAll, StopAllIsBarrier, Draining
<1>10. Issued'
  <2>1. \A c \in Dropped : c[2] <= generation[c[1]]
    <3> SUFFICES ASSUME NEW s \in Registered
                 PROVE  clients[s].generation <= generation[s]
      BY <1>3 DEF ClientOf
    <3>1. clients[s].generation = generation[s]
      BY DEF IInv, Safe, RegisteredIsNewest
    <3>2. s \in Sessions /\ generation \in [Sessions -> 0..MaxGeneration]
      BY <1>1 DEF TypeOK, Registered
    <3>3. generation[s] \in Int
      BY <3>2, BoundsAssumption
    <3> QED
      BY <3>1, <3>3
  <2> QED
    BY <1>4, <2>1 DEF StopAll, IInv, Safe, Issued
<1> QED
  BY <1>5, <1>7, <1>8, <1>9, <1>10 DEF IInv, Safe

LEMMA StopAllReturnsStep ==
  ASSUME IInv, StopAllReturns
  PROVE  IInv'
<1> USE DEF StopAllReturns, registry, processes
<1>1. TypeOK'
  BY DEF IInv, TypeOK
<1>2. RegisteredIsNewest' /\ ExitQueued'
  BY DEF IInv, Safe, RegisteredIsNewest, ExitQueued, Registered, ClientOf
<1>3. NoOrphanWorker'
  BY DEF IInv, Safe, NoOrphanWorker, IsCurrent, Registered
<1>4. StopAllIsBarrier' /\ Draining' /\ Issued'
  BY DEF IInv, Safe, StopAllIsBarrier, Draining, Issued
<1> QED
  BY <1>1, <1>2, <1>3, <1>4 DEF IInv, Safe

-----------------------------------------------------------------------------
\* The invariant is inductive.
THEOREM Inductive == IInv /\ [Next]_vars => IInv'
<1> SUFFICES ASSUME IInv, [Next]_vars PROVE IInv'
  OBVIOUS
<1>1. CASE UNCHANGED vars
  <2>1. TypeOK'
    BY <1>1 DEF vars, IInv, TypeOK
  <2>2. Safe'
    BY <1>1 DEF vars, IInv, Safe, RegisteredIsNewest, NoOrphanWorker, StopAllIsBarrier,
                Issued, ExitQueued, Draining, Registered, ClientOf, IsCurrent
  <2> QED
    BY <2>1, <2>2 DEF IInv
<1>2. CASE Call
  BY <1>2, SetLimitStep, GetStep, CreateStep, EnforceLimitStep, SetProtectionStep,
     ActivateDeferredStep, StopStep, StopAllStep DEF Call
<1>3. CASE ClientEvent
  BY <1>3, ClientEmitsStep, ClientExitsStep, WorkerEndsStep DEF ClientEvent
<1>4. CASE \E c \in Clients : StopSettles(c)
  BY <1>4, StopSettlesStep
<1>5. CASE StopAllReturns
  BY <1>5, StopAllReturnsStep
<1> QED
  BY <1>1, <1>2, <1>3, <1>4, <1>5 DEF Next

\* Every reachable state of the registry satisfies the inductive invariant.
THEOREM Invariance == Spec => []IInv
<1>1. Init => IInv
  BY InitIInv
<1>2. IInv /\ [Next]_vars => IInv'
  BY Inductive
<1> QED
  BY <1>1, <1>2, PTL DEF Spec

\* Type correctness of the registry (SessionManager.ts, the Map and its records).
THEOREM TypeCorrect == Spec => []TypeOK
<1>1. IInv => TypeOK
  BY DEF IInv
<1> QED
  BY <1>1, Invariance, PTL

\* A registered client is the newest of its session and not on its way out,
\* whatever order creations, stops, evictions and exits come in.
THEOREM NewestRegistered == Spec => []RegisteredIsNewest
<1>1. IInv => RegisteredIsNewest
  BY DEF IInv, Safe
<1> QED
  BY <1>1, Invariance, PTL

\* No path out of the Map leaks a running worker.
THEOREM NoOrphans == Spec => []NoOrphanWorker
<1>1. IInv => NoOrphanWorker
  BY DEF IInv, Safe
<1> QED
  BY <1>1, Invariance, PTL

\* A returned stopAll leaves none of the workers it found.
THEOREM StopAllBarrier == Spec => []StopAllIsBarrier
<1>1. IInv => StopAllIsBarrier
  BY DEF IInv, Safe
<1> QED
  BY <1>1, Invariance, PTL

-----------------------------------------------------------------------------
(***************************************************************************)
(* What is heard of a session.  Of a registered client the last n events   *)
(* heard are its own, numbered from 1 (Ends), and the queue holds the      *)
(* events after them (Continues); everything heard before is of earlier    *)
(* generations.  HeardInOrder alone is not inductive: it does not say      *)
(* which number a client's next event has.                                 *)
(***************************************************************************)
InOrder(events) ==
  \A i \in DOMAIN events :
    LET event == events[i] IN
    IF i = 1 \/ events[i - 1].generation # event.generation
    THEN /\ event.number = 1
         /\ i # 1 => events[i - 1].generation < event.generation
    ELSE event.number = events[i - 1].number + 1

\* The last n events are those of generation g, numbered from 1.
Ends(events, g, n) ==
  /\ n \in 0..Len(events)
  /\ \A i \in 1..Len(events) :
       IF i > Len(events) - n
       THEN events[i].generation = g /\ events[i].number = i - (Len(events) - n)
       ELSE events[i].generation < g

\* The events are of generation g and come after its first n.
Continues(events, g, n) ==
  \A i \in 1..Len(events) : events[i].generation = g /\ events[i].number = n + i

\* How many events of the registered client of s have been heard.
Told(s) == emitted[ClientOf(s)] - Len(clients[s].queue)

Follows(s) ==
  /\ Ends(heard[s], clients[s].generation, Told(s))
  /\ Continues(clients[s].queue, clients[s].generation, Told(s))
  /\ ~clients[s].deferred => clients[s].queue = <<>>

Past == \A s \in Sessions : \A i \in DOMAIN heard[s] : heard[s][i].generation <= generation[s]

Fresh == \A c \in Clients : c[2] > generation[c[1]] => emitted[c] = 0

History == /\ HeardInOrder /\ Past /\ Fresh
           /\ \A s \in Registered : Follows(s)

LEMMA HeardDef == HeardInOrder <=> \A s \in Sessions : InOrder(heard[s])
BY DEF HeardInOrder, InOrder

\* Events that continue what was heard keep it in order.
LEMMA InOrderAppend ==
  ASSUME NEW h \in Seq(Event), NEW more \in Seq(Event), NEW g \in Nat, NEW n \in Nat,
         InOrder(h), Ends(h, g, n), Continues(more, g, n)
  PROVE  InOrder(h \o more) /\ Ends(h \o more, g, n + Len(more))
<1> DEFINE L == Len(h)
           M == Len(more)
           all == h \o more
<1>1. /\ L \in Nat /\ M \in Nat /\ DOMAIN h = 1..L /\ DOMAIN more = 1..M
      /\ all \in Seq(Event) /\ Len(all) = L + M /\ DOMAIN all = 1..(L + M)
      /\ \A i \in 1..(L + M) : all[i] = IF i <= L THEN h[i] ELSE more[i - L]
  BY ConcatProperties, LenProperties
<1>2. \A i \in 1..L : h[i].generation \in Nat /\ h[i].number \in Nat
  <2>1. \A i \in 1..L : h[i] \in Event
    BY ElementOfSeq
  <2> QED
    BY <2>1, BoundsAssumption DEF Event, Generations
<1>3. n \in 0..L
  BY DEF Ends
<1>4. \A i \in 1..L : IF i > L - n THEN h[i].generation = g /\ h[i].number = i - (L - n)
                      ELSE h[i].generation < g
  BY DEF Ends
<1>5. \A i \in 1..M : more[i].generation = g /\ more[i].number = n + i
  BY DEF Continues
<1> HIDE DEF L, M, all
<1>6. Ends(all, g, n + M)
  <2>1. n + M \in 0..(L + M)
    BY <1>1, <1>3
  <2>2. ASSUME NEW i \in 1..(L + M)
        PROVE  IF i > (L + M) - (n + M)
               THEN all[i].generation = g /\ all[i].number = i - ((L + M) - (n + M))
               ELSE all[i].generation < g
    <3>1. CASE i <= L
      <4>1. all[i] = h[i] /\ i \in 1..L
        BY <1>1, <3>1
      <4>2. (L + M) - (n + M) = L - n
        BY <1>1
      <4> QED
        BY <4>1, <4>2, <1>4
    <3>2. CASE i > L
      <4>1. all[i] = more[i - L] /\ i - L \in 1..M
        BY <1>1, <3>2
      <4>2. all[i].generation = g /\ all[i].number = n + (i - L)
        BY <4>1, <1>5
      <4> QED
        BY <4>2, <1>1, <1>3, <3>2
    <3> QED
      BY <3>1, <3>2, <1>1
  <2> QED
    BY <2>1, <2>2, <1>1 DEF Ends
<1>7. InOrder(all)
  <2> SUFFICES ASSUME NEW i \in 1..(L + M)
               PROVE  IF i = 1 \/ all[i - 1].generation # all[i].generation
                      THEN /\ all[i].number = 1
                           /\ i # 1 => all[i - 1].generation < all[i].generation
                      ELSE all[i].number = all[i - 1].number + 1
    BY <1>1 DEF InOrder
  <2>1. CASE i <= L
    <3>1. all[i] = h[i] /\ (i # 1 => all[i - 1] = h[i - 1]) /\ i \in DOMAIN h
      BY <1>1, <2>1
    <3> QED
      BY <3>1 DEF InOrder
  <2>2. CASE i = L + 1
    <3>1. 1 \in 1..M /\ all[i] = more[1] /\ (i # 1 => L \in 1..L /\ all[i - 1] = h[L])
      BY <1>1, <2>2
    <3>2. all[i].generation = g /\ all[i].number = n + 1
      BY <3>1, <1>5
    <3>3. i # 1 => IF n > 0 THEN h[L].generation = g /\ h[L].number = n ELSE h[L].generation < g
      BY <1>1, <1>3, <1>4, <3>1
    <3>4. i = 1 => n = 0
      BY <1>1, <1>3, <2>2
    <3>5. CASE i = 1
      BY <3>2, <3>4, <3>5
    <3>6. CASE i # 1 /\ n > 0
      BY <3>1, <3>2, <3>3, <3>6
    <3>7. CASE i # 1 /\ n = 0
      <4>1. all[i - 1].generation < g /\ all[i - 1].generation \in Nat
        BY <3>1, <3>3, <3>7, <1>2
      <4> QED
        BY <4>1, <3>2, <3>7
    <3> QED
      BY <3>5, <3>6, <3>7
  <2>3. CASE i > L + 1
    <3>1. i - L \in 1..M /\ (i - 1) - L \in 1..M /\ i - 1 \in 1..(L + M)
      BY <1>1, <2>3
    <3>2. all[i] = more[i - L] /\ all[i - 1] = more[(i - 1) - L]
      BY <1>1, <2>3, <3>1
    <3>3. all[i].generation = g /\ all[i - 1].generation = g
          /\ all[i].number = n + (i - L) /\ all[i - 1].number = n + ((i - 1) - L)
      BY <3>1, <3>2, <1>5
    <3> QED
      BY <3>3, <1>1, <2>3
  <2> QED
    BY <2>1, <2>2, <2>3, <1>1
<1> QED
  BY <1>6, <1>7 DEF all, M

\* What was heard of a session stays of earlier generations or the present one.
LEMMA PastAppend ==
  ASSUME NEW h \in Seq(Event), NEW more \in Seq(Event), NEW g \in Nat, NEW n \in Nat,
         Ends(h, g, n), Continues(more, g, n)
  PROVE  \A i \in DOMAIN (h \o more) : (h \o more)[i].generation <= g
<1>1. /\ DOMAIN h = 1..Len(h) /\ Len(h) \in Nat /\ Len(more) \in Nat
      /\ DOMAIN (h \o more) = 1..(Len(h) + Len(more))
      /\ \A i \in 1..(Len(h) + Len(more)) :
           (h \o more)[i] = IF i <= Len(h) THEN h[i] ELSE more[i - Len(h)]
  BY ConcatProperties, LenProperties
<1>2. \A i \in 1..Len(h) : h[i].generation <= g
  <2>1. \A i \in 1..Len(h) : h[i] \in Event
    BY ElementOfSeq
  <2>2. \A i \in 1..Len(h) : h[i].generation \in Nat
    BY <2>1, BoundsAssumption DEF Event, Generations
  <2> QED
    BY <2>2 DEF Ends
<1>3. \A i \in 1..Len(more) : more[i].generation <= g
  BY DEF Continues
<1> QED
  BY <1>1, <1>2, <1>3

\* A registered session keeps its generation, queue and deferral.
Steady ==
  /\ DOMAIN clients' \subseteq DOMAIN clients
  /\ \A s \in DOMAIN clients' :
       /\ clients'[s].generation = clients[s].generation
       /\ clients'[s].queue = clients[s].queue
       /\ clients'[s].deferred = clients[s].deferred

LEMMA ManagedFacts ==
  ASSUME TypeOK, NEW s \in Registered
  PROVE  /\ s \in Sessions /\ clients[s] \in Managed
         /\ clients[s].generation \in Nat /\ clients[s].queue \in Seq(Event)
         /\ heard[s] \in Seq(Event) /\ emitted[ClientOf(s)] \in Nat
<1>1. s \in Sessions /\ clients[s] \in Managed /\ heard[s] \in Seq(Event)
  BY DEF TypeOK, Registered
<1>2. clients[s].generation \in Nat /\ clients[s].queue \in Seq(Event)
  BY <1>1, BoundsAssumption DEF Managed, Generations
<1>3. emitted[ClientOf(s)] \in Nat
  BY ClientOfType DEF TypeOK
<1> QED
  BY <1>1, <1>2, <1>3

\* A step in which nothing is heard, and no client that stays registered emits.
LEMMA SilentStep ==
  ASSUME TypeOK, History, Steady, UNCHANGED <<heard, generation>>,
         \A c \in Clients : emitted'[c] # emitted[c] => c[2] <= generation[c[1]],
         \A s \in DOMAIN clients' : emitted'[ClientOf(s)] = emitted[ClientOf(s)]
  PROVE  History'
<1>1. HeardInOrder' /\ Past'
  BY DEF History, HeardInOrder, Past
<1>2. Fresh'
  <2> SUFFICES ASSUME NEW c \in Clients, c[2] > generation[c[1]]
               PROVE  emitted'[c] = 0
    BY DEF Fresh
  <2>1. emitted[c] = 0
    BY DEF History, Fresh
  <2>2. c[1] \in Sessions /\ c[2] \in Nat
    BY BoundsAssumption DEF Clients, Generations
  <2>3. generation[c[1]] \in Nat
    BY <2>2, BoundsAssumption DEF TypeOK
  <2>4. ~(c[2] <= generation[c[1]])
    BY <2>2, <2>3
  <2> QED
    BY <2>1, <2>4
<1>3. ASSUME NEW s \in DOMAIN clients'
      PROVE  Follows(s)'
  <2>1. s \in Registered /\ ClientOf(s)' = ClientOf(s)
    BY <1>3 DEF Steady, Registered, ClientOf
  <2>2. Told(s)' = Told(s)
    BY <2>1, <1>3 DEF Steady, Told
  <2>3. Follows(s)
    BY <2>1 DEF History
  <2> QED
    BY <2>1, <2>2, <2>3, <1>3 DEF Steady, Follows
<1> QED
  BY <1>1, <1>2, <1>3 DEF History, Registered

\* What keeps the history of the sessions other than s: they keep what was
\* heard, and none of their clients emits.
LEMMA OthersFollow ==
  ASSUME TypeOK, History, NEW s \in Sessions,
         DOMAIN clients' \subseteq DOMAIN clients \union {s},
         \A t \in DOMAIN clients' \ {s} :
           /\ clients'[t].generation = clients[t].generation
           /\ clients'[t].queue = clients[t].queue
           /\ clients'[t].deferred = clients[t].deferred,
         \A t \in Sessions \ {s} : heard'[t] = heard[t],
         \A c \in Clients : c[1] # s => emitted'[c] = emitted[c]
  PROVE  \A t \in DOMAIN clients' \ {s} : Follows(t)'
<1> SUFFICES ASSUME NEW t \in DOMAIN clients' \ {s}
             PROVE  Follows(t)'
  OBVIOUS
<1>1. t \in Registered /\ ClientOf(t)' = ClientOf(t) /\ t \in Sessions
  BY DEF Registered, ClientOf, TypeOK
<1>2. ClientOf(t) \in Clients /\ ClientOf(t)[1] = t
  BY <1>1, ClientOfType DEF ClientOf
<1>3. Told(t)' = Told(t)
  BY <1>1, <1>2 DEF Told
<1>4. Follows(t)
  BY <1>1 DEF History
<1> QED
  BY <1>1, <1>3, <1>4 DEF Follows

\* Forwarding what continues the history of a registered client: every event
\* it has emitted has then been heard, or the client is out of the Map.
LEMMA ForwardHistory ==
  ASSUME TypeOK, RegisteredIsNewest, History, NEW s \in Registered,
         NEW events \in Seq(Event), Forward(s, events),
         Continues(events, clients[s].generation, Told(s)),
         UNCHANGED generation,
         \A c \in Clients : c # ClientOf(s) => emitted'[c] = emitted[c],
         HasKind(events, "exit") \/ emitted'[ClientOf(s)] = Told(s) + Len(events)
  PROVE  History'
<1> DEFINE g == clients[s].generation
           n == Told(s)
<1>1. /\ s \in Sessions /\ clients[s] \in Managed /\ g \in Nat
      /\ heard[s] \in Seq(Event) /\ ClientOf(s) \in Clients
  BY ManagedFacts, ClientOfType
<1>2. Ends(heard[s], g, n)
  BY DEF History, Follows
<1>3. n \in Nat
  <2>1. Len(heard[s]) \in Nat
    BY <1>1
  <2> QED
    BY <1>2, <2>1 DEF Ends
<1>4. InOrder(heard[s])
  BY <1>1, HeardDef DEF History
<1>5. /\ InOrder(heard[s] \o events) /\ Ends(heard[s] \o events, g, n + Len(events))
      /\ \A i \in DOMAIN (heard[s] \o events) : (heard[s] \o events)[i].generation <= g
  <2> HIDE DEF g, n
  <2> QED
    BY <1>1, <1>2, <1>3, <1>4, InOrderAppend, PastAppend DEF g, n
<1>6. /\ heard'[s] = heard[s] \o events
      /\ \A t \in Sessions \ {s} : heard'[t] = heard[t]
      /\ heard' \in [Sessions -> Seq(Event)]
  <2>1. heard[s] \o events \in Seq(Event)
    BY <1>1
  <2> QED
    BY <1>1, <2>1 DEF Forward, TypeOK
<1>7. g = generation[s]
  BY DEF RegisteredIsNewest
<1>8. HeardInOrder'
  <2>1. \A t \in Sessions : InOrder(heard'[t])
    BY <1>4, <1>5, <1>6, HeardDef DEF History
  <2> QED
    BY <2>1 DEF HeardInOrder, InOrder
<1>9. Past'
  BY <1>5, <1>6, <1>7 DEF History, Past
<1>10. Fresh'
  <2>1. ~(ClientOf(s)[2] > generation[ClientOf(s)[1]])
    BY <1>1, <1>7 DEF ClientOf
  <2> QED
    BY <2>1 DEF History, Fresh
<1>11. \A c \in Clients : c[1] # s => emitted'[c] = emitted[c]
  BY DEF ClientOf
<1>12. CASE HasKind(events, "exit")
  <2>1. /\ DOMAIN clients' = DOMAIN clients \ {s}
        /\ \A t \in DOMAIN clients' : clients'[t] = clients[t]
    BY <1>12, RemoveEffect DEF Forward
  <2>2. \A t \in DOMAIN clients' \ {s} : Follows(t)'
    BY <1>1, <1>6, <1>11, <2>1, OthersFollow
  <2> QED
    BY <1>8, <1>9, <1>10, <2>1, <2>2 DEF History, Registered
<1>13. CASE ~HasKind(events, "exit")
  <2>1. PICK managed : /\ managed.generation = g /\ managed.queue = <<>>
                       /\ managed.deferred = FALSE
                       /\ clients' = Put(clients, s, managed)
    <3> DEFINE open == [clients[s] EXCEPT !.deferred = FALSE, !.queue = <<>>]
    <3>1. open.generation = g /\ open.queue = <<>> /\ open.deferred = FALSE
      BY <1>1 DEF Managed
    <3>2. /\ Protect(open, "input", TRUE).generation = g
          /\ Protect(open, "input", TRUE).queue = <<>>
          /\ Protect(open, "input", TRUE).deferred = FALSE
      BY <1>1 DEF Protect, Managed
    <3>3. \/ clients' = Put(clients, s, open)
          \/ clients' = Put(clients, s, Protect(open, "input", TRUE))
      BY <1>13 DEF Forward
    <3> HIDE DEF open
    <3> QED
      BY <3>1, <3>2, <3>3
  <2>2. /\ DOMAIN clients' = DOMAIN clients
        /\ clients'[s] = managed
        /\ \A t \in DOMAIN clients' \ {s} : clients'[t] = clients[t]
    BY <2>1 DEF Put, Registered
  <2>3. \A t \in DOMAIN clients' \ {s} : Follows(t)'
    BY <1>1, <1>6, <1>11, <2>2, OthersFollow
  <2>4. Follows(s)'
    <3>1. ClientOf(s)' = ClientOf(s)
      BY <2>1, <2>2 DEF ClientOf
    <3>2. Told(s)' = n + Len(events)
      <4>1. n + Len(events) \in Nat
        BY <1>3
      <4>2. emitted'[ClientOf(s)] = n + Len(events)
        BY <1>13
      <4> HIDE DEF n
      <4> QED
        BY <2>1, <2>2, <3>1, <4>1, <4>2 DEF Told
    <3>3. Continues(<<>>, g, n + Len(events))
      BY DEF Continues
    <3> QED
      BY <1>5, <1>6, <2>1, <2>2, <3>2, <3>3 DEF Follows
  <2> QED
    BY <1>8, <1>9, <1>10, <2>2, <2>3, <2>4 DEF History, Registered
<1> QED
  BY <1>12, <1>13

\* An event that is deferred waits behind the others of its client.
LEMMA DeferHistory ==
  ASSUME TypeOK, History, NEW s \in Registered, NEW event \in Event,
         clients[s].deferred,
         clients' = [clients EXCEPT ![s].queue = Append(@, event)],
         UNCHANGED <<heard, generation>>,
         event.generation = clients[s].generation,
         event.number = emitted[ClientOf(s)] + 1,
         clients[s].generation = generation[s],
         \A c \in Clients : c # ClientOf(s) => emitted'[c] = emitted[c],
         emitted'[ClientOf(s)] = emitted[ClientOf(s)] + 1
  PROVE  History'
<1> DEFINE g == clients[s].generation
           q == clients[s].queue
           n == Told(s)
           e == emitted[ClientOf(s)]
<1>1. /\ s \in Sessions /\ clients[s] \in Managed /\ g \in Nat /\ q \in Seq(Event)
      /\ heard[s] \in Seq(Event) /\ ClientOf(s) \in Clients /\ e \in Nat
  BY ManagedFacts, ClientOfType
<1>2. Ends(heard[s], g, n) /\ Continues(q, g, n)
  BY DEF History, Follows
<1>3. n = e - Len(q) /\ Len(q) \in Nat
  BY <1>1 DEF Told
<1>4. /\ DOMAIN clients' = DOMAIN clients
      /\ clients'[s].generation = g /\ clients'[s].deferred
      /\ clients'[s].queue = Append(q, event)
      /\ \A t \in DOMAIN clients' \ {s} : clients'[t] = clients[t]
  <2>1. clients \in [DOMAIN clients -> Managed] /\ s \in DOMAIN clients
    BY DEF TypeOK, Registered
  <2> QED
    BY <2>1, <1>1 DEF Managed
<1>5. ClientOf(s)' = ClientOf(s)
  BY <1>4 DEF ClientOf
<1>6. Told(s)' = n
  <2>1. Len(Append(q, event)) = Len(q) + 1
    BY <1>1
  <2>2. Told(s)' = (e + 1) - Len(Append(q, event))
    BY <1>4, <1>5 DEF Told
  <2> HIDE DEF e, q, n
  <2> QED
    BY <2>1, <2>2, <1>1, <1>3
<1>7. Continues(Append(q, event), g, n)
  <2>1. /\ Len(Append(q, event)) = Len(q) + 1
        /\ \A i \in 1..Len(q) : Append(q, event)[i] = q[i]
        /\ Append(q, event)[Len(q) + 1] = event
    BY <1>1, AppendProperties
  <2>2. event.generation = g /\ event.number = n + (Len(q) + 1)
    BY <1>1, <1>3
  <2>3. \A i \in 1..Len(q) : q[i].generation = g /\ q[i].number = n + i
    BY <1>2 DEF Continues
  <2> HIDE DEF q, n, g
  <2> QED
    BY <2>1, <2>2, <2>3, <1>3 DEF Continues
<1>8. Follows(s)'
  BY <1>2, <1>4, <1>6, <1>7 DEF Follows
<1>9. \A c \in Clients : c[1] # s => emitted'[c] = emitted[c]
  BY DEF ClientOf
<1>10. \A t \in DOMAIN clients' \ {s} : Follows(t)'
  BY <1>1, <1>4, <1>9, OthersFollow
<1>11. Fresh'
  <2>1. ~(ClientOf(s)[2] > generation[ClientOf(s)[1]])
    BY <1>1 DEF ClientOf
  <2> QED
    BY <2>1 DEF History, Fresh
<1>12. HeardInOrder' /\ Past'
  BY DEF History, HeardInOrder, Past
<1> QED
  BY <1>4, <1>8, <1>10, <1>11, <1>12 DEF History, Registered

\* The event of a client, current or not, keeps the history of all sessions.
LEMMA EventHistory ==
  ASSUME IInv, History, NEW c \in running, NEW kind \in Kinds, NEW bytes \in Nat,
         ForwardOrDefer(c, NextEvent(c, kind, bytes)),
         emitted' = [emitted EXCEPT ![c] = @ + 1], UNCHANGED generation
  PROVE  History'
<1> DEFINE s == c[1]
           event == NextEvent(c, kind, bytes)
<1>1. /\ TypeOK /\ RegisteredIsNewest /\ c \in Clients /\ c = <<c[1], c[2]>>
      /\ s \in Sessions /\ c[2] \in Generations /\ emitted[c] \in Nat
      /\ c[2] <= generation[s]
  BY DEF IInv, Safe, Issued, TypeOK, Clients
<1>2. event \in Event /\ event.generation = c[2] /\ event.number = emitted[c] + 1
  BY <1>1 DEF NextEvent, Event
<1>3. /\ emitted'[c] = emitted[c] + 1
      /\ \A d \in Clients : d # c => emitted'[d] = emitted[d]
  BY <1>1 DEF TypeOK
<1>4. \A d \in Clients : emitted'[d] # emitted[d] => d[2] <= generation[d[1]]
  BY <1>1, <1>3
<1>5. \A t \in Registered : ClientOf(t) \in Clients
  BY <1>1, ClientOfType
<1> HIDE DEF event
<1>6. CASE ~IsCurrent(c)
  <2>1. UNCHANGED <<registry, stopping, heard>>
    BY <1>6 DEF ForwardOrDefer, event
  <2>2. Steady
    BY <2>1 DEF Steady, registry
  <2>3. \A t \in DOMAIN clients' : ClientOf(t) # c
    BY <2>1, <1>1, <1>6 DEF IsCurrent, Registered, ClientOf, registry
  <2>4. \A t \in DOMAIN clients' : emitted'[ClientOf(t)] = emitted[ClientOf(t)]
    BY <2>1, <2>3, <1>3, <1>5 DEF registry, Registered
  <2> QED
    BY <2>1, <2>2, <2>4, <1>1, <1>4, SilentStep
<1>7. CASE IsCurrent(c) /\ ~clients[s].deferred
  <2>1. s \in Registered /\ c = ClientOf(s) /\ <<event>> \in Seq(Event)
    BY <1>1, <1>2, <1>7 DEF IsCurrent, ClientOf
  <2>2. Forward(s, <<event>>)
    BY <1>7 DEF ForwardOrDefer, event
  <2>3. Told(s) = emitted[c] /\ c[2] = clients[s].generation
    <3>1. clients[s].queue = <<>>
      BY <2>1, <1>7 DEF History, Follows
    <3> QED
      BY <3>1, <2>1, <1>1, <1>7 DEF Told, IsCurrent
  <2>4. Len(<<event>>) = 1 /\ <<event>>[1] = event
    OBVIOUS
  <2>5. Continues(<<event>>, clients[s].generation, Told(s))
    BY <2>3, <2>4, <1>2 DEF Continues
  <2>6. emitted'[ClientOf(s)] = Told(s) + Len(<<event>>)
    BY <2>1, <2>3, <2>4, <1>3
  <2> QED
    BY <2>1, <2>2, <2>5, <2>6, <1>1, <1>3, ForwardHistory
<1>8. CASE IsCurrent(c) /\ clients[s].deferred /\ Overflows(clients[s], event)
  <2>1. Remove({s}) /\ UNCHANGED heard
    BY <1>8 DEF ForwardOrDefer, event
  <2>2. /\ DOMAIN clients' = DOMAIN clients \ {s}
        /\ \A t \in DOMAIN clients' : clients'[t] = clients[t]
    BY <2>1, <1>1, RemoveEffect
  <2>3. Steady
    BY <2>2 DEF Steady
  <2>4. \A t \in DOMAIN clients' : emitted'[ClientOf(t)] = emitted[ClientOf(t)]
    BY <2>2, <1>1, <1>3, <1>5 DEF ClientOf, Registered
  <2> QED
    BY <2>1, <2>3, <2>4, <1>1, <1>4, SilentStep
<1>9. CASE IsCurrent(c) /\ clients[s].deferred /\ ~Overflows(clients[s], event)
  <2>1. s \in Registered /\ c = ClientOf(s) /\ c[2] = clients[s].generation
    BY <1>1, <1>9 DEF IsCurrent, ClientOf
  <2>2. clients' = [clients EXCEPT ![s].queue = Append(@, event)] /\ UNCHANGED heard
    BY <1>9 DEF ForwardOrDefer, event
  <2>3. clients[s].generation = generation[s]
    BY <2>1, <1>1 DEF RegisteredIsNewest
  <2> QED
    BY <2>1, <2>2, <2>3, <1>1, <1>2, <1>3, <1>9, DeferHistory
<1> QED
  BY <1>6, <1>7, <1>8, <1>9

\* A replay up to an exit ends with it; without an exit it is the whole queue.
LEMMA PlayedPrefix ==
  ASSUME NEW queue \in Seq(Event)
  PROVE  /\ Len(Played(queue)) \in 0..Len(queue)
         /\ \A i \in 1..Len(Played(queue)) : Played(queue)[i] = queue[i]
         /\ HasKind(Played(queue), "exit") \/ Played(queue) = queue
<1> DEFINE exits == {i \in DOMAIN queue : queue[i].kind = "exit"}
           last == IF exits = {} THEN Len(queue)
                   ELSE CHOOSE i \in exits : \A j \in exits : i <= j
<1>1. DOMAIN queue = 1..Len(queue) /\ Len(queue) \in Nat /\ exits \subseteq Nat
  BY LenProperties
<1>2. CASE exits = {}
  <2>1. Played(queue) = queue
    BY <1>2, SubSeqFull DEF Played
  <2> QED
    BY <2>1, <1>1
<1>3. CASE exits # {}
  <2>1. \E i \in exits : \A j \in exits : i <= j
    BY <1>1, <1>3, LeastNumber
  <2>2. last \in exits
    BY <1>3, <2>1
  <2>3. Played(queue) = SubSeq(queue, 1, last)
    BY DEF Played
  <2>4. last \in 1..Len(queue) /\ queue[last].kind = "exit"
    BY <1>1, <2>2
  <2> HIDE DEF last
  <2>5. \A i \in 1..last : queue[i] \in Event
    BY <2>4, <1>1, ElementOfSeq
  <2>6. /\ Len(SubSeq(queue, 1, last)) = last
        /\ \A i \in 1..last : SubSeq(queue, 1, last)[i] = queue[i]
        /\ SubSeq(queue, 1, last) \in Seq(Event)
    <3>1. /\ SubSeq(queue, 1, last) \in Seq(Event)
          /\ Len(SubSeq(queue, 1, last)) = IF 1 <= last THEN last - 1 + 1 ELSE 0
          /\ \A i \in 1..(last - 1 + 1) : SubSeq(queue, 1, last)[i] = queue[1 + i - 1]
      BY <2>4, <2>5, <1>1, SubSeqProperties
    <3> QED
      BY <3>1, <2>4, <1>1
  <2>7. HasKind(SubSeq(queue, 1, last), "exit")
    <3>1. last \in DOMAIN SubSeq(queue, 1, last)
      <4>1. DOMAIN SubSeq(queue, 1, last) = 1..last
        BY <2>6, LenProperties
      <4> QED
        BY <4>1, <2>4, <1>1
    <3>2. SubSeq(queue, 1, last)[last].kind = "exit"
      <4>1. last \in 1..last
        BY <2>4, <1>1
      <4> QED
        BY <4>1, <2>4, <2>6
    <3> QED
      BY <3>1, <3>2, Zenon DEF HasKind
  <2>8. last \in 0..Len(queue)
    BY <2>4, <1>1
  <2> DEFINE prefix == SubSeq(queue, 1, last)
  <2>9. /\ Len(prefix) \in 0..Len(queue)
        /\ \A i \in 1..Len(prefix) : prefix[i] = queue[i]
        /\ HasKind(prefix, "exit")
    BY <2>6, <2>7, <2>8
  <2> HIDE DEF prefix
  <2> QED
    BY <2>3, <2>9, Zenon DEF prefix
<1> QED
  BY <1>2, <1>3

LEMMA ActivateHistory ==
  ASSUME IInv, History, NEW s \in Sessions, ActivateDeferred(s)
  PROVE  History'
<1> DEFINE q == clients[s].queue
           g == clients[s].generation
<1>1. /\ s \in Registered /\ TypeOK /\ RegisteredIsNewest /\ q \in Seq(Event)
      /\ emitted[ClientOf(s)] \in Nat
  <2>1. s \in Registered /\ TypeOK /\ RegisteredIsNewest
    BY DEF ActivateDeferred, IInv, Safe
  <2> QED
    BY <2>1, ManagedFacts
<1>2. Continues(q, g, Told(s))
  BY <1>1 DEF History, Follows
<1>3. Forward(s, Played(q)) /\ UNCHANGED <<generation, emitted>>
  BY DEF ActivateDeferred, processes
<1>4. /\ Len(Played(q)) \in 0..Len(q)
      /\ \A i \in 1..Len(Played(q)) : Played(q)[i] = q[i]
      /\ HasKind(Played(q), "exit") \/ Played(q) = q
      /\ Played(q) \in Seq(Event)
  BY <1>1, PlayedPrefix, PlayedType
<1>5. Continues(Played(q), g, Told(s))
  <2>1. Len(q) \in Nat
    BY <1>1
  <2> HIDE DEF q
  <2> QED
    BY <2>1, <1>2, <1>4 DEF Continues
<1>6. HasKind(Played(q), "exit") \/ emitted'[ClientOf(s)] = Told(s) + Len(Played(q))
  <2>1. Told(s) + Len(q) = emitted[ClientOf(s)]
    <3>1. Len(q) \in Nat
      BY <1>1
    <3> QED
      BY <3>1, <1>1 DEF Told
  <2> QED
    BY <2>1, <1>3, <1>4
<1> HIDE DEF q, g
<1> QED
  BY <1>1, <1>3, <1>4, <1>5, <1>6, ForwardHistory DEF q, g

\* A registry that shrinks without touching its clients is steady.
LEMMA EvictSteady ==
  ASSUME TypeOK, NEW map, map \in [DOMAIN clients -> Managed],
         NEW order \in SUBSET (Sessions \X Sessions), NEW max,
         NEW spared \in SUBSET Sessions,
         \A s \in DOMAIN clients : /\ map[s].generation = clients[s].generation
                                   /\ map[s].queue = clients[s].queue
                                   /\ map[s].deferred = clients[s].deferred,
         EvictIfNeeded(map, order, max, spared)
  PROVE  Steady
<1>1. DOMAIN map = DOMAIN clients /\ DOMAIN clients \subseteq Sessions
  BY DEF TypeOK
<1>2. /\ DOMAIN clients' \subseteq DOMAIN map
      /\ \A s \in DOMAIN clients' : clients'[s] = map[s]
  BY <1>1, EvictEffect
<1> QED
  BY <1>1, <1>2 DEF Steady

\* A call that creates nothing keeps the history.
LEMMA CallHistory ==
  ASSUME TypeOK, History, Steady, UNCHANGED <<heard, generation, emitted>>
  PROVE  History'
BY SilentStep

LEMMA CreateHistory ==
  ASSUME IInv, History, NEW s \in Sessions, NEW deferred \in BOOLEAN, CreateManaged(s, deferred)
  PROVE  History'
<1> DEFINE new == [generation |-> generation[s] + 1, protection |-> {},
                   deferred |-> deferred, queue |-> <<>>]
           map == Put(clients, s, new)
           order == Touch(older, s, Registered)
<1>1. /\ TypeOK /\ s \notin DOMAIN clients /\ generation[s] < MaxGeneration
      /\ generation[s] \in Nat /\ heard[s] \in Seq(Event)
  BY BoundsAssumption DEF CreateManaged, Registered, IInv, TypeOK
<1>2. generation[s] + 1 \in Generations /\ new \in Managed
  <2>1. generation[s] + 1 \in Generations
    BY <1>1, BoundsAssumption DEF Generations
  <2>2. <<>> \in Seq(Event)
    OBVIOUS
  <2> QED
    BY <2>1, <2>2 DEF Managed
<1>3. /\ map \in [DOMAIN map -> Managed]
      /\ DOMAIN map = DOMAIN clients \union {s}
      /\ map[s] = new
      /\ \A x \in DOMAIN clients : map[x] = clients[x]
  <2> HIDE DEF new
  <2>1. clients \in [DOMAIN clients -> Managed]
    BY <1>1 DEF TypeOK
  <2> QED
    BY <2>1, <1>1, <1>2 DEF Put
<1>4. order \in SUBSET (Sessions \X Sessions)
  BY <1>1, TouchType DEF TypeOK, Registered
<1>5. /\ generation' = [generation EXCEPT ![s] = @ + 1]
      /\ UNCHANGED <<emitted, heard>>
  BY DEF CreateManaged
<1>6. /\ DOMAIN clients' \subseteq DOMAIN map
      /\ \A x \in DOMAIN clients' : clients'[x] = map[x]
  <2>1. CASE deferred
    BY <2>1, <1>3 DEF CreateManaged, NewClient
  <2>2. CASE ~deferred
    <3>1. EvictIfNeeded(map, order, limit, {s})
      BY <2>2 DEF CreateManaged, NewClient
    <3>2. DOMAIN map \subseteq Sessions /\ {s} \in SUBSET Sessions
      BY <1>1, <1>3 DEF TypeOK
    <3> HIDE DEF map, order
    <3> QED
      BY <3>1, <3>2, <1>3, <1>4, EvictEffect
  <2> QED
    BY <2>1, <2>2
<1>7. HeardInOrder'
  BY <1>5 DEF History, HeardInOrder
<1>8. \A t \in Sessions : generation[t] \in Nat /\ generation[t] <= generation'[t]
  BY <1>1, <1>5, BoundsAssumption DEF TypeOK
<1>9. \A t \in Sessions : \A i \in DOMAIN heard[t] : heard[t][i].generation \in Nat
  <2> SUFFICES ASSUME NEW t \in Sessions, NEW i \in DOMAIN heard[t]
               PROVE  heard[t][i].generation \in Nat
    OBVIOUS
  <2>1. heard[t] \in Seq(Event)
    BY <1>1 DEF TypeOK
  <2>2. heard[t][i] \in Event
    BY <2>1
  <2> QED
    BY <2>2, BoundsAssumption DEF Event, Generations
<1>10. Past'
  <2> SUFFICES ASSUME NEW t \in Sessions, NEW i \in DOMAIN heard[t]
               PROVE  heard[t][i].generation <= generation'[t]
    BY <1>5 DEF Past
  <2>1. generation'[t] \in Nat
    BY <1>1, <1>5 DEF TypeOK
  <2>2. heard[t][i].generation <= generation[t]
    BY DEF History, Past
  <2> QED
    BY <2>1, <2>2, <1>8, <1>9
<1>11. Fresh'
  <2> SUFFICES ASSUME NEW c \in Clients, c[2] > generation'[c[1]]
               PROVE  emitted[c] = 0
    BY <1>5 DEF Fresh
  <2>1. c[1] \in Sessions /\ c[2] \in Nat
    BY BoundsAssumption DEF Clients, Generations
  <2>2. generation'[c[1]] \in Nat
    BY <2>1, <1>1, <1>5 DEF TypeOK
  <2>3. c[2] > generation[c[1]]
    BY <2>1, <2>2, <1>8
  <2> QED
    BY <2>3 DEF History, Fresh
<1>12. \A t \in DOMAIN clients' \ {s} : Follows(t)'
  BY <1>1, <1>3, <1>5, <1>6, OthersFollow
<1>13. s \in DOMAIN clients' => Follows(s)'
  <2> SUFFICES ASSUME s \in DOMAIN clients'
               PROVE  Follows(s)'
    OBVIOUS
  <2> DEFINE g == generation[s] + 1
  <2>1. clients'[s].generation = g /\ clients'[s].queue = <<>> /\ g \in Nat
    <3>1. clients'[s] = new
      <4> HIDE DEF map, new
      <4> QED
        BY <1>3, <1>6
    <3>2. g \in Nat
      BY <1>1
    <3> QED
      BY <3>1, <3>2
  <2>2. ClientOf(s)' = <<s, g>>
    BY <2>1 DEF ClientOf
  <2>3. emitted[<<s, g>>] = 0
    <3>1. <<s, g>> \in Clients /\ <<s, g>>[1] = s /\ <<s, g>>[2] = g
      BY <1>2 DEF Clients
    <3>2. g > generation[s]
      BY <1>1
    <3> HIDE DEF g
    <3> QED
      BY <3>1, <3>2 DEF History, Fresh
  <2> HIDE DEF g
  <2>4. Told(s)' = 0
    BY <2>1, <2>2, <2>3, <1>5 DEF Told
  <2>5. Ends(heard[s], g, 0)
    <3>1. Len(heard[s]) \in Nat /\ DOMAIN heard[s] = 1..Len(heard[s])
      BY <1>1, LenProperties
    <3>2. \A i \in 1..Len(heard[s]) : heard[s][i].generation < g
      <4> SUFFICES ASSUME NEW i \in 1..Len(heard[s])
                   PROVE  heard[s][i].generation < g
        OBVIOUS
      <4>1. heard[s][i].generation \in Nat /\ heard[s][i].generation <= generation[s]
        BY <3>1, <1>9 DEF History, Past
      <4> QED
        BY <4>1, <1>1 DEF g
    <3> QED
      BY <3>1, <3>2 DEF Ends
  <2>6. Continues(<<>>, g, 0)
    BY DEF Continues
  <2> QED
    BY <2>1, <2>4, <2>5, <2>6, <1>5 DEF Follows
<1> QED
  BY <1>7, <1>10, <1>11, <1>12, <1>13 DEF History, Registered

LEMMA SetProtectionHistory ==
  ASSUME IInv, History, NEW s \in Sessions, NEW reason \in Reasons, NEW enabled \in BOOLEAN,
         SetProtection(s, reason, enabled)
  PROVE  History'
<1> DEFINE managed == Protect(clients[s], reason, enabled)
           map == Put(clients, s, managed)
           order == Touch(older, s, Registered)
<1>1. s \in DOMAIN clients /\ clients[s] \in Managed /\ TypeOK
  BY DEF SetProtection, Registered, IInv, TypeOK
<1>2. /\ managed \in Managed /\ managed.generation = clients[s].generation
      /\ managed.queue = clients[s].queue /\ managed.deferred = clients[s].deferred
  BY <1>1 DEF Protect, Managed
<1>3. order \in SUBSET (Sessions \X Sessions) /\ {} \in SUBSET Sessions
  BY <1>1, TouchType DEF TypeOK, Registered
<1> HIDE DEF managed
<1>4. /\ map \in [DOMAIN clients -> Managed]
      /\ \A x \in DOMAIN clients : /\ map[x].generation = clients[x].generation
                                   /\ map[x].queue = clients[x].queue
                                   /\ map[x].deferred = clients[x].deferred
  <2>1. clients \in [DOMAIN clients -> Managed] /\ DOMAIN clients \union {s} = DOMAIN clients
    BY <1>1 DEF TypeOK
  <2> QED
    BY <2>1, <1>2 DEF Put
<1>5. CASE enabled
  <2>1. clients' = map
    BY <1>5 DEF SetProtection, managed
  <2>2. DOMAIN map = DOMAIN clients
    BY <1>1 DEF Put
  <2> HIDE DEF map
  <2>3. Steady
    BY <2>1, <2>2, <1>4 DEF Steady
  <2> QED
    BY <2>3, <1>1, CallHistory DEF SetProtection
<1>6. CASE ~enabled
  <2>1. EvictIfNeeded(map, order, limit, {})
    BY <1>6 DEF SetProtection, managed
  <2> HIDE DEF map, order
  <2>2. Steady
    BY <2>1, <1>1, <1>3, <1>4, EvictSteady
  <2> QED
    BY <2>2, <1>1, CallHistory DEF SetProtection
<1> QED
  BY <1>5, <1>6

LEMMA RemovalSteady ==
  ASSUME TypeOK, NEW gone, Remove(gone)
  PROVE  Steady
BY RemoveEffect DEF Steady

LEMMA SweepSteady ==
  ASSUME TypeOK, NEW max, NEW spared \in SUBSET Sessions,
         EvictIfNeeded(clients, older, max, spared)
  PROVE  Steady
<1>1. clients \in [DOMAIN clients -> Managed] /\ older \in SUBSET (Sessions \X Sessions)
  BY DEF TypeOK
<1> QED
  BY <1>1, EvictSteady

\* The history of every session is kept by every step of the registry.
LEMMA HistoryInductive == IInv /\ History /\ [Next]_vars => History'
<1> SUFFICES ASSUME IInv, History, [Next]_vars PROVE History'
  OBVIOUS
<1>1. TypeOK
  BY DEF IInv
<1>2. ASSUME UNCHANGED <<clients, heard, generation, emitted>>
      PROVE  History'
  <2>1. Steady
    BY <1>2 DEF Steady
  <2> QED
    BY <2>1, <1>1, <1>2, CallHistory
<1>3. CASE UNCHANGED vars
  BY <1>2, <1>3 DEF vars
<1>4. ASSUME NEW max \in Limits, SetLimit(max)
      PROVE  History'
  <2>1. Steady
    BY <1>1, <1>4, SweepSteady DEF SetLimit
  <2> QED
    BY <2>1, <1>1, <1>4, CallHistory DEF SetLimit
<1>5. ASSUME NEW spared \in SUBSET Sessions, EnforceLimit(spared)
      PROVE  History'
  <2>1. Steady
    BY <1>1, <1>5, SweepSteady DEF EnforceLimit
  <2> QED
    BY <2>1, <1>1, <1>5, CallHistory DEF EnforceLimit
<1>6. ASSUME NEW s \in Sessions, Get(s)
      PROVE  History'
  BY <1>2, <1>6 DEF Get, processes
<1>7. ASSUME NEW s \in Sessions, Stop(s)
      PROVE  History'
  <2>1. Steady
    BY <1>1, <1>7, RemovalSteady DEF Stop
  <2> QED
    BY <2>1, <1>1, <1>7, CallHistory DEF Stop
<1>8. CASE StopAll
  <2>1. Steady
    BY <1>1, <1>8, RemovalSteady DEF StopAll
  <2> QED
    BY <2>1, <1>1, <1>8, CallHistory DEF StopAll
<1>9. CASE Call
  BY <1>4, <1>5, <1>6, <1>7, <1>8, <1>9, CreateHistory, SetProtectionHistory, ActivateHistory
     DEF Call
<1>10. ASSUME NEW c \in Clients, NEW kind \in Kinds, NEW bytes \in PayloadBytes,
              ClientEmits(c, kind, bytes)
       PROVE  History'
  <2>1. bytes \in Nat
    BY BoundsAssumption
  <2> QED
    BY <2>1, <1>10, EventHistory DEF ClientEmits
<1>11. ASSUME NEW c \in Clients, NEW ended \in BOOLEAN, ClientExits(c, ended)
       PROVE  History'
  <2>1. "exit" \in Kinds
    BY DEF Kinds
  <2> QED
    BY <2>1, <1>11, EventHistory DEF ClientExits
<1>12. ASSUME NEW c \in Clients, WorkerEnds(c) \/ StopSettles(c)
       PROVE  History'
  BY <1>2, <1>12 DEF WorkerEnds, StopSettles, registry
<1>13. CASE StopAllReturns
  BY <1>2, <1>13 DEF StopAllReturns, registry, processes
<1> QED
  BY <1>3, <1>9, <1>10, <1>11, <1>12, <1>13 DEF Next, ClientEvent

LEMMA InitHistory == Init => History
<1> SUFFICES ASSUME Init PROVE History
  OBVIOUS
<1>1. Registered = {} /\ \A s \in Sessions : DOMAIN heard[s] = {}
  BY DEF Init, Registered
<1> QED
  BY <1>1 DEF Init, History, HeardInOrder, Past, Fresh

\* What is heard of each session follows what its clients emit in every reachable state.
THEOREM HistoryInvariance == Spec => []History
<1>1. IInv /\ History /\ [Next]_vars => History'
  BY HistoryInductive
<1> QED
  BY <1>1, InitHistory, Invariance, PTL DEF Spec

\* What is heard of a session is in order, whatever generations, deferrals,
\* replays and overflows there were (forwardOrDefer, activateDeferred).
THEOREM HeardInOrderAlways == Spec => []HeardInOrder
<1>1. History => HeardInOrder
  BY DEF History
<1> QED
  BY <1>1, HistoryInvariance, PTL

\* Every event of a registered client was heard or waits in its queue.
THEOREM NothingLostAlways == Spec => []NothingLost
<1>1. IInv /\ History => NothingLost
  <2> SUFFICES ASSUME IInv, History, NEW s \in Registered
               PROVE  emitted[ClientOf(s)]
                        = Cardinality({i \in DOMAIN heard[s] :
                                         heard[s][i].generation = clients[s].generation})
                            + Len(clients[s].queue)
    BY DEF NothingLost
  <2> DEFINE g == clients[s].generation
             n == Told(s)
             L == Len(heard[s])
             own == {i \in DOMAIN heard[s] : heard[s][i].generation = g}
  <2>1. /\ heard[s] \in Seq(Event) /\ emitted[ClientOf(s)] \in Nat
        /\ clients[s].queue \in Seq(Event) /\ g \in Nat
    BY ManagedFacts DEF IInv
  <2>2. /\ L \in Nat /\ DOMAIN heard[s] = 1..L
        /\ \A i \in 1..L : heard[s][i] \in Event
    BY <2>1, LenProperties, ElementOfSeq
  <2>3. n \in 0..L /\ \A i \in 1..L : IF i > L - n THEN heard[s][i].generation = g
                                      ELSE heard[s][i].generation < g
    BY DEF History, Follows, Ends
  <2>4. own = (L - n + 1)..L
    <3> HIDE DEF g, n, L
    <3>1. \A i \in 1..L : i > L - n <=> heard[s][i].generation = g
      <4>1. \A i \in 1..L : heard[s][i].generation \in Nat
        BY <2>2, BoundsAssumption DEF Event, Generations
      <4> QED
        BY <4>1, <2>1, <2>2, <2>3
    <3>2. own = {i \in 1..L : i > L - n}
      BY <3>1, <2>2
    <3> HIDE DEF own
    <3> QED
      BY <3>2, <2>2, <2>3
  <2>5. Cardinality(own) = n
    <3> HIDE DEF own, n, L
    <3>1. L - n + 1 \in Int /\ L \in Int
      BY <2>2, <2>3
    <3>2. Cardinality((L - n + 1)..L) = IF L - n + 1 > L THEN 0 ELSE L - (L - n + 1) + 1
      BY <3>1, FS_Interval
    <3> QED
      BY <3>2, <2>2, <2>3, <2>4
  <2>6. Len(clients[s].queue) \in Nat
    BY <2>1
  <2> HIDE DEF own
  <2> QED
    BY <2>1, <2>5, <2>6 DEF Told, own
<1> QED
  BY <1>1, HistoryInvariance, Invariance, PTL

(***************************************************************************)
(* The soft limit.                                                         *)
(***************************************************************************)
\* A step that sweeps nothing, unprotects nothing and adds no swept session.
LEMMA LimitKept ==
  ASSUME TypeOK, LimitHeld, UNCHANGED <<limit, exempt>>,
         DOMAIN clients' \ unswept' \subseteq DOMAIN clients \ unswept,
         \A s \in DOMAIN clients' \ unswept' : clients[s].protection \subseteq clients'[s].protection
  PROVE  LimitHeld'
<1> DEFINE swept == DOMAIN clients \ unswept
           left == DOMAIN clients' \ unswept'
<1>1. IsFiniteSet(swept) /\ limit \in Nat
  BY SessionsAssumption, LimitsAssumption, FS_Subset DEF TypeOK
<1>2. Cardinality(left) <= Cardinality(swept) /\ Cardinality(left) \in Nat /\ Cardinality(swept) \in Nat
  BY <1>1, FS_Subset, FS_CardinalityType
<1> HIDE DEF swept, left
<1>3. CASE Cardinality(swept) <= limit
  <2>1. Cardinality(left) <= limit
    BY <1>1, <1>2, <1>3
  <2> QED
    BY <2>1 DEF LimitHeld, Registered, left
<1>4. CASE \A s \in swept \ exempt : clients[s].protection # {}
  <2>1. \A s \in left \ exempt : clients'[s].protection # {}
    BY <1>4 DEF left, swept
  <2> QED
    BY <2>1 DEF LimitHeld, Registered, left
<1> QED
  BY <1>3, <1>4 DEF LimitHeld, Registered, swept

\* After evictIfNeeded the limit holds, or whatever is left is protected.
LEMMA EvictLimit ==
  ASSUME NEW map, map \in [DOMAIN map -> Managed], NEW order, NEW spared,
         limit' \in Nat, EvictIfNeeded(map, order, limit', spared)
  PROVE  LimitHeld'
<1>1. PICK victims \in SUBSET Candidates(map, spared) :
         /\ IsEvicted(victims, map, order, limit', spared)
         /\ clients' = Without(map, victims)
         /\ unswept' = {} /\ exempt' = spared
  BY DEF EvictIfNeeded
<1>2. /\ DOMAIN clients' = DOMAIN map \ victims
      /\ \A s \in DOMAIN map \ victims : clients'[s] = map[s]
  BY <1>1, WithoutType
<1>3. DOMAIN clients' \ unswept' = DOMAIN map \ victims
  BY <1>1, <1>2
<1>4. CASE Cardinality(DOMAIN map) <= limit' /\ victims = {}
  <2>1. DOMAIN map \ victims = DOMAIN map
    BY <1>4
  <2> QED
    BY <2>1, <1>3, <1>4 DEF LimitHeld, Registered
<1>5. CASE Cardinality(DOMAIN map \ victims) = limit'
  BY <1>3, <1>5 DEF LimitHeld, Registered
<1>6. CASE victims = Candidates(map, spared)
  <2>1. \A s \in (DOMAIN map \ victims) \ spared : map[s].protection # {}
    BY <1>6 DEF Candidates
  <2> QED
    BY <2>1, <1>1, <1>2, <1>3 DEF LimitHeld, Registered
<1> QED
  BY <1>1, <1>4, <1>5, <1>6 DEF IsEvicted

\* A request for input protects, and an exit takes out.
LEMMA ForwardLimit ==
  ASSUME TypeOK, LimitHeld, NEW s \in Registered, NEW events \in Seq(Event),
         Forward(s, events), UNCHANGED limit
  PROVE  LimitHeld'
<1>1. CASE HasKind(events, "exit")
  <2>1. /\ DOMAIN clients' \subseteq DOMAIN clients
        /\ \A t \in DOMAIN clients' : clients'[t] = clients[t]
        /\ UNCHANGED <<unswept, exempt>>
    BY <1>1, RemoveEffect DEF Forward
  <2> QED
    BY <2>1, LimitKept
<1>2. CASE ~HasKind(events, "exit")
  <2> DEFINE open == [clients[s] EXCEPT !.deferred = FALSE, !.queue = <<>>]
  <2>1. clients[s] \in Managed
    BY ManagedFacts
  <2>2. open.protection = clients[s].protection
    BY <2>1 DEF Managed
  <2>3. Protect(open, "input", TRUE).protection = clients[s].protection \union {"input"}
    BY <2>1 DEF Protect, Managed
  <2>4. /\ \/ clients' = Put(clients, s, open)
           \/ clients' = Put(clients, s, Protect(open, "input", TRUE))
        /\ UNCHANGED <<unswept, exempt>>
    BY <1>2 DEF Forward
  <2> HIDE DEF open
  <2>5. /\ DOMAIN clients' = DOMAIN clients
        /\ \A t \in DOMAIN clients' : clients[t].protection \subseteq clients'[t].protection
    BY <2>2, <2>3, <2>4 DEF Put, Registered
  <2> QED
    BY <2>4, <2>5, LimitKept
<1> QED
  BY <1>1, <1>2

LEMMA ForwardOrDeferLimit ==
  ASSUME TypeOK, LimitHeld, NEW c \in Clients, NEW event \in Event,
         ForwardOrDefer(c, event), UNCHANGED limit
  PROVE  LimitHeld'
<1> DEFINE s == c[1]
<1>1. CASE ~IsCurrent(c)
  BY <1>1, LimitKept DEF ForwardOrDefer, registry
<1>2. CASE IsCurrent(c) /\ ~clients[s].deferred
  <2>1. Forward(s, <<event>>) /\ s \in Registered /\ <<event>> \in Seq(Event)
    BY <1>2 DEF ForwardOrDefer, IsCurrent
  <2> QED
    BY <2>1, ForwardLimit
<1>3. CASE IsCurrent(c) /\ clients[s].deferred /\ Overflows(clients[s], event)
  <2>1. Remove({s})
    BY <1>3 DEF ForwardOrDefer
  <2>2. /\ DOMAIN clients' \subseteq DOMAIN clients
        /\ \A t \in DOMAIN clients' : clients'[t] = clients[t]
        /\ UNCHANGED <<unswept, exempt>>
    BY <2>1, RemoveEffect
  <2> QED
    BY <2>2, LimitKept
<1>4. CASE IsCurrent(c) /\ clients[s].deferred /\ ~Overflows(clients[s], event)
  <2>1. /\ clients' = [clients EXCEPT ![s].queue = Append(@, event)]
        /\ UNCHANGED <<unswept, exempt>> /\ s \in DOMAIN clients
    BY <1>4 DEF ForwardOrDefer, IsCurrent, Registered
  <2>2. clients \in [DOMAIN clients -> Managed]
    BY DEF TypeOK
  <2>3. /\ DOMAIN clients' = DOMAIN clients
        /\ \A t \in DOMAIN clients' : clients'[t].protection = clients[t].protection
    BY <2>1, <2>2 DEF Managed
  <2> QED
    BY <2>1, <2>3, LimitKept
<1> QED
  BY <1>1, <1>2, <1>3, <1>4

LEMMA LimitInductive == IInv /\ LimitHeld /\ [Next]_vars => LimitHeld'
<1> SUFFICES ASSUME IInv, LimitHeld, [Next]_vars PROVE LimitHeld'
  OBVIOUS
<1>1. TypeOK /\ clients \in [DOMAIN clients -> Managed] /\ limit \in Nat /\ Limits \subseteq Nat
  BY LimitsAssumption DEF IInv, TypeOK
<1>2. ASSUME UNCHANGED <<clients, limit, unswept, exempt>>
      PROVE  LimitHeld'
  BY <1>2 DEF LimitHeld, Registered
<1>3. CASE UNCHANGED vars
  BY <1>2, <1>3 DEF vars
<1>4. ASSUME NEW max \in Limits, SetLimit(max)
      PROVE  LimitHeld'
  BY <1>1, <1>4, EvictLimit DEF SetLimit
<1>5. ASSUME NEW spared \in SUBSET Sessions, EnforceLimit(spared)
      PROVE  LimitHeld'
  BY <1>1, <1>5, EvictLimit DEF EnforceLimit
<1>6. ASSUME NEW s \in Sessions, Get(s)
      PROVE  LimitHeld'
  BY <1>2, <1>6 DEF Get
<1>7. ASSUME NEW gone, Remove(gone), UNCHANGED limit
      PROVE  LimitHeld'
  <2>1. /\ DOMAIN clients' \subseteq DOMAIN clients
        /\ \A t \in DOMAIN clients' : clients'[t] = clients[t]
        /\ UNCHANGED <<unswept, exempt>>
    BY <1>1, <1>7, RemoveEffect
  <2> QED
    BY <2>1, <1>1, <1>7, LimitKept
<1>8. ASSUME NEW s \in Sessions, NEW deferred \in BOOLEAN, CreateManaged(s, deferred)
      PROVE  LimitHeld'
  <2> DEFINE new == [generation |-> generation[s] + 1, protection |-> {},
                     deferred |-> deferred, queue |-> <<>>]
             map == Put(clients, s, new)
  <2>1. s \notin DOMAIN clients /\ UNCHANGED limit
    BY <1>8 DEF CreateManaged, Registered
  <2>2. new \in Managed
    <3>1. generation[s] + 1 \in Generations
      BY <1>1, <1>8, BoundsAssumption DEF CreateManaged, TypeOK, Generations
    <3>2. <<>> \in Seq(Event)
      OBVIOUS
    <3> QED
      BY <3>1, <3>2 DEF Managed
  <2> HIDE DEF new
  <2>3. /\ map \in [DOMAIN map -> Managed] /\ DOMAIN map = DOMAIN clients \union {s}
        /\ \A x \in DOMAIN clients : map[x] = clients[x]
    BY <1>1, <2>1, <2>2 DEF Put
  <2>4. CASE deferred
    <3>1. clients' = map /\ unswept' = unswept \union {s} /\ UNCHANGED exempt
      BY <1>8, <2>4 DEF CreateManaged, NewClient, new
    <3> HIDE DEF map
    <3>2. DOMAIN clients' \ unswept' \subseteq DOMAIN clients \ unswept
      BY <2>3, <3>1
    <3>3. \A x \in DOMAIN clients' \ unswept' : clients'[x] = clients[x]
      BY <2>3, <3>1
    <3> QED
      BY <1>1, <2>1, <3>1, <3>2, <3>3, LimitKept
  <2>5. CASE ~deferred
    <3>1. EvictIfNeeded(map, Touch(older, s, Registered), limit, {s})
      BY <1>8, <2>5 DEF CreateManaged, NewClient, new
    <3> HIDE DEF map
    <3> QED
      BY <1>1, <2>1, <2>3, <3>1, EvictLimit
  <2> QED
    BY <2>4, <2>5
<1>9. ASSUME NEW s \in Sessions, NEW reason \in Reasons, NEW enabled \in BOOLEAN,
             SetProtection(s, reason, enabled)
      PROVE  LimitHeld'
  <2> DEFINE managed == Protect(clients[s], reason, enabled)
             map == Put(clients, s, managed)
  <2>1. s \in DOMAIN clients /\ clients[s] \in Managed /\ UNCHANGED limit
    BY <1>1, <1>9 DEF SetProtection, Registered
  <2>2. /\ managed \in Managed
        /\ enabled => managed.protection = clients[s].protection \union {reason}
    BY <2>1 DEF Protect, Managed
  <2> HIDE DEF managed
  <2>3. /\ map \in [DOMAIN map -> Managed] /\ DOMAIN map = DOMAIN clients /\ map[s] = managed
        /\ \A x \in DOMAIN clients \ {s} : map[x] = clients[x]
    BY <1>1, <2>1, <2>2 DEF Put
  <2>4. CASE enabled
    <3>1. clients' = map /\ UNCHANGED <<unswept, exempt>>
      BY <1>9, <2>4 DEF SetProtection, managed
    <3> HIDE DEF map
    <3>2. \A x \in DOMAIN clients' : clients[x].protection \subseteq clients'[x].protection
      BY <2>2, <2>3, <2>4, <3>1
    <3> QED
      BY <1>1, <2>1, <2>3, <3>1, <3>2, LimitKept
  <2>5. CASE ~enabled
    <3>1. EvictIfNeeded(map, Touch(older, s, Registered), limit, {})
      BY <1>9, <2>5 DEF SetProtection, managed
    <3> HIDE DEF map
    <3> QED
      BY <1>1, <2>1, <2>3, <3>1, EvictLimit
  <2> QED
    BY <2>4, <2>5
<1>10. ASSUME NEW s \in Sessions, ActivateDeferred(s)
       PROVE  LimitHeld'
  <2>1. s \in Registered /\ clients[s].queue \in Seq(Event)
    BY <1>1, <1>10, ManagedFacts DEF ActivateDeferred
  <2> QED
    BY <1>1, <1>10, <2>1, PlayedType, ForwardLimit DEF ActivateDeferred
<1>11. ASSUME NEW c \in Clients, NEW kind \in Kinds, NEW bytes \in Nat,
              ForwardOrDefer(c, NextEvent(c, kind, bytes)), UNCHANGED limit
       PROVE  LimitHeld'
  <2>1. NextEvent(c, kind, bytes) \in Event
    <3>1. emitted[c] \in Nat /\ c[2] \in Generations
      BY <1>1 DEF TypeOK, Clients
    <3> QED
      BY <3>1 DEF NextEvent, Event
  <2> QED
    BY <1>1, <1>11, <2>1, ForwardOrDeferLimit
<1>12. CASE Call
  BY <1>4, <1>5, <1>6, <1>7, <1>8, <1>9, <1>10, <1>12 DEF Call, Stop, StopAll
<1>13. CASE ClientEvent
  <2>1. "exit" \in Kinds /\ PayloadBytes \subseteq Nat
    BY BoundsAssumption DEF Kinds
  <2> QED
    BY <1>2, <1>11, <1>13, <2>1 DEF ClientEvent, ClientEmits, ClientExits, WorkerEnds, registry
<1>14. CASE (\E c \in Clients : StopSettles(c)) \/ StopAllReturns
  BY <1>2, <1>14 DEF StopSettles, StopAllReturns, registry
<1> QED
  BY <1>3, <1>12, <1>13, <1>14 DEF Next

LEMMA InitLimit == Init => LimitHeld
BY FS_EmptySet, LimitsAssumption DEF Init, LimitHeld, Registered

\* The limit holds, or everything swept and not spared is protected, for every limit and number of sessions.
THEOREM LimitHeldAlways == Spec => []LimitHeld
BY InitLimit, LimitInductive, Invariance, PTL DEF Spec

\* An eviction takes what nothing protects, the session touched earliest first.
LEMMA EvictsRightly ==
  ASSUME NEW map, map \in [DOMAIN map -> Managed], NEW order, NEW max, NEW spared,
         EvictIfNeeded(map, order, max, spared)
  PROVE  /\ exempt' = spared
         /\ DOMAIN clients' \subseteq DOMAIN map
         /\ \A s \in DOMAIN clients' : clients'[s] = map[s]
         /\ \A s \in DOMAIN map \ DOMAIN clients' :
              /\ map[s].protection = {} /\ s \notin spared
              /\ \A t \in DOMAIN clients' \ spared :
                   map[t].protection = {} => <<t, s>> \notin order
<1>1. PICK victims \in SUBSET Candidates(map, spared) :
         /\ IsEvicted(victims, map, order, max, spared)
         /\ clients' = Without(map, victims)
         /\ exempt' = spared
  BY DEF EvictIfNeeded
<1>2. /\ DOMAIN clients' = DOMAIN map \ victims
      /\ \A s \in DOMAIN map \ victims : clients'[s] = map[s]
  BY <1>1, WithoutType
<1>3. victims \subseteq Candidates(map, spared)
      /\ \A s \in victims, t \in Candidates(map, spared) : <<t, s>> \in order => t \in victims
  BY <1>1 DEF IsEvicted
<1> QED
  BY <1>1, <1>2, <1>3 DEF Candidates

LEMMA EvictedStep == ASSUME TypeOK PROVE EvictedRightly
<1> DEFINE Right(s) ==
      /\ \/ clients[s].protection = {}
         \/ \E r \in Reasons : Unprotects(s, r) /\ clients[s].protection = {r}
      /\ \A t \in (Registered \intersect DOMAIN clients') \ exempt' :
           clients'[t].protection = {} /\ <<t, s>> \in older
             => \E r \in Reasons : Unprotects(t, r)
<1> SUFFICES ASSUME EvictionStep, NEW s \in Registered \ DOMAIN clients'
             PROVE  Right(s)
  BY DEF EvictedRightly
<1>1. clients \in [DOMAIN clients -> Managed] /\ Registered = DOMAIN clients
  BY DEF TypeOK, Registered
<1>2. ASSUME NEW max, NEW spared, EvictIfNeeded(clients, older, max, spared)
      PROVE  Right(s)
  BY <1>1, <1>2, EvictsRightly
<1>3. ASSUME NEW new \in Sessions, CreateManaged(new, FALSE)
      PROVE  Right(s)
  <2> DEFINE managed == [generation |-> generation[new] + 1, protection |-> {},
                         deferred |-> FALSE, queue |-> <<>>]
             map == Put(clients, new, managed)
             order == Touch(older, new, Registered)
  <2>1. new \notin DOMAIN clients /\ EvictIfNeeded(map, order, limit, {new})
    BY <1>3 DEF CreateManaged, Registered, NewClient
  <2>2. managed \in Managed
    <3>1. generation[new] + 1 \in Generations
      BY <1>3, BoundsAssumption DEF CreateManaged, TypeOK, Generations
    <3>2. <<>> \in Seq(Event)
      OBVIOUS
    <3> QED
      BY <3>1, <3>2 DEF Managed
  <2> HIDE DEF managed
  <2>3. /\ map \in [DOMAIN map -> Managed] /\ DOMAIN map = DOMAIN clients \union {new}
        /\ \A x \in DOMAIN clients : map[x] = clients[x]
    BY <1>1, <2>1, <2>2 DEF Put
  <2>4. \A t \in DOMAIN clients : <<t, s>> \in older => <<t, s>> \in order
    BY <2>1 DEF Touch
  <2> HIDE DEF map, order
  <2> QED
    BY <1>1, <2>1, <2>3, <2>4, EvictsRightly
<1>4. ASSUME NEW u \in Sessions, NEW r \in Reasons, Unprotects(u, r)
      PROVE  Right(s)
  <2> DEFINE managed == Protect(clients[u], r, FALSE)
             map == Put(clients, u, managed)
             order == Touch(older, u, Registered)
  <2>1. /\ u \in DOMAIN clients /\ clients[u] \in Managed
        /\ EvictIfNeeded(map, order, limit, {})
    BY <1>1, <1>4 DEF Unprotects, SetProtection
  <2>2. managed \in Managed /\ managed.protection = clients[u].protection \ {r}
    BY <2>1 DEF Protect, Managed
  <2> HIDE DEF managed
  <2>3. /\ map \in [DOMAIN map -> Managed] /\ DOMAIN map = DOMAIN clients
        /\ map[u] = managed /\ \A x \in DOMAIN clients \ {u} : map[x] = clients[x]
    BY <1>1, <2>1, <2>2 DEF Put
  <2>4. \A t \in DOMAIN clients \ {u} : <<t, s>> \in older => <<t, s>> \in order
    BY DEF Touch
  <2> HIDE DEF map, order
  <2>5. /\ exempt' = {} /\ map[s].protection = {}
        /\ \A t \in DOMAIN clients' : clients'[t] = map[t]
        /\ \A t \in DOMAIN clients' : map[t].protection = {} => <<t, s>> \notin order
    BY <1>1, <2>1, <2>3, EvictsRightly
  <2>6. \/ clients[s].protection = {}
        \/ \E x \in Reasons : Unprotects(s, x) /\ clients[s].protection = {x}
    <3>1. CASE s = u
      <4>1. clients[s].protection \ {r} = {}
        BY <2>2, <2>3, <2>5, <3>1
      <4>2. clients[s].protection = {} \/ clients[s].protection = {r}
        BY <4>1
      <4> QED
        BY <4>2, <1>4, <3>1
    <3>2. CASE s # u
      BY <1>1, <2>3, <2>5, <3>2
    <3> QED
      BY <3>1, <3>2
  <2>7. ASSUME NEW t \in (Registered \intersect DOMAIN clients') \ exempt',
               clients'[t].protection = {}, <<t, s>> \in older
        PROVE  \E x \in Reasons : Unprotects(t, x)
    <3>1. t = u
      BY <1>1, <2>4, <2>5, <2>7
    <3> QED
      BY <3>1, <1>4
  <2> QED
    BY <2>6, <2>7
<1> QED
  BY <1>2, <1>3, <1>4 DEF EvictionStep, SetLimit, EnforceLimit

\* Evictions spare what is protected and what was touched later, in every step of the registry.
THEOREM EvictsRightlyAlways == Spec => EvictsOldestUnprotected
<1>1. TypeOK => EvictedRightly
  BY EvictedStep
<1> QED
  BY <1>1, TypeCorrect, PTL DEF EvictsOldestUnprotected
=============================================================================
