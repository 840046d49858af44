--------------------------- MODULE SessionManager ---------------------------
(***************************************************************************)
(* src/main/acp/SessionManager.ts: the registry of live ACP clients.       *)
(*                                                                         *)
(* A client is a pair <<session, generation>>.  `clients' is the code's    *)
(* Map: its domain are the registered sessions.  A client is taken out of  *)
(* the Map first and its worker is stopped afterwards, so a client can be  *)
(* unregistered while its worker still runs, still emits events, and while *)
(* a successor of a later generation is registered.                        *)
(*                                                                         *)
(* touchedAt is only compared, so the counter is modelled by the order it  *)
(* gives the registered sessions: <<s, t>> \in older iff s was touched     *)
(* before t.  Every public method may be called at any time.               *)
(***************************************************************************)
EXTENDS Integers, Sequences, FiniteSets

CONSTANTS
  Sessions,         \* local session ids
  Reasons,          \* SessionProtectionReason; "input" is one of them
  Limits,           \* the values setLimit is called with
  MaxGeneration,    \* bound: clients created for one session
  MaxEvents,        \* bound: events one client emits before its exit
  MaxDeferredCount, \* MAX_DEFERRED_EVENT_COUNT
  MaxDeferredBytes, \* MAX_DEFERRED_EVENT_BYTES
  PayloadBytes      \* serialized sizes of event payloads

ASSUME ReasonsAssumption == "input" \in Reasons
ASSUME LimitsAssumption == Limits \subseteq Nat /\ Limits # {}
ASSUME BoundsAssumption ==
  /\ MaxGeneration \in Nat /\ MaxEvents \in Nat
  /\ MaxDeferredCount \in Nat /\ MaxDeferredBytes \in Nat
  /\ PayloadBytes \subseteq Nat
ASSUME SessionsAssumption == IsFiniteSet(Sessions)

Generations == 1..MaxGeneration
Clients == Sessions \X Generations
Kinds == {"update", "input", "exit"}

VARIABLES
  clients,     \* the Map: registered session -> ManagedClient
  older,       \* the order of touchedAt among registered sessions
  generation,  \* generations: the last generation given out, 0 if none
  limit,       \* maxLiveSessions
  running,     \* clients whose worker process has not ended
  exited,      \* clients that have emitted their exit event
  stopping,    \* stoppingClients: clients with an unsettled stop operation
  emitted,     \* number of events each client has emitted
  heard,       \* history: the events SessionManager emitted for a session
  stopAll,     \* "idle", "waiting" or "returned": the last stopAll call
  barrier,     \* history: the workers alive when stopAll was called
  unswept,     \* history: sessions created deferred since the last sweep
  exempt       \* history: the session exempt from the last sweep, as a set

vars == <<clients, older, generation, limit, running, exited, stopping,
          emitted, heard, stopAll, barrier, unswept, exempt>>

registry == <<clients, older, unswept, exempt>>
processes == <<running, exited, stopping, emitted>>
barriers == <<stopAll, barrier>>

Event == [generation : Generations, number : Nat, kind : Kinds, bytes : Nat]
Managed == [generation : Generations, protection : SUBSET Reasons,
            deferred : BOOLEAN, queue : Seq(Event)]

TypeOK ==
  /\ DOMAIN clients \subseteq Sessions
  /\ clients \in [DOMAIN clients -> Managed]
  /\ older \in SUBSET (Sessions \X Sessions)
  /\ generation \in [Sessions -> 0..MaxGeneration]
  /\ limit \in Limits
  /\ running \subseteq Clients /\ exited \subseteq Clients /\ stopping \subseteq Clients
  /\ emitted \in [Clients -> Nat]
  /\ heard \in [Sessions -> Seq(Event)]
  /\ stopAll \in {"idle", "waiting", "returned"}
  /\ barrier \subseteq Clients
  /\ unswept \subseteq Sessions /\ exempt \subseteq Sessions

Registered == DOMAIN clients
ClientOf(s) == <<s, clients[s].generation>>
\* Mutant: any client of a registered session counts as current.
IsCurrentOfAnyGeneration(c) == c[1] \in Registered
IsCurrent(c) == c[1] \in Registered /\ clients[c[1]].generation = c[2]

(***************************************************************************)
(* Map and touchedAt.                                                      *)
(***************************************************************************)
Put(map, s, managed) == [x \in DOMAIN map \union {s} |-> IF x = s THEN managed ELSE map[x]]
Without(map, gone) == [x \in DOMAIN map \ gone |-> map[x]]
Touch(order, s, all) == {p \in order : p[1] # s} \union ((all \ {s}) \X {s})
Among(order, left) == {p \in order : p[1] \in left /\ p[2] \in left}
Protect(managed, reason, enabled) ==
  [managed EXCEPT !.protection = IF enabled THEN @ \union {reason} ELSE @ \ {reason}]

(***************************************************************************)
(* evictIfNeeded: the loop removes the least recently touched unprotected  *)
(* session until the limit holds or no candidate is left.                  *)
(***************************************************************************)
\* Mutant: protection is not looked at.
CandidatesUnfiltered(map, spared) == DOMAIN map \ spared
Candidates(map, spared) == {s \in DOMAIN map \ spared : map[s].protection = {}}

\* Mutant: the loop stops one session above the limit.
IsEvictedOffByOne(victims, map, order, max, spared) ==
  /\ victims \subseteq Candidates(map, spared)
  /\ \A s \in victims, t \in Candidates(map, spared) : <<t, s>> \in order => t \in victims
  /\ \/ Cardinality(DOMAIN map) <= max + 1 /\ victims = {}
     \/ Cardinality(DOMAIN map) > max + 1
        /\ \/ Cardinality(DOMAIN map \ victims) = max + 1
           \/ victims = Candidates(map, spared) /\ Cardinality(DOMAIN map \ victims) > max + 1

IsEvicted(victims, map, order, max, spared) ==
  LET candidates == Candidates(map, spared)
  IN  /\ victims \subseteq candidates
      /\ \A s \in victims, t \in candidates : <<t, s>> \in order => t \in victims
      /\ \/ Cardinality(DOMAIN map) <= max /\ victims = {}
         \/ Cardinality(DOMAIN map) > max
            /\ \/ Cardinality(DOMAIN map \ victims) = max
               \/ victims = candidates /\ Cardinality(DOMAIN map \ victims) > max

EvictIfNeeded(map, order, max, spared) ==
  \E victims \in SUBSET Candidates(map, spared) :
    /\ IsEvicted(victims, map, order, max, spared)
    /\ clients' = Without(map, victims)
    /\ older' = Among(order, DOMAIN map \ victims)
    /\ stopping' = stopping \union {<<s, map[s].generation>> : s \in victims}
    /\ unswept' = {} /\ exempt' = spared

Remove(gone) ==
  /\ clients' = Without(clients, gone)
  /\ older' = Among(older, Registered \ gone)
  /\ UNCHANGED <<unswept, exempt>>

-----------------------------------------------------------------------------
Init ==
  /\ clients = [s \in {} |-> {}]
  /\ older = {}
  /\ generation = [s \in Sessions |-> 0]
  /\ limit \in Limits
  /\ running = {} /\ exited = {} /\ stopping = {}
  /\ emitted = [c \in Clients |-> 0]
  /\ heard = [s \in Sessions |-> <<>>]
  /\ stopAll = "idle" /\ barrier = {}
  /\ unswept = {} /\ exempt = {}

SetLimit(max) ==
  /\ limit' = max
  /\ EvictIfNeeded(clients, older, max, {})
  /\ UNCHANGED <<generation, running, exited, emitted, heard, barriers>>

\* get, and create or createDeferred of a session that is registered.
Get(s) ==
  /\ s \in Registered
  /\ older' = Touch(older, s, Registered)
  /\ UNCHANGED <<clients, generation, limit, processes, heard, barriers, unswept, exempt>>

\* Mutant: the generation is used before it is incremented.
NewClientOfOldGeneration(s, deferred) ==
  Put(clients, s, [generation |-> generation[s], protection |-> {},
                   deferred |-> deferred, queue |-> <<>>])

NewClient(s, deferred) ==
  Put(clients, s, [generation |-> generation[s] + 1, protection |-> {},
                   deferred |-> deferred, queue |-> <<>>])

\* createManaged of a session that is not registered; the caller starts the
\* client, and with it the worker, in the same turn of the event loop.
CreateManaged(s, deferred) ==
  /\ s \notin Registered /\ generation[s] < MaxGeneration
  /\ generation' = [generation EXCEPT ![s] = @ + 1]
  /\ running' = running \union {<<s, generation[s] + 1>>}
  /\ LET map == NewClient(s, deferred)
         order == Touch(older, s, Registered)
     IN  IF deferred
         THEN /\ clients' = map /\ older' = order
              /\ unswept' = unswept \union {s}
              /\ UNCHANGED <<stopping, exempt>>
         ELSE EvictIfNeeded(map, order, limit, {s})
  /\ UNCHANGED <<limit, exited, emitted, heard, barriers>>

EnforceLimit(spared) ==
  /\ EvictIfNeeded(clients, older, limit, spared)
  /\ UNCHANGED <<generation, limit, running, exited, emitted, heard, barriers>>

SetProtection(s, reason, enabled) ==
  /\ s \in Registered
  /\ LET map == Put(clients, s, Protect(clients[s], reason, enabled))
         order == Touch(older, s, Registered)
     IN  IF enabled
         THEN clients' = map /\ older' = order /\ UNCHANGED <<stopping, unswept, exempt>>
         ELSE EvictIfNeeded(map, order, limit, {})
  /\ UNCHANGED <<generation, limit, running, exited, emitted, heard, barriers>>

(***************************************************************************)
(* Events of a client.                                                     *)
(***************************************************************************)
\* Mutant: the deferred events are discarded.
PlayedNothing(queue) == <<>>

\* The events a replay reaches: all, or up to the exit that unregisters.
Played(queue) ==
  LET exits == {i \in DOMAIN queue : queue[i].kind = "exit"}
      last == IF exits = {} THEN Len(queue)
              ELSE CHOOSE i \in exits : \A j \in exits : i <= j
  IN  SubSeq(queue, 1, last)

HasKind(events, kind) == \E i \in DOMAIN events : events[i].kind = kind

\* Forwards `events' in order: a request for input protects the session and
\* touches it, an exit takes it out of the Map; s stops deferring.
Forward(s, events) ==
  LET open == [clients[s] EXCEPT !.deferred = FALSE, !.queue = <<>>]
      asked == HasKind(events, "input")
  IN  /\ heard' = [heard EXCEPT ![s] = @ \o events]
      /\ IF HasKind(events, "exit")
         THEN Remove({s})
         ELSE /\ clients' = Put(clients, s, IF asked THEN Protect(open, "input", TRUE) ELSE open)
              /\ older' = IF asked THEN Touch(older, s, Registered) ELSE older
              /\ UNCHANGED <<unswept, exempt>>

Overflows(managed, event) ==
  \/ Len(managed.queue) >= MaxDeferredCount
  \/ LET held[i \in 0..Len(managed.queue)] ==
           IF i = 0 THEN 0 ELSE held[i - 1] + managed.queue[i].bytes
     IN  held[Len(managed.queue)] + event.bytes > MaxDeferredBytes

\* Mutant: an overflow takes the client out of the Map and forgets to stop it.
ForwardOrDeferLeaking(c, event) ==
  LET s == c[1] IN
  IF ~IsCurrent(c) THEN UNCHANGED <<registry, stopping, heard>>
  ELSE IF ~clients[s].deferred THEN Forward(s, <<event>>) /\ UNCHANGED stopping
  ELSE IF Overflows(clients[s], event) THEN Remove({s}) /\ UNCHANGED <<stopping, heard>>
  ELSE /\ clients' = [clients EXCEPT ![s].queue = Append(@, event)]
       /\ UNCHANGED <<older, unswept, exempt, stopping, heard>>

ForwardOrDefer(c, event) ==
  LET s == c[1] IN
  \/ ~IsCurrent(c) /\ UNCHANGED <<registry, stopping, heard>>
  \/ IsCurrent(c) /\ ~clients[s].deferred
     /\ Forward(s, <<event>>) /\ UNCHANGED stopping
  \/ IsCurrent(c) /\ clients[s].deferred /\ Overflows(clients[s], event)
     /\ Remove({s}) /\ stopping' = stopping \union {c} /\ UNCHANGED heard
  \/ IsCurrent(c) /\ clients[s].deferred /\ ~Overflows(clients[s], event)
     /\ clients' = [clients EXCEPT ![s].queue = Append(@, event)]
     /\ UNCHANGED <<older, unswept, exempt, stopping, heard>>

NextEvent(c, kind, bytes) ==
  [generation |-> c[2], number |-> emitted[c] + 1, kind |-> kind, bytes |-> bytes]

\* The client emits an event other than exit; a stopping or an exited one may too.
ClientEmits(c, kind, bytes) ==
  /\ c \in running /\ kind # "exit" /\ emitted[c] < MaxEvents
  /\ emitted' = [emitted EXCEPT ![c] = @ + 1]
  /\ ForwardOrDefer(c, NextEvent(c, kind, bytes))
  /\ UNCHANGED <<generation, limit, running, exited, barriers>>

\* The client emits exit, once: its worker reports the end of its child and
\* still runs, or the worker itself ends, which a client being stopped keeps to itself.
ClientExits(c, ended) ==
  /\ c \in running \ exited
  /\ ended => c \notin stopping
  /\ exited' = exited \union {c}
  /\ running' = IF ended THEN running \ {c} ELSE running
  /\ emitted' = [emitted EXCEPT ![c] = @ + 1]
  /\ ForwardOrDefer(c, NextEvent(c, "exit", 0))
  /\ UNCHANGED <<generation, limit, barriers>>

\* The worker of a client that has reported its exit, or is being stopped, ends.
WorkerEnds(c) ==
  /\ c \in running \intersect (exited \union stopping)
  /\ running' = running \ {c}
  /\ UNCHANGED <<registry, generation, limit, exited, stopping, emitted, heard, barriers>>

ActivateDeferred(s) ==
  /\ s \in Registered /\ clients[s].deferred
  /\ Forward(s, Played(clients[s].queue))
  /\ UNCHANGED <<generation, limit, processes, barriers>>

(***************************************************************************)
(* Stopping.                                                               *)
(***************************************************************************)
\* Mutant: the entry stays in the Map while its client stops.
StopInPlace(s) ==
  /\ s \in Registered
  /\ stopping' = stopping \union {ClientOf(s)}
  /\ UNCHANGED <<registry, generation, limit, running, exited, emitted, heard, barriers>>

Stop(s) ==
  /\ s \in Registered
  /\ Remove({s})
  /\ stopping' = stopping \union {ClientOf(s)}
  /\ UNCHANGED <<generation, limit, running, exited, emitted, heard, barriers>>

\* Mutant: the operation is never taken out of stoppingClients.
StopSettlesUnrecorded(c) ==
  /\ c \in stopping
  /\ stopping' = stopping /\ running' = running \ {c}
  /\ UNCHANGED <<registry, generation, limit, exited, emitted, heard, barriers>>

\* client.stop() settles: the worker answered, or was killed after its timeout.
StopSettles(c) ==
  /\ c \in stopping
  /\ stopping' = stopping \ {c} /\ running' = running \ {c}
  /\ UNCHANGED <<registry, generation, limit, exited, emitted, heard, barriers>>

StopAll ==
  /\ Remove(Registered)
  /\ stopping' = stopping \union {ClientOf(s) : s \in Registered}
  /\ stopAll' = "waiting"
  /\ barrier' = running \ exited
  /\ UNCHANGED <<generation, limit, running, exited, emitted, heard>>

\* Mutant: stopAll does not wait for operations that were under way before it.
StopAllReturnsAtOnce ==
  /\ stopAll = "waiting"
  /\ stopAll' = "returned"
  /\ UNCHANGED <<registry, generation, limit, processes, heard, barrier>>

StopAllReturns ==
  /\ stopAll = "waiting" /\ stopping = {}
  /\ stopAll' = "returned"
  /\ UNCHANGED <<registry, generation, limit, processes, heard, barrier>>

-----------------------------------------------------------------------------
Call ==
  \/ \E max \in Limits : SetLimit(max)
  \/ \E s \in Sessions :
       \/ Get(s)
       \/ \E deferred \in BOOLEAN : CreateManaged(s, deferred)
       \/ EnforceLimit({s})
       \/ \E reason \in Reasons, enabled \in BOOLEAN : SetProtection(s, reason, enabled)
       \/ ActivateDeferred(s)
       \/ Stop(s)
  \/ EnforceLimit({})
  \/ StopAll

ClientEvent ==
  \E c \in Clients :
    \/ \E kind \in Kinds, bytes \in PayloadBytes : ClientEmits(c, kind, bytes)
    \/ \E ended \in BOOLEAN : ClientExits(c, ended)
    \/ WorkerEnds(c)

Next == Call \/ ClientEvent \/ (\E c \in Clients : StopSettles(c)) \/ StopAllReturns

Spec == Init /\ [][Next]_vars

\* The registry under its callers alone: no client emits, exits or settles.
CallSpec == Init /\ [][Call]_vars

\* Every client.stop() settles (six seconds at most), and the loop of stopAll
\* runs again when the operations it awaits have settled.
Fairness ==
  /\ \A c \in Clients : WF_vars(StopSettles(c))
  /\ WF_vars(StopAllReturns)

FairSpec == Spec /\ Fairness

-----------------------------------------------------------------------------
\* The registered client of a session is its newest, and no stop of it has begun:
\* a client that create or get returns is never one on its way out.
RegisteredIsNewest ==
  \A s \in Registered :
    /\ clients[s].generation = generation[s]
    /\ ClientOf(s) \notin stopping

\* A worker that runs is one the manager can still reach: its client is
\* registered, or being stopped, or has reported its exit.  No path that takes
\* a client out of the Map (stop, eviction, deferred overflow, stopAll, exit)
\* leaks its worker process.
NoOrphanWorker ==
  \A c \in running : IsCurrent(c) \/ c \in stopping \/ c \in exited

\* What is heard from a session never goes back to an earlier generation and
\* never skips or repeats an event inside one: a superseded client that still
\* runs is mute, and the events held back while a fork or a restore was not yet
\* committed come out first, in order.
HeardInOrder ==
  \A s \in Sessions : \A i \in DOMAIN heard[s] :
    LET event == heard[s][i] IN
    IF i = 1 \/ heard[s][i - 1].generation # event.generation
    THEN /\ event.number = 1
         /\ i # 1 => heard[s][i - 1].generation < event.generation
    ELSE event.number = heard[s][i - 1].number + 1

\* Nothing a registered client emits is lost: what was heard of it and what
\* waits in its deferred queue is everything it has emitted.
NothingLost ==
  \A s \in Registered :
    LET own == {i \in DOMAIN heard[s] : heard[s][i].generation = clients[s].generation}
    IN  emitted[ClientOf(s)] = Cardinality(own) + Len(clients[s].queue)

\* The limit is soft, but only for a reason: sessions created deferred and not
\* yet swept apart, either the limit holds or every session is protected, the
\* one the last sweep spared excepted.
LimitHeld ==
  LET swept == Registered \ unswept
  IN  \/ Cardinality(swept) <= limit
      \/ \A s \in swept \ exempt : clients[s].protection # {}

\* An eviction takes only sessions that nothing protects any more, and none
\* while an evictable one stays that was touched earlier and not by this call:
\* a session that is selected, in a turn, waiting for input or active in the
\* background is never the one that goes.
Unprotects(s, reason) == SetProtection(s, reason, FALSE)
EvictionStep ==
  \/ \E max \in Limits : SetLimit(max)
  \/ \E s \in Sessions :
       EnforceLimit({s}) \/ CreateManaged(s, FALSE) \/ (\E r \in Reasons : Unprotects(s, r))
  \/ EnforceLimit({})
EvictedRightly ==
  EvictionStep =>
    \A s \in Registered \ DOMAIN clients' :
      /\ \/ clients[s].protection = {}
         \/ \E r \in Reasons : Unprotects(s, r) /\ clients[s].protection = {r}
      /\ \A t \in (Registered \intersect DOMAIN clients') \ exempt' :
           clients'[t].protection = {} /\ <<t, s>> \in older
             => \E r \in Reasons : Unprotects(t, r)
EvictsOldestUnprotected == [][EvictedRightly]_vars

\* When stopAll has returned, every worker that ran when it was called and had
\* not reported its exit is gone, those an earlier stop or eviction left
\* behind included: the quit and update paths rely on it.
StopAllIsBarrier == stopAll = "returned" => barrier \intersect running = {}

\* A client being stopped does not stay so, and stopAll returns.
StopAllTerminates == (stopAll = "waiting") ~> (stopAll = "returned")
=============================================================================
