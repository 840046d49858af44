------------------------------ MODULE Activity ------------------------------
(***************************************************************************)
(* The work that a session's grok does beside its turns: scheduled tasks,  *)
(* background commands, workflows, a goal.  grok tells it in events, typed *)
(* ones with a clock or those of an older CLI's scheduler tools; main      *)
(* keeps a projection of them while the worker starts and lives, and       *)
(* protects the worker from eviction while there is live work.             *)
(***************************************************************************)
EXTENDS Naturals, Sequences, FiniteSets, SequencesExt

CONSTANTS Schedules, Commands, Flows, Goals,  \* identities that grok gives its work
          Others,                             \* the other sessions
          MaxItems, MaxStones, MaxPending, MaxCached,
          MaxTold, MaxWire, MaxStarts         \* bounds of the model

None == "none"
Self == "self"

VARIABLES
  speaks,     \* the events this CLI has: "bare", typed ones without a clock | "legacy" | "both", with a clock
  truth,      \* the work that grok has
  wire,       \* events on their way to main
  held,       \* an event that grok sends a second time, late
  worker,     \* "none" | "starting" | "failed", a client that could not be started | "live"
  starting,   \* activityProjectionStarts of this session
  shown,      \* activityProjections of this session
  cached,     \* the order of activityProjections
  others,     \* syncState of the projections of the other sessions
  protected,  \* the worker's client has the protection "activity"
  tracked,    \* the worker became live with the projection of its own start
  older,      \* a start of a client that was replaced has yet to fail
  told, starts

cli == <<speaks, truth, wire, held, told>>
vars == <<cli, worker, starting, shown, cached, others, protected, tracked, older, starts>>

-----------------------------------------------------------------------------
(* Events                                                                  *)

Event == [type |-> None, source |-> "typed", generation |-> 0, revision |-> 0, id |-> None, status |-> None, call |-> 0,
          ids |-> {}, over |-> FALSE]
Typed(type, id) == [Event EXCEPT !.type = type, !.id = id]
Clocked(event, generation, revision) == [event EXCEPT !.generation = generation, !.revision = revision]
Legacy(type, id, call) == [Event EXCEPT !.type = type, !.source = "legacy", !.id = id, !.call = call]
Input(operation, target, call) == [Legacy("input", target, call) EXCEPT !.status = operation]

-----------------------------------------------------------------------------
(* SessionActivityProjection.  0 stands for a generation or a revision that *)
(* is undefined.                                                            *)

Absent == [sync |-> None]
Fresh(sync) ==
  [sync |-> sync, unknown |-> FALSE, tasks |-> {}, over |-> FALSE, authority |-> None, generation |-> 0, revision |-> 0,
   pending |-> {}, background |-> [b \in Commands |-> None], backgroundOver |-> FALSE,
   flows |-> [f \in Flows |-> [status |-> None, revision |-> 0]], flowStones |-> {}, flowsFull |-> FALSE, flowOver |-> FALSE,
   goal |-> [id |-> None, status |-> None], goalStones |-> {}, goalsFull |-> FALSE, goalOver |-> FALSE]

Terminal == {"completed", "failed", "cancelled", "interrupted"}
Without(p, call) == [p EXCEPT !.pending = {x \in @ : x.call # call}]

\* A typed event takes the scheduler over from the legacy tools, and what they showed goes.
TakesOver(p) ==
  IF p.authority = "typed" THEN p
  ELSE [p EXCEPT !.authority = "typed", !.pending = {}, !.tasks = IF p.authority = "legacy" THEN {} ELSE @,
                 !.over = @ /\ p.authority # "legacy"]

GenerationOf(p, event) == IF event.generation = 0 THEN p.generation ELSE event.generation
Newer(p, event) ==
  IF event.generation = 0 /\ event.revision = 0 THEN p.generation = 0 /\ p.revision = 0
  ELSE \/ p.generation = 0
       \/ GenerationOf(p, event) > p.generation
       \/ GenerationOf(p, event) = p.generation /\ (p.revision = 0 \/ event.revision > p.revision)

\* Mutant: only the generations are compared.
NewerGeneration(p, event) == p.generation = 0 \/ GenerationOf(p, event) >= p.generation

AcceptsClock(p, event) == Newer(p, event)

\* A new generation begins with nothing; grok announces again what there is.
Advanced(p, event) ==
  IF GenerationOf(p, event) > p.generation
  THEN [p EXCEPT !.tasks = {}, !.over = FALSE, !.pending = {}, !.generation = event.generation, !.revision = event.revision]
  ELSE [p EXCEPT !.revision = IF event.revision = 0 THEN @ ELSE event.revision]

Accepts(p, event) ==
  IF event.source = "legacy" THEN p.authority # "typed" ELSE AcceptsClock(TakesOver(p), event)
Accepted(p, event) ==
  IF event.source = "legacy" THEN [p EXCEPT !.authority = "legacy"] ELSE Advanced(TakesOver(p), event)
Refused(p, event) == Without(IF event.source = "legacy" THEN p ELSE TakesOver(p), event.call)

TaskShown(p, id) ==
  IF id \notin p.tasks /\ Cardinality(p.tasks) >= MaxItems
  THEN [p EXCEPT !.over = TRUE, !.unknown = TRUE]
  ELSE [p EXCEPT !.tasks = @ \union {id}]

\* Mutant: a task too many is dropped.
TaskDropped(p, id) == IF Cardinality(p.tasks \union {id}) > MaxItems THEN p ELSE TaskShown(p, id)

Upserted(p, id) == TaskShown(p, id)

Scheduler(p, event) ==
  IF ~Accepts(p, event) THEN Refused(p, event)
  ELSE LET q == Without(Accepted(p, event), event.call)
       IN  CASE event.type = "upsert" -> Upserted(q, event.id)
             [] event.type = "delete" -> [q EXCEPT !.tasks = @ \ {event.id}]
             [] event.type = "replace" -> [q EXCEPT !.tasks = event.ids, !.over = event.over]

\* The input of a call of the scheduler's tools is kept for its output; a delete may be told by its input alone.
CallHeard(p, event) ==
  LET previous == {x \in p.pending : x.call = event.call} IN
  IF p.authority = "typed" THEN Without(p, event.call)
  ELSE IF previous = {} /\ Cardinality(p.pending) >= MaxPending THEN [p EXCEPT !.unknown = TRUE]
  ELSE IF previous # {} /\ event.status = "delete" /\ event.id = None
       THEN Without([p EXCEPT !.tasks = @ \ {x.target : x \in previous}], event.call)
       ELSE [Without(p, event.call) EXCEPT !.pending = @ \union {[call |-> event.call, target |-> event.id]}]

CommandHeard(p, event) ==
  IF p.background[event.id] \in Terminal /\ event.status = "running" THEN p
  ELSE IF p.background[event.id] = None /\ Cardinality({b \in Commands : p.background[b] # None}) >= MaxItems
       THEN [p EXCEPT !.unknown = TRUE, !.backgroundOver = @ \/ event.status \notin Terminal]
       ELSE [p EXCEPT !.background[event.id] = event.status]

FlowStone(p, id) ==
  IF id \in p.flowStones THEN p
  ELSE IF Cardinality(p.flowStones) < MaxStones THEN [p EXCEPT !.flowStones = @ \union {id}]
  ELSE [p EXCEPT !.flowsFull = TRUE, !.unknown = TRUE]

FlowHeard(p, event) ==
  LET existing == p.flows[event.id]
      over == [p EXCEPT !.flowOver = @ \/ event.status \notin Terminal]
  IN  IF existing.status # None /\ event.revision <= existing.revision THEN p
      ELSE IF event.status = "cleared" THEN FlowStone([p EXCEPT !.flows[event.id] = [status |-> None, revision |-> 0]], event.id)
      ELSE IF event.id \in p.flowStones THEN p
      ELSE IF p.flowsFull THEN over
      ELSE IF existing.status = None /\ Cardinality({f \in Flows : p.flows[f].status # None}) >= MaxItems
           THEN [over EXCEPT !.unknown = TRUE]
           ELSE [p EXCEPT !.flows[event.id] = [status |-> event.status, revision |-> event.revision]]

GoalStone(p, id) ==
  IF id \in p.goalStones THEN p
  ELSE IF Cardinality(p.goalStones) < MaxStones THEN [p EXCEPT !.goalStones = @ \union {id}]
  ELSE [p EXCEPT !.goalsFull = TRUE, !.unknown = TRUE]

GoalHeard(p, event) ==
  LET id == IF event.id = None THEN p.goal.id ELSE event.id IN
  IF event.status = "cleared"
  THEN [(IF id = None THEN p ELSE GoalStone(p, id)) EXCEPT !.goal = IF id = @.id THEN [id |-> None, status |-> None] ELSE @]
  ELSE IF id = None \/ id \in p.goalStones THEN p
  ELSE IF p.goalsFull THEN [p EXCEPT !.goalOver = @ \/ event.status = "active"]
  ELSE [(IF p.goal.id \in {None, id} THEN p ELSE GoalStone(p, p.goal.id)) EXCEPT !.goal = [id |-> id, status |-> event.status]]

Reduced(p, event) ==
  CASE event.type = "input" -> CallHeard(p, event)
    [] event.type \in {"upsert", "delete", "replace"} -> Scheduler(p, event)
    [] event.type = "background" -> CommandHeard(p, event)
    [] event.type = "flow" -> FlowHeard(p, event)
    [] event.type = "goal" -> GoalHeard(p, event)

HasWork(p) ==
  \/ p.tasks # {} \/ p.over \/ p.backgroundOver \/ p.flowOver \/ p.goalOver
  \/ \E b \in Commands : p.background[b] \notin Terminal \union {None}
  \/ \E f \in Flows : p.flows[f].status \notin Terminal \union {None}
  \/ p.goal.status = "active"

Protects(p) == p.sync = "live" /\ HasWork(p)

-----------------------------------------------------------------------------
(* AppController: one projection while a start is under way, one that is    *)
(* shown, and a bounded cache of those that are offline.                    *)

\* pruneOfflineActivityProjections: the oldest offline ones go, as many as are too many.
Pruned(order, offline) ==
  LET rank(x) == Cardinality({i \in 1 .. Len(order) : order[i] \in offline /\ \E j \in i .. Len(order) : order[j] = x})
  IN  SelectSeq(order, LAMBDA x : ~(x \in offline /\ rank(x) + MaxCached <= Len(order)))

Placed(x) == IF x \in ToSet(cached) THEN cached ELSE Append(cached, x)
Touched(x) == Append(Remove(cached, x), x)
OfflineOthers == {o \in Others : others[o] = "offline"}

\* The cache after a change, and the projections that are not in it any more.
Caches(order, offline, projection, syncs) ==
  LET kept == Pruned(order, offline) IN
  /\ cached' = kept
  /\ shown' = IF Self \in ToSet(kept) THEN projection ELSE Absent
  /\ others' = [o \in Others |-> IF o \in ToSet(kept) THEN syncs[o] ELSE None]

Live(projection) == Caches(Placed(Self), OfflineOthers, [projection EXCEPT !.sync = "live"], others)
GoesOffline == Caches(Touched(Self), OfflineOthers \union {Self}, [shown EXCEPT !.sync = "offline"], others)
Unchanged == UNCHANGED <<shown, cached, others>>

\* setActivityProjectionOffline: one that is offline already keeps its place.
SetOffline == IF shown.sync \in {None, "offline"} THEN Unchanged ELSE GoesOffline

\* failActivityProjectionStart
FailStart ==
  /\ starting' = Absent
  /\ IF starting.sync = None \/ shown.sync = None THEN Unchanged ELSE GoesOffline
  /\ protected' = (protected /\ starting.sync = None)

-----------------------------------------------------------------------------
(* grok                                                                    *)

NoWork == [tasks |-> {}, revision |-> 0, commands |-> [b \in Commands |-> None],
           flows |-> [f \in Flows |-> [status |-> None, revision |-> 0]], goal |-> [id |-> None, status |-> None], used |-> {}]

Work ==
  \/ truth.tasks # {}
  \/ \E b \in Commands : truth.commands[b] = "running"
  \/ \E f \in Flows : truth.flows[f].status = "active"
  \/ truth.goal.status = "active"

Init ==
  /\ speaks \in {"bare", "legacy", "both"}
  /\ truth = NoWork /\ wire = <<>> /\ held = Event /\ told = 0
  /\ worker = "none" /\ starting = Absent /\ shown = Absent /\ cached = <<>>
  /\ others = [o \in Others |-> None]
  /\ protected = FALSE /\ tracked = TRUE /\ older = FALSE /\ starts = 0

HasClock == speaks = "both"
AtNow(event, revision) == IF HasClock THEN Clocked(event, starts, revision) ELSE event

Tells(events, next) ==
  /\ worker \in {"starting", "live"} /\ told < MaxTold /\ Len(wire) <= MaxWire
  /\ told' = told + 1 /\ truth' = next /\ wire' = wire \o events
  /\ held' \in {held} \union {e \in ToSet(events) : HasClock /\ e.source = "typed" /\ e.type # "goal" /\ held.type = None}
  /\ UNCHANGED <<speaks, worker, starting, shown, cached, others, protected, tracked, older, starts>>

\* What is told of a change of the scheduler: a typed event, the call of a tool, or both.
SchedulerTells(type, id, operation, outputs, tasks) ==
  LET next == [truth EXCEPT !.tasks = tasks, !.revision = @ + 1]
      target == IF operation = "delete" THEN id ELSE None
      typed == <<AtNow(Typed(type, id), next.revision)>>
  IN  \E output \in outputs :
        Tells(CASE speaks = "bare" -> typed
                [] speaks = "legacy" -> <<Input(operation, target, told + 1), output>>
                [] speaks = "both" -> <<Input(operation, target, told + 1)>> \o typed \o <<output>>, next)

TaskCreated(c) ==
  /\ c \notin truth.tasks
  /\ SchedulerTells("upsert", c, "create", {Legacy("upsert", c, told + 1)}, truth.tasks \union {c})

TaskDeleted(c) ==
  /\ c \in truth.tasks
  /\ SchedulerTells("delete", c, "delete", {Legacy("delete", c, told + 1), Input("delete", None, told + 1)}, truth.tasks \ {c})

TaskFires(c) ==
  /\ c \in truth.tasks /\ speaks # "legacy"
  /\ LET next == [truth EXCEPT !.revision = @ + 1] IN Tells(<<AtNow(Typed("upsert", c), next.revision)>>, next)

TasksListed ==
  /\ speaks \in {"legacy", "both"}
  /\ \E ids \in SUBSET truth.tasks :
       /\ Cardinality(ids) = IF Cardinality(truth.tasks) > MaxItems THEN MaxItems ELSE Cardinality(truth.tasks)
       /\ Tells(<<Input("list", None, told + 1),
                  [Legacy("replace", None, told + 1) EXCEPT !.ids = ids, !.over = ids # truth.tasks]>>, truth)

\* A call that fails has no output to tell of.
CallFails(c) == speaks # "bare" /\ Tells(<<Input("delete", c, told + 1)>>, truth)

CommandMoves(b) ==
  \/ /\ truth.commands[b] = None
     /\ Tells(<<[Typed("background", b) EXCEPT !.status = "running"]>>, [truth EXCEPT !.commands[b] = "running"])
  \/ /\ truth.commands[b] = "running"
     /\ Tells(<<[Typed("background", b) EXCEPT !.status = "completed"]>>, [truth EXCEPT !.commands[b] = "completed"])

FlowEvent(f, flow) == Clocked([Typed("flow", f) EXCEPT !.status = flow.status], 0, flow.revision)
FlowMoves(f, status) ==
  LET flow == [status |-> status, revision |-> truth.flows[f].revision + 1] IN
  /\ truth.flows[f].status \notin {"cleared", status}
  /\ Tells(<<FlowEvent(f, flow)>>, [truth EXCEPT !.flows[f] = flow])

\* A goal that was left does not come back; the event that clears the goal need not name it.
GoalMoves(g, status) ==
  /\ IF truth.goal.id = g THEN truth.goal.status # status ELSE g \notin truth.used /\ status # "cleared"
  /\ \E id \in {g} \union (IF status = "cleared" THEN {None} ELSE {}) :
       Tells(<<[Typed("goal", id) EXCEPT !.status = status]>>,
             [truth EXCEPT !.goal = IF status = "cleared" THEN [id |-> None, status |-> None] ELSE [id |-> g, status |-> status],
                           !.used = @ \union {g}])

SendsAgain ==
  /\ held.type # None /\ worker \in {"starting", "live"}
  /\ wire' = Append(wire, held) /\ held' = [Event EXCEPT !.revision = 1]
  /\ UNCHANGED <<speaks, truth, told, worker, starting, shown, cached, others, protected, tracked, older, starts>>

Changes ==
  \/ \E c \in Schedules : TaskCreated(c) \/ TaskDeleted(c) \/ TaskFires(c) \/ CallFails(c)
  \/ TasksListed
  \/ \E b \in Commands : CommandMoves(b)
  \/ \E f \in Flows, status \in {"active", "completed", "cleared"} : FlowMoves(f, status)
  \/ \E g \in Goals, status \in {"active", "completed", "cleared"} : GoalMoves(g, status)
  \/ SendsAgain

-----------------------------------------------------------------------------
(* The worker                                                              *)

\* grok starts again: what ran in its process is over, and what it restores it announces, the scheduler in a new
\* generation. A scheduler without typed events restores nothing.
Restored ==
  [truth EXCEPT !.tasks = IF speaks = "legacy" THEN {} ELSE @, !.revision = Cardinality(truth.tasks),
                !.commands = [b \in Commands |-> IF truth.commands[b] = "running" THEN "completed" ELSE truth.commands[b]],
                !.flows = [f \in Flows |-> IF truth.flows[f].status = "active" THEN [truth.flows[f] EXCEPT !.revision = @ + 1]
                                           ELSE truth.flows[f]]]
Announced ==
  LET tasks == SetToSeq(Restored.tasks)
      active == SetToSeq({f \in Flows : Restored.flows[f].status = "active"})
  IN  [i \in 1 .. Len(tasks) |-> IF HasClock THEN Clocked(Typed("upsert", tasks[i]), starts + 1, i) ELSE Typed("upsert", tasks[i])]
      \o [i \in 1 .. Len(active) |-> FlowEvent(active[i], Restored.flows[active[i]])]
      \o (IF Restored.goal.id = None THEN <<>> ELSE <<[Typed("goal", Restored.goal.id) EXCEPT !.status = Restored.goal.status]>>)

\* session/load replays what was told before, of a legacy tool nothing that main hears; here one event, before the newer ones.
Replayed == IF held.type \in {"upsert", "delete"} /\ Restored.tasks # {} THEN {<<>>, <<held>>} ELSE {<<>>}

Launched ==
  /\ starts < MaxStarts /\ starts' = starts + 1
  /\ truth' = Restored /\ \E replay \in Replayed : wire' = replay \o Announced
  /\ held' = Event /\ worker' = "starting"
  /\ UNCHANGED <<speaks, told>>

\* ensureConnected, for a session without a client.
Begins ==
  /\ worker = "none" /\ Launched
  /\ starting' = Fresh("replaying") /\ protected' = FALSE
  /\ Unchanged /\ UNCHANGED <<tracked, older>>

\* ensureConnected, for a client whose start failed: it is started again, and no projection is begun.
BeginsAgain ==
  /\ worker = "failed" /\ Launched
  /\ Unchanged /\ UNCHANGED <<starting, protected, tracked, older>>

\* activateActivityProjection
Activated ==
  /\ worker = "starting" /\ worker' = "live"
  /\ starting' = Absent /\ tracked' = (starting.sync # None)
  /\ LET projection == IF starting.sync # None THEN starting ELSE shown IN
     IF projection.sync = None THEN Unchanged /\ UNCHANGED protected
     ELSE Live(projection) /\ protected' = Protects([projection EXCEPT !.sync = "live"])
  /\ UNCHANGED <<cli, older, starts>>

\* grok does not know the session any more and has begun a new one: replaceActivityProjectionWithFreshLive.
StaleFallback ==
  /\ worker = "starting" /\ worker' = "live"
  /\ truth' = [NoWork EXCEPT !.used = truth.used] /\ wire' = <<>> /\ held' = Event
  /\ starting' = Absent /\ tracked' = TRUE
  /\ Live(Fresh("live")) /\ protected' = FALSE
  /\ UNCHANGED <<speaks, told, older, starts>>

\* The client stays in the registry; its grok is stopped.
StartFails ==
  /\ worker = "starting" /\ worker' = "failed" /\ wire' = <<>>
  /\ FailStart
  /\ UNCHANGED <<speaks, truth, held, told, tracked, older, starts>>

\* The exit of the worker, or stopSessionWorker.
Stops ==
  /\ worker # "none" /\ worker' = "none" /\ wire' = <<>>
  /\ starting' = Absent /\ protected' = FALSE
  /\ IF starting.sync # None /\ shown.sync # None THEN GoesOffline ELSE SetOffline
  /\ UNCHANGED <<speaks, truth, held, told, tracked, older, starts>>

\* A client that nothing protects may be evicted; one that was starting fails later.
Evicted ==
  /\ worker # "none" /\ ~protected /\ worker' = "none" /\ wire' = <<>>
  /\ SetOffline /\ older' = (older \/ worker = "starting")
  /\ UNCHANGED <<speaks, truth, held, told, starting, protected, tracked, starts>>

OlderFails ==
  /\ older /\ older' = FALSE
  /\ FailStart
  /\ UNCHANGED <<cli, worker, tracked, starts>>

\* onAcpUpdate: an event for which there is no projection is dropped.
Hears ==
  /\ wire # <<>> /\ wire' = Tail(wire)
  /\ LET event == Head(wire)
     IN  \/ /\ starting.sync # None
            /\ starting' = Reduced(starting, event) /\ protected' = FALSE /\ UNCHANGED shown
         \/ /\ starting.sync = None /\ shown.sync # None
            /\ shown' = Reduced(shown, event) /\ protected' = Protects(shown') /\ UNCHANGED starting
         \/ starting.sync = None /\ shown.sync = None /\ UNCHANGED <<starting, shown, protected>>
  /\ UNCHANGED <<speaks, truth, held, told, worker, cached, others, tracked, older, starts>>

OtherMoves(o) ==
  /\ wire = <<>>
  /\ \/ others[o] # "live" /\ Caches(Placed(o), (OfflineOthers \ {o}) \union {x \in {Self} : shown.sync = "offline"},
                                     shown, [others EXCEPT ![o] = "live"])
     \/ others[o] = "live" /\ Caches(Touched(o), OfflineOthers \union {o} \union {x \in {Self} : shown.sync = "offline"},
                                     shown, [others EXCEPT ![o] = "offline"])
  /\ UNCHANGED <<cli, worker, starting, protected, tracked, older, starts>>

Next ==
  \/ Changes
  \/ Begins \/ BeginsAgain \/ Activated \/ StaleFallback \/ StartFails \/ Stops \/ Evicted \/ OlderFails \/ Hears
  \/ \E o \in Others : OtherMoves(o)

Spec == Init /\ [][Next]_vars

-----------------------------------------------------------------------------
TypeOK ==
  /\ truth.tasks \subseteq Schedules /\ worker \in {"none", "starting", "failed", "live"}
  /\ starting.sync \in {None, "replaying"} /\ shown.sync \in {None, "live", "offline"}
  /\ (shown.sync # None) = (Self \in ToSet(cached))
  /\ \A o \in Others : (others[o] # None) = (o \in ToSet(cached))

Quiet == worker = "live" /\ wire = <<>>

\* While grok has work that it has told, its worker is protected: nothing that is replayed, repeated, too much or of an
\* older CLI hides it.
WorkIsProtected == Quiet /\ tracked /\ Work => protected

\* docs/ARCHITECTURE.md:98 says of every worker that main protects "authoritative live schedule/background/workflow/goal
\* work from LRU eviction".
LiveWorkIsProtected == Quiet /\ Work => protected

\* What could not be kept makes the projection a guess that there is work.
Exact(p) == ~(p.unknown \/ p.over \/ p.flowsFull \/ p.goalsFull \/ p.flowOver)

\* A worker is protected only while it lives, and when all is heard and kept only while grok has work.
ProtectionEnds ==
  protected => shown.sync = "live" /\ worker = "live" /\ (Quiet /\ tracked /\ Exact(shown) => Work)
=============================================================================
