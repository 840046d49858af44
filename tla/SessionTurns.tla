---------------------------- MODULE SessionTurns ----------------------------
(***************************************************************************)
(* One session of src/main/AppController.ts: its turns, its permission and *)
(* question queues, Auto accept, and the protections that keep             *)
(* SessionManager from evicting it, with the client and the worker below.  *)
(*                                                                         *)
(* The session is in the background: only "turn" and "input" protect it.   *)
(* Main and the worker of the current client exchange messages through two *)
(* FIFO channels; what is under way with an earlier client only settles.   *)
(* One action is one callback of main, run to its next await, or one step  *)
(* of the worker and its agent.                                            *)
(***************************************************************************)
EXTENDS Naturals, Sequences, FiniteSets, SequencesExt

CONSTANTS
  Permissions,    \* ids of permission requests
  Questions,      \* ids of plan and question interactions
  Reasked,        \* permission ids the agent may ask for more than once
  MaxQueue,       \* the cap of both queues (64)
  MaxTurns,       \* bound: prompts
  MaxClients,     \* bound: clients created
  MaxInFlight,    \* bound: messages in a channel when a new one is caused
  MaxPathChanges, \* bound: calls of setGrokCliPath
  None            \* no card, no answer under way

ASSUME IdsAssumption ==
  /\ Permissions \intersect Questions = {}
  /\ None \notin Permissions \union Questions
  /\ Reasked \subseteq Permissions
ASSUME SizesAssumption ==
  /\ MaxQueue \in Nat \ {0} /\ MaxTurns \in Nat /\ MaxClients \in Nat
  /\ MaxInFlight \in Nat /\ MaxPathChanges \in Nat

Ids == Permissions \union Questions
Kinds == {"permission", "question"}
KindOf(id) == IF id \in Permissions THEN "permission" ELSE "question"
IdsOf(kind) == IF kind = "permission" THEN Permissions ELSE Questions
Turns == 1..MaxTurns
Clients == 1..MaxClients

VARIABLES
  \* the session record
  status, card, mode, \* status, pendingPermission and pendingInteraction, permissionMode
  \* AppController
  queue,          \* permissionQueues and interactionQueues
  seen,           \* seenPermissionRequests
  turn,           \* the prompts: how far each is, and its client
  lifecycle,      \* lifecycleTurns
  cancelled,      \* cancelledLifecycleTurns
  answering,      \* the user's answer under way
  pump,           \* autoPermissionPumps: the answer the pump awaits
  spinning,       \* the pump queues microtasks without end: main is stuck in it
  pathChanges,    \* calls of setGrokCliPath so far
  \* SessionManager, for this session
  current, issued, protection,
  \* the worker of the current client
  outbox, inbox,  \* the channels from main and to main
  agent,          \* the process of the agent, and its session
  open,           \* permissionRequests and interactionRequests, in order
  working,        \* prompts the agent works on
  \* history
  asked,          \* ids the agents have asked
  withdrawn,      \* ids that left the worker's table without an answer of the user
  skipped         \* open ids that a cancel left open: it found no session

record == <<status, card, mode>>
queues == <<queue, seen>>
turns == <<turn, lifecycle, cancelled>>
answers == <<answering, pump, spinning>>
managed == <<current, issued, protection>>
worker == <<agent, open, working, asked, withdrawn, skipped>>
channels == <<outbox, inbox>>
vars == <<record, queues, turns, answers, pathChanges, managed, worker, channels>>

Request == [id : Ids, client : Clients]
Answer == [id : Ids, client : Clients, stale : BOOLEAN]
ASSUME NoneAssumption == None \notin Answer
Command == [type : {"prompt"}, turn : Turns] \union [type : {"cancel"}]
             \union [type : {"answer"}, id : Ids, by : {"user", "pump"}]
Event == [type : {"asked"}, id : Ids, options : BOOLEAN] \union [type : {"resolved"}, id : Ids]
           \union [type : {"prompted"}, turn : Turns, ok : BOOLEAN]
           \union [type : {"answered"}, id : Ids, by : {"user", "pump"}, ok : BOOLEAN]

TypeOK ==
  /\ status \in {"idle", "running", "waiting", "failed"} /\ mode \in {"ask", "auto"}
  /\ card \in [Kinds -> Ids \union {None}]
  /\ queue \in [Kinds -> Seq(Request)] /\ \A kind \in Kinds : Len(queue[kind]) <= MaxQueue
  /\ seen \subseteq Permissions
  /\ turn \in [Turns -> [stage : {"none", "connecting", "sent", "over"}, client : 0..MaxClients]]
  /\ lifecycle \in 0..MaxTurns /\ cancelled \in 0..MaxTurns
  /\ answering \in Answer \union {None} /\ pump \in Answer \union {None} /\ spinning \in BOOLEAN
  /\ pathChanges \in 0..MaxPathChanges
  /\ current \in 0..MaxClients /\ issued \in 0..MaxClients /\ protection \subseteq {"turn", "input"}
  /\ outbox \in Seq(Command) /\ inbox \in Seq(Event)
  /\ agent \in {"down", "loading", "loaded", "stopping"}
  /\ open \in [Kinds -> Seq(Ids)] /\ working \subseteq Turns
  /\ asked \subseteq Ids /\ withdrawn \subseteq Ids /\ skipped \subseteq Ids

Empty == [kind \in Kinds |-> <<>>]
NoCards == [kind \in Kinds |-> None]

Init ==
  /\ status = "idle" /\ card = NoCards /\ mode \in {"ask", "auto"}
  /\ queue = Empty /\ seen = {}
  /\ turn = [t \in Turns |-> [stage |-> "none", client |-> 0]]
  /\ lifecycle = 0 /\ cancelled = 0
  /\ answering = None /\ pump = None /\ spinning = FALSE /\ pathChanges = 0
  /\ current = 0 /\ issued = 0 /\ protection = {}
  /\ outbox = <<>> /\ inbox = <<>>
  /\ agent = "down" /\ open = Empty /\ working = {}
  /\ asked = {} /\ withdrawn = {} /\ skipped = {}

(***************************************************************************)
(* Helpers.                                                                *)
(***************************************************************************)
\* Main runs its next callback only if it is not stuck in microtasks.
Main == ~spinning
\* A user does not act again before the channel has room (bound).
Roomy == Len(outbox) < MaxInFlight

\* The prompts under way with the current client.
Running(stage) == {t \in Turns : turn[t].stage = stage /\ turn[t].client = current}

Without(reason) == protection \ {reason}
HeadOf(q) == IF q = <<>> THEN None ELSE Head(q).id

\* Mutant: only the permission queue counts.
InputOfPermissions(q) ==
  IF current # 0 /\ q["permission"] # <<>> THEN protection \union {"input"} ELSE Without("input")

\* syncInputProtection: setProtection finds nothing to protect without a client.
InputSynced(q) ==
  IF current # 0 /\ \E kind \in Kinds : q[kind] # <<>> THEN protection \union {"input"}
  ELSE Without("input")

\* syncPermissionHead and syncInteractionHead of `kind'.
HeadSynced(q, kind) ==
  LET shown == [card EXCEPT ![kind] = HeadOf(q[kind])] IN
  /\ queue' = q /\ card' = shown /\ protection' = InputSynced(q)
  /\ status' = IF shown[kind] # None THEN "waiting"
               ELSE IF status = "waiting" /\ shown = NoCards THEN "running" ELSE status

\* An answer under way keeps the array it was taken from: it is stale once the
\* queues of `kinds' are deleted.
Stale(answer, kinds) ==
  IF answer # None /\ KindOf(answer.id) \in kinds THEN [answer EXCEPT !.stale = TRUE] ELSE answer

\* permissionQueues.delete or interactionQueues.delete, and what goes with it.
Deleted(kinds) ==
  /\ queue' = [kind \in Kinds |-> IF kind \in kinds THEN <<>> ELSE queue[kind]]
  /\ card' = [kind \in Kinds |-> IF kind \in kinds THEN None ELSE card[kind]]
  /\ answering' = Stale(answering, kinds) /\ pump' = Stale(pump, kinds)

\* A run of pumpAutoPermissions up to its await, with the queue q: it answers the
\* head through the current client.  Without a client it returns at once, and
\* its finally block queues it again.
PumpRuns(q, permissionMode, sent) ==
  IF permissionMode = "auto" /\ q # <<>>
  THEN IF current # 0
       THEN /\ pump' = [id |-> Head(q).id, client |-> current, stale |-> FALSE]
            /\ outbox' = Append(sent, [type |-> "answer", id |-> Head(q).id, by |-> "pump"])
            /\ spinning' = FALSE
       ELSE pump' = None /\ spinning' = TRUE /\ outbox' = sent
  ELSE pump' = None /\ spinning' = FALSE /\ outbox' = sent

\* Mutant: a run that ends on a changed queue does not queue another.
PumpEndsQuietly == pump' = None /\ UNCHANGED <<spinning, outbox>>

\* The finally block of a run that ended early: while there is something to
\* answer another run is queued.
PumpAgain == PumpRuns(queue["permission"], mode, outbox)

\* pumpAutoPermissions called while another run may be awaiting its answer.
PumpCalled(q, permissionMode) ==
  \/ pump = None /\ PumpRuns(q, permissionMode, outbox)
  \/ pump # None /\ UNCHANGED <<pump, spinning, outbox>>

\* The client is no longer the registered one: nobody reads its channels.
Detached ==
  /\ current' = 0 /\ protection' = {} /\ UNCHANGED issued
  /\ outbox' = <<>> /\ inbox' = <<>>
  /\ agent' = "down" /\ open' = Empty /\ working' = {} /\ skipped' = {}
  /\ UNCHANGED <<asked, withdrawn>>

\* ensureConnected without a registered client.
Created(reasons) ==
  /\ issued < MaxClients
  /\ issued' = issued + 1 /\ current' = issued + 1 /\ protection' = reasons
  /\ agent' = "loading"
  /\ UNCHANGED <<open, working, asked, withdrawn, skipped, channels>>

\* ensureConnected with one: a worker whose start has failed starts again, and a
\* start under way is shared.
Restarted ==
  /\ agent' = IF agent = "down" /\ Running("connecting") = {} THEN "loading" ELSE agent
  /\ UNCHANGED <<open, working, asked, withdrawn, skipped>>
-----------------------------------------------------------------------------
(***************************************************************************)
(* Calls of the user and of other parts of main.                           *)
(***************************************************************************)
\* startPrompt: with no client the queues of the last one are cleared first.
Prompt ==
  /\ Main /\ Roomy /\ lifecycle < MaxTurns
  /\ status' = "running" /\ lifecycle' = lifecycle + 1
  /\ \/ /\ current = 0
        /\ Deleted(Kinds) /\ seen' = {} /\ Created({"turn"})
     \/ /\ current # 0
        /\ protection' = protection \union {"turn"}
        /\ Restarted
        /\ UNCHANGED <<queue, card, seen, answering, pump, current, issued, channels>>
  /\ turn' = [turn EXCEPT ![lifecycle + 1] = [stage |-> "connecting", client |-> current']]
  /\ UNCHANGED <<mode, cancelled, spinning, pathChanges>>

\* The connection is up: client.prompt sends the request.
PromptSent(t) ==
  /\ Main /\ agent = "loaded"
  /\ t \in Running("connecting") /\ \A other \in Running("connecting") : t <= other
  /\ turn' = [turn EXCEPT ![t].stage = "sent"]
  /\ outbox' = Append(outbox, [type |-> "prompt", turn |-> t])
  /\ UNCHANGED <<record, queues, lifecycle, cancelled, answers, pathChanges, managed, worker,
                 inbox>>

\* The prompts `failed' of the current client fail: the catch handler of each.
PromptsFail(failed) ==
  /\ turn' = [t \in Turns |-> IF t \in failed THEN [turn[t] EXCEPT !.stage = "over"] ELSE turn[t]]
  /\ protection' = Without("turn")
  /\ status' = IF failed \subseteq {cancelled} THEN status ELSE "failed"

\* The prompts that await the connection share its promise: the start has failed
\* in the worker, or has taken 60 s.
ConnectionFails ==
  /\ Main /\ Running("connecting") # {} /\ Running("sent") = {}
  /\ PromptsFail(Running("connecting"))
  /\ UNCHANGED <<card, mode, queues, lifecycle, cancelled, answers, pathChanges, current,
                 issued, worker, channels>>

\* A prompt of a client that is no longer current settles: neither handler acts.
StalePromptEnds(t) ==
  /\ Main /\ turn[t].stage \in {"connecting", "sent"} /\ turn[t].client # current
  /\ turn' = [turn EXCEPT ![t].stage = "over"]
  /\ UNCHANGED <<record, queues, lifecycle, cancelled, answers, pathChanges, managed, worker,
                 channels>>

\* cancelTurn.
CancelTurn ==
  /\ Main /\ Roomy
  /\ cancelled' = lifecycle
  /\ outbox' = IF current = 0 THEN outbox ELSE Append(outbox, [type |-> "cancel"])
  /\ Deleted(Kinds) /\ seen' = {} /\ protection' = {} /\ status' = "idle"
  /\ UNCHANGED <<mode, turn, lifecycle, spinning, pathChanges, current, issued, worker, inbox>>

\* answerPermission and answerInteraction up to their await.
UserAnswers(kind) ==
  /\ Main /\ Roomy /\ answering = None
  /\ card[kind] # None /\ card[kind] = HeadOf(queue[kind]) /\ current # 0
  /\ answering' = [id |-> card[kind], client |-> current, stale |-> FALSE]
  /\ outbox' = Append(outbox, [type |-> "answer", id |-> card[kind], by |-> "user"])
  /\ UNCHANGED <<record, queues, turns, pump, spinning, pathChanges, managed, worker, inbox>>

\* ... without a client: the queue is cleared and the session reconnects.
UserAnswersOffline(kind) ==
  /\ Main /\ answering = None
  /\ card[kind] # None /\ card[kind] = HeadOf(queue[kind]) /\ current = 0
  /\ Deleted({kind}) /\ seen' = (IF kind = "permission" THEN {} ELSE seen) /\ Created({})
  /\ UNCHANGED <<status, mode, turns, spinning, pathChanges>>

\* updateSession with a permission mode.
SetMode(permissionMode) ==
  /\ Main /\ Roomy /\ permissionMode # mode
  /\ mode' = permissionMode
  /\ \/ current # 0 /\ permissionMode = "auto" /\ PumpCalled(queue["permission"], permissionMode)
     \/ (current = 0 \/ permissionMode = "ask") /\ UNCHANGED <<pump, spinning, outbox>>
  /\ UNCHANGED <<status, card, queues, turns, answering, pathChanges, managed, worker, inbox>>

\* updateSession with another reasoning effort: the client is stopped; Reconnect follows.
ChangeEffort ==
  /\ Main /\ current # 0
  /\ Deleted(Kinds) /\ seen' = {} /\ Detached
  /\ UNCHANGED <<status, mode, turns, spinning, pathChanges>>

\* reconnectSelectedSession, or the reconnection after a change of effort.
Reconnect ==
  /\ Main /\ current = 0
  /\ Created({})
  /\ UNCHANGED <<record, queues, turns, answers, pathChanges>>

\* setGrokCliPath: stopAll takes every client out; no queue is cleared.
SetGrokCliPath ==
  /\ Main /\ pathChanges < MaxPathChanges /\ current # 0
  /\ pathChanges' = pathChanges + 1
  /\ Detached
  /\ UNCHANGED <<record, queues, turns, answers>>

\* SessionManager evicts the session once nothing protects it.
Evict ==
  /\ Main /\ current # 0 /\ protection = {}
  /\ Detached
  /\ UNCHANGED <<record, queues, turns, answers, pathChanges>>

\* The worker exits by itself: the 'exit' handler.
ClientExits ==
  /\ Main /\ current # 0
  /\ Deleted(Kinds) /\ seen' = {} /\ Detached
  /\ status' = IF status = "idle" THEN status ELSE "failed"
  /\ UNCHANGED <<mode, turns, spinning, pathChanges>>

-----------------------------------------------------------------------------
(***************************************************************************)
(* What main receives from the current client.                             *)
(***************************************************************************)
Receives(type) == Main /\ inbox # <<>> /\ Head(inbox).type = type /\ inbox' = Tail(inbox)

\* The prompt settles: the then handler, or the catch handler.
PromptEnds ==
  /\ Receives("prompted")
  /\ LET t == Head(inbox).turn IN
     \/ /\ Head(inbox).ok
        /\ turn' = [turn EXCEPT ![t].stage = "over"] /\ protection' = Without("turn")
        /\ status' = "idle"
     \/ ~Head(inbox).ok /\ PromptsFail({t})
  /\ UNCHANGED <<card, mode, queues, lifecycle, cancelled, answers, pathChanges, current, issued,
                 worker, outbox>>

\* Mutant: one request too many.
FullLate(kind) == Len(queue[kind]) > MaxQueue

Full(kind) == Len(queue[kind]) >= MaxQueue

\* Mutant: the agent is not told.
RefusedQuietly(kinds, reasons) ==
  /\ status' = "failed" /\ protection' = reasons
  /\ queue' = [kind \in Kinds |-> IF kind \in kinds THEN <<>> ELSE queue[kind]]
  /\ card' = [kind \in Kinds |-> IF kind \in kinds THEN None ELSE card[kind]]
  /\ UNCHANGED <<answers, outbox>>

\* The request is refused: the agent's turn is cancelled and the session fails.
Refused(kinds, reasons) ==
  /\ outbox' = Append(outbox, [type |-> "cancel"])
  /\ status' = "failed" /\ protection' = reasons
  /\ queue' = [kind \in Kinds |-> IF kind \in kinds THEN <<>> ELSE queue[kind]]
  /\ card' = [kind \in Kinds |-> IF kind \in kinds THEN None ELSE card[kind]]
  /\ answering' = Stale(answering, kinds) /\ pump' = Stale(pump, kinds)
  /\ UNCHANGED spinning

\* Mutant: the newest request first.
QueuedFirst(id) ==
  [queue EXCEPT ![KindOf(id)] = <<[id |-> id, client |-> current]>> \o @]

Queued(id) == [queue EXCEPT ![KindOf(id)] = Append(@, [id |-> id, client |-> current])]

\* onPermission, after SessionManager has protected the session.
PermissionAsked ==
  /\ Receives("asked") /\ KindOf(Head(inbox).id) = "permission"
  /\ LET id == Head(inbox).id IN
     /\ seen' = seen \union {id}
     /\ \/ /\ id \in seen
           /\ protection' = protection \union {"input"}
           /\ UNCHANGED <<status, card, queue, answers, outbox>>
        \/ id \notin seen /\ ~Head(inbox).options /\ Refused({}, protection \union {"input"})
        \/ /\ id \notin seen /\ Head(inbox).options /\ Full("permission")
           /\ Refused({"permission"}, protection \union {"input"})
        \/ /\ id \notin seen /\ Head(inbox).options /\ ~Full("permission")
           /\ HeadSynced(Queued(id), "permission") /\ PumpCalled(queue'["permission"], mode)
           /\ UNCHANGED answering
  /\ UNCHANGED <<mode, turns, pathChanges, current, issued, worker>>

\* onInteraction.  (The guard against an id that is queued already is left out:
\* AcpClient gives each interaction a new random id.)
QuestionAsked ==
  /\ Receives("asked") /\ KindOf(Head(inbox).id) = "question"
  /\ \/ /\ Full("question")
        /\ Refused({"question"}, InputSynced([queue EXCEPT !["question"] = <<>>]))
     \/ /\ ~Full("question") /\ HeadSynced(Queued(Head(inbox).id), "question")
        /\ UNCHANGED <<answers, outbox>>
  /\ UNCHANGED <<mode, seen, turns, pathChanges, current, issued, worker>>

\* The queue q without the request `id': splice at its index.
Spliced(q, id) == RemoveFirstMatch(q, LAMBDA request : request.id = id)

\* Mutant: the card is left as it is.
ResolvedUnsynced ==
  /\ Receives("resolved")
  /\ queue' = [queue EXCEPT !["question"] = Spliced(@, Head(inbox).id)]
  /\ UNCHANGED <<status, card, protection, mode, seen, turns, answers, pathChanges, current, issued,
                 worker, outbox>>

\* onInteractionResolved.
QuestionResolved ==
  /\ Receives("resolved")
  /\ LET left == [queue EXCEPT !["question"] = Spliced(@, Head(inbox).id)] IN
     \/ left # queue /\ HeadSynced(left, "question")
     \/ left = queue /\ UNCHANGED <<status, card, queue, protection>>
  /\ UNCHANGED <<mode, seen, turns, answers, pathChanges, current, issued, worker, outbox>>

\* Mutant: the pump leaves what it has answered in the queue.
ShiftedUnlessPump(answer) ==
  IF answer.stale \/ answer = pump THEN queue ELSE [queue EXCEPT ![KindOf(answer.id)] = Tail(@)]

\* The queues once `answer' is accepted: the array it was taken from is shifted.
Shifted(answer) ==
  IF answer.stale THEN queue ELSE [queue EXCEPT ![KindOf(answer.id)] = Tail(@)]

\* answerPermission and answerInteraction after their await.
UserAnswered ==
  /\ Receives("answered") /\ Head(inbox).by = "user"
  /\ LET id == Head(inbox).id
         kind == KindOf(id) IN
     \/ /\ Head(inbox).ok /\ HeadOf(queue[kind]) = id
        /\ HeadSynced(Shifted(answering), kind)
        /\ \/ kind = "permission" /\ mode = "auto" /\ PumpCalled(queue'[kind], mode)
           \/ (kind = "question" \/ mode = "ask") /\ UNCHANGED <<pump, spinning, outbox>>
     \/ /\ ~Head(inbox).ok \/ HeadOf(queue[kind]) # id
        /\ UNCHANGED <<status, card, queue, protection, pump, spinning, outbox>>
  /\ answering' = None
  /\ UNCHANGED <<mode, seen, turns, pathChanges, current, issued, worker>>

\* pumpAutoPermissions after its await, up to the next one or to its end.
PumpAnswered ==
  /\ Receives("answered") /\ Head(inbox).by = "pump"
  /\ LET head == HeadOf(queue["permission"]) IN
     \/ /\ Head(inbox).ok /\ head = pump.id
        /\ HeadSynced(Shifted(pump), "permission")
        /\ PumpRuns(queue'["permission"], mode, outbox) /\ UNCHANGED mode
     \/ /\ Head(inbox).ok /\ head # pump.id
        /\ PumpAgain
        /\ UNCHANGED <<record, queue, protection>>
     \/ /\ ~Head(inbox).ok
        /\ status' = "waiting" /\ mode' = "ask" /\ pump' = None
        /\ UNCHANGED <<card, queue, protection, spinning, outbox>>
  /\ UNCHANGED <<seen, turns, answering, pathChanges, current, issued, worker>>

\* An answer of a client that is no longer current is rejected.
StaleUserAnswerEnds ==
  /\ Main /\ answering # None /\ answering.client # current
  /\ answering' = None
  /\ UNCHANGED <<record, queues, turns, pump, spinning, pathChanges, managed, worker, channels>>

StalePumpEnds ==
  /\ Main /\ pump # None /\ pump.client # current
  /\ PumpAgain
  /\ UNCHANGED <<record, queues, turns, answering, pathChanges, managed, worker, inbox>>
-----------------------------------------------------------------------------
(***************************************************************************)
(* The worker of the current client, and its agent.                        *)
(***************************************************************************)
Sent(event) == inbox' = Append(inbox, event)
Unopened(id) == [open EXCEPT ![KindOf(id)] = RemoveFirst(@, id)]

\* AcpClient.startFresh has loaded the session: acpSessionId is set.
AgentLoads ==
  /\ agent = "loading" /\ agent' = "loaded"
  /\ UNCHANGED <<record, queues, turns, answers, pathChanges, managed, open, working, asked,
                 withdrawn, skipped, channels>>

Opened == ToSet(open["permission"]) \union ToSet(open["question"])

\* ... or has failed: stop clears the tables while the process ends.
StartFails ==
  /\ agent = "loading" /\ agent' = "stopping"
  /\ open' = Empty /\ skipped' = {} /\ withdrawn' = withdrawn \union Opened
  /\ UNCHANGED <<record, queues, turns, answers, pathChanges, managed, working, asked, channels>>

\* The process is gone: it has been stopped, or has exited, and main is not told yet.
AgentEnds ==
  /\ agent \in {"loaded", "stopping"} /\ agent' = "down"
  /\ UNCHANGED <<record, queues, turns, answers, pathChanges, managed, open, working, asked,
                 withdrawn, skipped, channels>>

\* AcpClient.prompt.
WorkerPrompts ==
  /\ outbox # <<>> /\ Head(outbox).type = "prompt" /\ outbox' = Tail(outbox)
  /\ \/ /\ agent = "loaded"
        /\ working' = working \union {Head(outbox).turn} /\ UNCHANGED inbox
     \/ /\ agent # "loaded"
        /\ Sent([type |-> "prompted", turn |-> Head(outbox).turn, ok |-> FALSE])
        /\ UNCHANGED working
  /\ UNCHANGED <<record, queues, turns, answers, pathChanges, managed, agent, open, asked,
                 withdrawn, skipped>>

\* AcpClient.cancel: every open request is answered "cancelled".  Without a
\* session it returns at once.
WorkerCancels ==
  /\ outbox # <<>> /\ Head(outbox).type = "cancel" /\ outbox' = Tail(outbox)
  /\ \/ /\ agent = "loaded"
        /\ open' = Empty /\ skipped' = {} /\ withdrawn' = withdrawn \union Opened
     \/ /\ agent # "loaded"
        /\ skipped' = skipped \union Opened /\ UNCHANGED <<open, withdrawn>>
  /\ UNCHANGED <<record, queues, turns, answers, pathChanges, managed, agent, working, asked,
                 inbox>>

\* AcpClient.answerPermission and answerInteraction: the entry is removed once the
\* answer is written, which needs a process.
WorkerAnswers ==
  /\ outbox # <<>> /\ Head(outbox).type = "answer" /\ outbox' = Tail(outbox)
  /\ LET id == Head(outbox).id
         answered(ok) == Sent([type |-> "answered", id |-> id, by |-> Head(outbox).by, ok |-> ok])
     IN
     \/ /\ agent \in {"loading", "loaded"} /\ id \in ToSet(open[KindOf(id)])
        /\ open' = Unopened(id) /\ skipped' = skipped \ {id} /\ answered(TRUE)
     \/ /\ agent # "loaded" \/ id \notin ToSet(open[KindOf(id)])
        /\ UNCHANGED <<open, skipped>> /\ answered(FALSE)
  /\ UNCHANGED <<record, queues, turns, answers, pathChanges, managed, agent, working, asked,
                 withdrawn>>

\* The agent asks, with a prompt or without one, also while it loads the session (a
\* new session has no id yet, and its requests are rejected); an interaction beyond
\* the cap of 64 is refused in the worker.
AgentAsks(id, options) ==
  /\ agent # "down" /\ Len(inbox) < MaxInFlight
  /\ id \notin asked \/ (id \in Reasked /\ id \notin ToSet(open[KindOf(id)]))
  /\ (KindOf(id) = "question" => options /\ Len(open["question"]) < MaxQueue)
  /\ asked' = asked \union {id} /\ withdrawn' = withdrawn \ {id}
  /\ open' = [open EXCEPT ![KindOf(id)] = Append(@, id)]
  /\ Sent([type |-> "asked", id |-> id, options |-> options])
  /\ UNCHANGED <<record, queues, turns, answers, pathChanges, managed, agent, working, skipped,
                 outbox>>

\* interaction_resolved: another client of the agent has answered the question.
AgentResolves(id) ==
  /\ agent # "down" /\ Len(inbox) < MaxInFlight /\ id \in ToSet(open["question"])
  /\ open' = Unopened(id) /\ withdrawn' = withdrawn \union {id} /\ skipped' = skipped \ {id}
  /\ Sent([type |-> "resolved", id |-> id])
  /\ UNCHANGED <<record, queues, turns, answers, pathChanges, managed, agent, working, asked,
                 outbox>>

\* The prompt's response, or its failure.
AgentFinishes(t, ok) ==
  /\ t \in working /\ (ok => agent = "loaded") /\ Len(inbox) < MaxInFlight
  /\ working' = working \ {t}
  /\ Sent([type |-> "prompted", turn |-> t, ok |-> ok])
  /\ UNCHANGED <<record, queues, turns, answers, pathChanges, managed, agent, open, asked,
                 withdrawn, skipped, outbox>>
-----------------------------------------------------------------------------
MainHandles ==
  \/ PromptEnds \/ PermissionAsked \/ QuestionAsked \/ QuestionResolved
  \/ UserAnswered \/ PumpAnswered \/ StaleUserAnswerEnds \/ StalePumpEnds

WorkerHandles == WorkerPrompts \/ WorkerCancels \/ WorkerAnswers

Next ==
  \/ Prompt \/ ConnectionFails \/ CancelTurn \/ ChangeEffort \/ Reconnect \/ SetGrokCliPath \/ Evict \/ ClientExits
  \/ \E t \in Turns : PromptSent(t) \/ StalePromptEnds(t)
  \/ \E kind \in Kinds : UserAnswers(kind) \/ UserAnswersOffline(kind)
  \/ \E permissionMode \in {"ask", "auto"} : SetMode(permissionMode)
  \/ MainHandles \/ WorkerHandles \/ AgentLoads \/ StartFails \/ AgentEnds
  \/ \E id \in Ids, options \in BOOLEAN : AgentAsks(id, options)
  \/ \E id \in Questions : AgentResolves(id)
  \/ \E t \in Turns, ok \in BOOLEAN : AgentFinishes(t, ok)

Spec == Init /\ [][Next]_vars

\* Node runs the callbacks of settled promises and delivered messages; nothing
\* obliges the agent or the user to act.
FairSpec == Spec /\ WF_vars(MainHandles) /\ WF_vars(WorkerHandles)
-----------------------------------------------------------------------------
(***************************************************************************)
(* Properties.                                                             *)
(***************************************************************************)
InInbox(type, id) ==
  \E i \in DOMAIN inbox : inbox[i].type = type /\ inbox[i].id = id
InOutbox(type) == \E i \in DOMAIN outbox : outbox[i].type = type
InQueue(id) == \E i \in DOMAIN queue[KindOf(id)] : queue[KindOf(id)][i].id = id

\* The card the renderer shows is the head of its queue, whatever interleaves:
\* an answer is checked against both.
CardIsHead == \A kind \in Kinds : card[kind] = HeadOf(queue[kind])

\* A session with a queued request of its current client is not evicted: "input"
\* protects it.
InputProtected ==
  (\E kind \in Kinds : \E i \in DOMAIN queue[kind] : queue[kind][i].client = current)
    => "input" \in protection

\* No request is lost: what the agent waits for is queued, on its way to the
\* queue, or about to be cancelled.  Only a cancel that meets no session leaves
\* requests open which main has dropped.  (An id asked twice may be dropped.)
OpenIsQueued ==
  \A id \in Ids \ (Reasked \union skipped) : id \in ToSet(open[KindOf(id)])
    => InQueue(id) \/ InInbox("asked", id) \/ InOutbox("cancel")

\* One answer per request: what left the worker's table for an answer leaves the
\* queue with the reply; only a withdrawn request may outlive it there.  (Of an
\* id asked twice an answer to the first request may be taken for the second.)
AnsweredLeaves ==
  \A kind \in Kinds : \A i \in DOMAIN queue[kind] :
    LET request == queue[kind][i] IN
    request.client = current /\ request.id \notin ToSet(open[kind]) \union withdrawn \union Reasked
      => InInbox("answered", request.id)

\* Auto accept drains the queue, or gives up and asks the user.
AutoDrains ==
  (mode = "auto" /\ queue["permission"] # <<>>) ~> (mode = "ask" \/ queue["permission"] = <<>>)

\* docs/PARITY_MATRIX.md: pending cards drain under Auto accept, here whatever
\* happens to the client that asked.
PendingCardsDrain ==
  (mode = "auto" /\ queue["permission"] # <<>> /\ current # 0)
    ~> (mode = "ask" \/ queue["permission"] = <<>>)
=============================================================================
