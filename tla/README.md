# A formal model of GrokBuild (Electron)

TLA+ modules, TLC runs and TLAPS proofs for GrokBuild, a desktop client around
`grok agent stdio`. Paths below are relative to the repository; `main/` stands for
`src/main/`.

## 1. The system

One Electron main process owns all state. For each connected session it forks a
utility process (`main/acp/worker.ts`) that runs one Grok child and speaks
JSON-RPC with it. The renderer shows snapshots and calls main through IPC. Main is
one JavaScript thread: its concurrency is what happens at each `await`, in event
callbacks, and between it and its children, other programs on the disk, and the
renderer, whose picture of main is always a little old.

| Component | State | Operations | Interacts with | What makes it correct | Modules |
|---|---|---|---|---|---|
| `acp/SessionManager` | live clients, generations, protections, touch order, deferred events, stops | create, createDeferred, activateDeferred, setProtection, enforceLimit, stop, stopAll, client events | AppController, clients | only the newest client is heard, in order; no worker leaks; the soft limit; stopAll is a barrier | `SessionManager` |
| Turns and requests of a session | record, permission and question queues, turn numbers, Auto accept pumps | sendPrompt, cancelTurn, answers, request events, setGrokCliPath | SessionManager, the worker, renderer | no request lost or left unanswered; the card is the head; who waits is protected; Auto accept drains | `SessionTurns` |
| Agent worker (`AcpWorkerClient`, `worker`, `AcpClient`) | requests, start and stop promises, the child | start, prompt, cancel, answers, stop | SessionManager, Grok | a started client has a child; stop returns; a crash is heard; each request of Grok is answered once unless it is sent again | `AcpChannel`, `AgentRequests` |
| Terminal and file hosts | terminals and their output; files | host calls of Grok | worker, disk | nothing runs after stopAll; exact output budget; a new file clobbers nothing | `TerminalHost`, `FsHost` |
| Activity projection | scheduled tasks, commands, workflows, goals | events, starts, cache | SessionManager (protection) | live work is protected, work that is over is not | `Activity` |
| Transcript reducer | transcript and status | every event | AppController | order, bounds, nothing open after a turn | `Transcript` |
| Persistence lane, `AppStateStore` | dirty flag, timer, save in flight, failure | emitChanged, flush, transactions, stop | every mutation | no lost wake-up; what was reported as saved is saved | `SavedState`, `PersistenceLane`, `DurableState` |
| Saved agents, `AgentRosterStore` | roster file, bindings, lock file | bind, close, fork, copy, delete, recover | state file, other processes | no session ever runs as a wrong agent; no lost mutation | `AgentBindings`, `RosterStore` |
| Projects and workspaces | order, pins, selection, health | select, move, close, remove, duplicate, health checks, memory setting | roster, lane, SessionManager | an undone close or removal is undone; no worker in an unusable workspace | `Layout`, `Workspaces` |
| Memory broker | MEMORY.md, lock file, tokens | remember, list, read, delete | disk | no lost note; deletes only what was listed | `MemoryNotes`, `MemoryFiles` |
| Model configuration | config.toml, flock | edit, stop | disk, Grok, user | no lost edit; the lock is freed; no dangling provider | `ModelConfig` |
| Session history, attachments, agent catalog | one-shot tokens, handles, caches | list, open, delete; stage, consume; list, resolve | disk, CLI | a token stands for what was shown | `SessionHistory`, `Attachments`, `AgentCatalog` |
| Swift migration | previews, the merge | preview, apply | state, lane | adds only; idempotent | `SwiftImport` |
| Update transactions and the quit | lock, quiescence, candidate, terminal flags | installCli, installApp, check, before-quit | AppController, services | one at a time; nothing runs through an unverified binary; a quit ends | `UpdateInstall` |
| Update services | stages, bundle, feed, Squirrel | stage, verify, prepare, sweep | disk, Squirrel | the release that was offered is what is installed; nothing stays behind | `AppRelease` |
| git, Grok CLI, plutil, open | child processes | inspect, list, open | disk | whole answers; what is given up is killed | `ToolRuns` |
| Renderer | composer, queue of prompts, panels | submit, queue, refresh | main by IPC | messages in order; a panel shows its project | `PromptQueue`, `Panels` |
| MCP service, control server, notifications, IPC, preload | none or nearly none | | | not modelled, see section 5 | |

What is hard to test here is listed line by line in `PROJECT.json` under
"hazards", each with the properties that would catch it going wrong.

## 2. Modules and runs

| Run | Module of the run | Components it holds | Properties |
|---|---|---|---|
| `main_state` | `MCMainState` | `SessionManager`; `PersistenceLane` | HeardInOrder, NothingLost, NoOrphanWorker, StopAllIsBarrier, StopAllTerminates; NothingForgotten, FailedIsUndone, ImplementsDurable, Settles |
| `turns` | `MCSessionTurns` | four instances of `SessionTurns` | CardIsHead, InputProtected, OpenIsQueued, AnsweredLeaves, AutoAcceptDrains |
| `bindings` | `MCAgentBindings` | `AgentBindings` | ClosedForGood, ForksSurvive, IdentityKept, StopEnds |
| `lifecycle` | `MCLifecycle` | `UpdateInstall`; `AcpChannel` | NothingRunsDuringUpdate, IrreversibleKeepsGates, FilesReclaimed, QuitSparesCliInstall, QuitCompletes; StartIsTrue, StopReturns, CrashIsHeard |
| `agent_worker` | `MCAgentWorker` | `AgentRequests`, `TerminalHost`, `FsHost`, `ToolRuns`, `Activity`, `Transcript` | AnsweredOnce, NothingSaidIsLost, StoppedMeansGone, AccountsAreTrue, NewFileNeverClobbers, ReadsAreWhole |
| `services` | `MCServices` | `MemoryNotes`, `MemoryFiles`, `RosterStore`, `ModelConfig`, `SessionHistory`, `Attachments`, `AgentCatalog`, `SwiftImport`, `Layout`, `Workspaces`, `AppRelease`, `PromptQueue`, `Panels`, and `SessionManager` as a pool | SavedIsKept, TokensOfNewestList, ActsOnWhatWasShown, NothingLeaks, LimitHeld, ReferencesKept, DecidesOnWhatIsTrue, EvictsOldestUnprotected |
| `turns_new_path` | `SessionTurns` | refutes | PendingCardsDrain |
| `bindings_recovery` | `MCAgentBindings` | refutes | RecoveryHelps |
| `channel_stop` | `AcpChannel` | refutes | StopIsClean |
| `memory_recovery` | `MemoryNotes` | refutes | NotesKept |
| `activity_retry` | `Activity` | refutes | LiveWorkIsProtected |
| `queue_failure` | `PromptQueue` | refutes | FailedDeliveryKeepsQueue |

Components in one run share no state: a variable of the MC module (`part`,
`service`, `instance`) chooses one of them in the initial state, and the others stay
as they are. `MCServices` and `MCAgentWorker` state one property for each promise
that several components make ("what was reported as saved is kept"); it is the
conjunction of the components' own properties, which stand at the end of their
modules with the code they are about. `MCServices` gives its sixteen anonymous variables
to whichever service was chosen. `Holders` has those of them, and the instances, whose services hold
something for somebody (locks, handles, workers, tokens, directories, queued prompts), apart from
the rest so that the proofs about them see only them. The managed sessions of the pool are symmetric; all other
values are told apart.

Operators commented "Mutant:" are no part of a specification: each states a
plausible bug in place of the definition that follows it and must make the property
named for it fail. Each component has one, and each property at least one.

What follows names for each module what its state and actions are in the code, what
is simplified, and how far the bounds go.

### SessionManager (`main/acp/SessionManager.ts`)

`clients` is the code's Map; a client is `<<session, generation>>`. One action
is one public method or one callback of a client. `touchedAt` is replaced by the
order it induces (`older`). The loop of `evictIfNeeded` is one step: `IsEvicted`
says which set of victims it ends with. `running`, `exited` and `stopping` follow
the worker processes after a client has left the Map. `heard`, `barrier`,
`unswept` and `exempt` are history variables.

In `main_state`: one session, two generations, two events per client, a deferred queue of
two events or one byte, limits 0 and 1. This covers live and deferred clients, both overflow
causes, exit by report and by process end, eviction, stop and stopAll at any time;
more generations add nothing, because a superseded client is mute whatever its
successors are. In `services` ("pool") three sessions without events: the least with a choice
between two victims and a spared one; `LimitHeld` and `EvictsOldestUnprotected`
depend on the calls only (`Call`). It was also run with two protection reasons.
Fairness: every `client.stop()` settles (it has a six second timeout), and the loop of
`stopAll` goes on.

### PersistenceLane, SavedState, DurableState (`main/AppController.ts`, `main/persistence/AppStateStore.ts`)

A state is the set of the changes it contains: `memory` is `AppController.state`,
`disk` the file. `SavedState` has the kinds of change, the variables and what is
promised of them; `PersistenceLane` has the code. `lane` holds persistDirty,
persistTimer, persistInFlight and the saves whose file operations are under way, each
with the clone it writes. `flush` says at which await each flushPersistence stands:
that of the open transaction and that of `stop`. `Looped` and `Resumed` are the loop of
flushPersistence between two awaits. Every save may fail.

There are four kinds of change. Edits are emitted and nobody waits. Removals
(closeSession, removeProject) and insertions (forkSession, openSessionHistory)
are made, emitted and flushed strictly, and undone when the flush throws: an
insertion flushes its rollback, a removal first restores the saved-agent bindings
and emits, or does not emit if that fails (`Restored`). Prepared changes (memory
setting, state import) are written before they are made.

Simplifications. One transaction is open at a time (`Open`): assertNoStateTransaction
and agentRosterTransaction exclude the others. Promise callbacks run before main
takes a timer or the end of a file operation (`MicrotasksDone`), so a flush that ends and
what its caller does next are one step. `Edit` is also allowed where a lock would reject
some of the changes it stands for, which only adds behaviours. Two changes that
undo each other are not one change: only transactions shrink a state. Reading the file at
start, and setting an unreadable one aside, is left out.

Two edits, a transaction of each kind, and a quit: enough for a flush to meet a debounced
save, another flush and a change made during its await. A history open may go on during
the quit because `stop` does not wait for it. Fairness: timers fire, file operations end
and promise callbacks run; nobody is obliged to change anything. `Settles` excepts a failed
save: the code reports it and does not repeat it until the next change (`main/AppController.ts:3463`).

`DurableState` is the promise without the lane: what was reported as saved is in
the state and in the file from then on, and a save takes nothing out of the file that
the state still holds. `ImplementsDurable` is the refinement.

### SessionTurns (`main/AppController.ts`, request tables and `cancel` of `main/acp/AcpClient.ts`)

One background session: only "turn" and "input" protect it ("selected" and
"activity" only add protection). The worker of the current client is two FIFO channels
(`outbox`, `inbox`) and its table of open requests; the channels of a replaced client
vanish, and what awaited it settles through `StalePromptEnds`, `StaleUserAnswerEnds` and
`StalePumpEnds`, as `isCurrent` has it. `HeadSynced` is `syncPermissionHead`
or `syncInteractionHead`, `InputSynced` is `syncInputProtection`. An answer
remembers the array it was taken from (`stale`): the code shifts that array even
if the queue was deleted meanwhile. `spinning` is set when the pump's `finally` block
requeues itself with nothing it could do: main then runs no other callback.

`agent` is the process of Grok in the worker: it loads its session (`AgentLoads`), fails to (`StartFails`), or ends, and main
learns of it later or not at all. Grok asks whenever it has a process, with a prompt or without one and also during
`session/load`, as `handleServerRequest` has no guard. A cancel empties the table of the worker only if the session has
its id (`main/acp/AcpClient.ts:370`); main's `cancelTurn` has cleared its queues by then. The ids that such a cancel leaves open and
in no queue are `skipped`, which `OpenIsQueued` excepts, and nothing else: until the next cancel, the answer of another client of the
agent or the end of the process, Grok waits for them and the user sees no card.

Simplifications: one answer of the user at a time; a prompt is a number; an
option list is empty or not; the failure of a connection is the failure of all
prompts that await it; a client is stopped and its channels dropped in one step
(the late worker is the matter of SessionManager). Bounds: `MaxTurns`, `MaxClients`,
`MaxInFlight` (messages in a channel when a new one is caused), `MaxPathChanges`; `MaxQueue`
is the code's 64.

`turns` has four instances. "auto": three permissions of one client and a queue of two; the third
overflows it, a cancel crosses requests and answers, and Auto accept is toggled at any
time. The others have two clients, a queue of one and a change of the CLI path: "permits" one prompt and a permission that the
agent may ask twice, "asks" one prompt and two questions, "cards" that permission and a question, without a prompt, so that both
queues are filled at once. One message may be in a channel when another is caused, which is enough for an answer
or a cancel to cross a new request. Fairness, in "auto" only: main and the
worker handle what is in their channels; the agent and the user owe nothing. `Reasked` names the
permission ids an agent repeats. Main drops a repeated id as a duplicate (`main/AppController.ts:2829`),
so `OpenIsQueued` and `AnsweredLeaves` except them too.

### AgentBindings (`main/AppController.ts`, `main/agents/AgentRosterStore.ts`)

Which agent a session has is in the roster file; the session itself is in the state
file. An operation changes the one, then the other, and undoes the first change when the
second fails. `memory` and `disk` are the sessions of main and of the state file, `file` and
`known` the roster of the file and the one main has loaded, `known.fresh` whether main's revision
is the file's. `slot` is the operation that holds agentRosterTransaction: its await
(`step`), the sessions it works on, the child it makes, and the rosters before and after
its change. `may` is a history variable: the bindings the user of a session has to
expect. An operation that succeeds leaves one, an operation that fails without an
answer from the store, or that a crash interrupts, may leave two.

`StoreSaves`, `StoreFails` and `StoreUnsure` are the outcomes of AgentRosterStore.commit; in
the last the directory could not be synced after the rename, so that the mutation is
reported as failed and is in the file. Each action follows one of the three through the
code that awaits it: the reload after a conflict (`Reloads`, which preclearSessionBindings
does not do), the two attempts of compensateSessionBinding, and failAgentRosterRuntime.
`Crash` may come at any step, `Start` drops the bindings of sessions that are not in the
state file.

Simplifications. The lane is a dirty flag, one save and its failure. Workers are left out:
an operation that only awaits them is at step "end". Edits of transcripts and selections are
`Edit`. A second writer of the roster is in RosterStore; damage comes between runs. A session id is
used once.

`bindings` has two sessions of one project, so that a session can be copied, and closed alone
or with its project; one agent, which can be bound, taken away, deleted and created
again (the proofs cover any number); one edit, so that a save can be under way when a flush
starts. Fairness: file operations end and promise callbacks run; the operation that is open goes
on, and the exit. `StopEnds` holds because a fork that waits for its client races stopRequested.

### UpdateInstall (`main/updates/*Coordinator.ts`, `UpdateOperationLock.ts`, quiescence and stop of `main/AppController.ts`, quit of `main/index.ts`)

A run is one call of `installCli`, `installApp` or `check`; `pc` names the await
it is at. Everything between two awaits is one action, so the runs, connections,
integration operations and a quit interleave exactly where the code lets them.
Each awaited service succeeds or fails. The code's `finally` and `catch` blocks
are `CliEnds`, `AppFails` and `AppCleaned`. `binary` is "unknown" from the spawn
of `grok update` until the version was read back. `integrations` is bounded by 1.

`lifecycle` has two runs of each kind: enough for contention between two of a kind
and between kinds, for a retry after a failure, and for a second install against
the candidate of the first. Fairness: an active run takes its next step (each
awaited service has a timeout; a dialog is answered), and `stop`, the quit
cleanup and the exit go on. `QuitCompletes` therefore depends on the user
answering an open CLI confirmation: the quit waits for that run.

### AcpChannel (`main/acp/AcpWorkerClient.ts`, `main/acp/worker.ts`, `main/acp/AcpClient.ts`)

One connection from main to the Grok child: two FIFO channels between main and the
worker, the steps of `startFresh` and `stopFresh` in the worker, and the calls of main.
The child is one variable: an answer of it is a step of the worker. Faults (`MaxFaults`) are exits of the
child, crashes of the worker, steps of a start that fail and timers that fire. `Calls` has one
call that awaits a start and one that does not; `MaxStarts = 2` lets a failed start be tried again.
Fairness: posted messages are delivered, a process that was told to end ends, the waits of the shutdown
end. The timers of main and the answers of the child owe nothing, so `StopReturns` shows that
stop() returns without its own timer.

### AgentRequests (`main/acp/AcpClient.ts`)

Permissions, plan reviews and questions from the request to its answer, under keys that Grok
may repeat and a bound of open ones. `asked` remembers what a request was; `said` and `sent` are what the user
answered and what was written for it, in the step of the answer. Three JSON-RPC ids over two keys let a key be reused while it is open.

Grok may send a request again at any time. The code looks at the bound of 64 first (`main/acp/AcpClient.ts:760`) and for the
key of an open request only then (line 771): a request that is open and sent again while the table is full is answered
"cancelled", and again when the user answers it. One that was answered and forgotten is opened a second time. `again` counts the
times at which a request was sent again and not recognised (`MaxAgain` bounds it), and `AnsweredOnce` allows one more answer for each, and no other.

The answer to a question is written under its text (lines 1206, 1288, 1306), which the schema does not make unique: of questions with
one text only the last answer is told. `Wordings` are all the ways in which texts may coincide; `NothingSaidIsLost` speaks of the last question of each
text. Two questions, one of them with several choices, and one fixed option beside the free-form one.

### TerminalHost, FsHost (`main/acp/TerminalHost.ts`, `main/acp/FsHost.ts`)

An operation of the agent runs to its next await. `TerminalHost`: create, output, wait, kill, release and stopAll
of two terminals of which one may be open, output in pieces of two bytes against a limit
of two and a budget of three, and a process that outlives its signals. `FsHost`: two
writes of one path, two changes by other programs and a failed file operation; the reads run over every text of up to four
characters ("n" is the newline), every first line and limit up to four. The rules about paths and
command lines are steps that succeed or fail.

### ToolRuns (`main/git/GitService.ts`, `main/grok/GrokCliService.ts`, `main/workspaces/ProjectOpenService.ts`, `main/git/DashboardInspector.ts`)

Up to three runs of one operation, with what each child has written, its timeout, the kill and
the fail-safe that answers when nothing ends. A descendant may keep the pipes open after the child
is gone. Outputs are counts of records.

### Activity (`main/acp/SessionActivityProjection.ts`, `shared/acp/*`, `main/AppController.ts`)

`truth` is the work that Grok has; its events cross `wire`, one may come a second time, and what is told
before a worker is live is staged (`starting`). Identities, revisions, tombstones, the staging buffer and the
cache of offline projections have a bound of one each, so that each overflows. `tracked` says that the worker became live with
the projection of its own start: `WorkIsProtected` speaks of those, and `activity_retry` shows what
happens to the others. Labels, fire counts, view keys and isLead are left out. That a CLI with revisions numbers its events, and
announces again what it resumes, is assumed (definitions marked external in "map").
Also checked once with the four kinds of CLI, the purely typed one included, and no bound on the wire (2.7 million states).

Not modelled or known to be loose there: events without revision are never ordered; a replayed
task_backgrounded without its completion keeps the protection.

### Transcript (`shared/chat/reducer.ts`, `shared/acp/activity.ts`)

Five events of any kinds in any order, with a limit of four items, five characters of all text and two of one
message, and counters that saturate at three. Observed, and left as they are in the properties: a late
thought or tool start after turn_complete sets "running" and nothing ends it (`shared/chat/reducer.ts:85`);
a late tool_update of a tool in a closed activity opens a second one; a late assistant chunk of a
turn without an answer streams on while the session is idle.

### MemoryNotes, MemoryFiles (`main/memory/MemoryBroker.ts`)

`MemoryNotes`: remember by two writers that may crash, each step a call of the file system that another writer
may observe: the lock file, its record, the recovery of a stale lock by renaming it, the read and the
replacement of MEMORY.md. Six shapes of MEMORY.md stand for where its section of notes is. With two writers no note is lost;
`memory_recovery` has a third. `MemoryFiles`: lists, reads and deletes by tokens against a program that replaces a file at any
step; a file is its version.

### RosterStore, ModelConfig (`main/agents/AgentRosterStore.ts`, `main/models/*`)

`RosterStore`: two processes on one roster, each with a mutation or a recovery, a crash, damage to the
file, and stale locks. It is the compare-and-swap that AgentBindings takes for granted. With a third
process and one that died, the name of a new lock could be removed (`main/agents/AgentRosterStore.ts:692`);
the application runs as one instance. `ModelConfig`: two stores edit the managed block of config.toml under an flock that a helper takes on
the descriptor, the user or Grok edits the rest at any step, a store stops or crashes.
TOML is a step that parses or not. The window between the last comparison and the rename is not
modelled: nothing in the code could close it.

### SessionHistory, Attachments, AgentCatalog (`main/history/SessionHistoryBroker.ts`, `main/attachments/AttachmentBroker.ts`, `main/agents/GrokAgentCatalogService.ts`)

Each issues tokens for what it has shown and later acts on them while other programs change the files, the user
changes the selection, and contexts are cleared. `SessionHistory` includes the open and delete transactions of the controller;
it was also run with two changes of the context and three requests. `Attachments`: three paths of which one is no image, two
prompts and two sessions for one token, expiry and clearing. `AgentCatalog`: two workspaces in a cache of one, and the inspection by the CLI whose
two halves are read at different times.

### SwiftImport (`main/migration/*`, the import of `main/AppController.ts`)

Every property list over two folders and two chats, one of which may be the remote session that main already
has; the preview, the stop of the workers, and what is heard meanwhile. Also run with two previews.

### Layout, Workspaces (`main/AppController.ts`, `main/workspaces/*`)

`Layout`: order, pins, settled and unread sessions and the selection of three projects and four
sessions, with close, remove and duplicate as transactions that may fail after other requests were served, and
their undoing. `durable` marks sessions with a transcript, `stamp` their age; at first one session may have no transcript. A prompt waits
for the health of its workspace (`Asks`) and then goes on (`Starts`) whatever transaction began meanwhile: `updateSessionRecord` asks for none and remembers the
session shown as the one that its project shows first (`Updated`). A worker that binds its session, a turn that ends and a cancel do the same.

`UndoneIsAsBefore` is about the step that undoes: everything is as it was when the transaction began, but for `selectedSessionIdByProject`. Of other projects that stays
as it is when the save fails (a removal has chosen their session already). Of the session's own project it is as before,
unless the session shown was given something to show while the close was being saved: `restoreClosedSession` then leaves what it finds
(`main/AppController.ts:4086`). TLC reaches that case. Two requests beside what follows from them; with three, ten million states were explored
breadth first without a violation.
`Workspaces`: health checks that join or overlap, workers stopped when a check fails, prompts that wait for a
check, an import that replaces all projects, the change of the memory setting that starts every worker again, and
the dashboard. A directory that is replaced gets a fresh identity. A prompt shows its session as running before `ensureConnected` may
refuse it (`main/AppController.ts:1474`), because a check ended while attachments were read or because of a transaction: the session
is "unserved" then, shown as running without a worker until it is cancelled or quiesced. `OnlyUsableWorkspaces` says that no worker is
in an unusable workspace and that a session is shown as running there for no other reason.

### AppRelease (`main/updates/TrustedUpdateStager.ts`, `TrustedAppArchiveVerifier.ts`, `TrustedSquirrelUpdater.ts`, `MacAppIdentityService.ts`, `UpdateService.ts`)

The run of installApp on the disk: the stage and its download, listing, extraction and trust of the archive, the digest that binds it, the feed, what
Squirrel takes and tells, and the sweep of the next launch, with a failure at every step and a process that may end at any
point. The tools are single outcomes (ToolRuns has the form of their runners). The run has one change by another program over two launches.
An archive that is replaced before it is digested and put back before it is used takes two: `ReadyIsRelease` then still says that
Squirrel has what was offered in a newer version than the one that runs, and no longer that what was offered is good; the
theorem is about any number of changes. Directories of the verifier that a crash leaves behind are never swept: the sweep takes
only `grokbuild-update-*`.

### PromptQueue, Panels (`src/renderer/src/App.tsx`, `components/Composer.tsx`, `components/AgentsSettings.tsx`)

`PromptQueue`: three messages of one session from the composer or its queue, main's lifecycle lock and turns, and snapshots
that lag behind; up to two messages on the way to the renderer. A message is removed by its place in the queue. `Panels`: the dashboard, the history or the catalog of
agents, whose requests are numbered; five numbers and two requests under way.

Observed there and not stated as properties: after a refused message the queue waits for the next snapshot or change,
because clearing `dispatchingQueueRef` renders nothing; between a reply and the "running" snapshot, a direct submit or a removal
from the queue starts a second concurrent prompt; a reply that arrives after its session was left and entered
again clears the newer draft; `McpSettings.loadServers` has no number, so that a slow answer may show another project's servers.
The queue is not persisted, by design (`App.tsx:101`).

### What the violations show

- `turns_new_path` (docs/PARITY_MATRIX.md:115, pending cards drain): `setGrokCliPath` stops the client and keeps the queue; the
  pump's rejected answer makes its `finally` block queue a microtask that queues the next one, without end. Main hangs.
- `bindings_recovery` (message of `main/AppController.ts:3544`): a roster that failAgentRosterRuntime or a failed load has made
  invalid while its file is sound cannot be recovered, because AgentRosterStore.recover refuses a sound file. Even a user who never stops trying
  is stuck until a restart.
- `channel_stop` (docs/PARITY_MATRIX.md:129, no orphan child): a set_model that waits for a start is posted after the stop, and the worker
  starts a new Grok for it.
- `memory_recovery` (docs/ARCHITECTURE.md:215, a cooperating-writer lock): two recoveries of a stale lock; the slower one moves away the new
  lock of another writer, and a note is lost.
- `activity_retry` (docs/ARCHITECTURE.md:98, live work is protected): a client whose start failed is started again without a projection, and
  its live work does not protect it.
- `queue_failure` (docs/PARITY_MATRIX.md:118, failed delivery preserves queue): the renderer takes a message out of the queue before main has
  answered, and only shows the error when main refuses it.

### Fairness

Only `main_state`, `turns`, `bindings` and `lifecycle` check liveness, under the fairness named above; it is always weak, and
always of what the runtime does by itself: callbacks, timers, the end of file operations and of processes that were told to end. The user, Grok
and other programs owe nothing. `services` and `agent_worker` check safety only, and their specifications have no fairness.

## 3. What is proved

TLAPS proves for every set of sessions, runs and every bound what the runs check
on an instance. No axiom is used beyond the named ASSUMEs of the modules (ids
distinct, sizes natural numbers, sets finite).

`SessionManagerProofs`: `Inductive` and `Invariance` prove an inductive
invariant, from which `TypeCorrect`, `NewestRegistered`, `NoOrphans` and
`StopAllBarrier` follow. The safety properties are not inductive alone: that a
registered client is the newest needs that no client beyond `generation` was ever
stopped or run, and the barrier needs that each of its workers is being stopped or
has ended while `stopAll` waits.

`PersistenceLaneProofs`: the invariant `IInv` says that the lane has no save or the one in
flight (`SingleSave`), that whatever is dirty wakes somebody up (`WakeUp`), what a clean
lane has written (`CleanIsWritten`), and which changes memory, disk and the saves under way contain
given what was told (`InState`, `WrittenLater`, `EditsStay`, `Kept`). The lemmas on `Latest`,
`Looped`, `Resumed` and `Ended` say what each does to any lane, so that each action needs
one step per conjunct. The five safety properties and `Refinement` (every step is one of
`DurableState` or changes none of its variables) follow.

`AgentBindingsProofs`: the invariant `IInv` says which steps an operation goes through and
what it means to change (`SlotOK`, `PlanOK`), what a clean lane has written (`LaneOK`), that
nothing closed is in memory, on disk, in a save or about to be put back (`SessionsOK`),
what main knows of the roster while an operation is open (`FreshIsFile`, `KnownOK`), and that both
rosters are within `may` for every session that may be seen again (`ExpectedOK`), the one to be put back
too (`WasExpected`, `ChildExpected`). `IdentityKept` is not inductive without the last two: a restoration
writes the roster of the past. One lemma per action, one step per conjunct it disturbs.
`ClosedForGood`, `ForksSurvive` and `IdentityKept` follow for any sessions, agents and projects.

`SessionManagerProofs` also has what is heard: `History` adds to `HeardInOrder` that no client is heard beyond what it
emitted (`Past`), that one which has not begun was never heard (`Fresh`), and that the deferred queue of a registered client
goes on where the heard events end (`Follows`). `HistoryInvariance`, `HeardInOrderAlways` and `NothingLostAlways`
follow. Lemmas on appended and dropped events say what each action does to the order.

`SessionTurnsProofs`: the invariant relates five places at which a request can be: the worker's table, the two channels,
main's queue and the answer under way. Requests are distinct in each (`Distinct`, `Known`), those of a client that is gone are not open
(`Offline`), what was resolved or is being told as accepted is closed (`Closed`), an answer and the pump hold the head of a queue (`AtHead`) with at most one reply on its way (`Replies`), and
what left the table for an answer is either being acknowledged or gone (`Acknowledged`).
`CardIsHead` alone is not inductive: a reply that comes late would shift a queue of which its request is not the head. One lemma per action.
`TypeCorrect`, `CardIsHeadAlways`, `InputProtectedAlways`, `OpenIsQueuedAlways` and `AnsweredLeavesAlways` follow for any
numbers of requests, clients and messages.

`LifecycleProofs`, of the update: the invariant `IInv` relates `pc` to the leases: a run
past its first step owns the lock (`LockIsOwned`), holds quiescence from
the drain on unless the controller is stopping, quiet steps have no worker and no
integration operation, an unknown binary has a run that installs, reads or is retained
(`Witnessed`), and the quit path's own facts (`QuitPath`). One lemma per action
shows that it keeps `IInv`; `TypeCorrect`, `LockOwned`, `QuiescenceBounded`,
`NothingRunsMeanwhile`, `GatesClosed`, `QuitWaits` and `OneShot` follow.
`FilesReclaimedAlways` is a part of it.

`LifecycleProofs`, of the channel: `IChannel` compares main, the news on its way and the worker. No news of an exit comes before the
client has started, a start that was accepted has a running child or the news of its end behind it (`Undisturbed`,
`StartHolds`). `StartIsTrueAlways` follows for any calls, starts and faults.

`AgentWorkerProofs`: one invariant for each part. `RequestsInv`: a request is open under one key, was answered at most as often as it was sent again and not
recognised, and is asked as it is open. `TerminalInv`: which operation holds each process that runs, so that a create which ends after stopAll kills its own.
`FilesInv`: a temporary file belongs to the write that is under way. `ToolsInv`: each child of a run that was given up has
its kill. `AnsweredOnceAlways`, `NothingSaidIsLostAlways`, `StoppedMeansGoneAlways` and `NewFileNeverClobbersAlways` follow.

`HoldersProofs` has one invariant for each service that holds something, over the variables of `Holders`:
`LockInv` (a store of config.toml has a helper only while it waits for the flock, and the flock from
then until it closes), `HistoryInv` (each generation is that of one list, and an operation has the token, the context and
the only worker that it may still start), `CatalogInv` (each cached catalog was made by a list of its own that is
over, so that what an eviction takes are exactly its tokens), `DefinitionsInv` (the two halves of a definition were read in
order, twice, so that equal readings are one moment), `WorkersInv` (a worker runs only in a workspace last found ready and with the
present setting; one that is not ready and still works has a check that stops it; no prompt waits during an import) and `DashInv` (which directory git
has read, given those identified before and after), `UploadsInv` (handles are numbered by the paths that were
left; each image of a stage, of a valid token or of a prompt that reads has its handle, and a token that was taken has one prompt) and `ReclaimInv` (a
directory of this launch is owned, and is that of the run or one whose removal failed). `ConfigInv` adds to the lock what is done under it: the store
that reads and writes has the lock, what it writes is an allowed edit of what it has read, and from the comparison to the rename
that is what the file has. `PhaseOfRun` relates the phase of the updater to the step of prepare, and says from which step on its archive and its feed are there. None of the
properties is inductive alone: whether something is left behind is decided by the step that gives up its owner.

Four more are about what is acted on, each comparing what a call holds with the world as it has become meanwhile:
- `FilesInv`: every version that a memory file ever had is in a file, in a tomb, destroyed or removed; what was destroyed was
  issued in that version, and a delete holds an entry that was issued, which is never the global file.
- `GivenInv`: what a prompt has read is every image before the one at hand, in the version in which it was staged; the versions of
  the chunks of the one at hand lie between that of the staging and that of the file now, so that the check at the end, which
  finds the staged one, shows that nothing changed between.
- `ReleaseInv`: from the stage on the run is of the version that runs; content that is not what was offered takes one change by another
  program (`ArchiveOffered`, `BundleOffered`, `OfferVetted`) and to have it back two; whoever writes an archive leaves a stamp, so the archive is what was bound as
  long as its stamp is; and Squirrel, which is asked once and for the stage of the run, took what is offered if the stamp is still the bound one after it.
- `PromptsInv`: the queues are sorted and have exactly the messages that wait, each once; of each session at most one queued message is unanswered,
  and the session is dispatching then; the messages are typed in order; main's lock, the calls on the way and the replies are each of one message. `InOrder`
  alone is not inductive: that the head may go needs that all before it were answered.

`RosterInv`, in `ServicesProofs`, is about the roster: locks are numbered, the lock of the store that works is the one at its path, a lock is taken for
stale only when a process has died, and from the comparison to the rename the roster is what the store has read. That the lock stays in place
needs `FewStores`: at most two stores, or no process that dies. It is a hypothesis of `StoresKeepSaved` and no mere convenience: TLC finds a lost
mutation with three stores, three mutations and one crash, by the window of section 2.

`RosterAssumption` says that no mutation has the name that `RosterStore` uses for a recovery. `CatalogAssumption` says that a cache has a limit and agents are finitely many, `NamesAssumption` that no store or directory is called
none and that the changes of other programs are bounded by a natural number, `SessionsAssumption` that sessions are finitely many and prompts are numbered from 1.

`ServicesProofs` proves about the services of `MCServices`, each in its own behaviour, and puts the above together. For the pool it takes the
theorems of `SessionManagerProofs` through an instance (`Managed`), after showing that the calls of the pool are steps of that
instance: `LimitHeldAlways` and `EvictsOldestUnprotectedAlways`. For the panels,
`LooksInv` adds that every request under way and every answer on the wire has at most the newest number, and that one with the newest number is
about the project that is shown. With the generations of memory files, history and catalog, `TokensOfNewestListAlways` follows;
`NothingLeaksAlways`, `DecidesOnWhatIsTrueAlways` and `ActsOnWhatWasShownAlways` from the invariants of `HoldersProofs`. `StoresKeepSaved` and `ReferredKept`
state the parts of `SavedIsKept` (roster, config.toml, update) and `ReferencesKept` (config.toml, update) that are proved.

Only model-checked:
- the other parts of `SavedIsKept` and `ReferencesKept`. `NotesKept` is checked for two writers only, and is false for three (`memory_recovery`);
  the roster's part is false for three stores with one that died. The import and the order of sessions and pins (`Swift`,
  `LayoutIsWhole`, `UndoneIsAsBefore`, `MovesByOneStep`) rest on folds and SelectSeq, which are recursive;
- `AccountsAreTrue` and `ReadsAreWhole` of the worker: both compare what a loop over a text, a transcript or a list of chunks
  computes with its definition, which is induction over data;
- `StopEnds`, `Settles`, `QuitCompletes`, `StopReturns`, `CrashIsHeard`, `StopAllTerminates`, `AutoAcceptDrains` and the other liveness
  properties: liveness under fairness is out of the prover's reach.
The folds and the recursive function in `Overflows` have no proved value either; the proofs use only that they are of their type.

## 4. What is left

Modelling is done as far as section 5 says. Theorems that are still to be stated, in the order of their worth:

1. `NotesKept` for two writers, along the argument of `RosterInv` (what it says of the text around a note rests on SelectSeq), and that the roster is the compare-and-swap of `AgentBindings`.
2. The rest of `ReferencesKept`, for the order of sessions and pins with a definition of their filters that is not recursive.

## 5. Not modelled

- MCP service: every operation is one CLI child, whose output is checked and sanitised; no state of its own.
- Control server: it drives the window from a terminal and keeps no state; what its input does is an operation of the controller.
- Notifications: a counter of turns and a bounded set, changed in one synchronous call each.
- IPC and preload: validation and forwarding.
- Of the renderer everything but the composer, the queue and the panels: layout, menus, forms and drawing; and sending a message again from the
  transcript, which passes the queue by.
- Of the agent catalog the last stat of the sources, which is one step with the commit of the list.
- Of the controller: retrySession, and the exclusion of the state transactions as such; each module has
  the guards of its own transactions. Two selections whose health checks end out of order (`main/AppController.ts:838`), and a
  clone of the state that was taken before an await of the roster and loses what was heard meanwhile when a save fails
  (`main/AppController.ts:1113`), are hazards that no property covers.
- Text formats (TOML, JSON, property lists, ACP payloads), path rules, signatures and digests are steps that succeed or fail.
- `qa/`, `scripts/`, tests and the mock of Grok are tooling around the program.
