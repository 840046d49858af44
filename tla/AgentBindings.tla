---------------------------- MODULE AgentBindings ----------------------------
(***************************************************************************)
(* The saved agent of a session lives in two files: the session in the     *)
(* state file, its binding to an agent in the roster.  Closing, removing,  *)
(* duplicating and forking change both, one after the other, and undo the  *)
(* first when the second fails; the process may crash in between.          *)
(*                                                                         *)
(* agentRosterTransaction admits one of these operations at a time.  The   *)
(* details of the state file's lane are those of PersistenceLane.          *)
(***************************************************************************)
EXTENDS Naturals

CONSTANTS
  Sessions,   \* session ids, used once each
  Agents,     \* ids of saved agents
  Projects,   \* the sets of sessions that belong to one project
  MaxEdits,   \* bound: how often anything else changes the state
  None

ASSUME NoneAssumption == None \notin Agents \union Sessions
ASSUME ProjectsAssumption ==
  /\ UNION Projects = Sessions
  /\ \A p, q \in Projects : p = q \/ p \intersect q = {}

ASSUME MaxEditsAssumption == MaxEdits \in Nat

VARIABLES
  phase,    \* "down", "up", "stopping"
  memory,   \* the sessions of AppController.state
  disk,     \* the sessions of the state file
  edits,    \* how often anything else has changed the state
  lane,     \* persistDirty, the save under way, persistFailure
  file,     \* the roster file
  known,    \* agentRosterLoad
  slot,     \* the holder of agentRosterTransaction
  used,     \* the session ids that were handed out
  closed,   \* the sessions whose closing was reported as done
  forked,   \* the sessions that a fork reported and no removal took out since
  may       \* per session, the bindings its user has to expect

vars == <<phase, memory, edits, disk, lane, file, known, slot, used, closed, forked, may>>

Bindings == [Sessions -> Agents \union {None}]
Rosters == [agents : SUBSET Agents, of : Bindings]
EmptyRoster == [agents |-> {}, of |-> [s \in Sessions |-> None]]

\* A file that cannot be parsed, and the load that finds one.
Broken == [ok |-> FALSE, roster |-> EmptyRoster]
Invalid == [ready |-> FALSE, fresh |-> FALSE, roster |-> EmptyRoster]

\* fresh: the revision that was loaded is the revision of the file.
Loaded(roster) == [ready |-> TRUE, fresh |-> TRUE, roster |-> roster]

Free == [kind |-> "none", step |-> "none", on |-> {}, child |-> None,
         was |-> EmptyRoster, next |-> EmptyRoster]

AllUnbound(ids, roster) == [roster EXCEPT !.of = [s \in Sessions |-> IF s \in ids THEN None ELSE @[s]]]
Bound(s, a, roster) == [roster EXCEPT !.of[s] = a]

Running == phase # "down"
Idle == slot = Free
Quiet == ~lane.dirty /\ lane.saves = {}
CleanLane == [dirty |-> FALSE, saves |-> {}, failed |-> FALSE]
Emitted == [lane EXCEPT !.dirty = TRUE]

At(kind, step) == slot.kind = kind /\ slot.step = step

\* Whether the open operation has bindings to write, or to put back.
Rebinds == slot.next # slot.was

-----------------------------------------------------------------------------
(* AgentRosterStore.  A mutation that changes nothing writes nothing, except *)
(* that an updated agent is new content.                                     *)

Fits == file.ok /\ known.fresh

StoreSaves(roster) ==
  /\ Fits
  /\ file' = [file EXCEPT !.roster = roster]
  /\ known' = Loaded(roster)

\* The lock, the directory, the temporary file, the schema, or the revision.
StoreFails == UNCHANGED <<file, known>>

\* The directory cannot be synced after the rename: "persist-failed".
StoreUnsure(roster) ==
  /\ Fits /\ (roster # file.roster \/ slot.kind = "update")
  /\ file' = [file EXCEPT !.roster = roster]
  /\ known' = [known EXCEPT !.fresh = FALSE]

\* What store.load returns.
Loads(result) == result = Invalid \/ (file.ok /\ result = Loaded(file.roster))

\* runAgentRosterMutation after a revision conflict.
Reloads ==
  /\ file.ok /\ ~known.fresh
  /\ Loads(known')
  /\ UNCHANGED file

-----------------------------------------------------------------------------
(* What the user has to expect.                                            *)

\* The operation did what it was asked.
Certain == [s \in Sessions |-> IF slot.next.of[s] # slot.was.of[s] THEN {slot.next.of[s]} ELSE may[s]]

\* It failed, and may have done it all the same.
Doubtful == [s \in Sessions |-> may[s] \union (IF slot.next.of[s] # slot.was.of[s]
                                               THEN {slot.next.of[s]} ELSE {})]

-----------------------------------------------------------------------------
Init ==
  /\ phase = "up"
  /\ memory = {} /\ disk = {} /\ edits = 0
  /\ lane = CleanLane
  /\ file = [ok |-> TRUE, roster |-> [EmptyRoster EXCEPT !.agents = Agents]]
  /\ known = Loaded(file.roster)
  /\ slot = Free
  /\ used = {} /\ closed = {} /\ forked = {}
  /\ may = [s \in Sessions |-> {None}]

History == <<edits, used, closed, forked, may>>

\* createSession: not while a session or a project is being removed.
CreateSession(s) ==
  /\ Running /\ s \notin used
  /\ slot.kind = "removal" => slot.step = "end"
  /\ used' = used \union {s}
  /\ memory' = memory \union {s}
  /\ lane' = Emitted
  /\ UNCHANGED <<phase, edits, disk, file, known, slot, closed, forked, may>>

\* Prompts, events, selections: the sessions stay the same, but the state is to be saved.
Edit ==
  /\ Running /\ edits < MaxEdits
  /\ edits' = edits + 1
  /\ lane' = Emitted
  /\ UNCHANGED <<phase, memory, disk, file, known, slot, used, closed, forked, may>>

-----------------------------------------------------------------------------
(* The lane.                                                               *)

\* Mutant: persistLatest without its persistInFlight guard.
SaveStartsUnguarded ==
  /\ Running /\ lane.dirty
  /\ lane' = [lane EXCEPT !.dirty = FALSE, !.saves = @ \union {memory}]
  /\ UNCHANGED <<phase, memory, edits, disk, file, known, slot, used, closed, forked, may>>

SaveStarts ==
  /\ Running /\ lane.dirty /\ lane.saves = {}
  /\ lane' = [lane EXCEPT !.dirty = FALSE, !.saves = {memory}]
  /\ UNCHANGED <<phase, memory, edits, disk, file, known, slot, used, closed, forked, may>>

SaveEnds(save, ok) ==
  /\ disk' = IF ok THEN save ELSE disk
  /\ lane' = [lane EXCEPT !.saves = {}, !.failed = ~ok]
  /\ UNCHANGED <<phase, memory, edits, file, known, slot, used, closed, forked, may>>

-----------------------------------------------------------------------------
(* Operations on the roster.                                               *)

Acquires(kind, step, on, child, next) ==
  /\ phase = "up" /\ Idle
  /\ slot' = [kind |-> kind, step |-> step, on |-> on, child |-> child,
              was |-> known.roster, next |-> next]

\* bindSavedAgent.
Bind(s, a) ==
  /\ known.ready /\ s \in memory /\ a \in known.roster.agents \union {None}
  /\ Acquires("bind", "store", {s}, None, Bound(s, a, known.roster))
  /\ UNCHANGED <<phase, memory, disk, lane, file, known, History>>

\* createSavedAgent, installStarterAgents.
CreateAgent(a) ==
  /\ known.ready /\ a \notin known.roster.agents
  /\ Acquires("create", "store", {}, None, [known.roster EXCEPT !.agents = @ \union {a}])
  /\ UNCHANGED <<phase, memory, disk, lane, file, known, History>>

\* updateSavedAgent.
UpdateAgent(a) ==
  /\ known.ready /\ a \in known.roster.agents
  /\ Acquires("update", "store", {}, None, known.roster)
  /\ UNCHANGED <<phase, memory, disk, lane, file, known, History>>

\* deleteSavedAgent, which clears the bindings of the agent.
DeleteAgent(a) ==
  /\ known.ready /\ a \in known.roster.agents
  /\ Acquires("delete", "store", {}, None,
              [agents |-> known.roster.agents \ {a},
               of |-> [s \in Sessions |-> IF known.roster.of[s] = a THEN None
                                          ELSE known.roster.of[s]]])
  /\ UNCHANGED <<phase, memory, disk, lane, file, known, History>>

RosterKinds == {"bind", "create", "update", "delete"}

\* The mutation is saved; sessions whose agent changed are reconnected.
RosterSaved ==
  /\ slot.kind \in RosterKinds /\ slot.step = "store"
  /\ StoreSaves(slot.next)
  /\ slot' = [slot EXCEPT !.step = "end"]
  /\ may' = Certain
  /\ UNCHANGED <<phase, memory, edits, disk, lane, used, closed, forked>>

\* What runAgentRosterMutation does with an error.
MutationFails ==
  \/ (StoreFails \/ Reloads) /\ UNCHANGED may
  \/ StoreUnsure(slot.next) /\ may' = Doubtful

\* Mutant: the release is not in a finally block.
RosterFailsHeld ==
  /\ slot.kind \in RosterKinds /\ slot.step = "store"
  /\ MutationFails
  /\ slot' = [slot EXCEPT !.step = "none"]
  /\ UNCHANGED <<phase, memory, edits, disk, lane, used, closed, forked>>

RosterFails ==
  /\ slot.kind \in RosterKinds /\ slot.step = "store"
  /\ MutationFails
  /\ slot' = Free
  /\ UNCHANGED <<phase, memory, edits, disk, lane, used, closed, forked>>

\* What is left of an operation awaits workers and the workspace only.
OperationEnds ==
  /\ slot.step = "end"
  /\ slot' = Free
  /\ UNCHANGED <<phase, memory, disk, lane, file, known, History>>

-----------------------------------------------------------------------------
(* recoverSavedAgentRoster.                                                *)

Recover ==
  /\ ~known.ready
  /\ Acquires("recover", "store", {}, None, EmptyRoster)
  /\ UNCHANGED <<phase, memory, disk, lane, file, known, History>>

Recovered ==
  /\ At("recover", "store") /\ ~file.ok
  /\ file' = [ok |-> TRUE, roster |-> EmptyRoster]
  /\ known' = Loaded(EmptyRoster)
  /\ slot' = Free
  /\ may' = [s \in Sessions |-> {None}]
  /\ UNCHANGED <<phase, memory, edits, disk, lane, used, closed, forked>>

\* The store finds nothing to recover, or nothing is moved aside, or the
\* replacement of what was moved aside fails and no file is left.
RecoveryFails ==
  /\ At("recover", "store")
  /\ \/ UNCHANGED <<file, may>>
     \/ /\ ~file.ok
        /\ file' = [ok |-> TRUE, roster |-> EmptyRoster]
        /\ may' = [s \in Sessions |-> may[s] \union {None}]
  /\ slot' = Free
  /\ UNCHANGED <<phase, memory, edits, disk, lane, known, used, closed, forked>>

-----------------------------------------------------------------------------
(* closeSession, removeProject.                                            *)

Applied ==
  /\ memory' = memory \ slot'.on
  /\ lane' = Emitted
  /\ forked' = forked \ slot'.on

Removable == ({{s} : s \in memory} \union {p \intersect memory : p \in Projects}) \ {{}}

\* preclearSessionBindings finds nothing to clear: the change is made at once.
RemoveUnbound(ids) ==
  /\ known.ready /\ ids \in Removable
  /\ AllUnbound(ids, known.roster) = known.roster
  /\ Acquires("removal", "commit", ids, None, known.roster)
  /\ Applied
  /\ UNCHANGED <<phase, edits, disk, file, known, used, closed, may>>

RemoveBound(ids) ==
  /\ known.ready /\ ids \in Removable
  /\ AllUnbound(ids, known.roster) # known.roster
  /\ Acquires("removal", "store", ids, None, AllUnbound(ids, known.roster))
  /\ UNCHANGED <<phase, memory, disk, lane, file, known, History>>

Precleared ==
  /\ At("removal", "store")
  /\ StoreSaves(slot.next)
  /\ slot' = [slot EXCEPT !.step = "commit"]
  /\ Applied
  /\ UNCHANGED <<phase, edits, disk, used, closed, may>>

\* preclearSessionBindings does not reload after a conflict, and nothing is
\* compensated: the removal has not begun.
PreclearFails ==
  /\ At("removal", "store")
  /\ \/ StoreFails /\ UNCHANGED may
     \/ StoreUnsure(slot.next) /\ may' = Doubtful
  /\ slot' = Free
  /\ UNCHANGED <<phase, memory, edits, disk, lane, used, closed, forked>>

\* Mutant: flushPersistence() instead of flushPersistence(true).
RemovalCommitsUnasked ==
  /\ At("removal", "commit") /\ Quiet
  /\ closed' = closed \union slot.on
  /\ slot' = [slot EXCEPT !.step = "end"]
  /\ UNCHANGED <<phase, memory, edits, disk, lane, file, known, used, forked, may>>

RemovalCommits ==
  /\ At("removal", "commit") /\ Quiet /\ ~lane.failed
  /\ closed' = closed \union slot.on
  /\ may' = [s \in Sessions |-> IF s \in slot.on THEN {None} ELSE may[s]]
  /\ slot' = [slot EXCEPT !.step = "end"]
  /\ UNCHANGED <<phase, memory, edits, disk, lane, file, known, used, forked>>

\* Mutant: the sessions are put back without their bindings.
RemovalUndoneUnbound ==
  /\ At("removal", "commit") /\ Quiet /\ lane.failed
  /\ memory' = memory \union slot.on
  /\ slot' = [slot EXCEPT !.step = "end"] /\ lane' = Emitted
  /\ UNCHANGED <<phase, disk, file, known, History>>

RemovalUndone ==
  /\ At("removal", "commit") /\ Quiet /\ lane.failed
  /\ memory' = memory \union slot.on
  /\ IF Rebinds
     THEN slot' = [slot EXCEPT !.step = "restore"] /\ UNCHANGED lane
     ELSE slot' = [slot EXCEPT !.step = "end"] /\ lane' = Emitted
  /\ UNCHANGED <<phase, disk, file, known, History>>

\* restoreSessionBindings.
BindingsRestored ==
  /\ At("removal", "restore")
  /\ StoreSaves(slot.was)
  /\ lane' = Emitted
  /\ slot' = [slot EXCEPT !.step = "end"]
  /\ UNCHANGED <<phase, memory, disk, History>>

\* failAgentRosterRuntime; the state with the sessions put back is not emitted.
BindingsLost ==
  /\ At("removal", "restore")
  /\ file' = file \/ (Fits /\ file' = [file EXCEPT !.roster = slot.was])
  /\ known' = Invalid
  /\ slot' = [slot EXCEPT !.step = "end"]
  /\ may' = Doubtful
  /\ UNCHANGED <<phase, memory, edits, disk, lane, used, closed, forked>>

-----------------------------------------------------------------------------
(* duplicateSession, forkSession.                                          *)

Copies == {"duplicate", "fork"}

\* The child inherits the agent of its source.
Copy(kind, s, child) ==
  /\ s \in memory /\ child \notin used
  /\ \E p \in Projects : {s, child} \subseteq p
  /\ Acquires(kind, "check", {s}, child, Bound(child, known.roster.of[s], known.roster))
  /\ used' = used \union {child}
  /\ UNCHANGED <<phase, memory, edits, disk, lane, file, known, closed, forked, may>>

Inserted == memory' = memory \union {slot.child} /\ lane' = Emitted

\* awaitOperationOrStop, requireReadyAgentRoster and the checks between them fail.
CopyRefused ==
  /\ slot.kind \in Copies /\ slot.step = "check"
  /\ slot' = Free
  /\ UNCHANGED <<phase, memory, disk, lane, file, known, History>>

CopyChecked ==
  /\ slot.kind \in Copies /\ slot.step = "check"
  /\ phase = "up" /\ known.ready
  /\ \/ Rebinds /\ slot' = [slot EXCEPT !.step = "store"] /\ UNCHANGED <<memory, lane>>
     \/ ~Rebinds /\ slot.kind = "fork" /\ slot' = [slot EXCEPT !.step = "start"]
          /\ UNCHANGED <<memory, lane>>
     \/ ~Rebinds /\ slot.kind = "duplicate" /\ slot' = Free /\ Inserted
  /\ UNCHANGED <<phase, disk, file, known, History>>

ChildUnbound ==
  /\ slot.kind \in Copies /\ slot.step = "store"
  /\ StoreFails \/ Reloads \/ StoreUnsure(slot.next)
  /\ slot' = Free
  /\ UNCHANGED <<phase, memory, disk, lane, History>>

\* A duplicate is inserted and returned without waiting for a save.
DuplicateBound ==
  /\ At("duplicate", "store")
  /\ StoreSaves(slot.next)
  /\ Inserted
  /\ slot' = Free
  /\ may' = Certain
  /\ UNCHANGED <<phase, edits, disk, used, closed, forked>>

ForkBound ==
  /\ At("fork", "store")
  /\ StoreSaves(slot.next)
  /\ slot' = [slot EXCEPT !.step = IF phase = "up" THEN "start" ELSE "compensate"]
  /\ may' = Doubtful
  /\ UNCHANGED <<phase, memory, edits, disk, lane, used, closed, forked>>

ForkStarted ==
  /\ At("fork", "start") /\ phase = "up"
  /\ Inserted
  /\ slot' = [slot EXCEPT !.step = "commit"]
  /\ UNCHANGED <<phase, disk, file, known, History>>

\* What follows the undoing of a fork.
Compensation == IF Rebinds THEN [slot EXCEPT !.step = "compensate"] ELSE Free

\* Mutant: the start of the client does not race stopRequested.
ForkFailsUnraced ==
  /\ At("fork", "start") /\ phase = "up"
  /\ \/ slot' = Compensation /\ UNCHANGED lane
     \/ slot' = [slot EXCEPT !.step = "undo"] /\ lane' = Emitted
  /\ UNCHANGED <<phase, memory, disk, file, known, History>>

\* The client does not start, or fails after the insertion and before any await.
ForkFails ==
  /\ At("fork", "start")
  /\ \/ slot' = Compensation /\ UNCHANGED lane
     \/ phase = "up" /\ slot' = [slot EXCEPT !.step = "undo"] /\ lane' = Emitted
  /\ UNCHANGED <<phase, memory, disk, file, known, History>>

\* Mutant: a fork is reported before its flush.
ForkCommitsEarly ==
  /\ At("fork", "commit") /\ ~lane.failed
  /\ forked' = forked \union {slot.child}
  /\ slot' = Free
  /\ may' = Certain
  /\ UNCHANGED <<phase, memory, edits, disk, lane, file, known, used, closed>>

ForkCommits ==
  /\ At("fork", "commit") /\ Quiet /\ ~lane.failed
  /\ forked' = forked \union {slot.child}
  /\ slot' = Free
  /\ may' = Certain
  /\ UNCHANGED <<phase, memory, edits, disk, lane, file, known, used, closed>>

ForkUndone ==
  /\ At("fork", "commit") /\ Quiet /\ lane.failed
  /\ memory' = memory \ {slot.child}
  /\ lane' = Emitted
  /\ slot' = [slot EXCEPT !.step = "undo"]
  /\ UNCHANGED <<phase, disk, file, known, History>>

UndoFlushed ==
  /\ At("fork", "undo") /\ Quiet
  /\ slot' = Compensation
  /\ UNCHANGED <<phase, memory, disk, lane, file, known, History>>

\* compensateSessionBinding, first with the roster that is loaded.
Compensated ==
  /\ At("fork", "compensate")
  /\ StoreSaves(slot.was)
  /\ slot' = Free
  /\ UNCHANGED <<phase, memory, disk, lane, History>>

CompensationFails ==
  /\ At("fork", "compensate")
  /\ StoreFails \/ StoreUnsure(slot.was)
  /\ slot' = [slot EXCEPT !.step = "again"]
  /\ UNCHANGED <<phase, memory, disk, lane, History>>

\* Then with the roster of the file, which may hold the compensation already.
CompensatedAgain ==
  /\ At("fork", "again") /\ file.ok
  /\ file' = [file EXCEPT !.roster = Bound(slot.child, None, @)]
  /\ known' = Loaded(file'.roster)
  /\ slot' = Free
  /\ UNCHANGED <<phase, memory, disk, lane, History>>

CompensationLost ==
  /\ At("fork", "again")
  /\ file' = file \/ (file.ok /\ file' = [file EXCEPT !.roster = Bound(slot.child, None, @)])
  /\ known' = Invalid
  /\ slot' = Free
  /\ UNCHANGED <<phase, memory, disk, lane, History>>

-----------------------------------------------------------------------------
(* Quit, crash, start.                                                     *)

Gone ==
  /\ phase' = "down"
  /\ memory' = {} /\ lane' = CleanLane
  /\ known' = Invalid /\ slot' = Free

Stop ==
  /\ phase = "up"
  /\ phase' = "stopping"
  /\ UNCHANGED <<memory, disk, lane, file, known, slot, History>>

\* stop waits for the operation under way, and then for its flush.
Exit ==
  /\ phase = "stopping" /\ Idle /\ Quiet
  /\ Gone
  /\ UNCHANGED <<disk, file, History>>

Crash ==
  /\ Running
  /\ Gone
  /\ may' = IF Idle \/ slot.step = "end" THEN may ELSE Doubtful
  /\ UNCHANGED <<edits, disk, file, used, closed, forked>>

\* initialize: bindings of sessions that do not exist are dropped.
Orphans(roster) == {s \in Sessions \ disk : roster.of[s] # None}

Start ==
  /\ phase = "down"
  /\ phase' = "up"
  /\ memory' = disk
  /\ lane' = [CleanLane EXCEPT !.dirty = TRUE]
  /\ \/ known' = Invalid /\ UNCHANGED file
     \/ /\ file.ok
        /\ file' = [file EXCEPT !.roster = AllUnbound(Orphans(@), @)]
        /\ known' = Loaded(file'.roster)
  /\ UNCHANGED <<disk, slot, History>>

\* The cleaned roster is renamed into place, but the start fails.
StartFails ==
  /\ phase = "down" /\ file.ok /\ Orphans(file.roster) # {}
  /\ file' = [file EXCEPT !.roster = AllUnbound(Orphans(@), @)]
  /\ UNCHANGED <<phase, memory, disk, lane, known, slot, History>>

\* The roster file is damaged from outside.  While main runs, a damaged file is a
\* store whose operations fail.
Damage ==
  /\ phase = "down" /\ file.ok
  /\ file' = Broken
  /\ UNCHANGED <<phase, memory, disk, lane, known, slot, History>>

-----------------------------------------------------------------------------
LaneStep == SaveStarts \/ \E save \in lane.saves, ok \in BOOLEAN : SaveEnds(save, ok)

RosterStep == RosterSaved \/ RosterFails \/ OperationEnds \/ Recovered \/ RecoveryFails

RemovalStep ==
  Precleared \/ PreclearFails \/ RemovalCommits \/ RemovalUndone \/ BindingsRestored \/ BindingsLost

CopyStep ==
  \/ CopyRefused \/ CopyChecked \/ ChildUnbound \/ DuplicateBound
  \/ ForkBound \/ ForkStarted \/ ForkFails \/ ForkCommits \/ ForkUndone \/ UndoFlushed
  \/ Compensated \/ CompensationFails \/ CompensatedAgain \/ CompensationLost

Requests ==
  \/ \E s \in Sessions : CreateSession(s)
  \/ \E s \in Sessions, a \in Agents \union {None} : Bind(s, a)
  \/ \E a \in Agents : CreateAgent(a) \/ UpdateAgent(a) \/ DeleteAgent(a)
  \/ \E ids \in SUBSET Sessions : RemoveUnbound(ids) \/ RemoveBound(ids)
  \/ \E kind \in Copies, s, child \in Sessions : Copy(kind, s, child)
  \/ Recover

Next ==
  \/ Requests \/ Edit
  \/ LaneStep \/ RosterStep \/ RemovalStep \/ CopyStep
  \/ Stop \/ Exit \/ Crash \/ Start \/ StartFails \/ Damage

Spec == Init /\ [][Next]_vars

\* File operations and worker stops end, promise callbacks run.
FairSpec ==
  /\ Spec
  /\ WF_vars(LaneStep) /\ WF_vars(RosterStep \/ RemovalStep \/ CopyStep \/ Exit)

\* The user tries again, and a recovery that can succeed at times succeeds.
RecoverySpec == FairSpec /\ WF_vars(Recover) /\ SF_vars(Recovered)

-----------------------------------------------------------------------------
(* Correctness.                                                            *)

Steps == {"none", "store", "check", "start", "commit", "restore", "undo", "compensate", "again", "end"}

TypeOK ==
  /\ phase \in {"down", "up", "stopping"} /\ edits \in 0 .. MaxEdits
  /\ memory \subseteq used /\ disk \subseteq used /\ used \subseteq Sessions
  /\ lane \in [dirty : BOOLEAN, saves : SUBSET SUBSET used, failed : BOOLEAN]
  /\ \A save, other \in lane.saves : save = other
  /\ file \in [ok : BOOLEAN, roster : Rosters]
  /\ known \in [ready : BOOLEAN, fresh : BOOLEAN, roster : Rosters]
  /\ slot \in [kind : {"none", "removal", "recover"} \union RosterKinds \union Copies, step : Steps,
               on : SUBSET Sessions, child : Sessions \union {None}, was : Rosters, next : Rosters]
  /\ closed \subseteq used /\ forked \subseteq used
  /\ may \in [Sessions -> SUBSET (Agents \union {None})]

\* A session that was reported as closed never returns: no later undo, no save of
\* an older state and no crash brings it back.
ClosedForGood == closed \intersect (memory \union disk) = {}

\* A fork that was reported is there, and after a crash too, until its removal.
ForksSurvive == forked \subseteq disk /\ (Running => forked \subseteq memory)

\* The sessions no operation is working on.
Settled == (memory \union disk) \ (slot.on \union {slot.child})

\* Neither main nor the file ever gives a session an agent its user did not choose
\* for it, or takes the chosen one away, unless an operation on it failed without
\* an answer from the store, or the process crashed during one.
IdentityKept ==
  \A s \in Settled :
    /\ file.ok => file.roster.of[s] \in may[s]
    /\ known.ready => known.roster.of[s] \in may[s]

\* An operation ends, with its bindings written, put back or given up.
OperationsEnd == ~Idle ~> Idle

\* stop waits for an operation and returns all the same.
StopEnds == phase = "stopping" ~> phase = "down"

\* A user who keeps recovering an invalid roster gets a usable one.
RecoveryHelps == phase = "up" /\ ~known.ready ~> phase # "up" \/ known.ready
=============================================================================
