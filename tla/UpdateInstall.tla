---------------------------- MODULE UpdateInstall ----------------------------
(***************************************************************************)
(* The update transactions of src/main/updates and what they share:        *)
(* UpdateOperationLock, the quiescence lease of AppController, the one-shot *)
(* candidate of UpdateCoordinator and the quit path of src/main/index.ts.  *)
(*                                                                         *)
(* A run is one call of installCli, installApp or check.  Each await of a  *)
(* coordinator ends a step; between two awaits a run is atomic, and any    *)
(* number of runs, connections, integration operations and a quit          *)
(* interleave at the awaits.  Every awaited service may fail.              *)
(***************************************************************************)
EXTENDS Naturals, FiniteSets

CONSTANTS CliRuns, AppRuns, CheckRuns,  \* calls of installCli, installApp, check
          Free                          \* no owner, no candidate

Runs == CliRuns \union AppRuns \union CheckRuns

ASSUME RunsAssumption ==
  /\ CliRuns \intersect AppRuns = {}
  /\ CliRuns \intersect CheckRuns = {}
  /\ AppRuns \intersect CheckRuns = {}
  /\ Free \notin Runs

VARIABLES
  pc,             \* the await each run is at
  lock,           \* UpdateOperationLock.owner
  quiescence,     \* AppController.updateQuiescenceToken
  candidate,      \* UpdateCoordinator.cachedCandidate: the check that found it
  authority,      \* the candidate each app run has consumed
  staged,         \* app runs with an archive they have not discarded yet
  verified,       \* app runs with an extracted bundle they have not discarded yet
  worker,         \* the ACP worker of the selected session
  integrations,   \* integrationOperations: 0 or 1 (bound)
  binary,         \* "trusted", or "unknown": an updater may have changed the CLI
  terminal,       \* CliUpdateInstallCoordinator.terminal
  installStarted, \* AppUpdateInstallCoordinator.installStarted
  stopping,       \* AppController.stopping
  quit,           \* "no", "cleanup" (before-quit), "ready" (quitAfterCleanup), "exited"
  pendingCli      \* the CLI runs the quit cleanup waits for

vars == <<pc, lock, quiescence, candidate, authority, staged, verified,
          worker, integrations, binary, terminal, installStarted, stopping, quit, pendingCli>>

files == <<staged, verified>>
controller == <<worker, integrations, stopping>>
quitting == <<quit, pendingCli>>
finals == <<terminal, installStarted>>

CliSteps == {"draining", "flushing", "checking", "confirming", "installing",
             "reading", "rechecking", "ambiguous"}
AppSteps == {"offering", "inspecting", "staging", "verifying", "discarding",
             "draining", "flushing", "reinspecting", "preparing", "reclaiming",
             "cleaning", "restarting"}
Steps == {"idle", "ended", "discovering"} \union CliSteps \union AppSteps
\* The steps a run takes with every worker stopped.
QuietSteps == {"flushing", "checking", "confirming", "installing", "reading", "rechecking",
               "ambiguous", "reinspecting", "preparing", "reclaiming", "restarting"}

\* A run between its first and its last step.
Active(r) == pc[r] \notin {"idle", "ended"}
\* A run whose leases stay with it until the process exits.
Retained(r) == pc[r] \in {"ambiguous", "restarting"}
NoneActive == \A r \in Runs : ~Active(r)

TypeOK ==
  /\ pc \in [Runs -> Steps]
  /\ lock \in Runs \union {Free} /\ quiescence \in CliRuns \union AppRuns \union {Free}
  /\ candidate \in CheckRuns \union {Free}
  /\ authority \in [AppRuns -> CheckRuns \union {Free}]
  /\ staged \subseteq AppRuns /\ verified \subseteq AppRuns
  /\ worker \in {"none", "starting", "idle", "busy"}
  /\ integrations \in 0..1
  /\ binary \in {"trusted", "unknown"}
  /\ terminal \in BOOLEAN /\ installStarted \in BOOLEAN /\ stopping \in BOOLEAN
  /\ quit \in {"no", "cleanup", "ready", "exited"}
  /\ pendingCli \subseteq CliRuns

Init ==
  /\ pc = [r \in Runs |-> "idle"]
  /\ lock = Free /\ quiescence = Free
  /\ candidate = Free /\ authority = [r \in AppRuns |-> Free]
  /\ staged = {} /\ verified = {}
  /\ worker = "none" /\ integrations = 0 /\ binary = "trusted"
  /\ terminal = FALSE /\ installStarted = FALSE
  /\ stopping = FALSE /\ quit = "no" /\ pendingCli = {}

Goto(r, step) == pc' = [pc EXCEPT ![r] = step]
Running == quit # "exited"

-----------------------------------------------------------------------------
(***************************************************************************)
(* AppController: connections, integration operations, quiescence.         *)
(***************************************************************************)
\* ensureConnected and reconnectSelectedSession refuse while quiescent or stopping.
ConnectStarts ==
  /\ Running /\ worker = "none" /\ quiescence = Free /\ ~stopping
  /\ worker' = "starting"
  /\ UNCHANGED <<pc, lock, quiescence, candidate, authority, files, integrations,
                 binary, finals, stopping, quitting>>

\* A start resolves, fails, or finds its client no longer current.
ConnectEnds ==
  /\ Running /\ worker = "starting"
  /\ worker' \in IF stopping THEN {"none"} ELSE {"idle", "none"}
  /\ UNCHANGED <<pc, lock, quiescence, candidate, authority, files, integrations,
                 binary, finals, stopping, quitting>>

\* A turn begins or ends, or the idle worker goes (eviction, crash).
WorkerChanges ==
  /\ Running
  /\ \/ worker = "idle" /\ quiescence = Free /\ ~stopping /\ worker' = "busy"
     \/ worker = "busy" /\ worker' \in {"idle", "none"}
     \/ worker = "idle" /\ worker' = "none"
  /\ UNCHANGED <<pc, lock, quiescence, candidate, authority, files, integrations,
                 binary, finals, stopping, quitting>>

\* acquireIntegrationOperation and its release.
IntegrationStarts ==
  /\ Running /\ integrations = 0 /\ quiescence = Free /\ ~stopping
  /\ integrations' = 1
  /\ UNCHANGED <<pc, lock, quiescence, candidate, authority, files, worker,
                 binary, finals, stopping, quitting>>

\* Mutant: a lease released twice is counted twice.
IntegrationEndsTwice ==
  /\ Running
  /\ integrations' = integrations - 1
  /\ UNCHANGED <<pc, lock, quiescence, candidate, authority, files, worker,
                 binary, finals, stopping, quitting>>

IntegrationEnds ==
  /\ Running /\ integrations = 1
  /\ integrations' = 0
  /\ UNCHANGED <<pc, lock, quiescence, candidate, authority, files, worker,
                 binary, finals, stopping, quitting>>

\* Mutant: the integration operations under way are not looked at.
CanAcquireDuringIntegration == ~stopping /\ quiescence = Free /\ worker \in {"none", "idle"}

CanAcquireQuiescence ==
  ~stopping /\ quiescence = Free /\ worker \in {"none", "idle"} /\ integrations = 0

\* acquireUpdateQuiescence up to the await of stopAll.
QuiescenceRequested(r) ==
  CanAcquireQuiescence /\ quiescence' = r /\ Goto(r, "draining")

\* ... from there to the await of the strict flush.
Drained(r) ==
  /\ pc[r] = "draining" /\ ~stopping /\ quiescence = r
  /\ worker' = "none" /\ Goto(r, "flushing")
  /\ UNCHANGED <<lock, quiescence, candidate, authority, files, integrations,
                 binary, finals, stopping, quitting>>

\* Mutant: the token outlives its release.
KeepQuiescence(r) == UNCHANGED quiescence

\* releaseUpdateQuiescence; the reconnection it starts is ConnectStarts.
ReleaseQuiescence(r) == quiescence' = IF quiescence = r THEN Free ELSE quiescence

\* UpdateOperationLock.release of the token of run r.
ReleaseLock(r) == lock' = IF lock = r THEN Free ELSE lock

-----------------------------------------------------------------------------
(***************************************************************************)
(* CliUpdateInstallCoordinator.installCli.                                 *)
(***************************************************************************)
cliKeeps == <<candidate, authority, files, installStarted, stopping, integrations, quitting>>

\* A call that a running CLI update, a terminal coordinator or the lock rejects.
CliRejected(r) ==
  /\ pc[r] = "idle"
  /\ (\E c \in CliRuns : Active(c)) \/ terminal \/ lock # Free
  /\ Goto(r, "ended")
  /\ UNCHANGED <<lock, quiescence, binary, worker, terminal, cliKeeps>>

\* Mutant: the CLI update does not share the lock with the app update.
CliStartsUnlocked(r) ==
  /\ pc[r] = "idle"
  /\ ~\E c \in CliRuns : Active(c)
  /\ ~terminal
  /\ \/ QuiescenceRequested(r) /\ lock' = r
     \/ ~CanAcquireQuiescence /\ Goto(r, "ended") /\ UNCHANGED <<lock, quiescence>>
  /\ UNCHANGED <<binary, worker, terminal, cliKeeps>>

CliStarts(r) ==
  /\ pc[r] = "idle"
  /\ ~\E c \in CliRuns : Active(c)
  /\ ~terminal /\ lock = Free
  /\ \/ QuiescenceRequested(r) /\ lock' = r
     \/ ~CanAcquireQuiescence /\ Goto(r, "ended") /\ UNCHANGED <<lock, quiescence>>
  /\ UNCHANGED <<binary, worker, terminal, cliKeeps>>

\* The finally block: both leases go back, quiescence first.
CliEnds(r) == Goto(r, "ended") /\ ReleaseQuiescence(r) /\ ReleaseLock(r)

\* Draining or the flush failed, no runtime, no newer version, not confirmed,
\* or an installUpdate that failed before it executed anything.
CliAbandons(r) ==
  /\ pc[r] \in {"draining", "flushing", "checking", "confirming", "installing"}
  /\ CliEnds(r)
  /\ binary' = IF pc[r] = "installing" THEN "trusted" ELSE binary
  /\ worker' = IF pc[r] = "draining" THEN "none" ELSE worker
  /\ UNCHANGED <<terminal, cliKeeps>>

\* The flush, the check and the confirmation succeed in turn; the
\* confirmation is followed by the spawn of `grok update'.
CliProceeds(r) ==
  /\ \/ pc[r] = "flushing" /\ Goto(r, "checking") /\ UNCHANGED binary
     \/ pc[r] = "checking" /\ Goto(r, "confirming") /\ UNCHANGED binary
     \/ pc[r] = "confirming" /\ Goto(r, "installing") /\ binary' = "unknown"
     \/ pc[r] = "installing" /\ Goto(r, "reading") /\ UNCHANGED binary
  /\ UNCHANGED <<lock, quiescence, worker, terminal, cliKeeps>>

\* The version read back is the target: the binary may run again.
CliVerified(r) ==
  /\ pc[r] = "reading"
  /\ binary' = "trusted" /\ Goto(r, "rechecking")
  /\ UNCHANGED <<lock, quiescence, worker, terminal, cliKeeps>>

\* Mutant: a newer version that surfaced meanwhile starts the update over.
CliInstalledRepeats(r) ==
  /\ pc[r] = "rechecking"
  /\ \/ CliEnds(r)
     \/ Goto(r, "checking") /\ UNCHANGED <<lock, quiescence>>
  /\ UNCHANGED <<binary, worker, terminal, cliKeeps>>

CliInstalled(r) ==
  /\ pc[r] = "rechecking"
  /\ CliEnds(r)
  /\ UNCHANGED <<binary, worker, terminal, cliKeeps>>

\* Mutant: an ambiguous result goes through the finally block with its leases.
CliAmbiguousReleases(r) ==
  /\ pc[r] \in {"installing", "reading"}
  /\ terminal' = TRUE /\ CliEnds(r)
  /\ UNCHANGED <<binary, worker, cliKeeps>>

\* failAmbiguous: the command may have run, or its result is not the target.
\* Both leases are kept, and an ordinary quit is requested.
CliAmbiguous(r) ==
  /\ pc[r] \in {"installing", "reading"}
  /\ terminal' = TRUE /\ Goto(r, "ambiguous")
  /\ UNCHANGED <<lock, quiescence, binary, worker, cliKeeps>>

CliStep(r) ==
  Running /\ (\/ CliRejected(r) \/ CliStarts(r) \/ Drained(r) \/ CliAbandons(r)
              \/ CliProceeds(r) \/ CliVerified(r) \/ CliInstalled(r) \/ CliAmbiguous(r))

-----------------------------------------------------------------------------
(***************************************************************************)
(* UpdateCoordinator.check under AppUpdateInstallCoordinator.check.        *)
(***************************************************************************)
checkKeeps == <<quiescence, authority, files, binary, controller, finals, quitting>>

CheckRejected(r) ==
  /\ pc[r] = "idle" /\ (installStarted \/ lock # Free)
  /\ Goto(r, "ended")
  /\ UNCHANGED <<lock, candidate, checkKeeps>>

CheckStarts(r) ==
  /\ pc[r] = "idle" /\ ~installStarted /\ lock = Free
  /\ lock' = r /\ candidate' = Free /\ Goto(r, "discovering")
  /\ UNCHANGED checkKeeps

\* The feed answers; a newer release with a usable asset becomes the candidate.
CheckEnds(r) ==
  /\ pc[r] = "discovering"
  /\ candidate' \in {candidate, r}
  /\ ReleaseLock(r) /\ Goto(r, "ended")
  /\ UNCHANGED checkKeeps

\* The candidate's time to live ends.
CandidateExpires ==
  /\ Running /\ candidate # Free /\ candidate' = Free
  /\ UNCHANGED <<pc, lock, checkKeeps>>

CheckStep(r) == Running /\ (CheckRejected(r) \/ CheckStarts(r) \/ CheckEnds(r))

-----------------------------------------------------------------------------
(***************************************************************************)
(* AppUpdateInstallCoordinator.installApp.                                 *)
(***************************************************************************)
appKeeps == <<binary, integrations, stopping, terminal, pendingCli>>

\* A call rejected because of its arguments, of an install already started or
\* of contention consumes the candidate all the same.
AppRejected(r) ==
  /\ pc[r] = "idle"
  /\ candidate' = Free /\ Goto(r, "ended")
  /\ UNCHANGED <<lock, quiescence, authority, files, worker, installStarted, quit, appKeeps>>

\* Mutant: the candidate is read and stays in the cache.
AppStartsWithoutConsuming(r) ==
  /\ pc[r] = "idle" /\ ~installStarted /\ lock = Free
  /\ IF candidate = Free
     THEN Goto(r, "ended") /\ UNCHANGED <<lock, authority>>
     ELSE /\ lock' = r /\ authority' = [authority EXCEPT ![r] = candidate]
          /\ Goto(r, "offering")
  /\ UNCHANGED <<candidate, quiescence, files, worker, installStarted, quit, appKeeps>>

\* acquire, then consumeAppCandidate; without a candidate the lock goes back at once.
AppStarts(r) ==
  /\ pc[r] = "idle" /\ ~installStarted /\ lock = Free
  /\ candidate' = Free
  /\ IF candidate = Free
     THEN Goto(r, "ended") /\ UNCHANGED <<lock, authority>>
     ELSE /\ lock' = r /\ authority' = [authority EXCEPT ![r] = candidate]
          /\ Goto(r, "offering")
  /\ UNCHANGED <<quiescence, files, worker, installStarted, quit, appKeeps>>

\* The awaited step succeeds: confirmation, identity, staging, verification,
\* discard of the verified bundle, quiescence, and the identity once more.
AppProceeds(r) ==
  /\ \/ pc[r] = "offering" /\ Goto(r, "inspecting") /\ UNCHANGED <<quiescence, files>>
     \/ pc[r] = "inspecting" /\ Goto(r, "staging") /\ UNCHANGED <<quiescence, files>>
     \/ /\ pc[r] = "staging" /\ Goto(r, "verifying")
        /\ staged' = staged \union {r} /\ UNCHANGED <<quiescence, verified>>
     \/ /\ pc[r] = "verifying" /\ Goto(r, "discarding")
        /\ verified' = verified \union {r} /\ UNCHANGED <<quiescence, staged>>
     \/ /\ pc[r] = "discarding" /\ QuiescenceRequested(r)
        /\ verified' = verified \ {r} /\ UNCHANGED staged
     \/ pc[r] = "flushing" /\ Goto(r, "reinspecting") /\ UNCHANGED <<quiescence, files>>
     \/ pc[r] = "reinspecting" /\ Goto(r, "preparing") /\ UNCHANGED <<quiescence, files>>
     \/ pc[r] = "preparing" /\ Goto(r, "reclaiming") /\ UNCHANGED <<quiescence, files>>
  /\ UNCHANGED <<lock, candidate, authority, worker, installStarted, quit, appKeeps>>

\* Any step before the handoff fails or is declined.  A failed drain or flush
\* has already given the quiescence back.
AppFails(r) ==
  /\ pc[r] \in {"offering", "inspecting", "staging", "verifying", "discarding",
                "draining", "flushing", "reinspecting", "preparing"}
  /\ Goto(r, "cleaning")
  /\ IF pc[r] \in {"draining", "flushing"} THEN ReleaseQuiescence(r) ELSE UNCHANGED quiescence
  /\ worker' = IF pc[r] = "draining" THEN "none" ELSE worker
  /\ UNCHANGED <<lock, candidate, authority, files, installStarted, quit, appKeeps>>

\* Mutant: a discard that fails skips the next one.
DiscardAllStopsAtFailure(r) ==
  /\ verified' = verified \ {r}
  /\ staged' \in {staged, staged \ {r}}

\* Both discards are tried, whether the first one fails or not.
DiscardAll(r) == verified' = verified \ {r} /\ staged' = staged \ {r}

\* cleanup, when its discards have settled: both leases go back.
AppCleaned(r) ==
  /\ pc[r] = "cleaning"
  /\ DiscardAll(r) /\ ReleaseQuiescence(r) /\ ReleaseLock(r) /\ Goto(r, "ended")
  /\ UNCHANGED <<candidate, authority, worker, installStarted, quit, appKeeps>>

\* Squirrel holds the update: prepare succeeded and its source was discarded,
\* or prepare failed closed after its handoff.  No lease goes back; the outer
\* quit gate opens and the process leaves.
AppHandsOff(r) ==
  /\ pc[r] \in {"preparing", "reclaiming"}
  /\ staged' = IF pc[r] = "reclaiming" THEN staged \ {r} ELSE staged
  /\ installStarted' = TRUE /\ Goto(r, "restarting")
  /\ quit' = "ready"
  /\ UNCHANGED <<lock, quiescence, verified, candidate, authority, worker, appKeeps>>

AppStep(r) ==
  Running /\ (\/ AppRejected(r) \/ AppStarts(r) \/ AppProceeds(r) \/ Drained(r)
              \/ AppFails(r) \/ AppCleaned(r) \/ AppHandsOff(r))

-----------------------------------------------------------------------------
(***************************************************************************)
(* The quit path: before-quit and AppController.stop.                      *)
(***************************************************************************)
\* The first before-quit: controller.stop() begins, and the CLI update that
\* is under way is waited for.
QuitRequested ==
  /\ quit = "no"
  /\ quit' = "cleanup" /\ stopping' = TRUE
  /\ pendingCli' = {r \in CliRuns : Active(r) /\ ~Retained(r)}
  /\ UNCHANGED <<pc, lock, quiescence, candidate, authority, files, worker,
                 integrations, binary, finals>>

\* The last steps of AppController.stop: no worker is left, the token is cleared.
ControllerStopped ==
  /\ quit \in {"cleanup", "ready"} /\ stopping
  /\ worker # "none" \/ quiescence # Free
  /\ worker' = "none" /\ quiescence' = Free
  /\ UNCHANGED <<pc, lock, candidate, authority, files, integrations,
                 binary, finals, stopping, quitting>>

\* Mutant: the quit does not wait for the CLI update.
CleanupEndsEarly ==
  /\ quit = "cleanup" /\ worker = "none" /\ quiescence = Free
  /\ quit' = "ready"
  /\ UNCHANGED <<pc, lock, quiescence, candidate, authority, files, controller,
                 binary, finals, pendingCli>>

\* Mutant: the quit waits until the CLI update has given its leases back.
CleanupAwaitsLeases ==
  /\ quit = "cleanup" /\ worker = "none" /\ quiescence = Free
  /\ \A r \in pendingCli : lock # r
  /\ quit' = "ready"
  /\ UNCHANGED <<pc, lock, quiescence, candidate, authority, files, controller,
                 binary, finals, pendingCli>>

CleanupEnds ==
  /\ quit = "cleanup" /\ worker = "none" /\ quiescence = Free
  /\ \A r \in pendingCli : pc[r] \in {"ended", "ambiguous"}
  /\ quit' = "ready"
  /\ UNCHANGED <<pc, lock, quiescence, candidate, authority, files, controller,
                 binary, finals, pendingCli>>

ProcessExits ==
  /\ quit = "ready"
  /\ quit' = "exited"
  /\ UNCHANGED <<pc, lock, quiescence, candidate, authority, files, controller,
                 binary, finals, pendingCli>>

Quit == QuitRequested \/ ControllerStopped \/ CleanupEnds \/ ProcessExits

Controller == \/ ConnectStarts \/ ConnectEnds \/ WorkerChanges
              \/ IntegrationStarts \/ IntegrationEnds

Next == \/ \E r \in CliRuns : CliStep(r)
        \/ \E r \in AppRuns : AppStep(r)
        \/ \E r \in CheckRuns : CheckStep(r)
        \/ CandidateExpires
        \/ Controller
        \/ Quit

Spec == Init /\ [][Next]_vars

\* Every awaited service settles (each has a timeout, or is the user's answer
\* to a dialog), and a quit that has begun goes on.
Fairness ==
  /\ \A r \in CliRuns : WF_vars(Active(r) /\ CliStep(r))
  /\ \A r \in AppRuns : WF_vars(Active(r) /\ AppStep(r))
  /\ \A r \in CheckRuns : WF_vars(Active(r) /\ CheckStep(r))
  /\ WF_vars(ControllerStopped) /\ WF_vars(CleanupEnds) /\ WF_vars(ProcessExits)

FairSpec == Spec /\ Fairness

-----------------------------------------------------------------------------
\* A run that is past its acquire and not over is the owner of the lock, and an
\* owner is such a run: at most one update operation is under way, and none is
\* locked out by a run that is over.
LockIsOwnedByTheActiveRun ==
  /\ \A r \in Runs : Active(r) => lock = r
  /\ lock # Free => Active(lock)

\* The quiescence lease never outlives the operation that took it, and is held
\* from the drain on until the run is over, unless the controller is stopping.
QuiescenceWithinOperation ==
  /\ quiescence \in {Free, lock}
  /\ \A r \in Runs : pc[r] \in {"draining"} \union QuietSteps => quiescence = r \/ stopping

\* While `grok update' may have changed the CLI and its version has not been
\* read back, and while Squirrel prepares or holds the replacement of the app,
\* no ACP worker runs, no integration operation runs the CLI, and no update
\* check does: nothing reconnects through an unverified binary.
NothingRunsDuringUpdate ==
  (binary = "unknown" \/ \E r \in AppRuns : pc[r] \in {"preparing", "reclaiming", "restarting"})
    => /\ worker = "none" /\ integrations = 0
       /\ \A r \in CheckRuns : pc[r] # "discovering"

\* Once an update can no longer be taken back, the operation that made it so
\* keeps both gates closed until the process exits: no other update starts, and
\* no session connects.
IrreversibleKeepsGates ==
  terminal \/ installStarted =>
    /\ lock # Free /\ Retained(lock)
    /\ quiescence = lock \/ stopping

\* A run that is over has discarded its archive and its extracted bundle, or has
\* at least tried both: one failed discard does not leave the other file behind.
FilesReclaimed == \A r \in staged \union verified : Active(r)

\* A discovered candidate authorizes one install attempt at most, and is gone
\* from the cache as soon as one has seen it.
CandidateOneShot ==
  \A r \in AppRuns : authority[r] # Free =>
    /\ candidate # authority[r]
    /\ \A q \in AppRuns \ {r} : authority[q] # authority[r]

\* The process does not exit while `grok update' runs or its result is unread:
\* an ordinary quit waits for it, and the quit of an app update excludes it.
QuitSparesCliInstall ==
  quit = "exited" => \A r \in CliRuns : pc[r] \notin {"installing", "reading"}

\* An update run ends: its leases go back, or it has reached the point of no
\* return, or the process is gone.
RunsEnd ==
  \A r \in Runs : Active(r) ~> (~Active(r) \/ Retained(r) \/ quit = "exited")

\* A quit that has begun ends the process, whatever updates are under way.
QuitCompletes == quit = "cleanup" ~> quit = "exited"
=============================================================================
