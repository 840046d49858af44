----------------------------- MODULE AppRelease -----------------------------
(***************************************************************************)
(* What an app update does to the disk and to Squirrel: TrustedUpdateStager, *)
(* TrustedAppArchiveVerifier, MacAppIdentityService, TrustedSquirrelUpdater *)
(* and the steps of AppUpdateInstallCoordinator that call them, from the   *)
(* check of the release to the quit, over the launches of the app.         *)
(* UpdateInstall has the locks and leases of the same run.                 *)
(*                                                                         *)
(* An archive is known by its content.  A tool that runs and a file that is *)
(* written may fail; another program may change the app or a stage.        *)
(***************************************************************************)
EXTENDS Naturals, FiniteSets

CONSTANTS Stages,       \* names of grokbuild-update-* directories
          MaxLaunches,  \* bound: launches of the app
          MaxOutside    \* bound: what another program changes

\* The release that is published, and what its archive may be: the app; not a whole app; an app that somebody else signed;
\* an app of another version.
Release == 2
Contents == {"good", "crooked", "foreign", "other"}
None == "none"
VersionOf(content) == IF content = "other" THEN 3 ELSE Release
Installable(content) == content \in {"good", "other"}

Absent == [owner |-> 0, archive |-> None, stamp |-> 0, feed |-> FALSE, tmp |-> FALSE, foreign |-> FALSE]
NoBound == [archive |-> None, stamp |-> 0]
Idle == [at |-> "idle", stage |-> None, known |-> 0, bound |-> NoBound]
NoSquirrel == [feed |-> None, asked |-> FALSE, holds |-> None, event |-> None]
NoSweep == [left |-> {}, stage |-> None, step |-> None, seen |-> Absent]

VARIABLES
  app,       \* the version of the bundle at the path of the app
  running,   \* the version of the process, 0 when there is none
  offer,     \* the archive that the release names by its digest
  candidate, \* UpdateCoordinator.cachedCandidate is there
  run,       \* installExclusive: where it is, its stage, the identity it inspected, the archive that prepare bound
  stages,    \* the directory of each name
  owned,     \* TrustedUpdateStager.ownedDirectories
  bundle,    \* what is in the directory that the verifier extracts to, "empty", or None
  phase,     \* TrustedSquirrelUpdater.state
  squirrel,  \* Squirrel: its feed, whether it was asked in this process, what it prepared, what it tells
  sweep,     \* cleanupStale
  changes,   \* changes of other programs
  launches,
  stuck      \* the directories of this process whose removal failed

vars == <<app, running, offer, candidate, run, stages, owned, bundle, phase, squirrel, sweep, changes, launches, stuck>>
outer == <<app, running, offer, launches>>

TypeOK ==
  /\ app \in 1..3 /\ running \in 0..3 /\ offer \in Contents /\ candidate \in BOOLEAN
  /\ run.stage \in Stages \union {None} /\ run.known \in 0..3 /\ run.bound.archive \in Contents \union {None}
  /\ stages \in [Stages -> [owner : 0..MaxLaunches, archive : Contents \union {None}, stamp : 0..MaxOutside,
                            feed : BOOLEAN, tmp : BOOLEAN, foreign : BOOLEAN]]
  /\ owned \subseteq Stages /\ bundle \in Contents \union {None, "empty"}
  /\ phase \in {"idle", "preparing", "ready", "installing", "failed-closed"}
  /\ squirrel.feed \in Stages \union {None} /\ squirrel.holds \in Contents \union {None}
  /\ sweep.left \subseteq Stages /\ changes \in 0..MaxOutside /\ launches \in 1..MaxLaunches
  /\ stuck \subseteq Stages \union {"bundle"}

Init ==
  /\ app = 1 /\ running = 1 /\ offer \in Contents /\ candidate = FALSE
  /\ run = Idle /\ stages = [s \in Stages |-> Absent] /\ owned = {} /\ bundle = None
  /\ phase = "idle" /\ squirrel = NoSquirrel /\ sweep = NoSweep
  /\ changes = 0 /\ launches = 1 /\ stuck = {}

-----------------------------------------------------------------------------
At(step) == running > 0 /\ run.at = step
Goes(step) == run' = [run EXCEPT !.at = step]
Fails == Goes("cleaning")
Stage == stages[run.stage]

\* Mutant: the directory is forgotten before it is removed.
RemovedForgotten(s) ==
  /\ owned' = owned \ {s} /\ UNCHANGED stuck
  /\ stages' \in {stages, [stages EXCEPT ![s] = Absent]}

\* removeOwnedDirectory of the stager: a directory whose removal fails stays owned.
Removed(s) ==
  IF s \notin owned THEN UNCHANGED <<stages, owned, stuck>> ELSE
    \/ stages' = [stages EXCEPT ![s] = Absent] /\ owned' = owned \ {s} /\ UNCHANGED stuck
    \/ stuck' = stuck \union {s} /\ UNCHANGED <<stages, owned>>

\* removeOwnedDirectory of the verifier.
BundleRemoved == bundle' = None /\ UNCHANGED stuck
BundleStays == stuck' = stuck \union {"bundle"} /\ UNCHANGED bundle

\* check: the newest release, when it is newer than the app that runs and has an archive of this product with a digest.
Check ==
  /\ At("idle") /\ ~candidate
  /\ Release > running /\ candidate' = TRUE
  /\ UNCHANGED <<outer, run, stages, owned, bundle, phase, squirrel, sweep, changes, stuck>>

\* installApp takes the candidate and asks the user.
Install ==
  /\ At("idle") /\ candidate
  /\ candidate' = FALSE
  /\ \/ Goes("inspecting")
     \/ UNCHANGED run  \* expired, or declined
  /\ UNCHANGED <<outer, stages, owned, bundle, phase, squirrel, sweep, changes, stuck>>

\* inspect: the bundle of the app that runs, its signature, its metadata and its architectures.
Inspects(version) == app = version

\* It is not where an app may be updated or not signed as one, or a tool fails.
Ineligible == Fails

\* The app that is installed is the one that runs and that the candidate is newer than.
Inspected ==
  /\ At("inspecting")
  /\ \/ Inspects(running) /\ run' = [run EXCEPT !.at = "staging", !.known = app]
     \/ Ineligible
  /\ UNCHANGED <<outer, candidate, stages, owned, bundle, phase, squirrel, sweep, changes, stuck>>

\* stageExclusive: the directory, and the download into it.
StageMade ==
  /\ At("staging")
  /\ \E s \in Stages :
       /\ stages[s] = Absent
       /\ stages' = [stages EXCEPT ![s].owner = launches]
       /\ owned' = owned \union {s}
       /\ run' = [run EXCEPT !.at = "downloading", !.stage = s]
  /\ UNCHANGED <<outer, candidate, bundle, phase, squirrel, sweep, changes, stuck>>

\* canonicalStagingRoot: the root is not a private directory of this user.
StageRefused ==
  /\ At("staging") /\ Fails
  /\ UNCHANGED <<outer, candidate, stages, owned, bundle, phase, squirrel, sweep, changes, stuck>>

\* The bytes have the length and the digest of the candidate.
Downloaded ==
  /\ At("downloading")
  /\ stages' = [stages EXCEPT ![run.stage].archive = offer]
  /\ Goes("verifying")
  /\ UNCHANGED <<outer, candidate, owned, bundle, phase, squirrel, sweep, changes, stuck>>

\* Mutant: a failed download leaves the directory to the coordinator.
DownloadFailsLeaving ==
  /\ At("downloading")
  /\ run' = [run EXCEPT !.at = "cleaning", !.stage = None]
  /\ UNCHANGED <<outer, candidate, stages, owned, stuck, bundle, phase, squirrel, sweep, changes>>

\* They do not, or they do not come: the directory is removed, and the coordinator never gets it.
DownloadFails ==
  /\ At("downloading")
  /\ Removed(run.stage)
  /\ run' = [run EXCEPT !.at = "cleaning", !.stage = None]
  /\ UNCHANGED <<outer, candidate, bundle, phase, squirrel, sweep, changes>>

-----------------------------------------------------------------------------
\* validateStagedArchive of the verifier.
Staged == Stage.archive # None

\* The listing is of one app, whose entries have distinct names inside of it.
Whole(content) == content # "crooked"

\* readArchiveManifest, and the directory to extract the archive to.
Listed ==
  /\ At("verifying")
  /\ \/ Staged /\ Whole(Stage.archive) /\ Goes("extracting") /\ bundle' = "empty"
     \/ Fails /\ UNCHANGED bundle
  /\ UNCHANGED <<outer, candidate, stages, owned, phase, squirrel, sweep, changes, stuck>>

\* ditto, and the comparison of what it wrote with the listing.
Extracted ==
  /\ At("extracting") /\ Staged /\ Whole(Stage.archive)
  /\ bundle' = Stage.archive
  /\ Goes("trusting")
  /\ UNCHANGED <<outer, candidate, stages, owned, phase, squirrel, sweep, changes, stuck>>

\* assertDistributionSignature, and the requirement of the app that runs.
Signed(content) == content \in {"good", "other"}

\* Mutant: the version of the bundle is not compared.
TrustedAnyVersion(content) == Signed(content)

\* verifyApplicationTrust: the signature, the identity of the app that runs, Gatekeeper, the ticket, the version and the
\* architectures.
Trusted(content) == Signed(content) /\ VersionOf(content) = Release

Verified ==
  /\ At("trusting") /\ Trusted(bundle)
  /\ Goes("discarding")
  /\ UNCHANGED <<outer, candidate, stages, owned, bundle, phase, squirrel, sweep, changes, stuck>>

\* A step of verify fails: what it extracted is removed, and a failure of that is swallowed.
VerifyFails ==
  /\ At("extracting") \/ At("trusting")
  /\ Fails
  /\ BundleRemoved \/ BundleStays
  /\ UNCHANGED <<outer, candidate, stages, owned, phase, squirrel, sweep, changes>>

\* The bundle was for the verification only. When it cannot be removed, the run ends, and its cleanup tries once more.
BundleDiscarded ==
  /\ At("discarding")
  /\ \/ BundleRemoved /\ Goes("quiescing")
     \/ Fails /\ UNCHANGED <<bundle, stuck>>
  /\ UNCHANGED <<outer, candidate, stages, owned, phase, squirrel, sweep, changes>>

\* acquireUpdateQuiescence.
Quiesced ==
  /\ At("quiescing")
  /\ Goes("reinspecting") \/ Fails
  /\ UNCHANGED <<outer, candidate, stages, owned, bundle, phase, squirrel, sweep, changes, stuck>>

\* The identity is inspected again, and compared.
Reinspected ==
  /\ At("reinspecting")
  /\ \/ Inspects(run.known) /\ Goes("preparing")
     \/ Ineligible
  /\ UNCHANGED <<outer, candidate, stages, owned, bundle, phase, squirrel, sweep, changes, stuck>>

\* cleanup of the coordinator: the bundle, if there is one, and the stage.
CleanedUp ==
  /\ At("cleaning")
  /\ IF bundle # None /\ "bundle" \notin stuck
       THEN (BundleRemoved \/ BundleStays) /\ UNCHANGED <<run, stages, owned>>
       ELSE /\ IF run.stage = None THEN UNCHANGED <<stages, owned, stuck>> ELSE Removed(run.stage)
            /\ run' = Idle /\ UNCHANGED bundle
  /\ UNCHANGED <<outer, candidate, phase, squirrel, sweep, changes>>

-----------------------------------------------------------------------------
\* prepare before its hand-off: an error makes the updater idle again, and removes the feed.
PrepareFails ==
  /\ phase' = "idle" /\ Fails
  /\ stages' \in {stages, [stages EXCEPT ![run.stage].feed = FALSE]}
  /\ UNCHANGED <<outer, candidate, owned, bundle, squirrel, sweep, changes, stuck>>

\* The archive as prepare finds it.
Prepares ==
  /\ At("preparing") /\ phase = "idle"
  /\ Release > run.known /\ Staged
  /\ phase' = "preparing"
  /\ run' = [run EXCEPT !.at = "feeding", !.bound = [archive |-> Stage.archive, stamp |-> Stage.stamp]]
  /\ UNCHANGED <<outer, candidate, stages, owned, bundle, squirrel, sweep, changes, stuck>>

PreparesNot == At("preparing") /\ PrepareFails

\* writeFeedAtomically.
FeedWritten ==
  /\ At("feeding")
  /\ stages' = [stages EXCEPT ![run.stage].tmp = TRUE]
  /\ Goes("renaming")
  /\ UNCHANGED <<outer, candidate, owned, bundle, phase, squirrel, sweep, changes, stuck>>

FeedNamed ==
  /\ At("renaming")
  /\ stages' = [stages EXCEPT ![run.stage].tmp = FALSE, ![run.stage].feed = TRUE]
  /\ Goes("binding")
  /\ UNCHANGED <<outer, candidate, owned, bundle, phase, squirrel, sweep, changes, stuck>>

FeedFails ==
  /\ At("feeding") \/ At("renaming")
  /\ phase' = "idle" /\ Fails
  /\ stages' \in {stages, [stages EXCEPT ![run.stage].tmp = FALSE]}
  /\ UNCHANGED <<outer, candidate, owned, bundle, squirrel, sweep, changes, stuck>>

\* assertArchiveBound: the path still leads to the file that prepare found, and nobody wrote to it.
Bound == Stage.archive = run.bound.archive /\ Stage.stamp = run.bound.stamp

\* digestArchive, against the digest of the candidate.
Digested == Stage.archive = offer

\* Mutant: the archive is opened without its digest.
ArchiveOpenedUnread ==
  /\ At("binding") /\ Bound
  /\ Goes("handing")
  /\ UNCHANGED <<outer, candidate, stages, owned, bundle, phase, squirrel, sweep, changes, stuck>>

\* openVerifiedArchive: and it has the digest of what was staged.
ArchiveOpened ==
  /\ At("binding") /\ Bound /\ Digested
  /\ Goes("handing")
  /\ UNCHANGED <<outer, candidate, stages, owned, bundle, phase, squirrel, sweep, changes, stuck>>

ArchiveRefused == At("binding") /\ PrepareFails

\* Mutant: an error past the hand-off is cleaned up like one before it.
FailsOpen(sq) ==
  /\ phase' = "idle" /\ squirrel' = sq
  /\ Fails
  /\ UNCHANGED <<outer, candidate, stages, owned, bundle, sweep, changes, stuck>>

\* Past the hand-off an error is the end of the updater, of its archive and of this process.
FailsClosed(sq) ==
  /\ phase' = "failed-closed" /\ squirrel' = sq
  /\ Goes("leaving")
  /\ UNCHANGED <<outer, candidate, stages, owned, bundle, sweep, changes, stuck>>

\* waitForDownloadedUpdate up to checkForUpdates, which runs at once: the feed is set, and Squirrel asked.
Asks ==
  /\ At("handing")
  /\ squirrel' = [squirrel EXCEPT !.feed = run.stage, !.asked = TRUE]
  /\ Goes("waiting")
  /\ UNCHANGED <<outer, candidate, stages, owned, bundle, phase, sweep, changes, stuck>>

\* setFeedURL throws, or the feed that Squirrel reports is another: nothing was handed over.
FeedRefused == At("handing") /\ PrepareFails

\* An event while the feed is set, of a check that this process never made; or checkForUpdates throws.
AskFails ==
  /\ At("handing")
  /\ \E asked \in BOOLEAN : FailsClosed([squirrel EXCEPT !.feed = run.stage, !.asked = asked])

\* Squirrel reads the feed and copies the archive, or fails, or tells of another update that it had prepared before.
SquirrelTakes ==
  /\ running > 0 /\ squirrel.asked /\ squirrel.event = None
  /\ LET source == stages[squirrel.feed] IN
       squirrel' \in
         {[squirrel EXCEPT !.event = "failed"], [squirrel EXCEPT !.event = "other", !.holds = "other"]} \union
         IF source.feed /\ source.archive # None
           THEN {[squirrel EXCEPT !.event = "downloaded", !.holds = source.archive]} ELSE {}
  /\ UNCHANGED <<outer, candidate, run, stages, owned, bundle, phase, sweep, changes, stuck>>

\* Mutant: any update-downloaded.
AcceptsAny(event) == event \in {"downloaded", "other"}

\* update-downloaded, of the version, the date, the archive and the feed that were handed over.
Accepts(event) == event = "downloaded"

HearsDownloaded ==
  /\ At("waiting") /\ Accepts(squirrel.event)
  /\ Goes("rebinding")
  /\ UNCHANGED <<outer, candidate, stages, owned, bundle, phase, squirrel, sweep, changes, stuck>>

\* Any other event; or none before the timeout.
HearsFailure ==
  /\ At("waiting") /\ ~Accepts(squirrel.event)
  /\ FailsClosed(squirrel)

\* Mutant: it is not looked at again.
ReadyAtOnce ==
  /\ At("rebinding")
  /\ phase' = "ready"
  /\ Goes("reclaiming")
  /\ UNCHANGED <<outer, candidate, stages, owned, bundle, squirrel, sweep, changes, stuck>>

\* The archive is still the one that was bound.
Ready ==
  /\ At("rebinding") /\ Bound
  /\ phase' = "ready"
  /\ Goes("reclaiming")
  /\ UNCHANGED <<outer, candidate, stages, owned, bundle, squirrel, sweep, changes, stuck>>

NotBound == At("rebinding") /\ FailsClosed(squirrel)

\* discardPreparedSourceStage: a failure leaves the directory to the next launch.
Reclaimed ==
  /\ At("reclaiming")
  /\ Removed(run.stage)
  /\ Goes("quitting")
  /\ UNCHANGED <<outer, candidate, bundle, phase, squirrel, sweep, changes>>

\* quitAndInstall, once.
QuitAndInstall ==
  /\ At("quitting") /\ phase = "ready"
  /\ phase' = "installing"
  /\ Goes("leaving")
  /\ UNCHANGED <<outer, candidate, stages, owned, bundle, squirrel, sweep, changes, stuck>>

-----------------------------------------------------------------------------
\* The process ends: because of the update, because the user quits, or by a crash.
Exit ==
  /\ running > 0 /\ running' = 0
  /\ candidate' = FALSE /\ run' = Idle /\ owned' = {} /\ stuck' = {} /\ bundle' = None
  /\ phase' = "idle" /\ sweep' = NoSweep
  /\ squirrel' = [squirrel EXCEPT !.asked = FALSE, !.event = None]
  /\ UNCHANGED <<app, offer, launches, stages, changes>>

\* Squirrel installs what it prepared, or drops it; the app starts, and sweeps before there is a coordinator.
Launch ==
  /\ running = 0 /\ launches < MaxLaunches
  /\ launches' = launches + 1
  /\ app' \in {app} \union IF Installable(squirrel.holds) THEN {VersionOf(squirrel.holds)} ELSE {}
  /\ running' = app'
  /\ squirrel' = NoSquirrel
  /\ run' = [run EXCEPT !.at = "sweeping"]
  /\ sweep' = [NoSweep EXCEPT !.left = {s \in Stages : stages[s] # Absent}]
  /\ UNCHANGED <<offer, candidate, stages, owned, bundle, phase, changes, stuck>>

\* The files of a stage, by name.
Names(d) == <<d.archive # None, d.feed, d.tmp, d.foreign>>

swept == <<outer, candidate, run, owned, bundle, phase, squirrel, changes, stuck>>
Skipped == sweep' = [sweep EXCEPT !.left = @ \ {sweep.stage}, !.stage = None, !.step = None, !.seen = Absent]
SweepsAt(step) == At("sweeping") /\ sweep.stage # None /\ sweep.step = step

\* Only a directory with nothing but the files of a stage is touched.
SweepLooks ==
  /\ At("sweeping") /\ sweep.stage = None
  /\ \E s \in sweep.left :
       sweep' = IF stages[s].foreign THEN [sweep EXCEPT !.left = @ \ {s}]
                ELSE [sweep EXCEPT !.stage = s, !.step = "looked", !.seen = stages[s]]
  /\ UNCHANGED <<swept, stages>>

SweepConfirms ==
  /\ SweepsAt("looked")
  /\ IF Names(stages[sweep.stage]) = Names(sweep.seen) THEN sweep' = [sweep EXCEPT !.step = "confirmed"] ELSE Skipped
  /\ UNCHANGED <<swept, stages>>

SweepUnlinks ==
  /\ SweepsAt("confirmed")
  /\ stages' = [stages EXCEPT ![sweep.stage].archive = None, ![sweep.stage].feed = FALSE, ![sweep.stage].tmp = FALSE]
  /\ sweep' = [sweep EXCEPT !.step = "emptied"]
  /\ UNCHANGED swept

\* Mutant: the directory is removed with all that is in it.
SweepRemovesAll ==
  /\ SweepsAt("emptied")
  /\ stages' = [stages EXCEPT ![sweep.stage] = Absent]
  /\ Skipped
  /\ UNCHANGED swept

\* rmdir fails when a file has come meanwhile.
SweepRemoves ==
  /\ SweepsAt("emptied")
  /\ stages' = IF stages[sweep.stage].foreign THEN stages ELSE [stages EXCEPT ![sweep.stage] = Absent]
  /\ Skipped
  /\ UNCHANGED swept

SweepFails == At("sweeping") /\ sweep.stage # None /\ Skipped /\ UNCHANGED <<swept, stages>>

SweepEnds ==
  /\ At("sweeping") /\ sweep.left = {}
  /\ run' = Idle
  /\ UNCHANGED <<outer, candidate, stages, owned, bundle, phase, squirrel, sweep, changes, stuck>>

\* Another program installs another version of the app, writes an archive, or puts a file of its own into a stage.
Outside ==
  /\ changes < MaxOutside /\ changes' = changes + 1
  /\ \/ app' = 3 /\ UNCHANGED stages
     \/ UNCHANGED app /\ \E s \in Stages :
          \/ stages[s].archive # None /\ \E c \in {"good", "other"} :
               stages' = [stages EXCEPT ![s].archive = c, ![s].stamp = @ + 1]
          \/ stages[s] # Absent /\ stages' = [stages EXCEPT ![s].foreign = TRUE]
  /\ UNCHANGED <<running, offer, candidate, run, owned, bundle, phase, squirrel, sweep, launches, stuck>>

Next ==
  \/ Check \/ Install \/ Inspected \/ StageMade \/ StageRefused \/ Downloaded \/ DownloadFails
  \/ Listed \/ Extracted \/ Verified \/ VerifyFails \/ BundleDiscarded \/ Quiesced \/ Reinspected \/ CleanedUp
  \/ Prepares \/ PreparesNot \/ FeedWritten \/ FeedNamed \/ FeedFails \/ ArchiveOpened \/ ArchiveRefused
  \/ Asks \/ FeedRefused \/ AskFails \/ SquirrelTakes \/ HearsDownloaded \/ HearsFailure \/ Ready \/ NotBound
  \/ Reclaimed \/ QuitAndInstall \/ Exit \/ Launch
  \/ SweepLooks \/ SweepConfirms \/ SweepUnlinks \/ SweepRemoves \/ SweepFails \/ SweepEnds \/ Outside

Spec == Init /\ [][Next]_vars

-----------------------------------------------------------------------------
\* What Squirrel has is what was offered, in the version of the release and newer than the one that runs, of which the
\* updater knows.  It is what the digest of the release names, a whole app of ours, unless another program replaced the
\* archive for the inspection and put it back, which takes two changes (src/main/updates/TrustedSquirrelUpdater.ts,
\* prepare).
ReadyIsRelease ==
  phase \in {"ready", "installing"} =>
    /\ squirrel.holds = offer /\ (changes < 2 => offer = "good")
    /\ Release > running /\ run.known = running

\* Squirrel is asked once in a process: from then on the updater is never idle, and when it failed the archive and the
\* feed are kept until the process ends (comment in prepare).
AskedOnce ==
  running > 0 /\ squirrel.feed # None =>
    /\ phase # "idle"
    /\ phase = "failed-closed" => stages[squirrel.feed].archive # None /\ stages[squirrel.feed].feed

\* A run that ended left no directory behind, but one whose removal failed, and that one is still owned.
StageReclaimed ==
  At("idle") =>
    /\ \A s \in Stages : stages[s].owner = launches => s \in owned \intersect stuck
    /\ bundle # None => "bundle" \in stuck

\* The sweep of a launch never removes a file that is not of a stage, whenever it came (cleanupStale).
SweepsStagesOnly ==
  At("sweeping") => \A s \in Stages : stages[s].foreign => stages'[s].foreign
=============================================================================
