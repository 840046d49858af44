--------------------------- MODULE LifecycleProofs ---------------------------
(***************************************************************************)
(* TLAPS proofs about how the application and its workers come to an end:  *)
(* the update transactions with the quit, for any number of runs of each   *)
(* kind, and the channel of a worker, for any calls, any number of starts  *)
(* and any number of faults.                                               *)
(***************************************************************************)
EXTENDS MCLifecycle, SequenceTheorems, FiniteSetTheorems, TLAPS

-----------------------------------------------------------------------------
(* The update transactions (UpdateInstall).                                *)

\* Every run takes only the steps of its own coordinator.
OwnSteps ==
  /\ \A r \in CliRuns : pc[r] \in {"idle", "ended"} \union CliSteps
  /\ \A r \in AppRuns : pc[r] \in {"idle", "ended"} \union AppSteps
  /\ \A r \in CheckRuns : pc[r] \in {"idle", "ended", "discovering"}

\* Quiescence begins without a turn or an integration operation, and from the
\* end of the drain on there is no worker either.
Quiet ==
  /\ quiescence # Free => worker \in {"none", "idle"} /\ integrations = 0
  /\ \A r \in Runs : pc[r] \in QuietSteps => worker = "none" /\ integrations = 0

\* What cannot be taken back has a run that stays where it is.
Witnessed ==
  /\ binary = "unknown" => \E r \in CliRuns : pc[r] \in {"installing", "reading", "ambiguous"}
  /\ terminal => \E r \in CliRuns : pc[r] = "ambiguous"
  /\ installStarted => \E r \in AppRuns : pc[r] = "restarting"

\* The quit path: a stopping controller lets no CLI update begin, so those that
\* are under way are the ones the cleanup waits for.
QuitPath ==
  /\ quit = "cleanup" => stopping
  /\ stopping => quit # "no"
  /\ quit \in {"ready", "exited"} => stopping \/ installStarted
  /\ stopping => \A r \in CliRuns : Active(r) => r \in pendingCli \/ pc[r] = "ambiguous"
  /\ quit \in {"ready", "exited"} =>
       \A r \in CliRuns : pc[r] \in {"idle", "ended", "ambiguous"}

\* A check that has found a candidate is over, so no later check is taken for it.
Found ==
  /\ candidate # Free => pc[candidate] = "ended"
  /\ \A r \in AppRuns : authority[r] # Free => pc[authority[r]] = "ended"

IInv ==
  /\ TypeOK /\ OwnSteps
  /\ LockIsOwnedByTheActiveRun /\ QuiescenceWithinOperation /\ Quiet
  /\ Witnessed /\ QuitPath
  /\ FilesReclaimed /\ CandidateOneShot /\ Found

LEMMA InitIInv == Init => IInv
<1> SUFFICES ASSUME Init PROVE IInv
  OBVIOUS
<1> USE RunsAssumption DEF Init, Runs, Steps, CliSteps, AppSteps, QuietSteps, Active
<1>1. TypeOK /\ OwnSteps
  <2>1. pc \in [Runs -> Steps] /\ authority \in [AppRuns -> CheckRuns \union {Free}]
    OBVIOUS
  <2>2. /\ lock \in Runs \union {Free} /\ quiescence \in CliRuns \union AppRuns \union {Free}
        /\ candidate \in CheckRuns \union {Free}
        /\ staged \subseteq AppRuns /\ verified \subseteq AppRuns /\ pendingCli \subseteq CliRuns
    OBVIOUS
  <2>3. /\ worker \in {"none", "starting", "idle", "busy"} /\ integrations \in 0..1
        /\ binary \in {"trusted", "unknown"} /\ quit \in {"no", "cleanup", "ready", "exited"}
    OBVIOUS
  <2>4. terminal \in BOOLEAN /\ installStarted \in BOOLEAN /\ stopping \in BOOLEAN
    OBVIOUS
  <2>5. OwnSteps
    BY DEF OwnSteps
  <2> QED
    BY <2>1, <2>2, <2>3, <2>4, <2>5, Zenon DEF TypeOK
<1>2. LockIsOwnedByTheActiveRun /\ QuiescenceWithinOperation /\ Quiet
  BY DEF LockIsOwnedByTheActiveRun, QuiescenceWithinOperation, Quiet
<1>3. Witnessed /\ QuitPath /\ FilesReclaimed /\ CandidateOneShot /\ Found
  BY DEF Witnessed, QuitPath, FilesReclaimed, CandidateOneShot, Found
<1> QED
  BY <1>1, <1>2, <1>3 DEF IInv

-----------------------------------------------------------------------------
\* A connection begins only while no update is quiescent.
LEMMA ConnectStartsStep ==
  ASSUME IInv, ConnectStarts
  PROVE  IInv'
<1> USE RunsAssumption DEF Runs, Active, Retained, files, quitting, finals, ConnectStarts
<1>1. TypeOK' /\ OwnSteps'
  BY DEF IInv, TypeOK, OwnSteps, Steps, CliSteps, AppSteps
<1>2. LockIsOwnedByTheActiveRun' /\ QuiescenceWithinOperation' /\ Quiet'
  BY DEF IInv, TypeOK, OwnSteps, CliSteps, AppSteps, QuietSteps,
     LockIsOwnedByTheActiveRun, QuiescenceWithinOperation, Quiet
<1>3. Witnessed' /\ QuitPath'
  BY DEF IInv, TypeOK, OwnSteps, CliSteps, AppSteps, LockIsOwnedByTheActiveRun, Witnessed,
     QuitPath
<1>4. FilesReclaimed' /\ CandidateOneShot' /\ Found'
  BY DEF IInv, TypeOK, LockIsOwnedByTheActiveRun, FilesReclaimed, CandidateOneShot, Found
<1> QED
  BY <1>1, <1>2, <1>3, <1>4 DEF IInv

LEMMA ConnectEndsStep ==
  ASSUME IInv, ConnectEnds
  PROVE  IInv'
<1> USE RunsAssumption DEF Runs, Active, Retained, files, quitting, finals, ConnectEnds
<1>1. TypeOK' /\ OwnSteps'
  BY DEF IInv, TypeOK, OwnSteps, Steps, CliSteps, AppSteps
<1>2. LockIsOwnedByTheActiveRun' /\ QuiescenceWithinOperation' /\ Quiet'
  BY DEF IInv, TypeOK, OwnSteps, CliSteps, AppSteps, QuietSteps,
     LockIsOwnedByTheActiveRun, QuiescenceWithinOperation, Quiet
<1>3. Witnessed' /\ QuitPath'
  BY DEF IInv, TypeOK, OwnSteps, CliSteps, AppSteps, LockIsOwnedByTheActiveRun, Witnessed,
     QuitPath
<1>4. FilesReclaimed' /\ CandidateOneShot' /\ Found'
  BY DEF IInv, TypeOK, LockIsOwnedByTheActiveRun, FilesReclaimed, CandidateOneShot, Found
<1> QED
  BY <1>1, <1>2, <1>3, <1>4 DEF IInv

\* A turn begins only while no update is quiescent.
LEMMA WorkerChangesStep ==
  ASSUME IInv, WorkerChanges
  PROVE  IInv'
<1> USE RunsAssumption DEF Runs, Active, Retained, files, quitting, finals, WorkerChanges
<1>1. TypeOK' /\ OwnSteps'
  BY DEF IInv, TypeOK, OwnSteps, Steps, CliSteps, AppSteps
<1>2. LockIsOwnedByTheActiveRun' /\ QuiescenceWithinOperation' /\ Quiet'
  BY DEF IInv, TypeOK, OwnSteps, CliSteps, AppSteps, QuietSteps,
     LockIsOwnedByTheActiveRun, QuiescenceWithinOperation, Quiet
<1>3. Witnessed' /\ QuitPath'
  BY DEF IInv, TypeOK, OwnSteps, CliSteps, AppSteps, LockIsOwnedByTheActiveRun, Witnessed,
     QuitPath
<1>4. FilesReclaimed' /\ CandidateOneShot' /\ Found'
  BY DEF IInv, TypeOK, LockIsOwnedByTheActiveRun, FilesReclaimed, CandidateOneShot, Found
<1> QED
  BY <1>1, <1>2, <1>3, <1>4 DEF IInv

\* An integration operation begins only while no update is quiescent.
LEMMA IntegrationStartsStep ==
  ASSUME IInv, IntegrationStarts
  PROVE  IInv'
<1> USE RunsAssumption DEF Runs, Active, Retained, files, quitting, finals,
       IntegrationStarts
<1>1. TypeOK' /\ OwnSteps'
  BY DEF IInv, TypeOK, OwnSteps, Steps, CliSteps, AppSteps
<1>2. LockIsOwnedByTheActiveRun' /\ QuiescenceWithinOperation' /\ Quiet'
  BY DEF IInv, TypeOK, OwnSteps, CliSteps, AppSteps, QuietSteps,
     LockIsOwnedByTheActiveRun, QuiescenceWithinOperation, Quiet
<1>3. Witnessed' /\ QuitPath'
  BY DEF IInv, TypeOK, OwnSteps, CliSteps, AppSteps, LockIsOwnedByTheActiveRun, Witnessed,
     QuitPath
<1>4. FilesReclaimed' /\ CandidateOneShot' /\ Found'
  BY DEF IInv, TypeOK, LockIsOwnedByTheActiveRun, FilesReclaimed, CandidateOneShot, Found
<1> QED
  BY <1>1, <1>2, <1>3, <1>4 DEF IInv

LEMMA IntegrationEndsStep ==
  ASSUME IInv, IntegrationEnds
  PROVE  IInv'
<1> USE RunsAssumption DEF Runs, Active, Retained, files, quitting, finals, IntegrationEnds
<1>1. TypeOK' /\ OwnSteps'
  BY DEF IInv, TypeOK, OwnSteps, Steps, CliSteps, AppSteps
<1>2. LockIsOwnedByTheActiveRun' /\ QuiescenceWithinOperation' /\ Quiet'
  BY DEF IInv, TypeOK, OwnSteps, CliSteps, AppSteps, QuietSteps,
     LockIsOwnedByTheActiveRun, QuiescenceWithinOperation, Quiet
<1>3. Witnessed' /\ QuitPath'
  BY DEF IInv, TypeOK, OwnSteps, CliSteps, AppSteps, LockIsOwnedByTheActiveRun, Witnessed,
     QuitPath
<1>4. FilesReclaimed' /\ CandidateOneShot' /\ Found'
  BY DEF IInv, TypeOK, LockIsOwnedByTheActiveRun, FilesReclaimed, CandidateOneShot, Found
<1> QED
  BY <1>1, <1>2, <1>3, <1>4 DEF IInv

\* Once drained there is no worker, and the gate that keeps it so is held.
LEMMA DrainedStep ==
  ASSUME IInv, NEW r \in Runs, Drained(r)
  PROVE  IInv'
<1> USE RunsAssumption DEF Runs, Active, Retained, files, quitting, finals, Drained, Goto
<1>1. TypeOK' /\ OwnSteps'
  BY DEF IInv, TypeOK, OwnSteps, Steps, CliSteps, AppSteps
<1>2. LockIsOwnedByTheActiveRun' /\ QuiescenceWithinOperation' /\ Quiet'
  BY DEF IInv, TypeOK, OwnSteps, CliSteps, AppSteps, QuietSteps,
     LockIsOwnedByTheActiveRun, QuiescenceWithinOperation, Quiet
<1>3. Witnessed' /\ QuitPath'
  BY DEF IInv, TypeOK, OwnSteps, CliSteps, AppSteps, LockIsOwnedByTheActiveRun, Witnessed,
     QuitPath
<1>4. FilesReclaimed' /\ CandidateOneShot' /\ Found'
  BY DEF IInv, TypeOK, LockIsOwnedByTheActiveRun, FilesReclaimed, CandidateOneShot, Found
<1> QED
  BY <1>1, <1>2, <1>3, <1>4 DEF IInv

LEMMA CliRejectedStep ==
  ASSUME IInv, NEW r \in CliRuns, CliRejected(r)
  PROVE  IInv'
<1> USE RunsAssumption DEF Runs, Active, Retained, files, quitting, finals, CliRejected,
       cliKeeps, Goto
<1>1. TypeOK' /\ OwnSteps'
  BY DEF IInv, TypeOK, OwnSteps, Steps, CliSteps, AppSteps
<1>2. LockIsOwnedByTheActiveRun' /\ QuiescenceWithinOperation' /\ Quiet'
  BY DEF IInv, TypeOK, OwnSteps, CliSteps, AppSteps, QuietSteps,
     LockIsOwnedByTheActiveRun, QuiescenceWithinOperation, Quiet
<1>3. Witnessed' /\ QuitPath'
  BY DEF IInv, TypeOK, OwnSteps, CliSteps, AppSteps, LockIsOwnedByTheActiveRun, Witnessed,
     QuitPath
<1>4. FilesReclaimed' /\ CandidateOneShot' /\ Found'
  BY DEF IInv, TypeOK, LockIsOwnedByTheActiveRun, FilesReclaimed, CandidateOneShot, Found
<1> QED
  BY <1>1, <1>2, <1>3, <1>4 DEF IInv

\* The lock was free, so no other run is under way.
LEMMA CliStartsStep ==
  ASSUME IInv, NEW r \in CliRuns, CliStarts(r)
  PROVE  IInv'
<1> USE RunsAssumption DEF Runs, Active, Retained, files, quitting, finals, CliStarts,
       cliKeeps, QuiescenceRequested, CanAcquireQuiescence, Goto
<1>1. TypeOK' /\ OwnSteps'
  BY DEF IInv, TypeOK, OwnSteps, Steps, CliSteps, AppSteps
<1>2. LockIsOwnedByTheActiveRun' /\ QuiescenceWithinOperation' /\ Quiet'
  BY DEF IInv, TypeOK, OwnSteps, CliSteps, AppSteps, QuietSteps,
     LockIsOwnedByTheActiveRun, QuiescenceWithinOperation, Quiet
<1>3. Witnessed' /\ QuitPath'
  BY DEF IInv, TypeOK, OwnSteps, CliSteps, AppSteps, LockIsOwnedByTheActiveRun, Witnessed,
     QuitPath
<1>4. FilesReclaimed' /\ CandidateOneShot' /\ Found'
  BY DEF IInv, TypeOK, LockIsOwnedByTheActiveRun, FilesReclaimed, CandidateOneShot, Found
<1> QED
  BY <1>1, <1>2, <1>3, <1>4 DEF IInv

\* The leases go back with the run over.
LEMMA CliAbandonsStep ==
  ASSUME IInv, NEW r \in CliRuns, CliAbandons(r)
  PROVE  IInv'
<1> USE RunsAssumption DEF Runs, Active, Retained, files, quitting, finals, CliAbandons,
       cliKeeps, CliEnds, ReleaseQuiescence, ReleaseLock, Goto
<1>1. TypeOK' /\ OwnSteps'
  BY DEF IInv, TypeOK, OwnSteps, Steps, CliSteps, AppSteps
<1>2. LockIsOwnedByTheActiveRun' /\ QuiescenceWithinOperation' /\ Quiet'
  BY DEF IInv, TypeOK, OwnSteps, CliSteps, AppSteps, QuietSteps,
     LockIsOwnedByTheActiveRun, QuiescenceWithinOperation, Quiet
<1>3. Witnessed' /\ QuitPath'
  BY DEF IInv, TypeOK, OwnSteps, CliSteps, AppSteps, LockIsOwnedByTheActiveRun, Witnessed,
     QuitPath
<1>4. FilesReclaimed' /\ CandidateOneShot' /\ Found'
  BY DEF IInv, TypeOK, LockIsOwnedByTheActiveRun, FilesReclaimed, CandidateOneShot, Found
<1> QED
  BY <1>1, <1>2, <1>3, <1>4 DEF IInv

\* The updater is spawned with the workers stopped and the gates held.
LEMMA CliProceedsStep ==
  ASSUME IInv, NEW r \in CliRuns, CliProceeds(r)
  PROVE  IInv'
<1> USE RunsAssumption DEF Runs, Active, Retained, files, quitting, finals, CliProceeds,
       cliKeeps, Goto
<1>1. TypeOK' /\ OwnSteps'
  BY DEF IInv, TypeOK, OwnSteps, Steps, CliSteps, AppSteps
<1>2. LockIsOwnedByTheActiveRun' /\ QuiescenceWithinOperation' /\ Quiet'
  BY DEF IInv, TypeOK, OwnSteps, CliSteps, AppSteps, QuietSteps,
     LockIsOwnedByTheActiveRun, QuiescenceWithinOperation, Quiet
<1>3. Witnessed' /\ QuitPath'
  BY DEF IInv, TypeOK, OwnSteps, CliSteps, AppSteps, LockIsOwnedByTheActiveRun, Witnessed,
     QuitPath
<1>4. FilesReclaimed' /\ CandidateOneShot' /\ Found'
  BY DEF IInv, TypeOK, LockIsOwnedByTheActiveRun, FilesReclaimed, CandidateOneShot, Found
<1> QED
  BY <1>1, <1>2, <1>3, <1>4 DEF IInv

LEMMA CliVerifiedStep ==
  ASSUME IInv, NEW r \in CliRuns, CliVerified(r)
  PROVE  IInv'
<1> USE RunsAssumption DEF Runs, Active, Retained, files, quitting, finals, CliVerified,
       cliKeeps, Goto
<1>1. TypeOK' /\ OwnSteps'
  BY DEF IInv, TypeOK, OwnSteps, Steps, CliSteps, AppSteps
<1>2. LockIsOwnedByTheActiveRun' /\ QuiescenceWithinOperation' /\ Quiet'
  BY DEF IInv, TypeOK, OwnSteps, CliSteps, AppSteps, QuietSteps,
     LockIsOwnedByTheActiveRun, QuiescenceWithinOperation, Quiet
<1>3. Witnessed' /\ QuitPath'
  BY DEF IInv, TypeOK, OwnSteps, CliSteps, AppSteps, LockIsOwnedByTheActiveRun, Witnessed,
     QuitPath
<1>4. FilesReclaimed' /\ CandidateOneShot' /\ Found'
  BY DEF IInv, TypeOK, LockIsOwnedByTheActiveRun, FilesReclaimed, CandidateOneShot, Found
<1> QED
  BY <1>1, <1>2, <1>3, <1>4 DEF IInv

LEMMA CliInstalledStep ==
  ASSUME IInv, NEW r \in CliRuns, CliInstalled(r)
  PROVE  IInv'
<1> USE RunsAssumption DEF Runs, Active, Retained, files, quitting, finals, CliInstalled,
       cliKeeps, CliEnds, ReleaseQuiescence, ReleaseLock, Goto
<1>1. TypeOK' /\ OwnSteps'
  BY DEF IInv, TypeOK, OwnSteps, Steps, CliSteps, AppSteps
<1>2. LockIsOwnedByTheActiveRun' /\ QuiescenceWithinOperation' /\ Quiet'
  BY DEF IInv, TypeOK, OwnSteps, CliSteps, AppSteps, QuietSteps,
     LockIsOwnedByTheActiveRun, QuiescenceWithinOperation, Quiet
<1>3. Witnessed' /\ QuitPath'
  BY DEF IInv, TypeOK, OwnSteps, CliSteps, AppSteps, LockIsOwnedByTheActiveRun, Witnessed,
     QuitPath
<1>4. FilesReclaimed' /\ CandidateOneShot' /\ Found'
  BY DEF IInv, TypeOK, LockIsOwnedByTheActiveRun, FilesReclaimed, CandidateOneShot, Found
<1> QED
  BY <1>1, <1>2, <1>3, <1>4 DEF IInv

\* The run stays where it is with both leases.
LEMMA CliAmbiguousStep ==
  ASSUME IInv, NEW r \in CliRuns, CliAmbiguous(r)
  PROVE  IInv'
<1> USE RunsAssumption DEF Runs, Active, Retained, files, quitting, finals, CliAmbiguous,
       cliKeeps, Goto
<1>1. TypeOK' /\ OwnSteps'
  BY DEF IInv, TypeOK, OwnSteps, Steps, CliSteps, AppSteps
<1>2. LockIsOwnedByTheActiveRun' /\ QuiescenceWithinOperation' /\ Quiet'
  BY DEF IInv, TypeOK, OwnSteps, CliSteps, AppSteps, QuietSteps,
     LockIsOwnedByTheActiveRun, QuiescenceWithinOperation, Quiet
<1>3. Witnessed' /\ QuitPath'
  BY DEF IInv, TypeOK, OwnSteps, CliSteps, AppSteps, LockIsOwnedByTheActiveRun, Witnessed,
     QuitPath
<1>4. FilesReclaimed' /\ CandidateOneShot' /\ Found'
  BY DEF IInv, TypeOK, LockIsOwnedByTheActiveRun, FilesReclaimed, CandidateOneShot, Found
<1> QED
  BY <1>1, <1>2, <1>3, <1>4 DEF IInv

LEMMA CheckRejectedStep ==
  ASSUME IInv, NEW r \in CheckRuns, CheckRejected(r)
  PROVE  IInv'
<1> USE RunsAssumption DEF Runs, Active, Retained, files, quitting, finals, CheckRejected,
       checkKeeps, controller, Goto
<1>1. TypeOK' /\ OwnSteps'
  BY DEF IInv, TypeOK, OwnSteps, Steps, CliSteps, AppSteps
<1>2. LockIsOwnedByTheActiveRun' /\ QuiescenceWithinOperation' /\ Quiet'
  BY DEF IInv, TypeOK, OwnSteps, CliSteps, AppSteps, QuietSteps,
     LockIsOwnedByTheActiveRun, QuiescenceWithinOperation, Quiet
<1>3. Witnessed' /\ QuitPath'
  BY DEF IInv, TypeOK, OwnSteps, CliSteps, AppSteps, LockIsOwnedByTheActiveRun, Witnessed,
     QuitPath
<1>4. FilesReclaimed' /\ CandidateOneShot' /\ Found'
  BY DEF IInv, TypeOK, LockIsOwnedByTheActiveRun, FilesReclaimed, CandidateOneShot, Found
<1> QED
  BY <1>1, <1>2, <1>3, <1>4 DEF IInv

LEMMA CheckStartsStep ==
  ASSUME IInv, NEW r \in CheckRuns, CheckStarts(r)
  PROVE  IInv'
<1> USE RunsAssumption DEF Runs, Active, Retained, files, quitting, finals, CheckStarts,
       checkKeeps, controller, Goto
<1>1. TypeOK' /\ OwnSteps'
  BY DEF IInv, TypeOK, OwnSteps, Steps, CliSteps, AppSteps
<1>2. LockIsOwnedByTheActiveRun' /\ QuiescenceWithinOperation' /\ Quiet'
  BY DEF IInv, TypeOK, OwnSteps, CliSteps, AppSteps, QuietSteps,
     LockIsOwnedByTheActiveRun, QuiescenceWithinOperation, Quiet
<1>3. Witnessed' /\ QuitPath'
  BY DEF IInv, TypeOK, OwnSteps, CliSteps, AppSteps, LockIsOwnedByTheActiveRun, Witnessed,
     QuitPath
<1>4. FilesReclaimed' /\ CandidateOneShot' /\ Found'
  BY DEF IInv, TypeOK, LockIsOwnedByTheActiveRun, FilesReclaimed, CandidateOneShot, Found
<1> QED
  BY <1>1, <1>2, <1>3, <1>4 DEF IInv

\* A check sets the candidate only once, as it ends.
LEMMA CheckEndsStep ==
  ASSUME IInv, NEW r \in CheckRuns, CheckEnds(r)
  PROVE  IInv'
<1> USE RunsAssumption DEF Runs, Active, Retained, files, quitting, finals, CheckEnds,
       checkKeeps, controller, ReleaseLock, Goto
<1>1. TypeOK' /\ OwnSteps'
  BY DEF IInv, TypeOK, OwnSteps, Steps, CliSteps, AppSteps
<1>2. LockIsOwnedByTheActiveRun' /\ QuiescenceWithinOperation' /\ Quiet'
  BY DEF IInv, TypeOK, OwnSteps, CliSteps, AppSteps, QuietSteps,
     LockIsOwnedByTheActiveRun, QuiescenceWithinOperation, Quiet
<1>3. Witnessed' /\ QuitPath'
  BY DEF IInv, TypeOK, OwnSteps, CliSteps, AppSteps, LockIsOwnedByTheActiveRun, Witnessed,
     QuitPath
<1>4. FilesReclaimed' /\ CandidateOneShot' /\ Found'
  BY DEF IInv, TypeOK, LockIsOwnedByTheActiveRun, FilesReclaimed, CandidateOneShot, Found
<1> QED
  BY <1>1, <1>2, <1>3, <1>4 DEF IInv

LEMMA CandidateExpiresStep ==
  ASSUME IInv, CandidateExpires
  PROVE  IInv'
<1> USE RunsAssumption DEF Runs, Active, Retained, files, quitting, finals,
       CandidateExpires, checkKeeps, controller
<1>1. TypeOK' /\ OwnSteps'
  BY DEF IInv, TypeOK, OwnSteps, Steps, CliSteps, AppSteps
<1>2. LockIsOwnedByTheActiveRun' /\ QuiescenceWithinOperation' /\ Quiet'
  BY DEF IInv, TypeOK, OwnSteps, CliSteps, AppSteps, QuietSteps,
     LockIsOwnedByTheActiveRun, QuiescenceWithinOperation, Quiet
<1>3. Witnessed' /\ QuitPath'
  BY DEF IInv, TypeOK, OwnSteps, CliSteps, AppSteps, LockIsOwnedByTheActiveRun, Witnessed,
     QuitPath
<1>4. FilesReclaimed' /\ CandidateOneShot' /\ Found'
  BY DEF IInv, TypeOK, LockIsOwnedByTheActiveRun, FilesReclaimed, CandidateOneShot, Found
<1> QED
  BY <1>1, <1>2, <1>3, <1>4 DEF IInv

LEMMA AppRejectedStep ==
  ASSUME IInv, NEW r \in AppRuns, AppRejected(r)
  PROVE  IInv'
<1> USE RunsAssumption DEF Runs, Active, Retained, files, quitting, finals, AppRejected,
       appKeeps, Goto
<1>1. TypeOK' /\ OwnSteps'
  BY DEF IInv, TypeOK, OwnSteps, Steps, CliSteps, AppSteps
<1>2. LockIsOwnedByTheActiveRun' /\ QuiescenceWithinOperation' /\ Quiet'
  BY DEF IInv, TypeOK, OwnSteps, CliSteps, AppSteps, QuietSteps,
     LockIsOwnedByTheActiveRun, QuiescenceWithinOperation, Quiet
<1>3. Witnessed' /\ QuitPath'
  BY DEF IInv, TypeOK, OwnSteps, CliSteps, AppSteps, LockIsOwnedByTheActiveRun, Witnessed,
     QuitPath
<1>4. FilesReclaimed' /\ CandidateOneShot' /\ Found'
  BY DEF IInv, TypeOK, LockIsOwnedByTheActiveRun, FilesReclaimed, CandidateOneShot, Found
<1> QED
  BY <1>1, <1>2, <1>3, <1>4 DEF IInv

\* The candidate leaves the cache as the run takes it.
LEMMA AppStartsStep ==
  ASSUME IInv, NEW r \in AppRuns, AppStarts(r)
  PROVE  IInv'
<1> USE RunsAssumption DEF Runs, Active, Retained, files, quitting, finals, AppStarts,
       appKeeps, Goto
<1>1. TypeOK' /\ OwnSteps'
  BY DEF IInv, TypeOK, OwnSteps, Steps, CliSteps, AppSteps
<1>2. LockIsOwnedByTheActiveRun' /\ QuiescenceWithinOperation' /\ Quiet'
  BY DEF IInv, TypeOK, OwnSteps, CliSteps, AppSteps, QuietSteps,
     LockIsOwnedByTheActiveRun, QuiescenceWithinOperation, Quiet
<1>3. Witnessed' /\ QuitPath'
  BY DEF IInv, TypeOK, OwnSteps, CliSteps, AppSteps, LockIsOwnedByTheActiveRun, Witnessed,
     QuitPath
<1>4. FilesReclaimed' /\ CandidateOneShot' /\ Found'
  BY DEF IInv, TypeOK, LockIsOwnedByTheActiveRun, FilesReclaimed, CandidateOneShot, Found
<1> QED
  BY <1>1, <1>2, <1>3, <1>4 DEF IInv

LEMMA AppProceedsStep ==
  ASSUME IInv, NEW r \in AppRuns, AppProceeds(r)
  PROVE  IInv'
<1> USE RunsAssumption DEF Runs, Active, Retained, files, quitting, finals, AppProceeds,
       appKeeps, QuiescenceRequested, CanAcquireQuiescence, Goto
<1>1. TypeOK' /\ OwnSteps'
  BY DEF IInv, TypeOK, OwnSteps, Steps, CliSteps, AppSteps
<1>2. LockIsOwnedByTheActiveRun' /\ QuiescenceWithinOperation' /\ Quiet'
  BY DEF IInv, TypeOK, OwnSteps, CliSteps, AppSteps, QuietSteps,
     LockIsOwnedByTheActiveRun, QuiescenceWithinOperation, Quiet
<1>3. Witnessed' /\ QuitPath'
  BY DEF IInv, TypeOK, OwnSteps, CliSteps, AppSteps, LockIsOwnedByTheActiveRun, Witnessed,
     QuitPath
<1>4. FilesReclaimed' /\ CandidateOneShot' /\ Found'
  BY DEF IInv, TypeOK, LockIsOwnedByTheActiveRun, FilesReclaimed, CandidateOneShot, Found
<1> QED
  BY <1>1, <1>2, <1>3, <1>4 DEF IInv

LEMMA AppFailsStep ==
  ASSUME IInv, NEW r \in AppRuns, AppFails(r)
  PROVE  IInv'
<1> USE RunsAssumption DEF Runs, Active, Retained, files, quitting, finals, AppFails,
       appKeeps, ReleaseQuiescence, Goto
<1>1. TypeOK' /\ OwnSteps'
  BY DEF IInv, TypeOK, OwnSteps, Steps, CliSteps, AppSteps
<1>2. LockIsOwnedByTheActiveRun' /\ QuiescenceWithinOperation' /\ Quiet'
  BY DEF IInv, TypeOK, OwnSteps, CliSteps, AppSteps, QuietSteps,
     LockIsOwnedByTheActiveRun, QuiescenceWithinOperation, Quiet
<1>3. Witnessed' /\ QuitPath'
  BY DEF IInv, TypeOK, OwnSteps, CliSteps, AppSteps, LockIsOwnedByTheActiveRun, Witnessed,
     QuitPath
<1>4. FilesReclaimed' /\ CandidateOneShot' /\ Found'
  BY DEF IInv, TypeOK, LockIsOwnedByTheActiveRun, FilesReclaimed, CandidateOneShot, Found
<1> QED
  BY <1>1, <1>2, <1>3, <1>4 DEF IInv

LEMMA AppCleanedStep ==
  ASSUME IInv, NEW r \in AppRuns, AppCleaned(r)
  PROVE  IInv'
<1> USE RunsAssumption DEF Runs, Active, Retained, files, quitting, finals, AppCleaned,
       appKeeps, DiscardAll, ReleaseQuiescence, ReleaseLock, Goto
<1>1. TypeOK' /\ OwnSteps'
  BY DEF IInv, TypeOK, OwnSteps, Steps, CliSteps, AppSteps
<1>2. LockIsOwnedByTheActiveRun' /\ QuiescenceWithinOperation' /\ Quiet'
  BY DEF IInv, TypeOK, OwnSteps, CliSteps, AppSteps, QuietSteps,
     LockIsOwnedByTheActiveRun, QuiescenceWithinOperation, Quiet
<1>3. Witnessed' /\ QuitPath'
  BY DEF IInv, TypeOK, OwnSteps, CliSteps, AppSteps, LockIsOwnedByTheActiveRun, Witnessed,
     QuitPath
<1>4. FilesReclaimed' /\ CandidateOneShot' /\ Found'
  BY DEF IInv, TypeOK, LockIsOwnedByTheActiveRun, FilesReclaimed, CandidateOneShot, Found
<1> QED
  BY <1>1, <1>2, <1>3, <1>4 DEF IInv

\* The run stays where it is with both leases, and no CLI update is under way.
LEMMA AppHandsOffStep ==
  ASSUME IInv, NEW r \in AppRuns, AppHandsOff(r)
  PROVE  IInv'
<1> USE RunsAssumption DEF Runs, Active, Retained, files, quitting, finals, AppHandsOff,
       appKeeps, Goto
<1>1. TypeOK' /\ OwnSteps'
  BY DEF IInv, TypeOK, OwnSteps, Steps, CliSteps, AppSteps
<1>2. LockIsOwnedByTheActiveRun' /\ QuiescenceWithinOperation' /\ Quiet'
  BY DEF IInv, TypeOK, OwnSteps, CliSteps, AppSteps, QuietSteps,
     LockIsOwnedByTheActiveRun, QuiescenceWithinOperation, Quiet
<1>3. Witnessed' /\ QuitPath'
  BY DEF IInv, TypeOK, OwnSteps, CliSteps, AppSteps, LockIsOwnedByTheActiveRun, Witnessed,
     QuitPath
<1>4. FilesReclaimed' /\ CandidateOneShot' /\ Found'
  BY DEF IInv, TypeOK, LockIsOwnedByTheActiveRun, FilesReclaimed, CandidateOneShot, Found
<1> QED
  BY <1>1, <1>2, <1>3, <1>4 DEF IInv

LEMMA QuitRequestedStep ==
  ASSUME IInv, QuitRequested
  PROVE  IInv'
<1> USE RunsAssumption DEF Runs, Active, Retained, files, quitting, finals, QuitRequested
<1>1. TypeOK' /\ OwnSteps'
  BY DEF IInv, TypeOK, OwnSteps, Steps, CliSteps, AppSteps
<1>2. LockIsOwnedByTheActiveRun' /\ QuiescenceWithinOperation' /\ Quiet'
  BY DEF IInv, TypeOK, OwnSteps, CliSteps, AppSteps, QuietSteps,
     LockIsOwnedByTheActiveRun, QuiescenceWithinOperation, Quiet
<1>3. Witnessed' /\ QuitPath'
  BY DEF IInv, TypeOK, OwnSteps, CliSteps, AppSteps, LockIsOwnedByTheActiveRun, Witnessed,
     QuitPath
<1>4. FilesReclaimed' /\ CandidateOneShot' /\ Found'
  BY DEF IInv, TypeOK, LockIsOwnedByTheActiveRun, FilesReclaimed, CandidateOneShot, Found
<1> QED
  BY <1>1, <1>2, <1>3, <1>4 DEF IInv

LEMMA ControllerStoppedStep ==
  ASSUME IInv, ControllerStopped
  PROVE  IInv'
<1> USE RunsAssumption DEF Runs, Active, Retained, files, quitting, finals,
       ControllerStopped
<1>1. TypeOK' /\ OwnSteps'
  BY DEF IInv, TypeOK, OwnSteps, Steps, CliSteps, AppSteps
<1>2. LockIsOwnedByTheActiveRun' /\ QuiescenceWithinOperation' /\ Quiet'
  BY DEF IInv, TypeOK, OwnSteps, CliSteps, AppSteps, QuietSteps,
     LockIsOwnedByTheActiveRun, QuiescenceWithinOperation, Quiet
<1>3. Witnessed' /\ QuitPath'
  BY DEF IInv, TypeOK, OwnSteps, CliSteps, AppSteps, LockIsOwnedByTheActiveRun, Witnessed,
     QuitPath
<1>4. FilesReclaimed' /\ CandidateOneShot' /\ Found'
  BY DEF IInv, TypeOK, LockIsOwnedByTheActiveRun, FilesReclaimed, CandidateOneShot, Found
<1> QED
  BY <1>1, <1>2, <1>3, <1>4 DEF IInv

\* The CLI updates under way are over or ambiguous.
LEMMA CleanupEndsStep ==
  ASSUME IInv, CleanupEnds
  PROVE  IInv'
<1> USE RunsAssumption DEF Runs, Active, Retained, files, quitting, finals, CleanupEnds,
       controller
<1>1. TypeOK' /\ OwnSteps'
  BY DEF IInv, TypeOK, OwnSteps, Steps, CliSteps, AppSteps
<1>2. LockIsOwnedByTheActiveRun' /\ QuiescenceWithinOperation' /\ Quiet'
  BY DEF IInv, TypeOK, OwnSteps, CliSteps, AppSteps, QuietSteps,
     LockIsOwnedByTheActiveRun, QuiescenceWithinOperation, Quiet
<1>3. Witnessed' /\ QuitPath'
  BY DEF IInv, TypeOK, OwnSteps, CliSteps, AppSteps, LockIsOwnedByTheActiveRun, Witnessed,
     QuitPath
<1>4. FilesReclaimed' /\ CandidateOneShot' /\ Found'
  BY DEF IInv, TypeOK, LockIsOwnedByTheActiveRun, FilesReclaimed, CandidateOneShot, Found
<1> QED
  BY <1>1, <1>2, <1>3, <1>4 DEF IInv

LEMMA ProcessExitsStep ==
  ASSUME IInv, ProcessExits
  PROVE  IInv'
<1> USE RunsAssumption DEF Runs, Active, Retained, files, quitting, finals, ProcessExits,
       controller
<1>1. TypeOK' /\ OwnSteps'
  BY DEF IInv, TypeOK, OwnSteps, Steps, CliSteps, AppSteps
<1>2. LockIsOwnedByTheActiveRun' /\ QuiescenceWithinOperation' /\ Quiet'
  BY DEF IInv, TypeOK, OwnSteps, CliSteps, AppSteps, QuietSteps,
     LockIsOwnedByTheActiveRun, QuiescenceWithinOperation, Quiet
<1>3. Witnessed' /\ QuitPath'
  BY DEF IInv, TypeOK, OwnSteps, CliSteps, AppSteps, LockIsOwnedByTheActiveRun, Witnessed,
     QuitPath
<1>4. FilesReclaimed' /\ CandidateOneShot' /\ Found'
  BY DEF IInv, TypeOK, LockIsOwnedByTheActiveRun, FilesReclaimed, CandidateOneShot, Found
<1> QED
  BY <1>1, <1>2, <1>3, <1>4 DEF IInv

-----------------------------------------------------------------------------
\* The invariant is inductive.
THEOREM Inductive == IInv /\ [Next]_vars => IInv'
<1> SUFFICES ASSUME IInv, [Next]_vars PROVE IInv'
  OBVIOUS
<1>1. CASE UNCHANGED vars
  BY <1>1 DEF vars, IInv, TypeOK, OwnSteps, LockIsOwnedByTheActiveRun,
     QuiescenceWithinOperation, Quiet, Witnessed, QuitPath, FilesReclaimed,
     CandidateOneShot, Found, Active, Retained
<1>2. CASE \E r \in CliRuns : CliStep(r)
  BY <1>2, CliRejectedStep, CliStartsStep, DrainedStep, CliAbandonsStep, CliProceedsStep,
     CliVerifiedStep, CliInstalledStep, CliAmbiguousStep DEF CliStep, Runs
<1>3. CASE \E r \in AppRuns : AppStep(r)
  BY <1>3, AppRejectedStep, AppStartsStep, AppProceedsStep, DrainedStep, AppFailsStep,
     AppCleanedStep, AppHandsOffStep DEF AppStep, Runs
<1>4. CASE \E r \in CheckRuns : CheckStep(r)
  BY <1>4, CheckRejectedStep, CheckStartsStep, CheckEndsStep DEF CheckStep
<1>5. CASE CandidateExpires \/ Controller \/ Quit
  BY <1>5, CandidateExpiresStep, ConnectStartsStep, ConnectEndsStep, WorkerChangesStep,
     IntegrationStartsStep, IntegrationEndsStep, QuitRequestedStep, ControllerStoppedStep,
     CleanupEndsStep, ProcessExitsStep DEF Controller, Quit
<1> QED
  BY <1>1, <1>2, <1>3, <1>4, <1>5 DEF Next

\* Every reachable state of the update transactions satisfies it.
THEOREM Invariance == Spec => []IInv
<1> QED
  BY InitIInv, Inductive, PTL DEF Spec

\* A kept lease of an ambiguous or handed-off run keeps both gates closed.
LEMMA GatesStayClosed == IInv => IrreversibleKeepsGates
<1> SUFFICES ASSUME IInv, terminal \/ installStarted PROVE
      lock # Free /\ Retained(lock) /\ (quiescence = lock \/ stopping)
  BY DEF IrreversibleKeepsGates
<1>1. PICK r \in Runs : Retained(r)
  BY DEF IInv, Witnessed, Retained, Runs
<1>2. lock = r
  BY <1>1 DEF IInv, LockIsOwnedByTheActiveRun, Active, Retained
<1>3. quiescence = r \/ stopping
  BY <1>1 DEF IInv, QuiescenceWithinOperation, Retained, QuietSteps
<1> QED
  BY <1>1, <1>2, <1>3, RunsAssumption

\* With the lock in one run's hands, no check is under way, and the workers and
\* integration operations were stopped before that run reached its quiet steps.
LEMMA NothingRuns == IInv => NothingRunsDuringUpdate
<1> SUFFICES ASSUME IInv,
                    \/ binary = "unknown"
                    \/ \E r \in AppRuns : pc[r] \in {"preparing", "reclaiming", "restarting"}
             PROVE  /\ worker = "none" /\ integrations = 0
                    /\ \A r \in CheckRuns : pc[r] # "discovering"
  BY DEF NothingRunsDuringUpdate
<1>1. PICK r \in CliRuns \union AppRuns : pc[r] \in QuietSteps
  BY DEF IInv, Witnessed, QuietSteps
<1>2. worker = "none" /\ integrations = 0
  BY <1>1 DEF IInv, Quiet, Runs
<1>3. lock = r
  BY <1>1 DEF IInv, LockIsOwnedByTheActiveRun, Active, QuietSteps, Runs
<1>4. ASSUME NEW k \in CheckRuns PROVE pc[k] # "discovering"
  BY <1>3, RunsAssumption DEF IInv, LockIsOwnedByTheActiveRun, Active, Runs
<1> QED
  BY <1>2, <1>4

\* Type correctness of the update transactions.
THEOREM TypeCorrect == Spec => []TypeOK
<1>1. IInv => TypeOK
  BY DEF IInv
<1> QED
  BY <1>1, Invariance, PTL

\* UpdateOperationLock serializes every update operation and is never left
\* with a run that is over, however many runs there are.
THEOREM LockOwned == Spec => []LockIsOwnedByTheActiveRun
<1>1. IInv => LockIsOwnedByTheActiveRun
  BY DEF IInv
<1> QED
  BY <1>1, Invariance, PTL

\* The quiescence lease stays inside the operation that took it.
THEOREM QuiescenceBounded == Spec => []QuiescenceWithinOperation
<1>1. IInv => QuiescenceWithinOperation
  BY DEF IInv
<1> QED
  BY <1>1, Invariance, PTL

\* Nothing runs through a binary that is being replaced.
THEOREM NothingRunsMeanwhile == Spec => []NothingRunsDuringUpdate
<1> QED
  BY NothingRuns, Invariance, PTL

\* An update that cannot be taken back keeps both gates closed.
THEOREM GatesClosed == Spec => []IrreversibleKeepsGates
<1> QED
  BY GatesStayClosed, Invariance, PTL

\* An exit never cuts a CLI update short.
THEOREM QuitWaits == Spec => []QuitSparesCliInstall
<1>1. IInv => QuitSparesCliInstall
  BY DEF IInv, QuitPath, QuitSparesCliInstall
<1> QED
  BY <1>1, Invariance, PTL

\* A candidate authorizes one install at most.
THEOREM OneShot == Spec => []CandidateOneShot
<1>1. IInv => CandidateOneShot
  BY DEF IInv
<1> QED
  BY <1>1, Invariance, PTL

\* A run that is over has tried to discard both of its files.
THEOREM FilesReclaimedAlways == Spec => []FilesReclaimed
<1>1. IInv => FilesReclaimed
  BY DEF IInv
<1> QED
  BY <1>1, Invariance, PTL

-----------------------------------------------------------------------------
(* The channel of a worker.  StartIsTrue compares what main believes with  *)
(* what the worker does, and news travels between them.  The invariant is  *)
(* therefore about three places at once: what main holds, what is on its   *)
(* way to main, and where AcpClient stands (Undisturbed).                  *)

\* The ids of the requests that the first n starts, the calls and the stop have.
Upto(n) == Calls \union {Channel!StopId} \union {<<"start", k>> : k \in 1 .. n}

Message(n) == {Channel!Response(id, ok) : id \in Upto(n), ok \in BOOLEAN}
                \union {Channel!Event("exit"), Channel!Event("capabilities")}

Contains(q, m) == \E i \in 1 .. Len(q) : q[i] = m

ExitComing == Contains(toMain, Channel!Event("exit"))
StartAccepted == Contains(toMain, Channel!Response(Channel!StartId, TRUE))

ChannelTypeOK ==
  /\ attempt \in 0 .. MaxStarts /\ call \in [Calls -> {"idle", "starting", "sent", "ok", "failed"}]
  /\ toWorker \in Seq(Upto(attempt)) /\ toMain \in Seq(Message(attempt))
  /\ waiters \in SUBSET Upto(attempt) /\ IsFiniteSet(waiters)
  /\ rpc \in SUBSET Calls /\ IsFiniteSet(rpc)
  /\ ready \in BOOLEAN /\ intended \in BOOLEAN /\ ending \in BOOLEAN /\ announced \in BOOLEAN

\* As long as main neither stops the client nor has heard of its exit: AcpClient shuts a child down only for a
\* start that failed, and is ready only between two starts.
Undisturbed ==
  Channel!Registered =>
    /\ ~ending /\ ~Contains(toWorker, Channel!StopId)
    /\ closing # "no" => phase = "failing"
    /\ intended => closing # "no"
    /\ phase \in {"initialize", "open", "mode", "failing"} => ~ready
    /\ phase \in {"initialize", "open"} => child = "running"
    /\ phase = "waiting" => ~(child = "running" /\ ready)
    /\ phase = "mode" => child = "running" \/ ExitComing
    /\ host # "gone"

\* A start that main has accepted, or will, is true or the exit follows.
StartHolds ==
  Channel!Registered /\ (start = "ok" \/ StartAccepted) => (child = "running" /\ ready) \/ ExitComing

IChannel == ChannelTypeOK /\ Undisturbed /\ StartHolds

-----------------------------------------------------------------------------
(* Sequences and sets.                                                     *)

LEMMA SetToSeqType ==
  ASSUME NEW S, IsFiniteSet(S)
  PROVE  Channel!SetToSeq(S) \in Seq(S)
<1>1. Cardinality(S) \in Nat /\ ExistsBijection(1 .. Cardinality(S), S)
  BY FS_CardinalityType
<1>2. PICK f \in Bijection(1 .. Cardinality(S), S) : TRUE
  BY <1>1 DEF ExistsBijection
<1>3. f \in [1 .. Cardinality(S) -> S] /\ Channel!IsInjective(f)
  BY <1>2 DEF Bijection, Injection, IsInjective, Channel!IsInjective
<1>4. Channel!Cardinality(S) = Cardinality(S)
  BY DEF Channel!Cardinality, Cardinality
<1>5. Channel!SetToSeq(S) \in [1 .. Cardinality(S) -> S]
  BY <1>3, <1>4 DEF Channel!SetToSeq
<1> QED
  BY <1>1, <1>5

LEMMA EmptyContains == \A m : ~Contains(<<>>, m)
BY DEF Contains

LEMMA AppendContains ==
  ASSUME NEW S, NEW q \in Seq(S), NEW e \in S, NEW m
  PROVE  Contains(Append(q, e), m) <=> Contains(q, m) \/ m = e
<1>1. Len(Append(q, e)) = Len(q) + 1 /\ Append(q, e)[Len(q) + 1] = e /\ Len(q) \in Nat
  OBVIOUS
<1>2. \A i \in 1 .. Len(q) : Append(q, e)[i] = q[i]
  OBVIOUS
<1> QED
  BY <1>1, <1>2 DEF Contains

LEMMA ConcatContains ==
  ASSUME NEW S, NEW q \in Seq(S), NEW r \in Seq(S), NEW m
  PROVE  Contains(q \o r, m) <=> Contains(q, m) \/ Contains(r, m)
<1>1. Len(q \o r) = Len(q) + Len(r) /\ Len(q) \in Nat /\ Len(r) \in Nat
  OBVIOUS
<1>2. \A i \in 1 .. Len(q) : (q \o r)[i] = q[i]
  OBVIOUS
<1>3. \A i \in 1 .. Len(r) : (q \o r)[Len(q) + i] = r[i]
  OBVIOUS
<1>4. \A i \in Len(q) + 1 .. Len(q) + Len(r) : (q \o r)[i] = r[i - Len(q)] /\ i - Len(q) \in 1 .. Len(r)
  BY <1>1
<1>5. \A i \in 1 .. Len(r) : Len(q) + i \in 1 .. Len(q \o r)
  BY <1>1
<1>6. Contains(r, m) => Contains(q \o r, m)
  BY <1>3, <1>5 DEF Contains
<1>7. Contains(q, m) => Contains(q \o r, m)
  BY <1>1, <1>2 DEF Contains
<1>8. ASSUME NEW i \in 1 .. Len(q \o r), (q \o r)[i] = m PROVE Contains(q, m) \/ Contains(r, m)
  <2>1. CASE i \in 1 .. Len(q)
    BY <2>1, <1>2, <1>8 DEF Contains
  <2>2. CASE i \in Len(q) + 1 .. Len(q) + Len(r)
    BY <2>2, <1>4, <1>8 DEF Contains
  <2> QED
    BY <2>1, <2>2, <1>1
<1> QED
  BY <1>6, <1>7, <1>8 DEF Contains

LEMMA TailContains ==
  ASSUME NEW S, NEW q \in Seq(S), q # <<>>, NEW m
  PROVE  Contains(q, m) <=> m = Head(q) \/ Contains(Tail(q), m)
<1>1. Len(Tail(q)) = Len(q) - 1 /\ Len(q) \in Nat \ {0} /\ Head(q) = q[1]
  OBVIOUS
<1>2. \A i \in 1 .. Len(q) - 1 : Tail(q)[i] = q[i + 1]
  OBVIOUS
<1>3. ASSUME NEW i \in 1 .. Len(q), q[i] = m PROVE m = Head(q) \/ Contains(Tail(q), m)
  <2>1. CASE i = 1
    BY <2>1, <1>1, <1>3
  <2>2. CASE i # 1
    <3>1. i - 1 \in 1 .. Len(q) - 1
      BY <2>2, <1>1
    <3> QED
      BY <3>1, <1>1, <1>2, <1>3 DEF Contains
  <2> QED
    BY <2>1, <2>2
<1>4. ASSUME NEW i \in 1 .. Len(Tail(q)), Tail(q)[i] = m PROVE Contains(q, m)
  <2>1. i + 1 \in 1 .. Len(q) /\ q[i + 1] = m
    BY <1>1, <1>2, <1>4
  <2> QED
    BY <2>1 DEF Contains
<1>5. 1 \in 1 .. Len(q)
  BY <1>1
<1> QED
  BY <1>1, <1>3, <1>4, <1>5 DEF Contains

\* Messages in three groups are those of the first followed by the others.
LEMMA Grouped ==
  ASSUME NEW S
  PROVE  \A q, r, t \in Seq(S) : q \o r \o t = q \o (r \o t) /\ r \o t \in Seq(S)
BY ConcatAssociative

\* Messages that are sent under a condition only.
LEMMA Conditional ==
  ASSUME NEW S, NEW q \in Seq(S), NEW P
  PROVE  /\ (IF P THEN q ELSE <<>>) \in Seq(S) /\ (IF P THEN <<>> ELSE q) \in Seq(S)
         /\ \A m : ~Contains(q, m) => ~Contains(IF P THEN q ELSE <<>>, m)
<1>1. <<>> \in Seq(S)
  OBVIOUS
<1>2. CASE P
  BY <1>1, <1>2
<1>3. CASE ~P
  BY <1>1, <1>3, EmptyContains
<1> QED
  BY <1>2, <1>3

\* What a set of requests is answered with.
LEMMA ResponsesType ==
  ASSUME NEW n \in Nat, NEW ids \in SUBSET Upto(n), IsFiniteSet(ids), NEW ok \in BOOLEAN
  PROVE  /\ Channel!Responses(ids, ok) \in Seq(Message(n))
         /\ ~Contains(Channel!Responses(ids, ok), Channel!Event("exit"))
         /\ \A m : Contains(Channel!Responses(ids, ok), m) => \E id \in ids : m = Channel!Response(id, ok)
<1> DEFINE S == {Channel!Response(id, ok) : id \in ids}
<1>1. IsFiniteSet(S)
  <2> DEFINE f == [id \in ids |-> Channel!Response(id, ok)]
  <2>1. f \in Surjection(ids, S)
    BY DEF Surjection
  <2> QED
    BY <2>1, FS_Surjection
<1>2. Channel!Responses(ids, ok) \in Seq(S)
  BY <1>1, SetToSeqType DEF Channel!Responses
<1>3. S \subseteq Message(n)
  BY DEF Message
<1>4. \A i \in 1 .. Len(Channel!Responses(ids, ok)) : Channel!Responses(ids, ok)[i] \in S
  BY <1>2
<1>5. Channel!Event("exit") \notin S
  BY DEF Channel!Event, Channel!Response
<1>6. Channel!Responses(ids, ok) \in Seq(Message(n))
  BY <1>2, <1>3
<1>7. ~Contains(Channel!Responses(ids, ok), Channel!Event("exit"))
  BY <1>4, <1>5 DEF Contains
<1>8. \A m : Contains(Channel!Responses(ids, ok), m) => \E id \in ids : m = Channel!Response(id, ok)
  BY <1>4 DEF Contains
<1> QED
  BY <1>6, <1>7, <1>8

LEMMA UptoGrows ==
  ASSUME NEW n \in Nat
  PROVE  Upto(n) \subseteq Upto(n + 1) /\ Message(n) \subseteq Message(n + 1) /\ <<"start", n + 1>> \in Upto(n + 1)
BY DEF Upto, Message

LEMMA CallNames ==
  /\ \A c \in Calls : c # Channel!StopId
  /\ \A c \in Calls, n \in 0 .. MaxStarts : c # <<"start", n>>
BY CallsAssumption

LEMMA ResponseShape ==
  ASSUME NEW n, NEW m \in Message(n), m.kind = "response"
  PROVE  \E id \in Upto(n), ok \in BOOLEAN : m = Channel!Response(id, ok)
<1>1. m # Channel!Event("exit") /\ m # Channel!Event("capabilities")
  BY DEF Channel!Event
<1> QED
  BY <1>1 DEF Message

\* No answer to the next start is under way.
LEMMA FreshStart ==
  ASSUME NEW n \in Nat, n + 1 \in 1 .. MaxStarts, toMain \in Seq(Message(n))
  PROVE  ~Contains(toMain, Channel!Response(<<"start", n + 1>>, TRUE))
<1>1. <<"start", n + 1>> \notin Upto(n)
  BY CallNames DEF Upto, Channel!StopId
<1>2. Channel!Response(<<"start", n + 1>>, TRUE) \notin Message(n)
  <2> SUFFICES ASSUME Channel!Response(<<"start", n + 1>>, TRUE) \in Message(n) PROVE FALSE
    OBVIOUS
  <2>1. Channel!Response(<<"start", n + 1>>, TRUE).kind = "response"
        /\ Channel!Response(<<"start", n + 1>>, TRUE).id = <<"start", n + 1>>
    BY DEF Channel!Response
  <2>2. PICK id \in Upto(n), ok \in BOOLEAN : Channel!Response(<<"start", n + 1>>, TRUE) = Channel!Response(id, ok)
    BY <2>1, ResponseShape
  <2>3. Channel!Response(id, ok).id = id
    BY DEF Channel!Response
  <2> QED
    BY <1>1, <2>1, <2>2, <2>3
<1>3. \A i \in 1 .. Len(toMain) : toMain[i] \in Message(n)
  OBVIOUS
<1> QED
  BY <1>2, <1>3 DEF Contains

-----------------------------------------------------------------------------
(* The steps of main.                                                      *)

LEMMA InitStep == Channel!Init => IChannel
<1> SUFFICES ASSUME Channel!Init PROVE IChannel
  OBVIOUS
<1> USE DEF Channel!Init
<1>1. ChannelTypeOK
  <2>1. toWorker \in Seq(Upto(attempt)) /\ toMain \in Seq(Message(attempt))
    OBVIOUS
  <2>2. waiters \in SUBSET Upto(attempt) /\ rpc \in SUBSET Calls
    OBVIOUS
  <2>3. IsFiniteSet({})
    BY FS_EmptySet
  <2>4. attempt \in 0 .. MaxStarts
    BY CallsAssumption
  <2> QED
    BY <2>1, <2>2, <2>3, <2>4 DEF ChannelTypeOK
<1>2. \A m : ~Contains(toMain, m) /\ ~Contains(toWorker, m)
  BY EmptyContains
<1>3. Undisturbed
  BY <1>2 DEF Undisturbed
<1>4. StartHolds
  BY <1>2 DEF StartHolds, StartAccepted
<1> QED
  BY <1>1, <1>3, <1>4 DEF IChannel

\* A start is asked for: what is under way answers earlier ones.
LEMMA AskStartStep ==
  ASSUME IChannel, Channel!AskStart, toMain' = toMain, UNCHANGED Channel!clientVars, UNCHANGED <<announced, stop>>,
         call' \in [Calls -> {"idle", "starting", "sent", "ok", "failed"}]
  PROVE  IChannel'
<1> USE DEF IChannel, Channel!AskStart, Channel!clientVars
<1>1. attempt \in Nat /\ attempt + 1 \in 1 .. MaxStarts /\ attempt' \in 0 .. MaxStarts
  BY CallsAssumption DEF ChannelTypeOK
<1>2. Upto(attempt) \subseteq Upto(attempt + 1) /\ Message(attempt) \subseteq Message(attempt + 1)
  BY <1>1, UptoGrows
<1>3. <<"start", attempt + 1>> \in Upto(attempt + 1)
  BY <1>1, UptoGrows
<1>4. toWorker \in Seq(Upto(attempt + 1)) /\ toMain \in Seq(Message(attempt + 1)) /\ waiters \in SUBSET Upto(attempt + 1)
  BY <1>2 DEF ChannelTypeOK
<1>5. ChannelTypeOK'
  BY <1>1, <1>3, <1>4 DEF ChannelTypeOK
<1>6. Contains(toWorker', Channel!StopId) => Contains(toWorker, Channel!StopId)
  <2>1. Channel!StopId # <<"start", attempt + 1>>
    BY DEF Channel!StopId
  <2> QED
    BY <2>1, <1>3, <1>4, AppendContains
<1>7. Channel!Registered' = Channel!Registered /\ ExitComing' = ExitComing
  BY DEF Channel!Registered, ExitComing
<1>8. Undisturbed'
  BY <1>6, <1>7 DEF Undisturbed, Channel!StopId
<1>9. ~StartAccepted'
  BY <1>1, FreshStart DEF StartAccepted, ChannelTypeOK, Channel!StartId
<1>10. StartHolds'
  BY <1>9 DEF StartHolds
<1> QED
  BY <1>5, <1>8, <1>10

LEMMA ConnectStep == ASSUME IChannel, Channel!Connect PROVE IChannel'
BY AskStartStep DEF Channel!Connect, IChannel, ChannelTypeOK

\* A step that leaves the channel to main, the client and the start promise alone.
LEMMA MainStep ==
  ASSUME IChannel, UNCHANGED <<toMain, attempt>>, UNCHANGED Channel!clientVars, ChannelTypeOK',
         start' = "ok" => start = "ok", host' = host, Channel!Registered' => Channel!Registered,
         Channel!Registered' => (Contains(toWorker, Channel!StopId)' => Contains(toWorker, Channel!StopId))
  PROVE  IChannel'
<1> USE DEF IChannel, Channel!clientVars
<1>1. ExitComing' = ExitComing /\ StartAccepted' = StartAccepted
  BY DEF ExitComing, StartAccepted, Channel!StartId
<1>2. Undisturbed'
  BY <1>1 DEF Undisturbed, Channel!StopId
<1>3. StartHolds'
  BY <1>1 DEF StartHolds
<1> QED
  BY <1>2, <1>3

LEMMA AskStep == ASSUME IChannel, NEW c \in Calls, Channel!Ask(c) PROVE IChannel'
<1> USE DEF IChannel
<1>1. call' \in [Calls -> {"idle", "starting", "sent", "ok", "failed"}]
  BY DEF Channel!Ask, ChannelTypeOK
<1>2. CASE start = "none" /\ c \in Starting /\ Channel!AskStart
  BY <1>1, <1>2, AskStartStep DEF Channel!Ask
<1>3. CASE UNCHANGED <<host, attempt, start, toWorker>>
  <2>1. ChannelTypeOK'
    BY <1>1, <1>3 DEF Channel!Ask, ChannelTypeOK, Channel!clientVars
  <2> QED
    BY <2>1, <1>3, MainStep DEF Channel!Ask, Channel!Registered
<1>4. CASE toWorker' = Append(toWorker, c) /\ UNCHANGED <<host, attempt, start>>
  <2>1. c \in Upto(attempt) /\ toWorker \in Seq(Upto(attempt))
    BY DEF Upto, ChannelTypeOK
  <2>2. toWorker' \in Seq(Upto(attempt))
    BY <2>1, <1>4
  <2>3. Contains(toWorker', Channel!StopId) => Contains(toWorker, Channel!StopId)
    BY <2>1, <1>4, AppendContains, CallNames
  <2>4. ChannelTypeOK'
    BY <1>1, <1>4, <2>2 DEF Channel!Ask, ChannelTypeOK, Channel!clientVars
  <2> QED
    BY <2>3, <2>4, <1>4, MainStep DEF Channel!Ask, Channel!Registered, Channel!StopId
<1> QED
  BY <1>2, <1>3, <1>4 DEF Channel!Ask

LEMMA RejectedType ==
  ASSUME ChannelTypeOK, NEW lost
  PROVE  Channel!Rejected(lost) \in [Calls -> {"idle", "starting", "sent", "ok", "failed"}]
BY DEF Channel!Rejected, ChannelTypeOK

LEMMA RequestTimesOutStep == ASSUME IChannel, Channel!RequestTimesOut PROVE IChannel'
<1> USE DEF IChannel, Channel!RequestTimesOut
<1>1. call' \in [Calls -> {"idle", "starting", "sent", "ok", "failed"}]
  BY RejectedType DEF ChannelTypeOK
<1>2. ChannelTypeOK'
  BY <1>1 DEF ChannelTypeOK, Channel!clientVars
<1> QED
  BY <1>2, MainStep DEF Channel!Registered

LEMMA StopStep == ASSUME IChannel, Channel!Stop \/ Channel!StopTimesOut PROVE IChannel'
<1> USE DEF IChannel, Channel!Stop, Channel!StopTimesOut
<1>1. Channel!StopId \in Upto(attempt) /\ toWorker \in Seq(Upto(attempt))
  BY DEF Upto, ChannelTypeOK
<1>2. toWorker' \in Seq(Upto(attempt))
  BY <1>1
<1>3. ChannelTypeOK'
  BY <1>2 DEF ChannelTypeOK, Channel!clientVars
<1>4. ~Channel!Registered'
  BY DEF Channel!Registered
<1> QED
  BY <1>3, <1>4, MainStep DEF Channel!Registered

\* What a response does to the calls and to what the worker is told.
LEMMA SettledStep ==
  ASSUME IChannel, NEW m \in Message(attempt), m.kind = "response", Channel!Settled(m), attempt' = attempt
  PROVE  /\ call' \in [Calls -> {"idle", "starting", "sent", "ok", "failed"}] /\ toWorker' \in Seq(Upto(attempt))
         /\ Contains(toWorker', Channel!StopId) => Contains(toWorker, Channel!StopId)
         /\ start' = "ok" => start = "ok" \/ m = Channel!Response(Channel!StartId, TRUE)
         /\ stop' = "no" => stop = "no"
<1> USE DEF IChannel
<1>1. call \in [Calls -> {"idle", "starting", "sent", "ok", "failed"}] /\ toWorker \in Seq(Upto(attempt))
  BY DEF ChannelTypeOK
<1>2. CASE m.id = Channel!StartId /\ m.ok /\ Channel!Started
  <2> DEFINE held == {c \in Calls : call[c] = "starting"}
  <2>1. IsFiniteSet(held)
    BY FS_Subset, CallsAssumption
  <2>2. Channel!SetToSeq(held) \in Seq(held)
    BY <2>1, SetToSeqType
  <2>3. held \subseteq Upto(attempt) /\ Channel!StopId \notin held
    BY CallNames DEF Upto
  <2>4. Channel!SetToSeq(held) \in Seq(Upto(attempt)) /\ ~Contains(Channel!SetToSeq(held), Channel!StopId)
    BY <2>2, <2>3 DEF Contains
  <2>5. toWorker' = toWorker \o Channel!SetToSeq(held)
    BY <1>2 DEF Channel!Started
  <2> HIDE DEF held
  <2>6. toWorker' \in Seq(Upto(attempt)) /\ (Contains(toWorker', Channel!StopId) => Contains(toWorker, Channel!StopId))
    BY <1>1, <2>4, <2>5, ConcatContains
  <2>7. m = Channel!Response(Channel!StartId, TRUE)
    <3>1. PICK id \in Upto(attempt), ok \in BOOLEAN : m = Channel!Response(id, ok)
      BY ResponseShape
    <3>2. m.id = id /\ m.ok = ok
      BY <3>1 DEF Channel!Response
    <3> QED
      BY <3>1, <3>2, <1>2
  <2>8. call' \in [Calls -> {"idle", "starting", "sent", "ok", "failed"}] /\ stop' = stop
    BY <1>1, <1>2 DEF Channel!Started
  <2> QED
    BY <2>6, <2>7, <2>8
<1>3. CASE UNCHANGED toWorker /\ start' # "ok" /\ call' = Channel!Rejected({"starting"}) /\ UNCHANGED stop
  BY <1>1, <1>3, RejectedType
<1>4. CASE /\ UNCHANGED <<toWorker, start, stop>>
           /\ m.id \in Calls /\ call' = [call EXCEPT ![m.id] = IF m.ok THEN "ok" ELSE "failed"]
  BY <1>1, <1>4
<1>5. CASE UNCHANGED <<toWorker, start, call>> /\ stop' = "done"
  BY <1>1, <1>5
<1> QED
  BY <1>2, <1>3, <1>4, <1>5 DEF Channel!Settled

LEMMA MainHearsStep == ASSUME IChannel, Channel!MainHears PROVE IChannel'
<1> USE DEF IChannel
<1> DEFINE m == Head(toMain)
<1>1. toMain \in Seq(Message(attempt)) /\ toMain # <<>> /\ toMain' = Tail(toMain) /\ attempt' = attempt
  BY DEF ChannelTypeOK, Channel!MainHears
<1>2. m \in Message(attempt) /\ Tail(toMain) \in Seq(Message(attempt))
  BY <1>1
<1>3. \/ m.kind = "response" /\ Channel!Settled(m) /\ UNCHANGED announced
      \/ UNCHANGED <<start, call, toWorker, stop, announced>> /\ (m.kind = "response" \/ m.id # "exit")
      \/ UNCHANGED <<start, call, toWorker, stop>> /\ announced' = TRUE
  BY DEF Channel!MainHears
<1>4. UNCHANGED Channel!clientVars /\ host' = host
  BY DEF Channel!MainHears
<1>5. \A x : Contains(toMain, x) <=> x = m \/ Contains(toMain', x)
  BY <1>1, TailContains
<1> HIDE DEF m
<1>6. CASE m.kind = "response" /\ Channel!Settled(m) /\ UNCHANGED announced
  <2>1. call' \in [Calls -> {"idle", "starting", "sent", "ok", "failed"}] /\ toWorker' \in Seq(Upto(attempt))
    BY <1>1, <1>2, <1>6, SettledStep
  <2>2. ChannelTypeOK'
    BY <1>1, <1>2, <1>4, <1>6, <2>1 DEF ChannelTypeOK, Channel!clientVars
  <2>3. Contains(toWorker', Channel!StopId) => Contains(toWorker, Channel!StopId)
    BY <1>1, <1>2, <1>6, SettledStep
  <2>4. start' = "ok" => start = "ok" \/ m = Channel!Response(Channel!StartId, TRUE)
    BY <1>1, <1>2, <1>6, SettledStep
  <2>5. Channel!Registered' => Channel!Registered
    BY <1>1, <1>2, <1>6, SettledStep DEF Channel!Registered
  <2>6. m # Channel!Event("exit")
    BY <1>6 DEF Channel!Event
  <2> QED
    <3>1. (ExitComing' <=> ExitComing) /\ (StartAccepted' => StartAccepted)
          /\ (m = Channel!Response(Channel!StartId, TRUE) => StartAccepted)
      BY <1>1, <1>5, <2>6 DEF ExitComing, StartAccepted, Channel!StartId
    <3>2. Undisturbed'
      BY <1>4, <2>3, <2>5, <3>1 DEF Undisturbed, Channel!clientVars, Channel!StopId
    <3>3. StartHolds'
      BY <1>4, <2>4, <2>5, <3>1 DEF StartHolds, Channel!clientVars
    <3> QED
      BY <2>2, <3>2, <3>3
<1>7. CASE UNCHANGED <<start, call, toWorker, stop, announced>> /\ (m.kind = "response" \/ m.id # "exit")
  <2>1. m # Channel!Event("exit")
    BY <1>7 DEF Channel!Event
  <2>2. (ExitComing' <=> ExitComing) /\ (StartAccepted' => StartAccepted)
    BY <1>1, <1>5, <2>1 DEF ExitComing, StartAccepted, Channel!StartId
  <2>3. Channel!Registered' = Channel!Registered
    BY <1>7 DEF Channel!Registered
  <2>4. ChannelTypeOK'
    BY <1>1, <1>2, <1>4, <1>7 DEF ChannelTypeOK, Channel!clientVars
  <2>5. Undisturbed'
    BY <1>4, <1>7, <2>2, <2>3 DEF Undisturbed, Channel!clientVars, Channel!StopId
  <2>6. StartHolds'
    BY <1>4, <1>7, <2>2, <2>3 DEF StartHolds, Channel!clientVars
  <2> QED
    BY <2>4, <2>5, <2>6
<1>8. CASE UNCHANGED <<start, call, toWorker, stop>> /\ announced' = TRUE
  <2>1. ~Channel!Registered'
    BY <1>8 DEF Channel!Registered
  <2>2. ChannelTypeOK'
    BY <1>1, <1>2, <1>4, <1>8 DEF ChannelTypeOK, Channel!clientVars
  <2> QED
    BY <2>1, <2>2 DEF Undisturbed, StartHolds
<1> QED
  BY <1>3, <1>6, <1>7, <1>8

\* With the worker everything under way is gone, and main knows it.
LEMMA WorkerEndsStep == ASSUME IChannel, Channel!WorkerEnds PROVE IChannel'
<1> USE DEF IChannel, Channel!WorkerEnds
<1>1. call' \in [Calls -> {"idle", "starting", "sent", "ok", "failed"}]
  BY RejectedType
<1>2. toWorker' \in Seq(Upto(attempt)) /\ toMain' \in Seq(Message(attempt))
  OBVIOUS
<1>3. waiters' \in SUBSET Upto(attempt) /\ IsFiniteSet(waiters') /\ rpc' \in SUBSET Calls /\ IsFiniteSet(rpc')
  BY FS_EmptySet
<1>4. ChannelTypeOK'
  BY <1>1, <1>2, <1>3 DEF ChannelTypeOK
<1>5. ~Channel!Registered'
  BY DEF Channel!Registered, ChannelTypeOK
<1> QED
  BY <1>4, <1>5 DEF Undisturbed, StartHolds

-----------------------------------------------------------------------------
(* The steps of the worker.                                                *)

\* What a step of the worker adds to the channel to main stays there until main reads it.
LEMMA Said ==
  ASSUME ChannelTypeOK, NEW s \in Seq(Message(attempt)), toMain' = toMain \o s, attempt' = attempt
  PROVE  /\ toMain' \in Seq(Message(attempt))
         /\ ExitComing => ExitComing'
         /\ Contains(s, Channel!Event("exit")) => ExitComing'
         /\ StartAccepted' => StartAccepted \/ Contains(s, Channel!Response(Channel!StartId, TRUE))
<1>1. toMain \in Seq(Message(attempt))
  BY DEF ChannelTypeOK
<1>2. \A x : Contains(toMain', x) <=> Contains(toMain, x) \/ Contains(s, x)
  BY <1>1, ConcatContains
<1>3. toMain' \in Seq(Message(attempt))
  BY <1>1
<1> QED
  BY <1>2, <1>3 DEF ExitComing, StartAccepted, Channel!StartId

\* Refusals of requests are no news of a start or an exit.
LEMMA RefusalsSay ==
  ASSUME ChannelTypeOK, NEW ids \in SUBSET Upto(attempt), IsFiniteSet(ids)
  PROVE  /\ Channel!Responses(ids, FALSE) \in Seq(Message(attempt))
         /\ ~Contains(Channel!Responses(ids, FALSE), Channel!Response(Channel!StartId, TRUE))
<1>1. attempt \in Nat
  BY CallsAssumption DEF ChannelTypeOK
<1>2. Channel!Responses(ids, FALSE) \in Seq(Message(attempt))
  BY <1>1, ResponsesType
<1>3. ~Contains(Channel!Responses(ids, FALSE), Channel!Response(Channel!StartId, TRUE))
  <2> SUFFICES ASSUME Contains(Channel!Responses(ids, FALSE), Channel!Response(Channel!StartId, TRUE)) PROVE FALSE
    OBVIOUS
  <2>1. PICK id \in ids : Channel!Response(Channel!StartId, TRUE) = Channel!Response(id, FALSE)
    BY <1>1, ResponsesType
  <2>2. Channel!Response(Channel!StartId, TRUE).ok = TRUE /\ Channel!Response(id, FALSE).ok = FALSE
    BY DEF Channel!Response
  <2> QED
    BY <2>1, <2>2
<1> QED
  BY <1>2, <1>3

LEMMA Refusals ==
  ASSUME ChannelTypeOK, NEW ids \in SUBSET Upto(attempt), IsFiniteSet(ids), toMain' = toMain \o Channel!Responses(ids, FALSE),
         attempt' = attempt
  PROVE  /\ toMain' \in Seq(Message(attempt))
         /\ ExitComing => ExitComing'
         /\ StartAccepted' => StartAccepted
BY RefusalsSay, Said

\* The requests at the child are among those main may have made.
LEMMA CallsUpto == \A n : Calls \subseteq Upto(n)
BY DEF Upto

\* A shutdown that begins for a start that fails.
LEMMA CloseBeginsStep ==
  ASSUME IChannel, Channel!CloseBegins, closing = "no", phase \in {"initialize", "open"}, UNCHANGED Channel!mainVars,
         UNCHANGED <<created, ready, waiters, child, ending, exiting, toWorker>>
  PROVE  IChannel'
<1> USE DEF IChannel, Channel!CloseBegins
<1>1. toMain' = toMain \o Channel!Responses(rpc, FALSE) /\ rpc' = {} /\ phase' = "failing" /\ attempt' = attempt
      /\ closing' # "no" /\ intended' \in BOOLEAN
  BY DEF Channel!AfterReject, Channel!mainVars
<1>2. rpc \in SUBSET Upto(attempt) /\ IsFiniteSet(rpc)
  BY CallsUpto DEF ChannelTypeOK
<1>3. toMain' \in Seq(Message(attempt))
  BY <1>1, <1>2, Refusals
<1>4. ExitComing => ExitComing'
  BY <1>1, <1>2, Refusals
<1>5. StartAccepted' => StartAccepted
  BY <1>1, <1>2, Refusals
<1>6. ChannelTypeOK'
  BY <1>1, <1>3, FS_EmptySet DEF ChannelTypeOK, Channel!mainVars
<1>7. Channel!Registered' = Channel!Registered
  BY DEF Channel!Registered, Channel!mainVars
<1>8. Undisturbed'
  BY <1>1, <1>4, <1>7 DEF Undisturbed, Channel!mainVars, Channel!StopId
<1>9. StartHolds'
  BY <1>1, <1>4, <1>5, <1>7 DEF StartHolds, Channel!mainVars
<1> QED
  BY <1>6, <1>8, <1>9

LEMMA AppendSaid ==
  ASSUME ChannelTypeOK, NEW id \in Upto(attempt), NEW ok \in BOOLEAN, toMain' = Append(toMain, Channel!Response(id, ok)),
         attempt' = attempt
  PROVE  /\ toMain' \in Seq(Message(attempt))
         /\ ExitComing => ExitComing'
         /\ StartAccepted' => StartAccepted \/ (id = Channel!StartId /\ ok)
<1>1. Channel!Response(id, ok) \in Message(attempt) /\ toMain \in Seq(Message(attempt))
  BY DEF Message, ChannelTypeOK
<1>2. \A x : Contains(toMain', x) <=> Contains(toMain, x) \/ x = Channel!Response(id, ok)
  BY <1>1, AppendContains
<1>3. Channel!Response(Channel!StartId, TRUE) = Channel!Response(id, ok) => id = Channel!StartId /\ ok
  BY DEF Channel!Response
<1>4. toMain' \in Seq(Message(attempt))
  BY <1>1
<1> QED
  BY <1>2, <1>3, <1>4 DEF ExitComing, StartAccepted, Channel!StartId

LEMMA CallIsNoStart == ASSUME ChannelTypeOK, NEW c \in Calls PROVE c # Channel!StartId
BY CallNames DEF ChannelTypeOK, Channel!StartId

LEMMA Upright ==
  ASSUME UNCHANGED Channel!mainVars
  PROVE  /\ Channel!Registered' <=> Channel!Registered
         /\ attempt' = attempt /\ start' = start /\ host' = host /\ call' = call /\ announced' = announced
BY DEF Channel!mainVars, Channel!Registered

LEMMA AwaitStartStep ==
  ASSUME IChannel, NEW id \in Upto(attempt), id # Channel!StopId, Channel!AwaitStart(id), UNCHANGED Channel!mainVars,
         UNCHANGED <<closing, intended, ending, ready, child>>, toWorker' \in Seq(Upto(attempt)),
         Contains(toWorker', Channel!StopId) => Contains(toWorker, Channel!StopId)
  PROVE  IChannel'
<1> USE DEF IChannel
<1>1. CASE child = "running" /\ ready /\ rpc' = rpc \union {id} /\ id \in Calls /\ UNCHANGED <<toMain, waiters, phase>>
  <2>1. IsFiniteSet(rpc')
    BY <1>1, FS_AddElement DEF ChannelTypeOK
  <2>2. ChannelTypeOK'
    BY <1>1, <2>1, Upright DEF ChannelTypeOK
  <2>3. (ExitComing' <=> ExitComing) /\ (StartAccepted' <=> StartAccepted)
    BY <1>1, Upright DEF ExitComing, StartAccepted, Channel!StartId
  <2>4. Undisturbed'
    BY <1>1, <2>3, Upright DEF Undisturbed, Channel!StopId
  <2>5. StartHolds'
    BY <1>1, <2>3, Upright DEF StartHolds
  <2> QED
    BY <2>2, <2>4, <2>5
<1>2. CASE /\ child = "running" /\ ready /\ toMain' = Append(toMain, Channel!Response(id, id \notin Calls))
           /\ UNCHANGED <<rpc, waiters, phase>>
  <2>1. attempt' = attempt /\ (id \notin Calls) \in BOOLEAN
    BY Upright
  <2>2. toMain' \in Seq(Message(attempt))
    BY <1>2, <2>1, AppendSaid
  <2>3. ExitComing => ExitComing'
    BY <1>2, <2>1, AppendSaid
  <2>4. ChannelTypeOK'
    BY <1>2, <2>2, Upright DEF ChannelTypeOK
  <2>5. Undisturbed'
    BY <1>2, <2>3, Upright DEF Undisturbed, Channel!StopId
  <2>6. StartHolds'
    BY <1>2 DEF StartHolds
  <2> QED
    BY <2>4, <2>5, <2>6
<1>3. CASE /\ ~(child = "running" /\ ready) /\ waiters' = waiters \union {id}
           /\ phase' = (IF phase = "idle" THEN "waiting" ELSE phase) /\ UNCHANGED <<rpc, toMain>>
  <2>1. IsFiniteSet(waiters')
    BY <1>3, FS_AddElement DEF ChannelTypeOK
  <2>2. ChannelTypeOK'
    BY <1>3, <2>1, Upright DEF ChannelTypeOK
  <2>3. (ExitComing' <=> ExitComing) /\ (StartAccepted' <=> StartAccepted)
    BY <1>3, Upright DEF ExitComing, StartAccepted, Channel!StartId
  <2>4. Undisturbed'
    BY <1>3, <2>3, Upright DEF Undisturbed, Channel!StopId
  <2>5. StartHolds'
    BY <1>3, <2>3, Upright DEF StartHolds
  <2> QED
    BY <2>2, <2>4, <2>5
<1> QED
  BY <1>1, <1>2, <1>3 DEF Channel!AwaitStart

\* A shutdown leaves what it does not touch well typed.
LEMMA CloseBeginsType ==
  ASSUME ChannelTypeOK, Channel!CloseBegins, attempt' = attempt
  PROVE  toMain' \in Seq(Message(attempt)) /\ rpc' \in SUBSET Calls /\ IsFiniteSet(rpc') /\ intended' \in BOOLEAN
<1>1. CASE UNCHANGED <<closing, intended, rpc, toMain, phase>>
  BY <1>1 DEF ChannelTypeOK
<1>2. CASE /\ toMain' = toMain \o Channel!Responses(rpc, FALSE) /\ rpc' = {}
           /\ intended' = (child = "running")
  <2>1. rpc \in SUBSET Upto(attempt) /\ IsFiniteSet(rpc)
    BY CallsUpto DEF ChannelTypeOK
  <2> QED
    BY <1>2, <2>1, Refusals, FS_EmptySet
<1> QED
  BY <1>1, <1>2 DEF Channel!CloseBegins

LEMMA WorkerHearsStep == ASSUME IChannel, Channel!WorkerHears PROVE IChannel'
<1> USE DEF IChannel
<1> DEFINE id == Head(toWorker)
<1>1. toWorker \in Seq(Upto(attempt)) /\ toWorker # <<>> /\ toWorker' = Tail(toWorker) /\ UNCHANGED Channel!mainVars
      /\ UNCHANGED <<ready, child, exiting>>
  BY DEF ChannelTypeOK, Channel!WorkerHears
<1>2. id \in Upto(attempt) /\ toWorker' \in Seq(Upto(attempt))
  BY <1>1
<1>3. Contains(toWorker', Channel!StopId) => Contains(toWorker, Channel!StopId)
  BY <1>1, TailContains
<1>4. id = Channel!StopId => Contains(toWorker, Channel!StopId)
  BY <1>1, TailContains
<1>5. \/ id # Channel!StopId /\ Channel!AwaitStart(id) /\ UNCHANGED <<closing, intended, ending>>
      \/ /\ \E ok \in BOOLEAN : toMain' = Append(toMain, Channel!Response(id, ok)) /\ (ok => id \in Calls)
         /\ UNCHANGED <<phase, waiters, rpc, intended, closing, ending>>
      \/ id = Channel!StopId /\ ending' = TRUE /\ Channel!CloseBegins /\ UNCHANGED waiters
  BY CallNames, CallsAssumption DEF Channel!WorkerHears
<1> HIDE DEF id
<1>6. CASE id # Channel!StopId /\ Channel!AwaitStart(id) /\ UNCHANGED <<closing, intended, ending>>
  BY <1>1, <1>2, <1>3, <1>6, AwaitStartStep
<1>7. CASE /\ \E ok \in BOOLEAN : toMain' = Append(toMain, Channel!Response(id, ok)) /\ (ok => id \in Calls)
           /\ UNCHANGED <<phase, waiters, rpc, intended, closing, ending>>
  <2>1. PICK ok \in BOOLEAN : toMain' = Append(toMain, Channel!Response(id, ok)) /\ (ok => id \in Calls)
    BY <1>7
  <2>2. attempt' = attempt
    BY <1>1, Upright
  <2>3. toMain' \in Seq(Message(attempt))
    BY <1>2, <2>1, <2>2, AppendSaid
  <2>4. ExitComing => ExitComing'
    BY <1>2, <2>1, <2>2, AppendSaid
  <2>5. StartAccepted' => StartAccepted
    BY <1>2, <2>1, <2>2, AppendSaid, CallIsNoStart
  <2>6. ChannelTypeOK'
    BY <1>1, <1>2, <1>7, <2>3, Upright DEF ChannelTypeOK
  <2>7. Undisturbed'
    BY <1>1, <1>3, <1>7, <2>4, Upright DEF Undisturbed, Channel!StopId
  <2>8. StartHolds'
    BY <1>1, <2>4, <2>5, Upright DEF StartHolds
  <2> QED
    BY <2>6, <2>7, <2>8
<1>8. CASE id = Channel!StopId /\ ending' = TRUE /\ Channel!CloseBegins /\ UNCHANGED waiters
  <2>1. ~Channel!Registered'
    BY <1>1, <1>4, <1>8, Upright DEF Undisturbed
  <2>2. toMain' \in Seq(Message(attempt)) /\ rpc' \in SUBSET Calls /\ IsFiniteSet(rpc') /\ intended' \in BOOLEAN
    BY <1>1, <1>8, Upright, CloseBeginsType
  <2>3. ChannelTypeOK'
    BY <1>1, <1>2, <1>8, <2>2, Upright DEF ChannelTypeOK
  <2> QED
    BY <2>1, <2>3 DEF Undisturbed, StartHolds
<1> QED
  BY <1>5, <1>6, <1>7, <1>8

\* A step of the worker that tells main nothing.
LEMMA QuietStep ==
  ASSUME IChannel, UNCHANGED Channel!mainVars, UNCHANGED <<toMain, toWorker, waiters, rpc, ending>>,
         ready' \in BOOLEAN, intended' \in BOOLEAN,
         child' = "running" /\ ready' <=> child = "running" /\ ready,
         Channel!Registered =>
           /\ closing' # "no" => phase' = "failing"
           /\ intended' => closing' # "no"
           /\ phase' \in {"initialize", "open", "mode", "failing"} => ~ready'
           /\ phase' \in {"initialize", "open"} => child' = "running"
           /\ phase' = "waiting" => ~(child' = "running" /\ ready')
           /\ phase' = "mode" => child' = "running" \/ ExitComing
  PROVE  IChannel'
<1> USE DEF IChannel
<1>1. ChannelTypeOK'
  BY Upright DEF ChannelTypeOK
<1>2. (ExitComing' <=> ExitComing) /\ (StartAccepted' <=> StartAccepted)
  BY Upright DEF ExitComing, StartAccepted, Channel!StartId
<1>3. Undisturbed'
  BY <1>2, Upright DEF Undisturbed, Channel!StopId
<1>4. StartHolds'
  BY <1>2, Upright DEF StartHolds
<1> QED
  BY <1>1, <1>3, <1>4

LEMMA SpawnStep == ASSUME IChannel, Channel!Spawn PROVE IChannel'
<1> USE DEF IChannel, Channel!Spawn
<1>1. ready' = FALSE /\ intended' = FALSE /\ child' \in {"running", "exited"} /\ UNCHANGED Channel!mainVars
  OBVIOUS
<1>2. ChannelTypeOK'
  BY <1>1, Upright DEF ChannelTypeOK
<1>3. (ExitComing' <=> ExitComing) /\ (StartAccepted' <=> StartAccepted)
  BY Upright DEF ExitComing, StartAccepted, Channel!StartId
<1>4. Undisturbed'
  BY <1>3, Upright DEF Undisturbed, Channel!StopId
<1>5. StartHolds'
  BY <1>3, Upright DEF StartHolds, Undisturbed
<1> QED
  BY <1>2, <1>4, <1>5

LEMMA OpensStep == ASSUME IChannel, Channel!Opens PROVE IChannel'
<1> USE DEF Channel!Opens
<1> QED
  BY QuietStep DEF IChannel, Undisturbed, ChannelTypeOK, Channel!Live

LEMMA GraceEndsStep == ASSUME IChannel, Channel!GraceEnds PROVE IChannel'
<1> USE DEF Channel!GraceEnds
<1> QED
  BY QuietStep DEF IChannel, Undisturbed, ChannelTypeOK

LEMMA OpenFailsStep == ASSUME IChannel, Channel!OpenFails PROVE IChannel'
BY CloseBeginsStep DEF Channel!OpenFails, Channel!Live

LEMMA StdoutOverflowsStep == ASSUME IChannel, Channel!StdoutOverflows PROVE IChannel'
<1> USE DEF Channel!StdoutOverflows
<1>1. CASE Channel!AfterReject = "failing" /\ Channel!CloseBegins
  <2>1. phase \in {"initialize", "open"} /\ closing = "no"
    BY <1>1 DEF Channel!AfterReject, Channel!Live
  <2> QED
    BY <1>1, <2>1, CloseBeginsStep
<1>2. CASE toMain' = toMain \o Channel!Responses(rpc, FALSE) /\ rpc' = {} /\ UNCHANGED <<phase, closing, intended>>
  <2> USE DEF IChannel
  <2>1. rpc \in SUBSET Upto(attempt) /\ IsFiniteSet(rpc) /\ attempt' = attempt
    BY CallsUpto, Upright DEF ChannelTypeOK
  <2>2. toMain' \in Seq(Message(attempt))
    BY <1>2, <2>1, Refusals
  <2>3. ExitComing => ExitComing'
    BY <1>2, <2>1, Refusals
  <2>4. StartAccepted' => StartAccepted
    BY <1>2, <2>1, Refusals
  <2>5. ChannelTypeOK'
    BY <1>2, <2>2, Upright, FS_EmptySet DEF ChannelTypeOK
  <2>6. Undisturbed'
    BY <1>2, <2>3, Upright DEF Undisturbed, Channel!StopId
  <2>7. StartHolds'
    BY <1>2, <2>3, <2>4, Upright DEF StartHolds
  <2> QED
    BY <2>5, <2>6, <2>7
<1> QED
  BY <1>1, <1>2

LEMMA OrphanExitsStep == ASSUME IChannel, Channel!OrphanExits PROVE IChannel'
<1> USE DEF IChannel, Channel!OrphanExits
<1>1. ~Channel!Registered'
  BY Upright DEF Undisturbed
<1>2. ChannelTypeOK'
  BY Upright DEF ChannelTypeOK
<1> QED
  BY <1>1, <1>2 DEF Undisturbed, StartHolds

LEMMA ChildAnswersStep == ASSUME IChannel, Channel!ChildAnswers PROVE IChannel'
<1> USE DEF IChannel, Channel!ChildAnswers
<1>1. PICK c \in rpc, ok \in BOOLEAN : rpc' = rpc \ {c} /\ toMain' = Append(toMain, Channel!Response(c, ok))
  OBVIOUS
<1>2. c \in Calls /\ c \in Upto(attempt) /\ attempt' = attempt /\ IsFiniteSet(rpc')
  BY <1>1, CallsUpto, Upright, FS_RemoveElement DEF ChannelTypeOK
<1>3. toMain' \in Seq(Message(attempt))
  BY <1>1, <1>2, AppendSaid
<1>4. ExitComing => ExitComing'
  BY <1>1, <1>2, AppendSaid
<1>5. StartAccepted' => StartAccepted
  BY <1>1, <1>2, AppendSaid, CallIsNoStart
<1>6. ChannelTypeOK'
  BY <1>1, <1>2, <1>3, Upright DEF ChannelTypeOK
<1>7. Undisturbed'
  BY <1>4, Upright DEF Undisturbed, Channel!StopId
<1>8. StartHolds'
  BY <1>4, <1>5, Upright DEF StartHolds
<1> QED
  BY <1>6, <1>7, <1>8

\* The child was running when set_mode began; if it is gone, main hears of the exit after the answer.
LEMMA StartDoneStep == ASSUME IChannel, Channel!StartDone PROVE IChannel'
<1> USE DEF IChannel, Channel!StartDone
<1> DEFINE starts == waiters \ Calls
           prompts == waiters \intersect Calls
           refused == IF Channel!Live THEN <<>> ELSE Channel!Responses(prompts, FALSE)
           said == <<Channel!Event("capabilities")>> \o Channel!Responses(starts, TRUE) \o refused
<1>1. attempt' = attempt /\ attempt \in Nat
  BY CallsAssumption, Upright DEF ChannelTypeOK
<1>2. /\ starts \in SUBSET Upto(attempt) /\ IsFiniteSet(starts)
      /\ prompts \in SUBSET Upto(attempt) /\ prompts \in SUBSET Calls /\ IsFiniteSet(prompts)
  BY FS_Subset DEF ChannelTypeOK
<1>3. Channel!Responses(starts, TRUE) \in Seq(Message(attempt)) /\ Channel!Responses(prompts, FALSE) \in Seq(Message(attempt))
  BY <1>1, <1>2, ResponsesType
<1>4. refused \in Seq(Message(attempt))
  BY <1>3, Conditional
<1>5. <<Channel!Event("capabilities")>> \in Seq(Message(attempt))
  BY DEF Message
<1>6. toMain \in Seq(Message(attempt))
  BY DEF ChannelTypeOK
<1>7. rpc' \in SUBSET Calls /\ IsFiniteSet(rpc')
  BY <1>2, FS_Union DEF ChannelTypeOK
<1>8. toMain' = toMain \o <<Channel!Event("capabilities")>> \o Channel!Responses(starts, TRUE) \o refused
  OBVIOUS
<1> HIDE DEF starts, prompts, refused
<1>9. said \in Seq(Message(attempt)) /\ toMain' = toMain \o said
  <2> DEFINE first == <<Channel!Event("capabilities")>>
             then == Channel!Responses(starts, TRUE)
  <2>1. first \in Seq(Message(attempt)) /\ then \in Seq(Message(attempt))
    BY <1>3, <1>5
  <2>2. toMain' = toMain \o first \o then \o refused
    BY <1>8
  <2> HIDE DEF first, then
  <2>3. \A q, r, t \in Seq(Message(attempt)) : q \o r \o t = q \o (r \o t) /\ r \o t \in Seq(Message(attempt))
    BY Grouped
  <2>4. first \o then \in Seq(Message(attempt)) /\ toMain \o first \o then = toMain \o (first \o then)
    BY <2>1, <2>3, <1>6
  <2>5. toMain \o (first \o then) \o refused = toMain \o ((first \o then) \o refused)
        /\ (first \o then) \o refused \in Seq(Message(attempt))
    BY ONLY <2>4, <2>3, <1>6, <1>4
  <2>6. said = (first \o then) \o refused
    BY DEF first, then
  <2> QED
    BY <2>2, <2>4, <2>5, <2>6
<1>10. toMain' \in Seq(Message(attempt))
  BY <1>1, <1>9, Said
<1>11. ExitComing => ExitComing'
  BY <1>1, <1>9, Said
<1>12. ChannelTypeOK'
  BY <1>1, <1>7, <1>10, FS_EmptySet, Upright DEF ChannelTypeOK
<1>13. Undisturbed'
  BY <1>11, Upright DEF Undisturbed, Channel!StopId
<1>14. StartHolds'
  BY <1>11, Upright DEF StartHolds, Undisturbed
<1> QED
  BY <1>12, <1>13, <1>14

\* The exit of a child that nobody asked to end is reported.
LEMMA ChildExitsStep == ASSUME IChannel, Channel!ChildExits PROVE IChannel'
<1> USE DEF IChannel, Channel!ChildExits, Channel!ChildGone
<1> DEFINE news == IF Channel!Reported THEN <<Channel!Event("exit")>> ELSE <<>>
           said == news \o Channel!Responses(rpc, FALSE)
<1>1. attempt' = attempt /\ attempt \in Nat /\ toMain \in Seq(Message(attempt))
  BY CallsAssumption, Upright DEF ChannelTypeOK
<1>2. rpc \in SUBSET Upto(attempt) /\ IsFiniteSet(rpc)
  BY CallsUpto DEF ChannelTypeOK
<1>3. news \in Seq(Message(attempt))
  <2>1. <<Channel!Event("exit")>> \in Seq(Message(attempt))
    BY DEF Message
  <2> QED
    BY <2>1, Conditional
<1>4. Channel!Responses(rpc, FALSE) \in Seq(Message(attempt))
       /\ ~Contains(Channel!Responses(rpc, FALSE), Channel!Response(Channel!StartId, TRUE))
  BY <1>2, RefusalsSay
<1>5. Channel!Reported => Contains(news, Channel!Event("exit"))
  BY DEF Contains
<1>6. ~Contains(news, Channel!Response(Channel!StartId, TRUE))
  BY DEF Contains, Channel!Event, Channel!Response
<1>7. toMain' = toMain \o news \o Channel!Responses(rpc, FALSE)
  OBVIOUS
<1> HIDE DEF news
<1>8. said \in Seq(Message(attempt)) /\ toMain' = toMain \o said
  <2> DEFINE failed == Channel!Responses(rpc, FALSE)
  <2>1. \A q, r, t \in Seq(Message(attempt)) : q \o r \o t = q \o (r \o t) /\ r \o t \in Seq(Message(attempt))
    BY Grouped
  <2>2. failed \in Seq(Message(attempt)) /\ toMain' = toMain \o news \o failed
    BY <1>7, <1>4
  <2> HIDE DEF failed
  <2>3. toMain \o news \o failed = toMain \o (news \o failed) /\ news \o failed \in Seq(Message(attempt))
    BY ONLY <2>1, <2>2, <1>1, <1>3
  <2> QED
    BY <2>2, <2>3 DEF failed
<1>9. Channel!Reported => Contains(said, Channel!Event("exit"))
  BY <1>3, <1>5, <1>4, ConcatContains
<1>10. ~Contains(said, Channel!Response(Channel!StartId, TRUE))
  BY <1>3, <1>4, <1>6, ConcatContains
<1> HIDE DEF said
<1>11. toMain' \in Seq(Message(attempt))
  BY <1>1, <1>8, Said
<1>12. (ExitComing => ExitComing') /\ (Channel!Reported => ExitComing')
  BY <1>1, <1>8, <1>9, Said
<1>13. StartAccepted' => StartAccepted
  BY <1>1, <1>8, <1>10, Said
<1>14. ChannelTypeOK'
  BY <1>1, <1>11, FS_EmptySet, Upright DEF ChannelTypeOK
<1>15. Channel!Registered => ExitComing' \/ phase = "failing"
  BY <1>12 DEF Undisturbed, Channel!Reported
<1>16. Undisturbed'
  BY <1>12, <1>15, Upright DEF Undisturbed, Channel!StopId, Channel!AfterReject
<1>17. ASSUME Channel!Registered', start' = "ok" \/ StartAccepted' PROVE ExitComing'
  <2>1. CASE ExitComing'
    BY <2>1
  <2>2. CASE phase = "failing"
    BY <2>2, <1>12, <1>17, <1>13, Upright DEF Undisturbed, StartHolds
  <2> QED
    BY <1>15, <1>17, <2>1, <2>2, Upright
<1>18. StartHolds'
  BY <1>17 DEF StartHolds
<1> QED
  BY <1>14, <1>16, <1>18

LEMMA ClosedStep == ASSUME IChannel, Channel!Closed PROVE IChannel'
<1> USE DEF IChannel, Channel!Closed
<1>1. PICK ok \in BOOLEAN :
        toMain' = toMain \o (IF phase = "failing" THEN Channel!Responses(waiters, FALSE) ELSE <<>>)
                         \o (IF ending THEN <<Channel!Response(Channel!StopId, ok)>> ELSE <<>>)
  OBVIOUS
<1> DEFINE refused == IF phase = "failing" THEN Channel!Responses(waiters, FALSE) ELSE <<>>
           stopped == IF ending THEN <<Channel!Response(Channel!StopId, ok)>> ELSE <<>>
           said == refused \o stopped
<1>2. attempt' = attempt /\ toMain \in Seq(Message(attempt))
  BY Upright DEF ChannelTypeOK
<1>3. Channel!Responses(waiters, FALSE) \in Seq(Message(attempt))
       /\ ~Contains(Channel!Responses(waiters, FALSE), Channel!Response(Channel!StartId, TRUE))
  BY RefusalsSay DEF ChannelTypeOK
<1>4. refused \in Seq(Message(attempt)) /\ ~Contains(refused, Channel!Response(Channel!StartId, TRUE))
  BY <1>3, Conditional
<1>5. stopped \in Seq(Message(attempt)) /\ (~ending => ~Contains(stopped, Channel!Response(Channel!StartId, TRUE)))
  <2>1. Channel!Response(Channel!StopId, ok) \in Message(attempt)
    BY DEF Message, Upto
  <2>2. <<Channel!Response(Channel!StopId, ok)>> \in Seq(Message(attempt))
    BY <2>1
  <2>3. ~ending => stopped = <<>>
    OBVIOUS
  <2> QED
    BY <2>2, <2>3, Conditional, EmptyContains
<1>6. toMain' = toMain \o refused \o stopped
  BY <1>1
<1> HIDE DEF refused, stopped
<1>7. said \in Seq(Message(attempt)) /\ toMain' = toMain \o said
  <2>1. \A q, r, t \in Seq(Message(attempt)) : q \o r \o t = q \o (r \o t) /\ r \o t \in Seq(Message(attempt))
    BY Grouped
  <2>2. toMain \o refused \o stopped = toMain \o said /\ said \in Seq(Message(attempt))
    BY ONLY <2>1, <1>2, <1>4, <1>5
  <2> QED
    BY <2>2, <1>6
<1>8. ~ending => ~Contains(said, Channel!Response(Channel!StartId, TRUE))
  BY <1>4, <1>5, ConcatContains
<1> HIDE DEF said
<1>9. toMain' \in Seq(Message(attempt))
  BY <1>2, <1>7, Said
<1>10. ExitComing => ExitComing'
  BY <1>2, <1>7, Said
<1>11. ~ending /\ StartAccepted' => StartAccepted
  BY <1>2, <1>7, <1>8, Said
<1>12. ChannelTypeOK'
  BY <1>2, <1>9, FS_EmptySet, Upright DEF ChannelTypeOK
<1>13. Undisturbed'
  BY <1>10, Upright DEF Undisturbed, Channel!StopId
<1>14. StartHolds'
  BY <1>10, <1>11, Upright DEF StartHolds, Undisturbed
<1> QED
  BY <1>12, <1>13, <1>14

-----------------------------------------------------------------------------
(* The theorems.                                                           *)

LEMMA ChannelStep == IChannel /\ Channel!Next => IChannel'
BY ConnectStep, AskStep, RequestTimesOutStep, StopStep, MainHearsStep, WorkerEndsStep, WorkerHearsStep, SpawnStep,
   OpensStep, OpenFailsStep, StartDoneStep, ChildAnswersStep, ChildExitsStep, OrphanExitsStep, StdoutOverflowsStep,
   GraceEndsStep, ClosedStep DEF Channel!Next, Channel!WorkerExits, Channel!WorkerCrashes

LEMMA ChannelRests == IChannel /\ UNCHANGED channelVars => IChannel'
<1> SUFFICES ASSUME IChannel, UNCHANGED channelVars PROVE IChannel'
  OBVIOUS
<1> USE DEF channelVars
<1>1. ChannelTypeOK'
  BY DEF IChannel, ChannelTypeOK
<1>2. (ExitComing' <=> ExitComing) /\ (StartAccepted' <=> StartAccepted) /\ (Channel!Registered' <=> Channel!Registered)
  BY DEF ExitComing, StartAccepted, Channel!StartId, Channel!Registered
<1>3. Undisturbed'
  BY <1>2 DEF IChannel, Undisturbed, Channel!StopId
<1>4. StartHolds'
  BY <1>2 DEF IChannel, StartHolds
<1> QED
  BY <1>1, <1>3, <1>4 DEF IChannel

\* Main, the news on its way and the worker agree in every reachable state.
THEOREM ChannelInvariance == LifecycleSpec => []IChannel
<1>1. LifecycleInit => IChannel
  BY InitStep DEF LifecycleInit
<1>2. IChannel /\ [LifecycleNext]_<<part, vars, channelVars>> => IChannel'
  BY ChannelStep, ChannelRests DEF LifecycleNext
<1> QED
  BY <1>1, <1>2, PTL DEF LifecycleSpec

\* What main holds of a start is true, or the news that it no longer is are under way.
THEOREM StartIsTrueAlways == LifecycleSpec => []StartIsTrue
<1>1. IChannel => StartIsTrue
  BY DEF IChannel, ChannelTypeOK, Undisturbed, StartHolds, StartIsTrue, Channel!StartIsTrue, Channel!Registered, ExitComing, Contains
<1> QED
  BY <1>1, ChannelInvariance, PTL
=============================================================================
