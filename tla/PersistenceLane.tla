--------------------------- MODULE PersistenceLane ---------------------------
(***************************************************************************)
(* How AppController writes the application state to its file: the dirty   *)
(* flag and the debounce timer, the save in flight, the flushes that wait  *)
(* for it, the transactions that must know whether their change was saved, *)
(* and the flush of a quit.                                                *)
(*                                                                         *)
(* A state is the set of the changes it contains.  One transaction is open *)
(* at a time: assertNoStateTransaction and agentRosterTransaction see to   *)
(* that.  A step is what main does between two awaits.                     *)
(***************************************************************************)
EXTENDS Naturals, FiniteSets, SavedState

vars == <<memory, disk, lane, failed, flush, txn, outcome, stop>>

\* The callers of flushPersistence, and who may have started a save.
Flushers == {"transaction", "stop"}
Savers == Flushers \union {"timer", "prepared"}

Saves == [by : Savers, of : SUBSET Changes]
Lanes == [dirty : BOOLEAN, timer : BOOLEAN, inFlight : Savers \union {None}, saves : SUBSET Saves]

\* A flush is out, awaits persistInFlight or its own persistLatest, or one of
\* the two has ended and it goes on at "dirty" or at "test".
Out == [step |-> "out", on |-> None]
Flushes == [step : {"out", "inFlight", "own", "dirty", "test"}, on : Savers \union {None}]

NoTransaction == [id |-> None, step |-> "none"]
Closed == txn = NoTransaction

-----------------------------------------------------------------------------
(* The lane.                                                               *)

Scheduled(l) == IF l.inFlight = None THEN [l EXCEPT !.timer = TRUE] ELSE l

Emitted(l) == Scheduled([l EXCEPT !.dirty = TRUE])

Started(l, by, state) ==
  [l EXCEPT !.saves = @ \union {[by |-> by, of |-> state]}, !.inFlight = by]

\* Mutant: persistLatest without its persistInFlight guard.
LatestUnguarded(l, by, state) ==
  IF l.dirty THEN Started([l EXCEPT !.dirty = FALSE], by, state) ELSE l

\* persistLatest up to its await.
Latest(l, by, state) ==
  IF l.dirty /\ l.inFlight = None THEN Started([l EXCEPT !.dirty = FALSE], by, state) ELSE l

\* Mutant: a save that ends does not schedule what became dirty meanwhile.
EndedUnscheduled(l, save) ==
  [l EXCEPT !.saves = @ \ {save}, !.inFlight = IF @ = save.by THEN None ELSE @]

\* Mutant: persistInFlight stays set.
EndedInFlight(l, save) == [l EXCEPT !.saves = @ \ {save}]

\* The end of persistLatest and of savePreparedStateInPersistenceLane.
Ended(l, save) ==
  LET freed == [l EXCEPT !.saves = @ \ {save}, !.inFlight = IF @ = save.by THEN None ELSE @]
  IN  IF freed.dirty THEN Scheduled(freed) ELSE freed

\* Mutant: a flush waits for the save in flight and writes nothing itself.
LoopedUnwritten(l, f, state) ==
  LET cleared == [l EXCEPT !.timer = FALSE]
  IN  IF cleared.inFlight # None
      THEN [lane |-> cleared, at |-> [step |-> "inFlight", on |-> cleared.inFlight]]
      ELSE [lane |-> cleared, at |-> Out]

\* The loop of flushPersistence from its test to its next await or its end.
Looped(l, f, state) ==
  LET cleared == [l EXCEPT !.timer = FALSE]
  IN  CASE cleared.inFlight # None ->
             [lane |-> cleared, at |-> [step |-> "inFlight", on |-> cleared.inFlight]]
        [] cleared.inFlight = None /\ cleared.dirty ->
             [lane |-> Latest(cleared, f, state), at |-> [step |-> "own", on |-> f]]
        [] OTHER -> [lane |-> cleared, at |-> Out]

\* The same after one of its awaits.
Resumed(l, f, state) ==
  IF flush[f].step = "dirty" /\ l.dirty /\ l.inFlight = None
  THEN [lane |-> Latest(l, f, state), at |-> [step |-> "own", on |-> f]]
  ELSE Looped(l, f, state)

\* Mutant: a flush awaits only the saves it started.
WokenByOwn(entry, by) ==
  IF entry.step = "own" /\ entry.on = by THEN [step |-> "test", on |-> None] ELSE entry

\* What a save that ends does to a flush that awaits it.
Woken(entry, by) ==
  CASE entry.step = "inFlight" /\ entry.on = by -> [step |-> "dirty", on |-> None]
    [] entry.step = "own" /\ entry.on = by -> [step |-> "test", on |-> None]
    [] OTHER -> entry

Resumable(f) == flush[f].step \in {"dirty", "test"}

\* Promise callbacks run before main takes up a timer or the end of an I/O.
MicrotasksDone == \A f \in Flushers : ~Resumable(f)

-----------------------------------------------------------------------------
Init ==
  /\ memory = {} /\ disk = {}
  /\ lane = [dirty |-> TRUE, timer |-> TRUE, inFlight |-> None, saves |-> {}]
  /\ failed = FALSE
  /\ flush = [f \in Flushers |-> Out]
  /\ txn = NoTransaction
  /\ outcome = [t \in Transactions |-> "none"]
  /\ stop = "no"

Edit(c) ==
  /\ c \notin memory
  /\ memory' = memory \union {c}
  /\ lane' = Emitted(lane)
  /\ UNCHANGED <<disk, failed, flush, txn, outcome, stop>>

TimerFires ==
  /\ lane.timer /\ MicrotasksDone
  /\ lane' = Latest([lane EXCEPT !.timer = FALSE], "timer", memory)
  /\ UNCHANGED <<memory, disk, failed, flush, txn, outcome, stop>>

\* The write, the rename or the schema check of AppStateStore.save fails, or none does.
SaveEnds(save, ok) ==
  /\ MicrotasksDone
  /\ disk' = IF ok THEN save.of ELSE disk
  /\ failed' = ~ok
  /\ lane' = Ended(lane, save)
  /\ flush' = [f \in Flushers |-> Woken(flush[f], save.by)]

LatestEnds(save, ok) ==
  /\ save \in lane.saves /\ save.by # "prepared"
  /\ SaveEnds(save, ok)
  /\ UNCHANGED <<memory, txn, outcome, stop>>

Concluded(t, told) ==
  /\ outcome' = [outcome EXCEPT ![t] = told]
  /\ txn' = NoTransaction

\* The rest of performMemorySettingsUpdate or performMigrationState runs in the
\* promise callbacks of its save.
PreparedEnds(save, ok) ==
  /\ save \in lane.saves /\ save.by = "prepared"
  /\ SaveEnds(save, ok)
  /\ memory' = IF ok THEN memory \union {txn.id} ELSE memory
  /\ Concluded(txn.id, IF ok THEN "done" ELSE "failed")
  /\ UNCHANGED stop

-----------------------------------------------------------------------------
(* Transactions.                                                           *)

Open(t) ==
  /\ Closed /\ stop = "no"
  /\ outcome[t] = "none"
  /\ txn' = [id |-> t, step |-> "open"]
  /\ UNCHANGED <<memory, disk, lane, failed, flush, outcome, stop>>

\* What precedes the change fails: bindings, the start of a client, a check.
Abandon ==
  /\ txn.step = "open"
  /\ Concluded(txn.id, "failed")
  /\ UNCHANGED <<memory, disk, lane, failed, flush, stop>>

\* An insertion checks stopping after its last await; a removal does not.
Apply ==
  /\ txn.step = "open" /\ txn.id \in Strict
  /\ txn.id \in Insertions => stop = "no"
  /\ memory' = memory \union {txn.id}
  /\ LET loop == Looped(Emitted(lane), "transaction", memory')
     IN  lane' = loop.lane /\ flush' = [flush EXCEPT !["transaction"] = loop.at]
  /\ txn' = [txn EXCEPT !.step = "commit"]
  /\ UNCHANGED <<disk, failed, outcome, stop>>

\* The client of an insertion fails while its events are replayed: the change is
\* taken back before anything awaits, and what was emitted is flushed.
TakeBack ==
  /\ txn.step = "open" /\ txn.id \in Insertions /\ stop = "no"
  /\ LET loop == Looped(Emitted(lane), "transaction", memory)
     IN  lane' = loop.lane /\ flush' = [flush EXCEPT !["transaction"] = loop.at]
  /\ txn' = [txn EXCEPT !.step = "undo"]
  /\ UNCHANGED <<memory, disk, failed, outcome, stop>>

\* The flush of the open transaction is at another await.
Waits(loop, step) ==
  /\ loop.at # Out
  /\ lane' = loop.lane
  /\ flush' = [flush EXCEPT !["transaction"] = loop.at]
  /\ txn' = [txn EXCEPT !.step = step]

\* It has drained the lane: the prepared state is written.
Writes(loop) ==
  /\ loop.at = Out
  /\ lane' = Started(loop.lane, "prepared", memory \union {txn.id})
  /\ flush' = [flush EXCEPT !["transaction"] = Out]
  /\ txn' = [txn EXCEPT !.step = "save"]

Prepare ==
  /\ txn.step = "open" /\ txn.id \in Prepared
  /\ LET loop == Looped(lane, "transaction", memory)
     IN  Waits(loop, "drain") \/ Writes(loop)
  /\ UNCHANGED <<memory, disk, failed, outcome, stop>>

FlushGoesOn ==
  /\ Resumable("transaction")
  /\ LET loop == Resumed(lane, "transaction", memory)
     IN  Waits(loop, txn.step) \/ (txn.step = "drain" /\ Writes(loop))
  /\ UNCHANGED <<memory, disk, failed, outcome, stop>>

\* Mutant: the flush is left where it was.
FlushEndsLeft(step) ==
  /\ Resumable("transaction") /\ txn.step = step
  /\ Resumed(lane, "transaction", memory).at = Out
  /\ UNCHANGED flush

\* The flush of a transaction has ended: nothing is left to write.
FlushEnds(step) ==
  /\ Resumable("transaction") /\ txn.step = step
  /\ Resumed(lane, "transaction", memory).at = Out
  /\ flush' = [flush EXCEPT !["transaction"] = Out]

Cleared == lane' = [lane EXCEPT !.timer = FALSE]

\* Mutant: flushPersistence() instead of flushPersistence(true).
CommitUnasked ==
  /\ FlushEnds("commit")
  /\ Concluded(txn.id, "done")
  /\ Cleared
  /\ UNCHANGED <<memory, disk, failed, stop>>

\* flushPersistence(true) returns.
Commit ==
  /\ FlushEnds("commit") /\ ~failed
  /\ Concluded(txn.id, "done")
  /\ Cleared
  /\ UNCHANGED <<memory, disk, failed, stop>>

\* Mutant: a removal that was not saved is reported and not undone.
UndoRemovalKept ==
  /\ FlushEnds("commit") /\ failed /\ txn.id \in Removals
  /\ Cleared
  /\ txn' = [txn EXCEPT !.step = "restore"]
  /\ UNCHANGED <<memory, disk, failed, outcome, stop>>

\* flushPersistence(true) throws, and the change is undone.  A removal restores
\* the saved-agent bindings before it emits the change.
UndoRemoval ==
  /\ FlushEnds("commit") /\ failed /\ txn.id \in Removals
  /\ memory' = memory \ {txn.id}
  /\ Cleared
  /\ txn' = [txn EXCEPT !.step = "restore"]
  /\ UNCHANGED <<disk, failed, outcome, stop>>

Restored(ok) ==
  /\ txn.step = "restore"
  /\ lane' = IF ok THEN Emitted(lane) ELSE lane
  /\ Concluded(txn.id, "failed")
  /\ UNCHANGED <<memory, disk, failed, flush, stop>>

\* Mutant: nothing is undone once the quit has begun.
UndoInsertionUnlessStopping ==
  /\ Resumable("transaction") /\ txn.step = "commit" /\ txn.id \in Insertions
  /\ Resumed(lane, "transaction", memory).at = Out /\ failed
  /\ memory' = IF stop = "no" THEN memory \ {txn.id} ELSE memory
  /\ LET loop == Looped(Emitted(lane), "transaction", memory')
     IN  lane' = loop.lane /\ flush' = [flush EXCEPT !["transaction"] = loop.at]
  /\ txn' = [txn EXCEPT !.step = "undo"]
  /\ UNCHANGED <<disk, failed, outcome, stop>>

\* An insertion flushes what it has undone.
UndoInsertion ==
  /\ Resumable("transaction") /\ txn.step = "commit" /\ txn.id \in Insertions
  /\ Resumed(lane, "transaction", memory).at = Out /\ failed
  /\ memory' = memory \ {txn.id}
  /\ LET loop == Looped(Emitted(lane), "transaction", memory')
     IN  lane' = loop.lane /\ flush' = [flush EXCEPT !["transaction"] = loop.at]
  /\ txn' = [txn EXCEPT !.step = "undo"]
  /\ UNCHANGED <<disk, failed, outcome, stop>>

Undone ==
  /\ FlushEnds("undo")
  /\ Concluded(txn.id, "failed")
  /\ Cleared
  /\ UNCHANGED <<memory, disk, failed, stop>>

-----------------------------------------------------------------------------
(* Quit.                                                                   *)

Stop ==
  /\ stop = "no"
  /\ stop' = "stopping"
  /\ UNCHANGED <<memory, disk, lane, failed, flush, txn, outcome>>

\* stop waits for every transaction but the opening of a history session.
StopMayFlush == stop = "stopping" /\ (Closed \/ txn.id \in Histories)

StopLoops(loop) ==
  /\ lane' = loop.lane
  /\ flush' = [flush EXCEPT !["stop"] = loop.at]
  /\ stop' = IF loop.at = Out THEN "stopped" ELSE "flushing"
  /\ UNCHANGED <<memory, disk, failed, txn, outcome>>

StopFlushes == StopMayFlush /\ StopLoops(Looped(lane, "stop", memory))

StopGoesOn == Resumable("stop") /\ StopLoops(Resumed(lane, "stop", memory))

-----------------------------------------------------------------------------
LaneStep ==
  \/ TimerFires
  \/ \E save \in lane.saves, ok \in BOOLEAN : LatestEnds(save, ok) \/ PreparedEnds(save, ok)

TransactionStep ==
  \/ Abandon \/ Apply \/ TakeBack \/ Prepare
  \/ FlushGoesOn \/ Commit \/ UndoRemoval \/ UndoInsertion \/ Undone
  \/ \E ok \in BOOLEAN : Restored(ok)

StopStep == StopFlushes \/ StopGoesOn

Next ==
  \/ \E c \in Edits : Edit(c)
  \/ \E t \in Transactions : Open(t)
  \/ LaneStep \/ TransactionStep
  \/ Stop \/ StopStep

Spec == Init /\ [][Next]_vars

\* Timers fire, file operations end, and promise callbacks run.
Fairness == WF_vars(LaneStep) /\ WF_vars(TransactionStep) /\ WF_vars(StopStep)
FairSpec == Spec /\ Fairness

-----------------------------------------------------------------------------
(* Correctness, beside what SavedState promises.                           *)

\* The variables have their types; the flush of a transaction is under way in
\* the steps that await it, and a prepared state is written in "save" only.
TypeOK ==
  /\ memory \subseteq Changes /\ disk \subseteq Changes
  /\ lane \in Lanes
  /\ failed \in BOOLEAN
  /\ flush \in [Flushers -> Flushes]
  /\ txn \in [id : Transactions \union {None},
              step : {"none", "open", "drain", "save", "commit", "undo", "restore"}]
  /\ outcome \in [Transactions -> {"none", "done", "failed"}]
  /\ stop \in {"no", "stopping", "flushing", "stopped"}
  /\ txn.step \in {"drain", "commit", "undo"} <=> flush["transaction"].step # "out"
  /\ stop = "flushing" <=> flush["stop"].step # "out"
  /\ txn.step = "save" <=> \E save \in lane.saves : save.by = "prepared"

\* Two saves never overlap: every save writes the same temporary file before it
\* renames it, although savePreparedStateInPersistenceLane starts its save
\* without looking at persistInFlight.
OneWriter == Cardinality(lane.saves) <= 1

\* When stop returns and the last save succeeded, the file holds the state.
StopSaves == [][stop' = "stopped" /\ stop # "stopped" => failed \/ disk = memory]_vars

\* The flush of a quit ends although others write and fail meanwhile.
StopEnds == stop = "stopping" ~> stop = "stopped"
=============================================================================
