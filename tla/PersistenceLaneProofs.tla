------------------------ MODULE PersistenceLaneProofs ------------------------
(***************************************************************************)
(* Proofs about PersistenceLane: the lane has one writer, forgets nothing, *)
(* undoes what it reports as failed, and implements DurableState.          *)
(***************************************************************************)
EXTENDS PersistenceLane, FiniteSetTheorems, TLAPS

\* The lane has no save and nothing in flight, or the one save in flight.
Single(l) ==
  \/ l.saves = {} /\ l.inFlight = None
  \/ \E save \in Saves : l.saves = {save} /\ l.inFlight = save.by
SingleSave == Single(lane)

\* Whatever has to be written will wake somebody up.
Wakes(l) == l.dirty => l.timer \/ l.inFlight # None
WakeUp == Wakes(lane)

\* The transaction that is open has told its caller nothing yet.
TransactionOpen ==
  \/ txn = NoTransaction
  \/ /\ txn.id \in Transactions
     /\ outcome[txn.id] = "none"
     /\ txn.step \in {"drain", "save"} => txn.id \in Prepared
     /\ txn.step \in {"commit", "restore", "undo"} => txn.id \in Strict
     /\ txn.step # "none"

\* What a clean lane has written or is writing.
CleanIsWritten ==
  /\ ~lane.dirty /\ ~failed /\ lane.saves = {} => disk = memory
  /\ ~lane.dirty => \A save \in lane.saves :
       save.of = IF save.by = "prepared" THEN memory \union {txn.id} ELSE memory

\* A transaction's change is in the state from its flush to its failure,
\* and a prepared state contains the change it is saved for.
InState ==
  /\ txn.step = "commit" => txn.id \in memory
  /\ \A t \in Transactions : t \in memory =>
       outcome[t] = "done" \/ (txn.id = t /\ txn.step = "commit")
  /\ \A save \in lane.saves : save.by = "prepared" => txn.id \in save.of

\* A change is written only after it was made or prepared.
WrittenLater ==
  \A t \in Transactions :
    outcome[t] = "none" /\ ~(txn.id = t /\ txn.step \in {"save", "commit", "restore", "undo"}) =>
      t \notin disk /\ \A save \in lane.saves : t \notin save.of

\* An edit is never undone.
EditsStay ==
  /\ disk \intersect Edits \subseteq memory
  /\ \A save \in lane.saves : save.of \intersect Edits \subseteq memory

Told == {t \in Transactions : outcome[t] = "done"}

\* A change that was reported as saved is everywhere, and a save under way takes
\* nothing from the file that the state has.
Kept ==
  /\ Told \subseteq memory
  /\ Told \subseteq disk
  /\ \A save \in lane.saves : Told \union (disk \intersect memory) \subseteq save.of

IInv ==
  /\ TypeOK /\ SingleSave /\ WakeUp /\ TransactionOpen
  /\ CleanIsWritten /\ InState /\ WrittenLater /\ EditsStay /\ Kept

-----------------------------------------------------------------------------
(* What the lane's operators do.                                           *)

\* None is neither a saver nor a change.
LEMMA NoneIsNoSaver == None \notin Savers /\ None \notin Changes
  BY ChangesAssumption DEF Savers, Flushers

\* An emitted change makes the lane dirty and wakes somebody up.
LEMMA EmittedFacts ==
  ASSUME NEW l \in Lanes
  PROVE  /\ Emitted(l) \in Lanes
         /\ Emitted(l).dirty = TRUE
         /\ Emitted(l).timer \/ Emitted(l).inFlight # None
         /\ Emitted(l).inFlight = l.inFlight
         /\ Emitted(l).saves = l.saves
  BY DEF Emitted, Scheduled, Lanes

\* What persistLatest does to a lane: nothing, or it starts a save of the state.
LatestStarts(l, r, by, state) ==
  /\ l.inFlight = None /\ l.dirty
  /\ r = [dirty |-> FALSE, timer |-> l.timer, inFlight |-> by,
          saves |-> l.saves \union {[by |-> by, of |-> state]}]

\* persistLatest keeps the lane typed and does that.
LEMMA LatestFacts ==
  ASSUME NEW l \in Lanes, NEW by \in Savers, NEW state \in SUBSET Changes
  PROVE  /\ Latest(l, by, state) \in Lanes
         /\ \/ LatestStarts(l, Latest(l, by, state), by, state)
            \/ Latest(l, by, state) = l /\ ~(l.dirty /\ l.inFlight = None)
<1>1. CASE l.dirty /\ l.inFlight = None
  <2> DEFINE saves == l.saves \union {[by |-> by, of |-> state]}
             r == [dirty |-> FALSE, timer |-> l.timer, inFlight |-> by, saves |-> saves]
  <2>1. saves \in SUBSET Saves
    BY DEF Saves, Lanes
  <2>2. r \in Lanes
    BY <2>1 DEF Lanes
  <2>3. Latest(l, by, state) = r
    BY <1>1 DEF Latest, Started, Lanes
  <2> QED
    BY <1>1, <2>2, <2>3 DEF LatestStarts
<1>2. CASE ~(l.dirty /\ l.inFlight = None)
  BY <1>2 DEF Latest
<1> QED
  BY <1>1, <1>2

\* A flush from one await to the next: it ends on a clean lane, awaits the save
\* in flight, or starts one.
LoopResult(l, loop, f, state) ==
  /\ loop.lane \in Lanes /\ loop.at \in Flushes
  /\ \/ /\ loop.at = Out /\ ~l.dirty /\ l.inFlight = None
        /\ loop.lane = [l EXCEPT !.timer = FALSE]
     \/ /\ loop.at # Out /\ loop.at.step # "out" /\ l.inFlight # None
        /\ loop.lane = [l EXCEPT !.timer = FALSE]
     \/ /\ loop.at # Out /\ loop.at.step # "out"
        /\ LatestStarts([l EXCEPT !.timer = loop.lane.timer], loop.lane, f, state)

\* The loop of a flush from its test.
LEMMA LoopedFacts ==
  ASSUME NEW l \in Lanes, NEW f \in Flushers, NEW state \in SUBSET Changes
  PROVE  LoopResult(l, Looped(l, f, state), f, state)
<1> DEFINE cleared == [l EXCEPT !.timer = FALSE]
<1>1. cleared \in Lanes /\ cleared.inFlight = l.inFlight /\ cleared.dirty = l.dirty
  BY DEF Lanes
<1>2. f \in Savers
  BY DEF Savers
<1>3. CASE l.inFlight # None
  BY <1>1, <1>3 DEF Looped, LoopResult, Out, Flushes, Lanes
<1>4. CASE l.inFlight = None /\ l.dirty
  <2>1. Looped(l, f, state)
          = [lane |-> Latest(cleared, f, state), at |-> [step |-> "own", on |-> f]]
    BY <1>1, <1>4 DEF Looped
  <2>2. LatestStarts(cleared, Latest(cleared, f, state), f, state)
    BY <1>1, <1>2, <1>4, LatestFacts
  <2>3. Latest(cleared, f, state) \in Lanes
    BY <1>1, <1>2, LatestFacts
  <2>4. Latest(cleared, f, state).timer = FALSE
    BY <2>2 DEF LatestStarts, Lanes
  <2>5. [l EXCEPT !.timer = Latest(cleared, f, state).timer] = cleared
    BY <2>4
  <2> HIDE DEF cleared
  <2> QED
    BY <1>2, <2>1, <2>2, <2>3, <2>5 DEF LoopResult, Out, Flushes
<1>5. CASE l.inFlight = None /\ ~l.dirty
  BY <1>1, <1>5 DEF Looped, LoopResult, Out, Flushes, Lanes
<1> QED
  BY <1>3, <1>4, <1>5

\* The loop of a flush after an await.
LEMMA ResumedFacts ==
  ASSUME NEW l \in Lanes, NEW f \in Flushers, NEW state \in SUBSET Changes
  PROVE  LoopResult(l, Resumed(l, f, state), f, state)
<1>1. f \in Savers
  BY DEF Savers
<1>2. CASE flush[f].step = "dirty" /\ l.dirty /\ l.inFlight = None
  <2>1. Resumed(l, f, state)
          = [lane |-> Latest(l, f, state), at |-> [step |-> "own", on |-> f]]
    BY <1>2 DEF Resumed
  <2>2. /\ LatestStarts(l, Latest(l, f, state), f, state)
        /\ Latest(l, f, state) \in Lanes
    BY <1>1, <1>2, LatestFacts
  <2>3. [l EXCEPT !.timer = Latest(l, f, state).timer] = l
    BY <2>2 DEF LatestStarts, Lanes
  <2> QED
    BY <1>1, <2>1, <2>2, <2>3 DEF LoopResult, Out, Flushes
<1>3. CASE ~(flush[f].step = "dirty" /\ l.dirty /\ l.inFlight = None)
  BY <1>3, LoopedFacts DEF Resumed
<1> QED
  BY <1>2, <1>3

\* The saves of a lane are by one saver and of one state.
StartedBy(l, by, state) ==
  l.saves # {} /\ \A save \in l.saves : save.by = by /\ save.of = state

\* What such a flush leaves of a lane with a single save.
LEMMA LoopLane ==
  ASSUME NEW l \in Lanes, Single(l), NEW f \in Flushers, NEW state \in SUBSET Changes,
         NEW loop, LoopResult(l, loop, f, state)
  PROVE  /\ loop.lane \in Lanes /\ Single(loop.lane) /\ Wakes(loop.lane)
         /\ \/ loop.lane.saves = l.saves /\ loop.lane.dirty = l.dirty
            \/ l.saves = {} /\ ~loop.lane.dirty /\ StartedBy(loop.lane, f, state)
         /\ loop.at \in Flushes /\ (loop.at = Out \/ loop.at.step # "out")
         /\ loop.at = Out => /\ l.saves = {} /\ ~l.dirty
                            /\ loop.lane.saves = {} /\ loop.lane.inFlight = None
                            /\ ~loop.lane.dirty
<1>1. f \in Savers /\ f # None
  BY NoneIsNoSaver DEF Savers
<1>2. CASE loop.lane = [l EXCEPT !.timer = FALSE]
  BY <1>2, NoneIsNoSaver DEF LoopResult, Single, Wakes, Lanes, Saves, LatestStarts
<1>3. CASE /\ loop.at # Out /\ loop.at.step # "out"
           /\ LatestStarts([l EXCEPT !.timer = loop.lane.timer], loop.lane, f, state)
  <2>1. l.inFlight = None /\ l.dirty /\ l.saves = {}
    BY <1>3, NoneIsNoSaver DEF LatestStarts, Lanes, Single, Saves
  <2>2. /\ loop.lane.saves = {[by |-> f, of |-> state]}
        /\ loop.lane.inFlight = f /\ ~loop.lane.dirty
    BY <1>3, <2>1 DEF LatestStarts, Lanes
  <2>3. [by |-> f, of |-> state] \in Saves
    BY <1>1 DEF Saves
  <2>4. StartedBy(loop.lane, f, state)
    BY <2>2 DEF StartedBy
  <2>5. Single(loop.lane) /\ Wakes(loop.lane)
    BY <2>2, <2>3 DEF Single, Wakes
  <2> QED
    BY <1>3, <2>1, <2>2, <2>4, <2>5 DEF LoopResult
<1> QED
  BY <1>2, <1>3 DEF LoopResult

\* A save that ends leaves the lane without one, and wakes somebody up if need be.
LEMMA EndedFacts ==
  ASSUME NEW l \in Lanes, Single(l), NEW save \in l.saves
  PROVE  /\ Ended(l, save) \in Lanes /\ Single(Ended(l, save)) /\ Wakes(Ended(l, save))
         /\ l.saves = {save}
         /\ Ended(l, save).saves = {}
         /\ Ended(l, save).inFlight = None
         /\ Ended(l, save).dirty = l.dirty
<1>1. l.saves = {save} /\ l.inFlight = save.by
  BY DEF Single
<1>2. PICK freed \in Lanes : freed = [l EXCEPT !.saves = {}, !.inFlight = None]
  BY DEF Lanes
<1>3. Ended(l, save) = IF freed.dirty THEN Scheduled(freed) ELSE freed
  BY <1>1, <1>2 DEF Ended
<1>4. /\ freed.saves = {} /\ freed.inFlight = None
      /\ freed.dirty = l.dirty
  BY <1>2 DEF Lanes
<1> QED
  BY <1>1, <1>3, <1>4 DEF Scheduled, Single, Wakes, Lanes

-----------------------------------------------------------------------------
(* One lemma per action.                                                   *)

\* The invariant holds at the start.
LEMMA InitInvariant == Init => IInv
<1> SUFFICES ASSUME Init PROVE IInv
  OBVIOUS
<1>1. TypeOK
  BY DEF Init, TypeOK, Lanes, Flushes, Out, NoTransaction, Flushers, Savers
<1> QED
  BY <1>1 DEF Init, IInv, Single, SingleSave, Wakes, WakeUp, TransactionOpen, CleanIsWritten,
              InState, WrittenLater, EditsStay, Kept, Told, NoTransaction, Transactions

\* A change that is emitted.
LEMMA EditKeeps ==
  ASSUME IInv, NEW c \in Edits, Edit(c)
  PROVE  IInv'
<1> USE DEF IInv
<1>0. /\ lane' \in Lanes /\ lane'.dirty = TRUE /\ lane'.saves = lane.saves
      /\ lane'.inFlight = lane.inFlight /\ Wakes(lane')
      /\ c \in Changes /\ c \notin Transactions /\ c \notin memory
      /\ memory' = memory \union {c}
      /\ UNCHANGED <<disk, failed, flush, txn, outcome, stop>>
  BY EmittedFacts, ChangesAssumption DEF Edit, TypeOK, Wakes, Changes
<1>1. TypeOK'
  BY ChangesAssumption, <1>0 DEF TypeOK
<1>2. SingleSave'
  BY ChangesAssumption, <1>0 DEF SingleSave, Single, Saves, Savers, Flushers
<1>3. WakeUp'
  BY ChangesAssumption, <1>0 DEF WakeUp
<1>4. TransactionOpen'
  BY ChangesAssumption, <1>0 DEF TransactionOpen, TypeOK
<1>5. CleanIsWritten'
  BY ChangesAssumption, <1>0 DEF CleanIsWritten, TypeOK
<1>6. InState'
  BY ChangesAssumption, <1>0 DEF InState, TypeOK
<1>7. WrittenLater'
  BY <1>0 DEF WrittenLater
<1>8. EditsStay'
  BY ChangesAssumption, <1>0 DEF EditsStay, TypeOK
<1>9. Kept'
  BY ChangesAssumption, <1>0 DEF Kept, TypeOK, Told, EditsStay
<1> QED
  BY <1>1, <1>2, <1>3, <1>4, <1>5, <1>6, <1>7, <1>8, <1>9

\* The debounce timer runs persistLatest.
LEMMA TimerKeeps ==
  ASSUME IInv, TimerFires
  PROVE  IInv'
<1> USE DEF IInv
<1>0. /\ lane' \in Lanes /\ Single(lane') /\ Wakes(lane')
      /\ \/ lane'.saves = lane.saves /\ lane'.dirty = lane.dirty
         \/ lane.saves = {} /\ lane'.dirty = FALSE /\ StartedBy(lane', "timer", memory)
      /\ UNCHANGED <<memory, disk, failed, flush, txn, outcome, stop>>
  <2> DEFINE l == [lane EXCEPT !.timer = FALSE]
  <2>1. /\ l \in Lanes /\ l.saves = lane.saves /\ l.inFlight = lane.inFlight
        /\ l.dirty = lane.dirty /\ Single(l)
    BY DEF TypeOK, Lanes, SingleSave, Single
  <2>2. "timer" \in Savers /\ memory \in SUBSET Changes /\ "timer" # None
    BY NoneIsNoSaver DEF Savers, TypeOK
  <2>3. lane' = Latest(l, "timer", memory)
    BY DEF TimerFires
  <2> HIDE DEF l
  <2>4. CASE LatestStarts(l, lane', "timer", memory)
    <3>1. lane.saves = {}
      BY <2>1, <2>4, NoneIsNoSaver DEF Single, LatestStarts, Saves
    <3>2. /\ lane'.saves = {[by |-> "timer", of |-> memory]}
          /\ lane'.inFlight = "timer" /\ lane'.dirty = FALSE
      BY <2>1, <2>4, <3>1 DEF LatestStarts
    <3>3. [by |-> "timer", of |-> memory] \in Saves
      BY <2>2 DEF Saves
    <3>4. StartedBy(lane', "timer", memory)
      BY <3>2 DEF StartedBy
    <3>5. Single(lane') /\ Wakes(lane')
      BY <3>2, <3>3 DEF Single, Wakes
    <3> QED
      BY <2>1, <2>2, <2>3, <3>1, <3>2, <3>4, <3>5, LatestFacts DEF TimerFires
  <2>5. CASE lane' = l /\ ~(l.dirty /\ l.inFlight = None)
    BY <2>1, <2>5 DEF Wakes, TimerFires
  <2> QED
    BY <2>1, <2>2, <2>3, <2>4, <2>5, LatestFacts
<1>1. TypeOK'
  BY <1>0 DEF TypeOK, StartedBy, Savers, Flushers
<1>2. SingleSave'
  BY <1>0 DEF SingleSave, StartedBy
<1>3. WakeUp'
  BY <1>0 DEF WakeUp, StartedBy
<1>4. TransactionOpen'
  BY <1>0 DEF TransactionOpen, TypeOK, StartedBy
<1>5. CleanIsWritten'
  BY <1>0 DEF CleanIsWritten, TypeOK, StartedBy
<1>6. InState'
  BY <1>0 DEF InState, TypeOK, StartedBy
<1>7. WrittenLater'
  BY <1>0 DEF WrittenLater, TypeOK, StartedBy, InState
<1>8. EditsStay'
  BY <1>0 DEF EditsStay, TypeOK, StartedBy
<1>9. Kept'
  BY <1>0 DEF Kept, TypeOK, Told, StartedBy
<1> QED
  BY <1>1, <1>2, <1>3, <1>4, <1>5, <1>6, <1>7, <1>8, <1>9

\* A save of persistLatest succeeds or fails.
LEMMA LatestEndsKeeps ==
  ASSUME IInv, NEW save \in lane.saves, NEW ok \in BOOLEAN, LatestEnds(save, ok)
  PROVE  IInv'
<1> USE DEF IInv
<1>0. /\ lane' \in Lanes /\ Single(lane') /\ Wakes(lane')
      /\ lane.saves = {save} /\ lane'.saves = {} /\ lane'.dirty = lane.dirty
      /\ save \in Saves /\ disk' = (IF ok THEN save.of ELSE disk) /\ failed' = ~ok
      /\ flush' \in [Flushers -> Flushes]
      /\ \A f \in Flushers : flush'[f].step = "out" <=> flush[f].step = "out"
      /\ save.by # "prepared"
      /\ UNCHANGED <<memory, txn, outcome, stop>>
  <2>1. lane \in Lanes /\ Single(lane) /\ save \in Saves /\ flush \in [Flushers -> Flushes]
    BY DEF TypeOK, SingleSave, Lanes
  <2>2. flush' = [f \in Flushers |-> Woken(flush[f], save.by)]
    BY DEF LatestEnds, SaveEnds
  <2>3. /\ flush' \in [Flushers -> Flushes]
        /\ \A f \in Flushers : flush'[f].step = "out" <=> flush[f].step = "out"
    BY <2>1, <2>2 DEF Woken, Flushes
  <2> QED
    BY <2>1, <2>3, EndedFacts DEF LatestEnds, SaveEnds
<1>1. TypeOK'
  BY <1>0 DEF TypeOK, Saves, Flushers
<1>2. SingleSave'
  BY <1>0 DEF SingleSave
<1>3. WakeUp'
  BY <1>0 DEF WakeUp
<1>4. TransactionOpen'
  BY <1>0 DEF TransactionOpen, TypeOK
<1>5. CleanIsWritten'
  BY <1>0 DEF CleanIsWritten, TypeOK
<1>6. InState'
  BY <1>0 DEF InState, TypeOK
<1>7. WrittenLater'
  BY <1>0 DEF WrittenLater, TypeOK
<1>8. EditsStay'
  BY <1>0 DEF EditsStay, TypeOK
<1>9. Kept'
  BY <1>0 DEF Kept, TypeOK, Told
<1> QED
  BY <1>1, <1>2, <1>3, <1>4, <1>5, <1>6, <1>7, <1>8, <1>9

\* A prepared save ends and its change is made or refused.
LEMMA PreparedEndsKeeps ==
  ASSUME IInv, NEW save \in lane.saves, NEW ok \in BOOLEAN, PreparedEnds(save, ok)
  PROVE  IInv'
<1> USE DEF IInv
<1>0. /\ lane' \in Lanes /\ Single(lane') /\ Wakes(lane')
      /\ lane.saves = {save} /\ lane'.saves = {} /\ lane'.dirty = lane.dirty
      /\ save \in Saves /\ disk' = (IF ok THEN save.of ELSE disk) /\ failed' = ~ok
      /\ flush' \in [Flushers -> Flushes]
      /\ \A f \in Flushers : flush'[f].step = "out" <=> flush[f].step = "out"
      /\ save.by = "prepared" /\ txn.step = "save"
      /\ txn.id \in Transactions /\ txn.id \notin Edits /\ outcome[txn.id] = "none"
      /\ outcome'[txn.id] = IF ok THEN "done" ELSE "failed"
      /\ outcome' \in [Transactions -> {"none", "done", "failed"}]
      /\ txn' = NoTransaction
      /\ \A t \in Transactions \ {txn.id} : outcome'[t] = outcome[t]
      /\ memory' = IF ok THEN memory \union {txn.id} ELSE memory
      /\ UNCHANGED stop
  <2>1. /\ lane \in Lanes /\ Single(lane) /\ save \in Saves /\ flush \in [Flushers -> Flushes]
        /\ outcome \in [Transactions -> {"none", "done", "failed"}]
    BY DEF TypeOK, SingleSave, Lanes
  <2>2. flush' = [f \in Flushers |-> Woken(flush[f], save.by)]
    BY DEF PreparedEnds, SaveEnds
  <2>3. /\ flush' \in [Flushers -> Flushes]
        /\ \A f \in Flushers : flush'[f].step = "out" <=> flush[f].step = "out"
    BY <2>1, <2>2 DEF Woken, Flushes
  <2>4. save.by = "prepared" /\ txn.step = "save"
    BY DEF PreparedEnds, TypeOK
  <2>5. txn.id \in Transactions /\ outcome[txn.id] = "none"
    BY <2>4 DEF TransactionOpen, NoTransaction
  <2>6. txn.id \notin Edits
    BY <2>5, ChangesAssumption
  <2>7. outcome' = [outcome EXCEPT ![txn.id] = IF ok THEN "done" ELSE "failed"]
    BY DEF PreparedEnds, Concluded
  <2>8. /\ outcome'[txn.id] = IF ok THEN "done" ELSE "failed"
        /\ \A t \in Transactions \ {txn.id} : outcome'[t] = outcome[t]
        /\ outcome' \in [Transactions -> {"none", "done", "failed"}]
    BY <2>1, <2>5, <2>7
  <2> QED
    BY <2>1, <2>3, <2>4, <2>5, <2>6, <2>8, EndedFacts DEF PreparedEnds, SaveEnds, Concluded
<1>1. TypeOK'
  BY ChangesAssumption, <1>0 DEF TypeOK, NoTransaction, Saves, Flushers, Changes
<1>2. SingleSave'
  BY ChangesAssumption, <1>0 DEF SingleSave, NoTransaction
<1>3. WakeUp'
  BY ChangesAssumption, <1>0 DEF WakeUp, NoTransaction
<1>4. TransactionOpen'
  BY ChangesAssumption, <1>0 DEF TransactionOpen, TypeOK, NoTransaction
<1>5. CleanIsWritten'
  BY ChangesAssumption, <1>0 DEF CleanIsWritten, TypeOK, NoTransaction
<1>6. InState'
  BY ChangesAssumption, <1>0 DEF InState, TypeOK, NoTransaction
<1>7. WrittenLater'
  BY ChangesAssumption, <1>0 DEF WrittenLater, TypeOK, NoTransaction
<1>8. EditsStay'
  BY ChangesAssumption, <1>0 DEF EditsStay, TypeOK, NoTransaction
<1>9. Kept'
  <2>1. CASE ok
    <3>1. Told' = Told \union {txn.id}
      BY <1>0, <2>1 DEF Told
    <3>2. disk' = save.of /\ memory' = memory \union {txn.id} /\ lane'.saves = {}
      BY <1>0, <2>1
    <3>3. Told \subseteq memory /\ Told \subseteq save.of
      BY DEF Kept
    <3>4. txn.id \in save.of
      BY <1>0 DEF InState
    <3> HIDE DEF IInv
    <3> QED
      BY <3>1, <3>2, <3>3, <3>4 DEF Kept
  <2>2. CASE ~ok
    <3>1. Told' = Told
      BY <1>0, <2>2 DEF Told
    <3> QED
      BY <1>0, <2>2, <3>1 DEF Kept
  <2> QED
    BY <2>1, <2>2
<1> QED
  BY <1>1, <1>2, <1>3, <1>4, <1>5, <1>6, <1>7, <1>8, <1>9

\* A transaction opens.
LEMMA OpenKeeps ==
  ASSUME IInv, NEW t \in Transactions, Open(t)
  PROVE  IInv'
<1> USE DEF IInv
<1>0. /\ txn = NoTransaction /\ outcome[t] = "none"
      /\ txn' = [id |-> t, step |-> "open"]
      /\ UNCHANGED <<memory, disk, lane, failed, flush, outcome, stop>>
  BY DEF Open, Closed
<1>1. TypeOK'
  BY <1>0 DEF TypeOK, NoTransaction
<1>2. SingleSave'
  BY <1>0 DEF SingleSave, NoTransaction
<1>3. WakeUp'
  BY <1>0 DEF WakeUp, NoTransaction
<1>4. TransactionOpen'
  BY <1>0 DEF TransactionOpen, TypeOK, NoTransaction
<1>5. CleanIsWritten'
  BY <1>0 DEF CleanIsWritten, TypeOK, NoTransaction
<1>6. InState'
  BY <1>0 DEF InState, TypeOK, NoTransaction
<1>7. WrittenLater'
  BY <1>0 DEF WrittenLater, TypeOK, NoTransaction
<1>8. EditsStay'
  BY <1>0 DEF EditsStay, TypeOK, NoTransaction
<1>9. Kept'
  BY <1>0 DEF Kept, TypeOK, Told, NoTransaction
<1> QED
  BY <1>1, <1>2, <1>3, <1>4, <1>5, <1>6, <1>7, <1>8, <1>9

\* A transaction fails before its change.
LEMMA AbandonKeeps ==
  ASSUME IInv, Abandon
  PROVE  IInv'
<1> USE DEF IInv
<1>0. /\ txn.id \in Transactions /\ outcome[txn.id] = "none" /\ txn.step = "open"
      /\ outcome'[txn.id] = "failed"
      /\ outcome' \in [Transactions -> {"none", "done", "failed"}]
      /\ txn' = NoTransaction
      /\ \A t \in Transactions \ {txn.id} : outcome'[t] = outcome[t]
      /\ UNCHANGED <<memory, disk, lane, failed, flush, stop>>
  <2>1. outcome \in [Transactions -> {"none", "done", "failed"}] /\ txn.step = "open"
    BY DEF Abandon, FlushEnds, TypeOK
  <2>2. txn.id \in Transactions /\ outcome[txn.id] = "none"
    BY <2>1 DEF TransactionOpen, NoTransaction
  <2>3. outcome' = [outcome EXCEPT ![txn.id] = "failed"]
    BY DEF Abandon, Concluded
  <2>4. /\ outcome'[txn.id] = "failed"
        /\ \A t \in Transactions \ {txn.id} : outcome'[t] = outcome[t]
        /\ outcome' \in [Transactions -> {"none", "done", "failed"}]
    BY <2>1, <2>2, <2>3
  <2> QED
    BY <2>1, <2>2, <2>4 DEF Abandon, Concluded
<1>1. TypeOK'
  BY <1>0 DEF TypeOK, NoTransaction
<1>2. SingleSave'
  BY <1>0 DEF SingleSave, NoTransaction
<1>3. WakeUp'
  BY <1>0 DEF WakeUp, NoTransaction
<1>4. TransactionOpen'
  BY <1>0 DEF TransactionOpen, TypeOK, NoTransaction
<1>5. CleanIsWritten'
  BY <1>0 DEF CleanIsWritten, TypeOK, NoTransaction
<1>6. InState'
  BY <1>0 DEF InState, TypeOK, NoTransaction
<1>7. WrittenLater'
  BY <1>0 DEF WrittenLater, TypeOK, NoTransaction
<1>8. EditsStay'
  BY <1>0 DEF EditsStay, TypeOK, NoTransaction
<1>9. Kept'
  BY <1>0 DEF Kept, TypeOK, Told, NoTransaction
<1> QED
  BY <1>1, <1>2, <1>3, <1>4, <1>5, <1>6, <1>7, <1>8, <1>9

\* The bindings of a removal that failed are restored, or cannot be.
LEMMA RestoredKeeps ==
  ASSUME IInv, NEW ok \in BOOLEAN, Restored(ok)
  PROVE  IInv'
<1> USE DEF IInv
<1>0. /\ txn.id \in Transactions /\ outcome[txn.id] = "none" /\ txn.step = "restore"
      /\ outcome'[txn.id] = "failed"
      /\ outcome' \in [Transactions -> {"none", "done", "failed"}]
      /\ txn' = NoTransaction
      /\ \A t \in Transactions \ {txn.id} : outcome'[t] = outcome[t]
      /\ lane' \in Lanes /\ lane'.saves = lane.saves /\ lane'.inFlight = lane.inFlight
      /\ Wakes(lane') /\ (lane'.dirty \/ lane'.dirty = lane.dirty)
      /\ UNCHANGED <<memory, disk, failed, flush, stop>>
  <2>1. outcome \in [Transactions -> {"none", "done", "failed"}] /\ txn.step = "restore"
    BY DEF Restored, FlushEnds, TypeOK
  <2>2. txn.id \in Transactions /\ outcome[txn.id] = "none"
    BY <2>1 DEF TransactionOpen, NoTransaction
  <2>3. outcome' = [outcome EXCEPT ![txn.id] = "failed"]
    BY DEF Restored, Concluded
  <2>4. /\ outcome'[txn.id] = "failed"
        /\ \A t \in Transactions \ {txn.id} : outcome'[t] = outcome[t]
        /\ outcome' \in [Transactions -> {"none", "done", "failed"}]
    BY <2>1, <2>2, <2>3
  <2>5. lane \in Lanes /\ lane' = IF ok THEN Emitted(lane) ELSE lane
    BY DEF Restored, TypeOK
  <2>6. /\ lane' \in Lanes /\ lane'.saves = lane.saves /\ lane'.inFlight = lane.inFlight
        /\ Wakes(lane') /\ (lane'.dirty \/ lane'.dirty = lane.dirty)
    BY <2>5, EmittedFacts DEF WakeUp, Wakes
  <2> QED
    BY <2>1, <2>2, <2>4, <2>6 DEF Restored, Concluded
<1>1. TypeOK'
  BY <1>0 DEF TypeOK, NoTransaction
<1>2. SingleSave'
  BY <1>0 DEF SingleSave, NoTransaction, Single
<1>3. WakeUp'
  BY <1>0 DEF WakeUp, NoTransaction
<1>4. TransactionOpen'
  BY <1>0 DEF TransactionOpen, TypeOK, NoTransaction
<1>5. CleanIsWritten'
  BY <1>0 DEF CleanIsWritten, TypeOK, NoTransaction
<1>6. InState'
  BY <1>0 DEF InState, TypeOK, NoTransaction
<1>7. WrittenLater'
  BY <1>0 DEF WrittenLater, TypeOK, NoTransaction
<1>8. EditsStay'
  BY <1>0 DEF EditsStay, TypeOK, NoTransaction
<1>9. Kept'
  BY <1>0 DEF Kept, TypeOK, Told, NoTransaction
<1> QED
  BY <1>1, <1>2, <1>3, <1>4, <1>5, <1>6, <1>7, <1>8, <1>9

\* A strict flush ends without a failure.
LEMMA CommitKeeps ==
  ASSUME IInv, Commit
  PROVE  IInv'
<1> USE DEF IInv
<1>0. /\ txn.id \in Transactions /\ outcome[txn.id] = "none" /\ txn.step = "commit"
      /\ outcome'[txn.id] = "done"
      /\ outcome' \in [Transactions -> {"none", "done", "failed"}]
      /\ txn' = NoTransaction
      /\ \A t \in Transactions \ {txn.id} : outcome'[t] = outcome[t]
      /\ lane.saves = {} /\ ~lane.dirty
      /\ lane' \in Lanes /\ lane'.saves = {} /\ lane'.inFlight = lane.inFlight
      /\ ~lane'.dirty
      /\ flush' \in [Flushers -> Flushes] /\ flush'["transaction"] = Out
      /\ flush'["stop"] = flush["stop"]
      /\ ~failed /\ UNCHANGED <<memory, disk, failed, stop>>
  <2>1. outcome \in [Transactions -> {"none", "done", "failed"}] /\ txn.step = "commit"
    BY DEF Commit, FlushEnds, TypeOK
  <2>2. txn.id \in Transactions /\ outcome[txn.id] = "none"
    BY <2>1 DEF TransactionOpen, NoTransaction
  <2>3. outcome' = [outcome EXCEPT ![txn.id] = "done"]
    BY DEF Commit, Concluded
  <2>4. /\ outcome'[txn.id] = "done"
        /\ \A t \in Transactions \ {txn.id} : outcome'[t] = outcome[t]
        /\ outcome' \in [Transactions -> {"none", "done", "failed"}]
    BY <2>1, <2>2, <2>3
  <2>5. lane.saves = {} /\ ~lane.dirty
    <3>1. LoopResult(lane, Resumed(lane, "transaction", memory), "transaction", memory)
      BY ResumedFacts DEF TypeOK, Flushers
    <3> QED
      BY <3>1, LoopLane DEF Commit, FlushEnds, TypeOK, SingleSave, Flushers
  <2>6. /\ lane' \in Lanes /\ lane'.saves = {} /\ lane'.inFlight = lane.inFlight
        /\ ~lane'.dirty
    BY <2>5 DEF Commit, Cleared, TypeOK, Lanes
  <2>7. /\ flush' \in [Flushers -> Flushes] /\ flush'["transaction"] = Out
        /\ flush'["stop"] = flush["stop"]
    BY DEF Commit, FlushEnds, TypeOK, Flushers, Flushes, Out
  <2> QED
    BY <2>1, <2>2, <2>4, <2>5, <2>6, <2>7 DEF Commit, Concluded
<1>1. TypeOK'
  BY <1>0 DEF TypeOK, NoTransaction, Out
<1>2. SingleSave'
  BY <1>0 DEF SingleSave, NoTransaction, Single
<1>3. WakeUp'
  BY <1>0 DEF WakeUp, NoTransaction, Wakes
<1>4. TransactionOpen'
  BY <1>0 DEF TransactionOpen, TypeOK, NoTransaction
<1>5. CleanIsWritten'
  BY <1>0 DEF CleanIsWritten, TypeOK, NoTransaction
<1>6. InState'
  BY <1>0 DEF InState, TypeOK, NoTransaction
<1>7. WrittenLater'
  BY <1>0 DEF WrittenLater, TypeOK, NoTransaction
<1>8. EditsStay'
  BY <1>0 DEF EditsStay, TypeOK, NoTransaction
<1>9. Kept'
  BY <1>0 DEF Kept, TypeOK, Told, NoTransaction, InState, CleanIsWritten
<1> QED
  BY <1>1, <1>2, <1>3, <1>4, <1>5, <1>6, <1>7, <1>8, <1>9

\* The flush after an undone insertion ends.
LEMMA UndoneKeeps ==
  ASSUME IInv, Undone
  PROVE  IInv'
<1> USE DEF IInv
<1>0. /\ txn.id \in Transactions /\ outcome[txn.id] = "none" /\ txn.step = "undo"
      /\ outcome'[txn.id] = "failed"
      /\ outcome' \in [Transactions -> {"none", "done", "failed"}]
      /\ txn' = NoTransaction
      /\ \A t \in Transactions \ {txn.id} : outcome'[t] = outcome[t]
      /\ lane.saves = {} /\ ~lane.dirty
      /\ lane' \in Lanes /\ lane'.saves = {} /\ lane'.inFlight = lane.inFlight
      /\ ~lane'.dirty
      /\ flush' \in [Flushers -> Flushes] /\ flush'["transaction"] = Out
      /\ flush'["stop"] = flush["stop"]
      /\ UNCHANGED <<memory, disk, failed, stop>>
  <2>1. outcome \in [Transactions -> {"none", "done", "failed"}] /\ txn.step = "undo"
    BY DEF Undone, FlushEnds, TypeOK
  <2>2. txn.id \in Transactions /\ outcome[txn.id] = "none"
    BY <2>1 DEF TransactionOpen, NoTransaction
  <2>3. outcome' = [outcome EXCEPT ![txn.id] = "failed"]
    BY DEF Undone, Concluded
  <2>4. /\ outcome'[txn.id] = "failed"
        /\ \A t \in Transactions \ {txn.id} : outcome'[t] = outcome[t]
        /\ outcome' \in [Transactions -> {"none", "done", "failed"}]
    BY <2>1, <2>2, <2>3
  <2>5. lane.saves = {} /\ ~lane.dirty
    <3>1. LoopResult(lane, Resumed(lane, "transaction", memory), "transaction", memory)
      BY ResumedFacts DEF TypeOK, Flushers
    <3> QED
      BY <3>1, LoopLane DEF Undone, FlushEnds, TypeOK, SingleSave, Flushers
  <2>6. /\ lane' \in Lanes /\ lane'.saves = {} /\ lane'.inFlight = lane.inFlight
        /\ ~lane'.dirty
    BY <2>5 DEF Undone, Cleared, TypeOK, Lanes
  <2>7. /\ flush' \in [Flushers -> Flushes] /\ flush'["transaction"] = Out
        /\ flush'["stop"] = flush["stop"]
    BY DEF Undone, FlushEnds, TypeOK, Flushers, Flushes, Out
  <2> QED
    BY <2>1, <2>2, <2>4, <2>5, <2>6, <2>7 DEF Undone, Concluded
<1>1. TypeOK'
  BY <1>0 DEF TypeOK, NoTransaction, Out
<1>2. SingleSave'
  BY <1>0 DEF SingleSave, NoTransaction, Single
<1>3. WakeUp'
  BY <1>0 DEF WakeUp, NoTransaction, Wakes
<1>4. TransactionOpen'
  BY <1>0 DEF TransactionOpen, TypeOK, NoTransaction
<1>5. CleanIsWritten'
  BY <1>0 DEF CleanIsWritten, TypeOK, NoTransaction
<1>6. InState'
  BY <1>0 DEF InState, TypeOK, NoTransaction
<1>7. WrittenLater'
  BY <1>0 DEF WrittenLater, TypeOK, NoTransaction
<1>8. EditsStay'
  BY <1>0 DEF EditsStay, TypeOK, NoTransaction
<1>9. Kept'
  BY <1>0 DEF Kept, TypeOK, Told, NoTransaction
<1> QED
  BY <1>1, <1>2, <1>3, <1>4, <1>5, <1>6, <1>7, <1>8, <1>9

\* A strict flush ends with a failure, and a removal is undone.
LEMMA UndoRemovalKeeps ==
  ASSUME IInv, UndoRemoval
  PROVE  IInv'
<1> USE DEF IInv
<1>0. /\ txn.id \in Transactions /\ txn.id \in Strict /\ txn.id \notin Edits
      /\ outcome[txn.id] = "none" /\ txn.step = "commit"
      /\ txn' = [id |-> txn.id, step |-> "restore"]
      /\ lane.saves = {} /\ ~lane.dirty
      /\ lane' \in Lanes /\ lane'.saves = {} /\ lane'.inFlight = lane.inFlight
      /\ ~lane'.dirty
      /\ flush' \in [Flushers -> Flushes] /\ flush'["transaction"] = Out
      /\ flush'["stop"] = flush["stop"]
      /\ failed /\ memory' = memory \ {txn.id}
      /\ UNCHANGED <<disk, failed, outcome, stop>>
  <2>1. txn.step = "commit"
    BY DEF UndoRemoval, FlushEnds
  <2>2. txn.id \in Transactions /\ outcome[txn.id] = "none" /\ txn.id \in Strict
    BY <2>1 DEF TransactionOpen, NoTransaction
  <2>3. txn.id \notin Edits
    BY <2>2, ChangesAssumption
  <2>4. txn' = [id |-> txn.id, step |-> "restore"]
    BY DEF UndoRemoval, TypeOK
  <2>5. lane.saves = {} /\ ~lane.dirty
    <3>1. LoopResult(lane, Resumed(lane, "transaction", memory), "transaction", memory)
      BY ResumedFacts DEF TypeOK, Flushers
    <3> QED
      BY <3>1, LoopLane DEF UndoRemoval, FlushEnds, TypeOK, SingleSave, Flushers
  <2>6. /\ lane' \in Lanes /\ lane'.saves = {} /\ lane'.inFlight = lane.inFlight
        /\ ~lane'.dirty
    BY <2>5 DEF UndoRemoval, Cleared, TypeOK, Lanes
  <2>7. /\ flush' \in [Flushers -> Flushes] /\ flush'["transaction"] = Out
        /\ flush'["stop"] = flush["stop"]
    BY DEF UndoRemoval, FlushEnds, TypeOK, Flushers, Flushes, Out
  <2> QED
    BY <2>1, <2>2, <2>3, <2>4, <2>5, <2>6, <2>7 DEF UndoRemoval
<1>1. TypeOK'
  BY ChangesAssumption, <1>0 DEF TypeOK, NoTransaction, Out
<1>2. SingleSave'
  BY ChangesAssumption, <1>0 DEF SingleSave, NoTransaction, Single
<1>3. WakeUp'
  BY ChangesAssumption, <1>0 DEF WakeUp, NoTransaction, Wakes
<1>4. TransactionOpen'
  BY ChangesAssumption, <1>0 DEF TransactionOpen, TypeOK, NoTransaction
<1>5. CleanIsWritten'
  BY ChangesAssumption, <1>0 DEF CleanIsWritten, TypeOK, NoTransaction
<1>6. InState'
  BY ChangesAssumption, <1>0 DEF InState, TypeOK, NoTransaction
<1>7. WrittenLater'
  BY ChangesAssumption, <1>0 DEF WrittenLater, TypeOK, NoTransaction
<1>8. EditsStay'
  BY ChangesAssumption, <1>0 DEF EditsStay, TypeOK, NoTransaction
<1>9. Kept'
  BY ChangesAssumption, <1>0 DEF Kept, TypeOK, Told, NoTransaction
<1> QED
  BY <1>1, <1>2, <1>3, <1>4, <1>5, <1>6, <1>7, <1>8, <1>9

\* A quit begins.
LEMMA StopKeeps ==
  ASSUME IInv, Stop
  PROVE  IInv'
<1> USE DEF IInv
<1>0. /\ stop = "no" /\ stop' = "stopping"
      /\ UNCHANGED <<memory, disk, lane, failed, flush, txn, outcome>>
  BY DEF Stop
<1>1. TypeOK'
  BY <1>0 DEF TypeOK, NoTransaction
<1>2. SingleSave'
  BY <1>0 DEF SingleSave, NoTransaction
<1>3. WakeUp'
  BY <1>0 DEF WakeUp, NoTransaction
<1>4. TransactionOpen'
  BY <1>0 DEF TransactionOpen, TypeOK, NoTransaction
<1>5. CleanIsWritten'
  BY <1>0 DEF CleanIsWritten, TypeOK, NoTransaction
<1>6. InState'
  BY <1>0 DEF InState, TypeOK, NoTransaction
<1>7. WrittenLater'
  BY <1>0 DEF WrittenLater, TypeOK, NoTransaction
<1>8. EditsStay'
  BY <1>0 DEF EditsStay, TypeOK, NoTransaction
<1>9. Kept'
  BY <1>0 DEF Kept, TypeOK, Told, NoTransaction
<1> QED
  BY <1>1, <1>2, <1>3, <1>4, <1>5, <1>6, <1>7, <1>8, <1>9

\* A flush of the open transaction goes on to an await.
LEMMA WaitsKeeps ==
  ASSUME IInv, NEW loop, LoopResult(lane, loop, "transaction", memory),
         NEW step \in {"drain", "commit", "undo"}, Waits(loop, step),
         txn.step = step \/ (txn.step = "open" /\ step = "drain" /\ txn.id \in Prepared),
         UNCHANGED <<memory, disk, failed, outcome, stop>>
  PROVE  IInv'
<1> USE DEF IInv
<1>0. /\ lane' \in Lanes /\ Single(lane') /\ Wakes(lane')
      /\ \/ lane'.saves = lane.saves /\ lane'.dirty = lane.dirty
         \/ lane.saves = {} /\ ~lane'.dirty /\ StartedBy(lane', "transaction", memory)
      /\ flush' \in [Flushers -> Flushes] /\ flush'["transaction"].step # "out"
      /\ flush'["stop"] = flush["stop"]
      /\ txn' = [id |-> txn.id, step |-> step] /\ txn.id \in Transactions /\ outcome[txn.id] = "none"
      /\ UNCHANGED <<memory, disk, failed, outcome, stop>>
  <2>1. /\ lane \in Lanes /\ Single(lane) /\ memory \in SUBSET Changes /\ lane' = loop.lane
        /\ "transaction" \in Flushers /\ "stop" \in Flushers
    BY DEF TypeOK, SingleSave, Waits, Flushers
  <2>2. loop.at \in Flushes /\ loop.at.step # "out"
    BY <2>1, LoopLane DEF Waits
  <2>3. /\ flush' \in [Flushers -> Flushes] /\ flush'["transaction"].step # "out"
        /\ flush'["stop"] = flush["stop"]
    BY <2>1, <2>2 DEF Waits, TypeOK
  <2>4. txn' = [id |-> txn.id, step |-> step]
    BY DEF Waits, TypeOK
  <2>5. txn.id \in Transactions /\ outcome[txn.id] = "none"
    BY DEF TransactionOpen, NoTransaction
  <2>6. /\ lane' \in Lanes /\ Single(lane') /\ Wakes(lane')
        /\ \/ lane'.saves = lane.saves /\ lane'.dirty = lane.dirty
           \/ lane.saves = {} /\ ~lane'.dirty /\ StartedBy(lane', "transaction", memory)
    <3>1. /\ loop.lane \in Lanes /\ Single(loop.lane) /\ Wakes(loop.lane)
          /\ \/ loop.lane.saves = lane.saves /\ loop.lane.dirty = lane.dirty
             \/ lane.saves = {} /\ ~loop.lane.dirty /\ StartedBy(loop.lane, "transaction", memory)
      BY <2>1, LoopLane
    <3> HIDE DEF IInv
    <3> QED
      BY <2>1, <3>1
  <2> QED
    BY <2>3, <2>4, <2>5, <2>6
<1>1. TypeOK'
  BY <1>0 DEF TypeOK, StartedBy, Flushers
<1>2. SingleSave'
  BY <1>0 DEF SingleSave, StartedBy
<1>3. WakeUp'
  BY <1>0 DEF WakeUp, StartedBy
<1>4. TransactionOpen'
  BY <1>0 DEF TransactionOpen, TypeOK, StartedBy, NoTransaction
<1>5. CleanIsWritten'
  BY <1>0 DEF CleanIsWritten, TypeOK, StartedBy
<1>6. InState'
  BY <1>0 DEF InState, TypeOK, StartedBy
<1>7. WrittenLater'
  BY <1>0 DEF WrittenLater, TypeOK, StartedBy, InState
<1>8. EditsStay'
  BY <1>0 DEF EditsStay, TypeOK, StartedBy
<1>9. Kept'
  BY <1>0 DEF Kept, TypeOK, Told, StartedBy
<1> QED
  BY <1>1, <1>2, <1>3, <1>4, <1>5, <1>6, <1>7, <1>8, <1>9

\* A flush of the open transaction has drained the lane, and the prepared state is written.
LEMMA WritesKeeps ==
  ASSUME IInv, NEW loop, LoopResult(lane, loop, "transaction", memory), Writes(loop),
         txn.step \in {"open", "drain"}, txn.id \in Prepared,
         UNCHANGED <<memory, disk, failed, outcome, stop>>
  PROVE  IInv'
<1> USE DEF IInv
<1>0. /\ lane' \in Lanes /\ lane.saves = {} /\ ~lane'.dirty
      /\ StartedBy(lane', "prepared", memory \union {txn.id})
      /\ Single(lane') /\ Wakes(lane')
      /\ flush' \in [Flushers -> Flushes] /\ flush'["transaction"] = Out
      /\ flush'["stop"] = flush["stop"]
      /\ txn' = [id |-> txn.id, step |-> "save"] /\ txn.id \in Transactions /\ outcome[txn.id] = "none"
      /\ txn.id \notin Edits
      /\ UNCHANGED <<memory, disk, failed, outcome, stop>>
  <2>1. /\ lane \in Lanes /\ Single(lane) /\ memory \in SUBSET Changes
        /\ "transaction" \in Flushers /\ "stop" \in Flushers
        /\ lane' = Started(loop.lane, "prepared", memory \union {txn.id})
    BY DEF TypeOK, SingleSave, Writes, Flushers
  <2>2. /\ loop.lane \in Lanes /\ lane.saves = {} /\ loop.lane.saves = {} /\ ~loop.lane.dirty
    BY <2>1, LoopLane DEF Writes
  <2>3. txn.id \in Transactions /\ outcome[txn.id] = "none" /\ txn.id \notin Edits
    BY ChangesAssumption DEF TransactionOpen, NoTransaction, Transactions
  <2>4. [by |-> "prepared", of |-> memory \union {txn.id}] \in Saves
    BY <2>1, <2>3 DEF Saves, Savers, Changes
  <2>5. /\ lane' \in Lanes /\ ~lane'.dirty /\ lane'.inFlight = "prepared"
        /\ lane'.saves = {[by |-> "prepared", of |-> memory \union {txn.id}]}
    BY <2>1, <2>2, <2>4 DEF Started, Lanes, Savers
  <2>6. /\ StartedBy(lane', "prepared", memory \union {txn.id})
        /\ Single(lane') /\ Wakes(lane')
    BY <2>4, <2>5 DEF StartedBy, Single, Wakes
  <2>7. /\ flush' \in [Flushers -> Flushes] /\ flush'["transaction"] = Out
        /\ flush'["stop"] = flush["stop"]
    BY <2>1 DEF Writes, TypeOK, Flushes, Out
  <2>8. txn' = [id |-> txn.id, step |-> "save"]
    BY DEF Writes, TypeOK
  <2> QED
    BY <2>2, <2>3, <2>5, <2>6, <2>7, <2>8
<1>1. TypeOK'
  BY <1>0 DEF TypeOK, StartedBy, Flushers, Out
<1>2. SingleSave'
  BY <1>0 DEF SingleSave, StartedBy
<1>3. WakeUp'
  BY <1>0 DEF WakeUp, StartedBy
<1>4. TransactionOpen'
  BY <1>0 DEF TransactionOpen, TypeOK, StartedBy, NoTransaction
<1>5. CleanIsWritten'
  BY <1>0 DEF CleanIsWritten, TypeOK, StartedBy
<1>6. InState'
  BY <1>0 DEF InState, TypeOK, StartedBy
<1>7. WrittenLater'
  BY <1>0 DEF WrittenLater, TypeOK, StartedBy, InState
<1>8. EditsStay'
  BY <1>0 DEF EditsStay, TypeOK, StartedBy
<1>9. Kept'
  BY <1>0 DEF Kept, TypeOK, Told, StartedBy
<1> QED
  BY <1>1, <1>2, <1>3, <1>4, <1>5, <1>6, <1>7, <1>8, <1>9

\* The flush of a quit goes on to an await or ends.
LEMMA StopLoopsKeeps ==
  ASSUME IInv, NEW loop, LoopResult(lane, loop, "stop", memory), StopLoops(loop)
  PROVE  IInv'
<1> USE DEF IInv
<1>0. /\ lane' \in Lanes /\ Single(lane') /\ Wakes(lane')
      /\ \/ lane'.saves = lane.saves /\ lane'.dirty = lane.dirty
         \/ lane.saves = {} /\ ~lane'.dirty /\ StartedBy(lane', "stop", memory)
      /\ flush' \in [Flushers -> Flushes] /\ flush'["transaction"] = flush["transaction"]
      /\ stop' \in {"flushing", "stopped"} /\ (stop' = "flushing" <=> flush'["stop"].step # "out")
      /\ UNCHANGED <<memory, disk, failed, txn, outcome>>
  <2>1. /\ lane \in Lanes /\ Single(lane) /\ memory \in SUBSET Changes /\ lane' = loop.lane
        /\ "transaction" \in Flushers /\ "stop" \in Flushers
    BY DEF TypeOK, SingleSave, StopLoops, Flushers
  <2>2. loop.at \in Flushes /\ (loop.at = Out \/ loop.at.step # "out")
    BY <2>1, LoopLane
  <2>3. /\ flush' \in [Flushers -> Flushes] /\ flush'["transaction"] = flush["transaction"]
        /\ stop' \in {"flushing", "stopped"} /\ (stop' = "flushing" <=> flush'["stop"].step # "out")
    BY <2>1, <2>2 DEF StopLoops, TypeOK, Out
  <2>4. /\ lane' \in Lanes /\ Single(lane') /\ Wakes(lane')
        /\ \/ lane'.saves = lane.saves /\ lane'.dirty = lane.dirty
           \/ lane.saves = {} /\ ~lane'.dirty /\ StartedBy(lane', "stop", memory)
    <3>1. /\ loop.lane \in Lanes /\ Single(loop.lane) /\ Wakes(loop.lane)
          /\ \/ loop.lane.saves = lane.saves /\ loop.lane.dirty = lane.dirty
             \/ lane.saves = {} /\ ~loop.lane.dirty /\ StartedBy(loop.lane, "stop", memory)
      BY <2>1, LoopLane
    <3> HIDE DEF IInv
    <3> QED
      BY <2>1, <3>1
  <2> QED
    BY <2>3, <2>4 DEF StopLoops
<1>1. TypeOK'
  BY <1>0 DEF TypeOK, StartedBy, Flushers
<1>2. SingleSave'
  BY <1>0 DEF SingleSave, StartedBy
<1>3. WakeUp'
  BY <1>0 DEF WakeUp, StartedBy
<1>4. TransactionOpen'
  BY <1>0 DEF TransactionOpen, TypeOK, StartedBy
<1>5. CleanIsWritten'
  BY <1>0 DEF CleanIsWritten, TypeOK, StartedBy
<1>6. InState'
  BY <1>0 DEF InState, TypeOK, StartedBy
<1>7. WrittenLater'
  BY <1>0 DEF WrittenLater, TypeOK, StartedBy, InState
<1>8. EditsStay'
  BY <1>0 DEF EditsStay, TypeOK, StartedBy
<1>9. Kept'
  BY <1>0 DEF Kept, TypeOK, Told, StartedBy
<1> QED
  BY <1>1, <1>2, <1>3, <1>4, <1>5, <1>6, <1>7, <1>8, <1>9

\* A prepared save drains the lane first.
LEMMA PrepareKeeps ==
  ASSUME IInv, Prepare
  PROVE  IInv'
<1> DEFINE loop == Looped(lane, "transaction", memory)
<1>1. LoopResult(lane, loop, "transaction", memory)
  BY LoopedFacts DEF IInv, TypeOK, Flushers
<1>2. txn.step = "open" /\ txn.id \in Prepared /\ UNCHANGED <<memory, disk, failed, outcome, stop>>
  BY DEF Prepare
<1>3. Waits(loop, "drain") \/ Writes(loop)
  BY DEF Prepare
<1> HIDE DEF loop
<1>4. CASE Waits(loop, "drain")
  BY <1>1, <1>2, <1>4, WaitsKeeps
<1>5. CASE Writes(loop)
  BY <1>1, <1>2, <1>5, WritesKeeps
<1> QED
  BY <1>3, <1>4, <1>5

\* The flush of a transaction goes on to its next await.
LEMMA FlushGoesOnKeeps ==
  ASSUME IInv, FlushGoesOn
  PROVE  IInv'
<1> DEFINE loop == Resumed(lane, "transaction", memory)
<1>1. LoopResult(lane, loop, "transaction", memory)
  BY ResumedFacts DEF IInv, TypeOK, Flushers
<1>2. UNCHANGED <<memory, disk, failed, outcome, stop>>
  BY DEF FlushGoesOn
<1>3. txn.step \in {"drain", "commit", "undo"}
  BY DEF FlushGoesOn, Resumable, IInv, TypeOK
<1>4. Waits(loop, txn.step) \/ (txn.step = "drain" /\ Writes(loop))
  BY DEF FlushGoesOn
<1> HIDE DEF loop
<1>5. CASE Waits(loop, txn.step)
  BY <1>1, <1>2, <1>3, <1>5, WaitsKeeps
<1>6. CASE txn.step = "drain" /\ Writes(loop)
  <2>1. txn.id \in Prepared
    BY <1>6 DEF IInv, TransactionOpen, NoTransaction
  <2> QED
    BY <1>1, <1>2, <1>6, <2>1, WritesKeeps
<1> QED
  BY <1>4, <1>5, <1>6

\* The flush of a quit begins or goes on.
LEMMA StopStepKeeps ==
  ASSUME IInv, StopStep
  PROVE  IInv'
<1>1. CASE StopFlushes
  <2>1. LoopResult(lane, Looped(lane, "stop", memory), "stop", memory)
    BY LoopedFacts DEF IInv, TypeOK, Flushers
  <2> QED
    BY <1>1, <2>1, StopLoopsKeeps DEF StopFlushes
<1>2. CASE StopGoesOn
  <2>1. LoopResult(lane, Resumed(lane, "stop", memory), "stop", memory)
    BY ResumedFacts DEF IInv, TypeOK, Flushers
  <2> QED
    BY <1>2, <2>1, StopLoopsKeeps DEF StopGoesOn
<1> QED
  BY <1>1, <1>2 DEF StopStep

\* A change is made, emitted and flushed.
LEMMA ApplyKeeps ==
  ASSUME IInv, Apply
  PROVE  IInv'
<1> USE DEF IInv
<1>0. /\ lane' \in Lanes /\ Single(lane') /\ Wakes(lane')
      /\ \/ lane'.saves = lane.saves /\ lane'.dirty = TRUE
         \/ lane.saves = {} /\ StartedBy(lane', "transaction", memory')
      /\ flush' \in [Flushers -> Flushes] /\ flush'["transaction"].step # "out"
      /\ flush'["stop"] = flush["stop"]
      /\ txn' = [id |-> txn.id, step |-> "commit"] /\ txn.id \in Transactions /\ txn.id \in Strict
      /\ outcome[txn.id] = "none" /\ txn.id \notin Edits
      /\ txn.step = "open" /\ memory' = memory \union {txn.id}
      /\ UNCHANGED <<disk, failed, outcome, stop>>
  <2> DEFINE l == Emitted(lane)
             loop == Looped(l, "transaction", memory')
  <2>1. /\ lane \in Lanes /\ Single(lane) /\ memory \in SUBSET Changes
        /\ "transaction" \in Flushers /\ "stop" \in Flushers
    BY DEF TypeOK, SingleSave, Flushers
  <2>2. l \in Lanes /\ Single(l) /\ l.saves = lane.saves /\ l.dirty
    BY <2>1, EmittedFacts DEF Single
  <2>3. txn.id \in Transactions /\ outcome[txn.id] = "none" /\ txn.id \notin Edits /\ txn.id \in Strict
    BY ChangesAssumption DEF Apply, TransactionOpen, NoTransaction, Strict, Transactions, Insertions
  <2>4. memory' \in SUBSET Changes
    BY <2>1, <2>3 DEF Apply, Changes
  <2>5. lane' = loop.lane /\ flush' = [flush EXCEPT !["transaction"] = loop.at]
    BY DEF Apply
  <2>6. LoopResult(l, loop, "transaction", memory')
    BY <2>1, <2>2, <2>4, LoopedFacts
  <2> HIDE DEF l, loop
  <2>7. /\ loop.lane \in Lanes /\ Single(loop.lane) /\ Wakes(loop.lane)
        /\ \/ loop.lane.saves = l.saves /\ loop.lane.dirty = l.dirty
           \/ l.saves = {} /\ StartedBy(loop.lane, "transaction", memory')
        /\ loop.at \in Flushes /\ loop.at.step # "out"
    BY <2>1, <2>2, <2>4, <2>6, LoopLane
  <2>8. /\ flush' \in [Flushers -> Flushes] /\ flush'["transaction"].step # "out"
        /\ flush'["stop"] = flush["stop"]
    BY <2>1, <2>5, <2>7 DEF TypeOK
  <2>9. txn' = [id |-> txn.id, step |-> "commit"]
    BY DEF Apply, TypeOK
  <2>10. /\ lane' \in Lanes /\ Single(lane') /\ Wakes(lane')
         /\ \/ lane'.saves = lane.saves /\ lane'.dirty = TRUE
            \/ lane.saves = {} /\ StartedBy(lane', "transaction", memory')
    <3> HIDE DEF IInv
    <3> QED
      BY <2>2, <2>5, <2>7 DEF Lanes
  <2> QED
    BY <2>3, <2>8, <2>9, <2>10 DEF Apply
<1>1. TypeOK'
  BY <1>0 DEF TypeOK, StartedBy, Flushers, Changes
<1>2. SingleSave'
  BY <1>0 DEF SingleSave, StartedBy
<1>3. WakeUp'
  BY <1>0 DEF WakeUp, StartedBy
<1>4. TransactionOpen'
  BY <1>0 DEF TransactionOpen, TypeOK, StartedBy, NoTransaction
<1>5. CleanIsWritten'
  BY <1>0 DEF CleanIsWritten, TypeOK, StartedBy
<1>6. InState'
  BY <1>0 DEF InState, TypeOK, StartedBy
<1>7. WrittenLater'
  BY <1>0 DEF WrittenLater, TypeOK, StartedBy, InState
<1>8. EditsStay'
  BY <1>0 DEF EditsStay, TypeOK, StartedBy
<1>9. Kept'
  BY <1>0 DEF Kept, TypeOK, Told, StartedBy, WrittenLater
<1> QED
  BY <1>1, <1>2, <1>3, <1>4, <1>5, <1>6, <1>7, <1>8, <1>9

\* A change is taken back before anything awaits.
LEMMA TakeBackKeeps ==
  ASSUME IInv, TakeBack
  PROVE  IInv'
<1> USE DEF IInv
<1>0. /\ lane' \in Lanes /\ Single(lane') /\ Wakes(lane')
      /\ \/ lane'.saves = lane.saves /\ lane'.dirty = TRUE
         \/ lane.saves = {} /\ StartedBy(lane', "transaction", memory')
      /\ flush' \in [Flushers -> Flushes] /\ flush'["transaction"].step # "out"
      /\ flush'["stop"] = flush["stop"]
      /\ txn' = [id |-> txn.id, step |-> "undo"] /\ txn.id \in Transactions /\ txn.id \in Strict
      /\ outcome[txn.id] = "none" /\ txn.id \notin Edits
      /\ txn.step = "open"
      /\ UNCHANGED <<memory, disk, failed, outcome, stop>>
  <2> DEFINE l == Emitted(lane)
             loop == Looped(l, "transaction", memory')
  <2>1. /\ lane \in Lanes /\ Single(lane) /\ memory \in SUBSET Changes
        /\ "transaction" \in Flushers /\ "stop" \in Flushers
    BY DEF TypeOK, SingleSave, Flushers
  <2>2. l \in Lanes /\ Single(l) /\ l.saves = lane.saves /\ l.dirty
    BY <2>1, EmittedFacts DEF Single
  <2>3. txn.id \in Transactions /\ outcome[txn.id] = "none" /\ txn.id \notin Edits /\ txn.id \in Strict
    BY ChangesAssumption DEF TakeBack, TransactionOpen, NoTransaction, Strict, Transactions, Insertions
  <2>4. memory' \in SUBSET Changes
    BY <2>1, <2>3 DEF TakeBack, Changes
  <2>5. lane' = loop.lane /\ flush' = [flush EXCEPT !["transaction"] = loop.at]
    BY DEF TakeBack
  <2>6. LoopResult(l, loop, "transaction", memory')
    BY <2>1, <2>2, <2>4, LoopedFacts
  <2> HIDE DEF l, loop
  <2>7. /\ loop.lane \in Lanes /\ Single(loop.lane) /\ Wakes(loop.lane)
        /\ \/ loop.lane.saves = l.saves /\ loop.lane.dirty = l.dirty
           \/ l.saves = {} /\ StartedBy(loop.lane, "transaction", memory')
        /\ loop.at \in Flushes /\ loop.at.step # "out"
    BY <2>1, <2>2, <2>4, <2>6, LoopLane
  <2>8. /\ flush' \in [Flushers -> Flushes] /\ flush'["transaction"].step # "out"
        /\ flush'["stop"] = flush["stop"]
    BY <2>1, <2>5, <2>7 DEF TypeOK
  <2>9. txn' = [id |-> txn.id, step |-> "undo"]
    BY DEF TakeBack, TypeOK
  <2>10. /\ lane' \in Lanes /\ Single(lane') /\ Wakes(lane')
         /\ \/ lane'.saves = lane.saves /\ lane'.dirty = TRUE
            \/ lane.saves = {} /\ StartedBy(lane', "transaction", memory')
    <3> HIDE DEF IInv
    <3> QED
      BY <2>2, <2>5, <2>7 DEF Lanes
  <2> QED
    BY <2>3, <2>8, <2>9, <2>10 DEF TakeBack
<1>1. TypeOK'
  BY <1>0 DEF TypeOK, StartedBy, Flushers, Changes
<1>2. SingleSave'
  BY <1>0 DEF SingleSave, StartedBy
<1>3. WakeUp'
  BY <1>0 DEF WakeUp, StartedBy
<1>4. TransactionOpen'
  BY <1>0 DEF TransactionOpen, TypeOK, StartedBy, NoTransaction
<1>5. CleanIsWritten'
  BY <1>0 DEF CleanIsWritten, TypeOK, StartedBy
<1>6. InState'
  BY <1>0 DEF InState, TypeOK, StartedBy
<1>7. WrittenLater'
  BY <1>0 DEF WrittenLater, TypeOK, StartedBy, InState
<1>8. EditsStay'
  BY <1>0 DEF EditsStay, TypeOK, StartedBy
<1>9. Kept'
  BY <1>0 DEF Kept, TypeOK, Told, StartedBy
<1> QED
  BY <1>1, <1>2, <1>3, <1>4, <1>5, <1>6, <1>7, <1>8, <1>9

\* A strict flush ends with a failure, and an insertion is undone and flushed.
LEMMA UndoInsertionKeeps ==
  ASSUME IInv, UndoInsertion
  PROVE  IInv'
<1> USE DEF IInv
<1>0. /\ lane' \in Lanes /\ Single(lane') /\ Wakes(lane')
      /\ \/ lane'.saves = lane.saves /\ lane'.dirty = TRUE
         \/ lane.saves = {} /\ StartedBy(lane', "transaction", memory')
      /\ flush' \in [Flushers -> Flushes] /\ flush'["transaction"].step # "out"
      /\ flush'["stop"] = flush["stop"]
      /\ txn' = [id |-> txn.id, step |-> "undo"] /\ txn.id \in Transactions /\ txn.id \in Strict
      /\ outcome[txn.id] = "none" /\ txn.id \notin Edits
      /\ txn.step = "commit" /\ memory' = memory \ {txn.id} /\ failed /\ lane.saves = {}
      /\ UNCHANGED <<disk, failed, outcome, stop>>
  <2> DEFINE l == Emitted(lane)
             loop == Looped(l, "transaction", memory')
  <2>1. /\ lane \in Lanes /\ Single(lane) /\ memory \in SUBSET Changes
        /\ "transaction" \in Flushers /\ "stop" \in Flushers
    BY DEF TypeOK, SingleSave, Flushers
  <2>2. l \in Lanes /\ Single(l) /\ l.saves = lane.saves /\ l.dirty
    BY <2>1, EmittedFacts DEF Single
  <2>3. txn.id \in Transactions /\ outcome[txn.id] = "none" /\ txn.id \notin Edits /\ txn.id \in Strict
    BY ChangesAssumption DEF UndoInsertion, TransactionOpen, NoTransaction, Strict, Transactions, Insertions
  <2>4. memory' \in SUBSET Changes
    BY <2>1, <2>3 DEF UndoInsertion, Changes
  <2>5. lane' = loop.lane /\ flush' = [flush EXCEPT !["transaction"] = loop.at]
    BY DEF UndoInsertion
  <2>6. LoopResult(l, loop, "transaction", memory')
    BY <2>1, <2>2, <2>4, LoopedFacts
  <2> HIDE DEF l, loop
  <2>7. /\ loop.lane \in Lanes /\ Single(loop.lane) /\ Wakes(loop.lane)
        /\ \/ loop.lane.saves = l.saves /\ loop.lane.dirty = l.dirty
           \/ l.saves = {} /\ StartedBy(loop.lane, "transaction", memory')
        /\ loop.at \in Flushes /\ loop.at.step # "out"
    BY <2>1, <2>2, <2>4, <2>6, LoopLane
  <2>8. /\ flush' \in [Flushers -> Flushes] /\ flush'["transaction"].step # "out"
        /\ flush'["stop"] = flush["stop"]
    BY <2>1, <2>5, <2>7 DEF TypeOK
  <2>9. txn' = [id |-> txn.id, step |-> "undo"]
    BY DEF UndoInsertion, TypeOK
  <2>10. /\ lane' \in Lanes /\ Single(lane') /\ Wakes(lane')
         /\ \/ lane'.saves = lane.saves /\ lane'.dirty = TRUE
            \/ lane.saves = {} /\ StartedBy(lane', "transaction", memory')
    <3> HIDE DEF IInv
    <3> QED
      BY <2>2, <2>5, <2>7 DEF Lanes
  <2>11. lane.saves = {}
    <3>1. LoopResult(lane, Resumed(lane, "transaction", memory), "transaction", memory)
      BY <2>1, ResumedFacts
    <3> QED
      BY <2>1, <3>1, LoopLane DEF UndoInsertion
  <2> QED
    BY <2>3, <2>8, <2>9, <2>10, <2>11 DEF UndoInsertion
<1>1. TypeOK'
  BY <1>0 DEF TypeOK, StartedBy, Flushers, Changes
<1>2. SingleSave'
  BY <1>0 DEF SingleSave, StartedBy
<1>3. WakeUp'
  BY <1>0 DEF WakeUp, StartedBy
<1>4. TransactionOpen'
  BY <1>0 DEF TransactionOpen, TypeOK, StartedBy, NoTransaction
<1>5. CleanIsWritten'
  BY <1>0 DEF CleanIsWritten, TypeOK, StartedBy
<1>6. InState'
  BY <1>0 DEF InState, TypeOK, StartedBy
<1>7. WrittenLater'
  BY <1>0 DEF WrittenLater, TypeOK, StartedBy, InState
<1>8. EditsStay'
  BY <1>0 DEF EditsStay, TypeOK, StartedBy
<1>9. Kept'
  BY <1>0 DEF Kept, TypeOK, Told, StartedBy
<1> QED
  BY <1>1, <1>2, <1>3, <1>4, <1>5, <1>6, <1>7, <1>8, <1>9

-----------------------------------------------------------------------------
(* The invariant and what follows from it.                                 *)

\* The actions of the lane, its transactions and a quit together.
LEMMA NextKeeps ==
  ASSUME IInv, Next
  PROVE  IInv'
<1>1. CASE \E c \in Edits : Edit(c)
  BY <1>1, EditKeeps
<1>2. CASE \E t \in Transactions : Open(t)
  BY <1>2, OpenKeeps
<1>3. CASE LaneStep
  BY <1>3, TimerKeeps, LatestEndsKeeps, PreparedEndsKeeps DEF LaneStep
<1>4. CASE TransactionStep
  <2>1. CASE Abandon
    BY <2>1, AbandonKeeps
  <2>2. CASE Apply
    BY <2>2, ApplyKeeps
  <2>3. CASE Prepare
    BY <2>3, PrepareKeeps
  <2>4. CASE FlushGoesOn
    BY <2>4, FlushGoesOnKeeps
  <2>5. CASE Commit
    BY <2>5, CommitKeeps
  <2>6. CASE UndoRemoval
    BY <2>6, UndoRemovalKeeps
  <2>7. CASE UndoInsertion
    BY <2>7, UndoInsertionKeeps
  <2>8. CASE Undone
    BY <2>8, UndoneKeeps
  <2>9. CASE \E ok \in BOOLEAN : Restored(ok)
    BY <2>9, RestoredKeeps
  <2>10. CASE TakeBack
    BY <2>10, TakeBackKeeps
  <2> QED
    BY <1>4, <2>1, <2>2, <2>3, <2>4, <2>5, <2>6, <2>7, <2>8, <2>9, <2>10 DEF TransactionStep
<1>5. CASE Stop
  BY <1>5, StopKeeps
<1>6. CASE StopStep
  BY <1>6, StopStepKeeps
<1> QED
  BY <1>1, <1>2, <1>3, <1>4, <1>5, <1>6 DEF Next

\* A step that changes nothing.
LEMMA StutterKeeps ==
  ASSUME IInv, UNCHANGED vars
  PROVE  IInv'
<1>1. UNCHANGED <<memory, disk, lane, failed, flush, txn, outcome, stop>>
  BY DEF vars
<1>2. TypeOK' /\ SingleSave' /\ WakeUp'
  BY <1>1 DEF IInv, TypeOK, SingleSave, Single, WakeUp, Wakes
<1>3. TransactionOpen' /\ CleanIsWritten' /\ InState'
  BY <1>1 DEF IInv, TransactionOpen, CleanIsWritten, InState, NoTransaction
<1>4. WrittenLater' /\ EditsStay' /\ Kept'
  BY <1>1 DEF IInv, WrittenLater, EditsStay, Kept, Told
<1> QED
  BY <1>2, <1>3, <1>4 DEF IInv

\* The inductive invariant: the lane has at most the one save in flight, whatever
\* is dirty wakes somebody up, and memory, disk and the saves under way contain
\* what the outcomes told so far require (persistLatest, flushPersistence,
\* savePreparedStateInPersistenceLane and the transactions that use them).
THEOREM Invariance == Spec => []IInv
<1>1. IInv /\ [Next]_vars => IInv'
  BY NextKeeps, StutterKeeps
<1> QED
  BY InitInvariant, <1>1, PTL DEF Spec

\* Type correctness of the persistence lane of AppController.
THEOREM TypeCorrect == Spec => []TypeOK
<1>1. IInv => TypeOK
  BY DEF IInv
<1> QED
  BY Invariance, <1>1, PTL

\* Two saves never write the temporary file of AppStateStore at the same time,
\* whatever flushes, timers and prepared saves interleave.
THEOREM OneWriterAlways == Spec => []OneWriter
<1>1. IInv => OneWriter
  <2> SUFFICES ASSUME IInv PROVE OneWriter
    OBVIOUS
  <2>1. CASE lane.saves = {}
    BY <2>1, FS_EmptySet DEF OneWriter
  <2>2. CASE \E save \in Saves : lane.saves = {save}
    BY <2>2, FS_Singleton DEF OneWriter
  <2> QED
    BY <2>1, <2>2 DEF IInv, SingleSave, Single
<1> QED
  BY Invariance, <1>1, PTL

\* While the file differs from the state, a save is under way, a timer is set, or
\* the last save failed: no interleaving loses the wake-up of persistLatest.
THEOREM NothingForgottenAlways == Spec => []NothingForgotten
<1>1. IInv => NothingForgotten
  BY NoneIsNoSaver DEF IInv, NothingForgotten, SingleSave, Single, WakeUp, Wakes, CleanIsWritten
<1> QED
  BY Invariance, <1>1, PTL

\* A change reported as not saved is out of the file once nothing is left to
\* write: the rollbacks of the transactions reach the disk or leave a failure.
THEOREM FailedIsUndoneAlways == Spec => []FailedIsUndone
<1>1. IInv => FailedIsUndone
  <2> SUFFICES ASSUME IInv, NEW t \in Transactions, outcome[t] = "failed",
                      ~lane.dirty, lane.saves = {}, ~failed
               PROVE  t \notin disk
    BY DEF FailedIsUndone
  <2>1. disk = memory
    BY DEF IInv, CleanIsWritten
  <2>2. txn.id # t
    BY NoneIsNoSaver DEF IInv, TransactionOpen, NoTransaction, Changes
  <2>3. t \notin memory
    BY <2>2 DEF IInv, InState
  <2> QED
    BY <2>1, <2>3
<1> QED
  BY Invariance, <1>1, PTL

-----------------------------------------------------------------------------
(* What a step does to the file and to what was told.                      *)

\* When stop returns and the last save succeeded, the file holds the state:
\* the flush of AppController.stop leaves no change behind.
THEOREM StopSavesAlways == Spec => StopSaves
<1> DEFINE Saved == stop' = "stopped" /\ stop # "stopped" => failed \/ disk = memory
<1>1. IInv /\ [Next]_vars => [Saved]_vars
  <2> SUFFICES ASSUME IInv, Next, stop' = "stopped", stop # "stopped" PROVE failed \/ disk = memory
    OBVIOUS
  <2>1. PICK loop : LoopResult(lane, loop, "stop", memory) /\ StopLoops(loop)
    <3>1. StopStep
      BY DEF Next, Edit, Open, LaneStep, TimerFires, LatestEnds, PreparedEnds, TransactionStep,
             Abandon, Apply, TakeBack, Prepare, FlushGoesOn, Commit, UndoRemoval, UndoInsertion, Undone,
             Restored, Stop
    <3>2. /\ LoopResult(lane, Looped(lane, "stop", memory), "stop", memory)
          /\ LoopResult(lane, Resumed(lane, "stop", memory), "stop", memory)
      BY LoopedFacts, ResumedFacts DEF IInv, TypeOK, Flushers
    <3> QED
      BY <3>1, <3>2 DEF StopStep, StopFlushes, StopGoesOn
  <2>2. loop.at = Out
    BY <2>1 DEF StopLoops
  <2>3. lane.saves = {} /\ ~lane.dirty
    BY <2>1, <2>2, LoopLane DEF IInv, TypeOK, SingleSave, Flushers
  <2> QED
    BY <2>3 DEF IInv, CleanIsWritten
<1> QED
  BY Invariance, <1>1, PTL DEF Spec, StopSaves

-----------------------------------------------------------------------------
(* The lane implements DurableState.                                       *)

\* A step of Durable, with what was told for what is promised.
DurableEdit == Told \subseteq memory' /\ memory' \in SUBSET Changes /\ UNCHANGED <<disk, Told>>
DurableSave ==
  /\ disk' \in SUBSET Changes /\ Told \union (disk \intersect memory) \subseteq disk'
  /\ UNCHANGED <<memory, Told>>
DurablePromise ==
  \E t \in memory \intersect disk : Told' = Told \union {t} /\ UNCHANGED <<memory, disk>>
DurableSaveThenEdit ==
  \E t \in Changes :
    /\ disk' \in SUBSET Changes
    /\ Told \union (disk \intersect memory) \union {t} \subseteq disk'
    /\ memory' = memory \union {t}
    /\ Told' = Told \union {t}
DurableStep ==
  \/ DurableEdit \/ DurableSave \/ DurablePromise \/ DurableSaveThenEdit
  \/ UNCHANGED <<memory, disk, Told>>

\* Those are the steps of DurableState.
LEMMA DurableStepIs == DurableStep => [Durable!Next]_(Durable!states)
BY DEF DurableStep, DurableEdit, DurableSave, DurablePromise, DurableSaveThenEdit, Told,
       Durable!Next, Durable!Edit, Durable!Save, Durable!Promise, Durable!SaveThenEdit, Durable!states

\* A failure is no promise.
LEMMA ToldNothing ==
  ASSUME IInv, Concluded(txn.id, "failed"), txn.step # "none"
  PROVE  Told' = Told
<1>1. txn.id \in Transactions /\ outcome[txn.id] = "none"
  BY DEF IInv, TransactionOpen, NoTransaction
<1>2. /\ outcome' = [outcome EXCEPT ![txn.id] = "failed"]
      /\ outcome \in [Transactions -> {"none", "done", "failed"}]
  BY DEF Concluded, IInv, TypeOK
<1> QED
  BY <1>1, <1>2 DEF Told

\* A success promises the transaction's own change.
LEMMA ToldOne ==
  ASSUME IInv, Concluded(txn.id, "done"), txn.step # "none"
  PROVE  Told' = Told \union {txn.id} /\ txn.id \in Changes
<1>1. txn.id \in Transactions
  BY DEF IInv, TransactionOpen, NoTransaction
<1>2. /\ outcome' = [outcome EXCEPT ![txn.id] = "done"]
      /\ outcome \in [Transactions -> {"none", "done", "failed"}]
  BY DEF Concluded, IInv, TypeOK
<1> QED
  BY <1>1, <1>2 DEF Told, Changes

\* Every step of the lane is a step of DurableState or leaves its state alone.
LEMMA StepIsDurable ==
  ASSUME IInv, Next
  PROVE  DurableStep
<1> USE DEF IInv
<1>1. memory \in SUBSET Changes /\ Told \subseteq memory
  BY DEF TypeOK, Kept
<1>2. ASSUME NEW c \in Edits, Edit(c) PROVE DurableStep
  BY <1>1, <1>2 DEF Edit, DurableStep, DurableEdit, Told, Changes
<1>3. ASSUME NEW t \in Transactions, Open(t) PROVE DurableStep
  BY <1>3 DEF Open, DurableStep, Told
<1>4. ASSUME TimerFires PROVE DurableStep
  BY <1>4 DEF TimerFires, DurableStep, Told
<1>5. ASSUME NEW save \in lane.saves, NEW ok \in BOOLEAN, LatestEnds(save, ok) PROVE DurableStep
  <2>1. UNCHANGED <<memory, Told>> /\ disk' = IF ok THEN save.of ELSE disk
    BY <1>5 DEF LatestEnds, SaveEnds, Told
  <2>2. save.of \in SUBSET Changes /\ Told \union (disk \intersect memory) \subseteq save.of
    BY DEF TypeOK, Lanes, Saves, Kept
  <2> QED
    BY <2>1, <2>2 DEF DurableStep, DurableSave
<1>6. ASSUME NEW save \in lane.saves, NEW ok \in BOOLEAN, PreparedEnds(save, ok) PROVE DurableStep
  <2>1. save.by = "prepared" /\ txn.step = "save"
    BY <1>6 DEF PreparedEnds, TypeOK
  <2>2. CASE ok
    <3>1. Told' = Told \union {txn.id} /\ txn.id \in Changes
      BY <1>6, <2>1, <2>2, ToldOne DEF PreparedEnds
    <3>2. disk' = save.of /\ memory' = memory \union {txn.id}
      BY <1>6, <2>2 DEF PreparedEnds, SaveEnds
    <3>3. save.of \in SUBSET Changes /\ Told \union (disk \intersect memory) \subseteq save.of
      BY DEF TypeOK, Lanes, Saves, Kept
    <3>4. txn.id \in save.of
      BY <2>1 DEF InState
    <3> QED
      BY <3>1, <3>2, <3>3, <3>4 DEF DurableStep, DurableSaveThenEdit
  <2>3. CASE ~ok
    <3>1. Told' = Told
      BY <1>6, <2>1, <2>3, ToldNothing DEF PreparedEnds
    <3> QED
      BY <1>6, <2>3, <3>1 DEF PreparedEnds, SaveEnds, DurableStep
  <2> QED
    BY <2>2, <2>3
<1>7. ASSUME Abandon \/ Undone \/ \E ok \in BOOLEAN : Restored(ok) PROVE DurableStep
  <2>1. Concluded(txn.id, "failed") /\ txn.step # "none" /\ UNCHANGED <<memory, disk>>
    BY <1>7 DEF Abandon, Undone, Restored, FlushEnds
  <2> QED
    BY <2>1, ToldNothing DEF DurableStep
<1>8. ASSUME Apply PROVE DurableStep
  <2>1. txn.id \in Changes
    BY <1>8 DEF Apply, Changes, Transactions
  <2> QED
    BY <1>1, <1>8, <2>1 DEF Apply, DurableStep, DurableEdit, Told
<1>9. ASSUME Prepare \/ FlushGoesOn \/ TakeBack PROVE DurableStep
  BY <1>9 DEF Prepare, FlushGoesOn, TakeBack, DurableStep, Told
<1>10. ASSUME Commit PROVE DurableStep
  <2>1. txn.step = "commit" /\ Concluded(txn.id, "done") /\ ~failed /\ UNCHANGED <<memory, disk>>
    BY <1>10 DEF Commit, FlushEnds
  <2>2. LoopResult(lane, Resumed(lane, "transaction", memory), "transaction", memory)
    BY ResumedFacts DEF TypeOK, Flushers
  <2>3. lane.saves = {} /\ ~lane.dirty
    BY <1>10, <2>2, LoopLane DEF Commit, FlushEnds, TypeOK, SingleSave, Flushers
  <2>4. disk = memory
    BY <2>1, <2>3 DEF CleanIsWritten
  <2>5. txn.id \in memory
    BY <2>1 DEF InState
  <2>6. Told' = Told \union {txn.id}
    BY <2>1, ToldOne
  <2> QED
    BY <2>1, <2>4, <2>5, <2>6 DEF DurableStep, DurablePromise
<1>11. ASSUME UndoRemoval \/ UndoInsertion PROVE DurableStep
  <2>1. /\ txn.step = "commit" /\ memory' = memory \ {txn.id}
        /\ UNCHANGED <<disk, outcome>>
    BY <1>11 DEF UndoRemoval, UndoInsertion, FlushEnds
  <2>2. txn.id \notin Told
    BY <2>1 DEF TransactionOpen, NoTransaction, Told
  <2> QED
    BY <1>1, <2>1, <2>2 DEF DurableStep, DurableEdit, Told
<1>12. ASSUME Stop \/ StopStep PROVE DurableStep
  BY <1>12 DEF Stop, StopStep, StopFlushes, StopGoesOn, StopLoops, DurableStep, Told
<1> QED
  BY <1>2, <1>3, <1>4, <1>5, <1>6, <1>7, <1>8, <1>9, <1>10, <1>11, <1>12
  DEF Next, LaneStep, TransactionStep

\* The persistence lane implements DurableState: what a strict flush or a prepared
\* save reported as saved stays in the state and in the file, and no save writes
\* an older state over a newer one.
THEOREM Refinement == Spec => ImplementsDurable
<1>1. Init => Durable!Init
  BY DEF Init, Durable!Init
<1>2. IInv /\ [Next]_vars => [Durable!Next]_(Durable!states)
  <2>1. ASSUME IInv, Next PROVE [Durable!Next]_(Durable!states)
    BY <2>1, StepIsDurable, DurableStepIs
  <2>2. ASSUME UNCHANGED vars PROVE [Durable!Next]_(Durable!states)
    BY <2>2 DEF vars, Durable!states
  <2> QED
    BY <2>1, <2>2
<1> QED
  BY <1>1, <1>2, Invariance, PTL DEF Spec, ImplementsDurable, Durable!Spec
=============================================================================
