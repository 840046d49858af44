------------------------- MODULE AgentBindingsProofs -------------------------
(***************************************************************************)
(* Proofs about AgentBindings: what was closed stays closed, what was      *)
(* forked stays there, and no operation, failed operation or crash gives a *)
(* session an agent that its user does not have to expect.                 *)
(***************************************************************************)
EXTENDS AgentBindings, TLAPS

\* The parts of TypeOK.
SessionsTyped ==
  /\ phase \in {"down", "up", "stopping"} /\ edits \in 0 .. MaxEdits
  /\ memory \subseteq used /\ disk \subseteq used /\ used \subseteq Sessions
  /\ closed \subseteq used /\ forked \subseteq used

LaneTyped ==
  /\ lane \in [dirty : BOOLEAN, saves : SUBSET SUBSET Sessions, failed : BOOLEAN]
  /\ \A save \in lane.saves : save \subseteq used
  /\ \A save, other \in lane.saves : save = other

RostersTyped ==
  /\ file \in [ok : BOOLEAN, roster : Rosters]
  /\ known \in [ready : BOOLEAN, fresh : BOOLEAN, roster : Rosters]

SlotTyped ==
  slot \in [kind : {"none", "removal", "recover"} \union RosterKinds \union Copies, step : Steps,
            on : SUBSET Sessions, child : Sessions \union {None}, was : Rosters, next : Rosters]

MayTyped == may \in [Sessions -> SUBSET (Agents \union {None})]

\* The sessions that main or the state file has or is about to have.
Live == memory \union disk \union UNION lane.saves

\* Which steps an operation of a kind goes through, and what it works on.
SlotOK ==
  /\ slot.kind = "none" => slot = Free
  /\ slot.kind \in RosterKinds => slot.step \in {"store", "end"}
  /\ slot.kind = "recover" => slot.step = "store" /\ ~known.ready
  /\ slot.kind = "removal" => slot.step \in {"store", "commit", "restore", "end"}
  /\ slot.kind = "duplicate" => slot.step \in {"check", "store"}
  /\ slot.kind = "fork" =>
       slot.step \in {"check", "store", "start", "commit", "undo", "compensate", "again"}
  /\ slot.kind \in Copies <=> slot.child # None
  /\ slot.child \in used \union {None}
  /\ slot.on \subseteq used
  /\ ~Running => slot = Free

\* What an operation means to do to the bindings.
PlanOK ==
  /\ slot.kind = "removal" => slot.next = AllUnbound(slot.on, slot.was)
  /\ slot.kind \in Copies =>
       /\ slot.was.of[slot.child] = None
       /\ \A s \in Sessions : s # slot.child => slot.next.of[s] = slot.was.of[s]
  /\ slot.step \in {"restore", "compensate", "again"} => Rebinds
  /\ slot.kind \in Copies /\ slot.step = "store" => Rebinds

\* What a clean lane has written or is writing.
LaneOK ==
  /\ Running /\ ~lane.dirty => \A save \in lane.saves : save = memory
  /\ Running /\ Quiet /\ ~lane.failed => disk = memory
  /\ ~Running => lane.saves = {} /\ memory = {}

\* What an operation takes out was not promised, and what it puts in or back was
\* not closed.
SessionsOK ==
  /\ closed \intersect Live = {}
  /\ slot.step # "end" => closed \intersect slot.on = {}
  /\ slot.kind \in Copies => slot.child \notin closed \union forked
  /\ At("removal", "commit") => slot.on \intersect memory = {}
  /\ slot.kind = "removal" /\ slot.step \in {"commit", "restore"} => forked \intersect slot.on = {}
  /\ At("fork", "commit") => slot.child \in memory
  /\ slot.kind \in Copies /\ slot.step \in {"check", "store", "start"} => slot.child \notin Live
  /\ ForksSurvive
  /\ \A save \in lane.saves : forked \subseteq save

\* Nobody has heard of a session that does not exist yet.
UnusedUnbound ==
  \A s \in Sessions \ used :
    /\ file.roster.of[s] = None /\ known.roster.of[s] = None
    /\ slot.was.of[s] = None /\ slot.next.of[s] = None
    /\ may[s] = {None}

\* The revision is the proof that main knows the roster of the file.
FreshIsFile ==
  /\ known.fresh /\ file.ok => known.roster = file.roster
  /\ known.fresh => known.ready
  /\ ~Running => ~known.ready

\* What main knows of the roster while an operation is open.
KnownOK ==
  /\ slot.step \in {"check", "store"} => known.roster = slot.was
  /\ slot.step = "store" /\ slot.kind # "recover" => known.ready
  /\ slot.step \in {"start", "commit", "restore", "undo", "compensate", "again"} =>
       known.ready /\ known.roster = slot.next
  /\ slot.step \in {"start", "commit", "restore", "undo", "compensate"} /\ Rebinds => known.fresh

Expected(s) ==
  /\ file.ok => file.roster.of[s] \in may[s]
  /\ known.ready => known.roster.of[s] \in may[s]

\* A removal has taken the bindings of these.
Unsettled ==
  IF slot.kind = "removal" /\ slot.step \in {"commit", "restore"} /\ Rebinds THEN slot.on ELSE {}

\* The sessions that may be seen again.
Tracked == (Live \union (IF slot.step # "end" THEN slot.on ELSE {})) \ (Unsettled \union {slot.child})

ExpectedOK == \A s \in Tracked : Expected(s)

\* The bindings an operation would put back.
WasExpected ==
  slot.step \notin {"none", "end"} /\ slot.kind # "recover" /\ known.ready =>
    \A s \in Tracked \union Unsettled : slot.was.of[s] \in may[s]

\* The child of a copy has its binding or none.
ChildExpected ==
  slot.kind \in Copies =>
    /\ file.ok => file.roster.of[slot.child] \in {None, slot.next.of[slot.child]}
    /\ None \in may[slot.child]
    /\ slot.step \notin {"check", "store"} => slot.next.of[slot.child] \in may[slot.child]

IInv ==
  /\ SessionsTyped /\ LaneTyped /\ RostersTyped /\ SlotTyped /\ MayTyped
  /\ SlotOK /\ PlanOK /\ LaneOK /\ SessionsOK
  /\ UnusedUnbound /\ FreshIsFile /\ KnownOK /\ ExpectedOK /\ WasExpected /\ ChildExpected

-----------------------------------------------------------------------------
(* The lane and the rosters.                                               *)

\* emitChanged.
LEMMA EmittedFacts ==
  ASSUME LaneTyped
  PROVE  /\ Emitted \in [dirty : BOOLEAN, saves : SUBSET SUBSET Sessions, failed : BOOLEAN]
         /\ Emitted.dirty /\ Emitted.saves = lane.saves /\ Emitted.failed = lane.failed
<1> DEFINE Saves == SUBSET SUBSET Sessions
<1>1. lane \in [dirty : BOOLEAN, saves : Saves, failed : BOOLEAN]
  BY DEF LaneTyped
<1> HIDE DEF Saves
<1>2. /\ Emitted \in [dirty : BOOLEAN, saves : Saves, failed : BOOLEAN]
      /\ Emitted.dirty /\ Emitted.saves = lane.saves /\ Emitted.failed = lane.failed
  BY <1>1 DEF Emitted
<1> QED BY <1>2 DEF Saves

\* The lane of a process that has just started.
LEMMA CleanLaneFacts ==
  /\ CleanLane \in [dirty : BOOLEAN, saves : SUBSET SUBSET Sessions, failed : BOOLEAN]
  /\ [CleanLane EXCEPT !.dirty = TRUE] \in
       [dirty : BOOLEAN, saves : SUBSET SUBSET Sessions, failed : BOOLEAN]
  /\ [CleanLane EXCEPT !.dirty = TRUE].dirty
  /\ [CleanLane EXCEPT !.dirty = TRUE].saves = {} /\ CleanLane.saves = {}
  BY DEF CleanLane

\* What a roster consists of.
LEMMA RosterFacts ==
  ASSUME NEW roster \in Rosters
  PROVE  /\ roster.agents \subseteq Agents
         /\ \A s \in Sessions : roster.of[s] \in Agents \union {None}
  BY DEF Rosters, Bindings

\* Another roster in the file, and another revision in it.
LEMMA FileFacts ==
  ASSUME RostersTyped, NEW roster \in Rosters
  PROVE  /\ [file EXCEPT !.roster = roster] \in [ok : BOOLEAN, roster : Rosters]
         /\ [file EXCEPT !.roster = roster].ok = file.ok
         /\ [file EXCEPT !.roster = roster].roster = roster
         /\ [known EXCEPT !.fresh = FALSE] \in
              [ready : BOOLEAN, fresh : BOOLEAN, roster : Rosters]
         /\ [known EXCEPT !.fresh = FALSE].ready = known.ready
         /\ [known EXCEPT !.fresh = FALSE].roster = known.roster
         /\ ~[known EXCEPT !.fresh = FALSE].fresh
  BY DEF RostersTyped

\* Removing bindings.
LEMMA AllUnboundFacts ==
  ASSUME NEW ids \in SUBSET Sessions, NEW roster \in Rosters
  PROVE  /\ AllUnbound(ids, roster) \in Rosters
         /\ AllUnbound(ids, roster).agents = roster.agents
         /\ \A s \in Sessions :
              AllUnbound(ids, roster).of[s] = IF s \in ids THEN None ELSE roster.of[s]
  BY DEF AllUnbound, Rosters, Bindings

\* Setting one binding.
LEMMA BoundFacts ==
  ASSUME NEW s \in Sessions, NEW a \in Agents \union {None}, NEW roster \in Rosters
  PROVE  /\ Bound(s, a, roster) \in Rosters
         /\ Bound(s, a, roster).agents = roster.agents
         /\ \A t \in Sessions : Bound(s, a, roster).of[t] = IF t = s THEN a ELSE roster.of[t]
  BY DEF Bound, Rosters, Bindings

\* Rosters without bindings.
LEMMA EmptyRosterFacts ==
  /\ EmptyRoster \in Rosters
  /\ \A s \in Sessions : EmptyRoster.of[s] = None
  /\ Broken \in [ok : BOOLEAN, roster : Rosters] /\ ~Broken.ok /\ Broken.roster = EmptyRoster
  /\ Invalid \in [ready : BOOLEAN, fresh : BOOLEAN, roster : Rosters]
  /\ ~Invalid.ready /\ ~Invalid.fresh /\ Invalid.roster = EmptyRoster
  BY DEF EmptyRoster, Rosters, Bindings, Broken, Invalid

\* A loaded roster.
LEMMA LoadedFacts ==
  ASSUME NEW roster \in Rosters
  PROVE  /\ Loaded(roster) \in [ready : BOOLEAN, fresh : BOOLEAN, roster : Rosters]
         /\ Loaded(roster).ready /\ Loaded(roster).fresh /\ Loaded(roster).roster = roster
  BY DEF Loaded

\* A new session.
LEMMA CreateSessionKeeps ==
  ASSUME IInv, NEW s \in Sessions, CreateSession(s)
  PROVE  IInv'
<1>1. SessionsTyped'
  BY DEF IInv, CreateSession, SessionsTyped
<1>2. LaneTyped'
  BY EmittedFacts DEF IInv, CreateSession, LaneTyped
<1>3. SlotOK'
  BY DEF IInv, Running, CreateSession, SlotOK
<1>4. LaneOK'
  BY EmittedFacts DEF IInv, Running, Quiet, CreateSession, LaneOK
<1>5. SessionsOK'
  BY EmittedFacts DEF IInv, At, CreateSession, ForksSurvive, SessionsTyped, Live, SlotOK,
     SessionsOK
<1>6. UnusedUnbound'
  BY DEF IInv, CreateSession, UnusedUnbound
<1>7. ExpectedOK'
  BY EmittedFacts DEF IInv, CreateSession, Live, UnusedUnbound, Expected, Unsettled, Tracked,
     ExpectedOK
<1>8. WasExpected'
  BY EmittedFacts DEF IInv, CreateSession, Live, UnusedUnbound, Unsettled, Tracked, WasExpected
<1>9. RostersTyped' /\ SlotTyped' /\ MayTyped' /\ PlanOK' /\ FreshIsFile' /\ KnownOK' /\
      ChildExpected'
  BY DEF IInv, Running, Rebinds, CreateSession, RostersTyped, SlotTyped, MayTyped, PlanOK,
     FreshIsFile, KnownOK, ChildExpected
<1>. QED BY <1>1, <1>2, <1>3, <1>4, <1>5, <1>6, <1>7, <1>8, <1>9 DEF IInv

\* Anything else that is to be saved.
LEMMA EditKeeps ==
  ASSUME IInv, Edit
  PROVE  IInv'
<1>1. SessionsTyped'
  BY MaxEditsAssumption DEF IInv, Edit, SessionsTyped
<1>2. LaneTyped'
  BY EmittedFacts DEF IInv, Edit, LaneTyped
<1>3. LaneOK'
  BY EmittedFacts DEF IInv, Running, Quiet, Edit, LaneOK
<1>4. SessionsOK'
  BY EmittedFacts DEF IInv, At, Edit, ForksSurvive, Live, SessionsOK
<1>5. ExpectedOK'
  BY EmittedFacts DEF IInv, Rebinds, Edit, Live, Expected, Unsettled, Tracked, ExpectedOK
<1>6. WasExpected'
  BY EmittedFacts DEF IInv, Rebinds, Edit, Live, Unsettled, Tracked, WasExpected
<1>7. RostersTyped' /\ SlotTyped' /\ MayTyped' /\ SlotOK' /\ PlanOK' /\ UnusedUnbound' /\
      FreshIsFile' /\ KnownOK' /\ ChildExpected'
  BY DEF IInv, Running, Rebinds, Edit, RostersTyped, SlotTyped, MayTyped, SlotOK, PlanOK,
     UnusedUnbound, FreshIsFile, KnownOK, ChildExpected
<1>. QED BY <1>1, <1>2, <1>3, <1>4, <1>5, <1>6, <1>7 DEF IInv

\* A save takes what main has.
LEMMA SaveStartsKeeps ==
  ASSUME IInv, SaveStarts
  PROVE  IInv'
<1>1. LaneTyped'
  <2> DEFINE Saves == SUBSET SUBSET Sessions
  <2>1. {memory} \in Saves /\ memory \subseteq used
    BY DEF IInv, SessionsTyped
  <2>2. lane \in [dirty : BOOLEAN, saves : Saves, failed : BOOLEAN]
    BY DEF IInv, LaneTyped
  <2> HIDE DEF Saves
  <2>3. lane' \in [dirty : BOOLEAN, saves : Saves, failed : BOOLEAN] /\ lane'.saves = {memory}
    BY <2>1, <2>2 DEF SaveStarts
  <2>4. used' = used
    BY DEF SaveStarts
  <2> QED BY <2>1, <2>3, <2>4 DEF LaneTyped, Saves
<1>2. LaneOK'
  BY DEF IInv, Running, Quiet, SaveStarts, LaneOK
<1>3. SessionsOK'
  BY DEF IInv, At, SaveStarts, ForksSurvive, Live, SessionsOK
<1>4. ExpectedOK'
  BY DEF IInv, Rebinds, SaveStarts, Live, Expected, Unsettled, Tracked, ExpectedOK
<1>5. WasExpected'
  BY DEF IInv, Rebinds, SaveStarts, Live, Unsettled, Tracked, WasExpected
<1>6. SessionsTyped' /\ RostersTyped' /\ SlotTyped' /\ MayTyped' /\ SlotOK' /\ PlanOK' /\
      UnusedUnbound' /\ FreshIsFile' /\ KnownOK' /\ ChildExpected'
  BY DEF IInv, Running, Rebinds, SaveStarts, SessionsTyped, RostersTyped, SlotTyped, MayTyped,
     SlotOK, PlanOK, UnusedUnbound, FreshIsFile, KnownOK, ChildExpected
<1>. QED BY <1>1, <1>2, <1>3, <1>4, <1>5, <1>6 DEF IInv

\* A save ends, well or badly.
LEMMA SaveEndsKeeps ==
  ASSUME IInv, NEW save \in lane.saves, NEW ok \in BOOLEAN, SaveEnds(save, ok)
  PROVE  IInv'
<1>1. SessionsTyped'
  BY DEF IInv, SaveEnds, SessionsTyped, LaneTyped
<1>2. LaneTyped'
  <2> DEFINE Saves == SUBSET SUBSET Sessions
  <2>1. {} \in Saves
    OBVIOUS
  <2>2. lane \in [dirty : BOOLEAN, saves : Saves, failed : BOOLEAN]
    BY DEF IInv, LaneTyped
  <2> HIDE DEF Saves
  <2>3. lane' \in [dirty : BOOLEAN, saves : Saves, failed : BOOLEAN] /\ lane'.saves = {}
    BY <2>1, <2>2 DEF SaveEnds
  <2> QED BY <2>3 DEF LaneTyped, Saves
<1>3. LaneOK'
  <2> DEFINE Saves == SUBSET SUBSET Sessions
  <2>1. lane \in [dirty : BOOLEAN, saves : Saves, failed : BOOLEAN]
    BY DEF IInv, LaneTyped
  <2> HIDE DEF Saves
  <2>2. lane'.saves = {} /\ lane'.dirty = lane.dirty /\ lane'.failed = ~ok
    BY <2>1 DEF SaveEnds
  <2>3. Running /\ ~lane.dirty /\ ok => disk' = memory
    BY DEF IInv, LaneOK, SaveEnds
  <2>4. UNCHANGED <<phase, memory>>
    BY DEF SaveEnds
  <2>5. ~Running => memory = {}
    BY DEF IInv, LaneOK
  <2> QED BY <2>2, <2>3, <2>4, <2>5 DEF LaneOK, Running, Quiet
<1>4. SessionsOK'
  BY DEF IInv, Running, At, SaveEnds, ForksSurvive, Live, SessionsOK
<1>5. ExpectedOK'
  BY DEF IInv, Rebinds, SaveEnds, Live, Expected, Unsettled, Tracked, ExpectedOK
<1>6. WasExpected'
  BY DEF IInv, Rebinds, SaveEnds, Live, Unsettled, Tracked, WasExpected
<1>7. RostersTyped' /\ SlotTyped' /\ MayTyped' /\ SlotOK' /\ PlanOK' /\ UnusedUnbound' /\
      FreshIsFile' /\ KnownOK' /\ ChildExpected'
  BY DEF IInv, Running, Rebinds, SaveEnds, RostersTyped, SlotTyped, MayTyped, SlotOK, PlanOK,
     UnusedUnbound, FreshIsFile, KnownOK, ChildExpected
<1>. QED BY <1>1, <1>2, <1>3, <1>4, <1>5, <1>6, <1>7 DEF IInv

\* A session is bound, or unbound.
LEMMA BindKeeps ==
  ASSUME IInv, NEW s \in Sessions, NEW a \in Agents \union {None}, Bind(s, a)
  PROVE  IInv'
<1>1. SlotTyped'
  BY BoundFacts DEF IInv, Acquires, Bind, RosterKinds, Steps, RostersTyped, SlotTyped
<1>2. SlotOK'
  BY DEF IInv, Running, History, Acquires, Bind, Copies, SessionsTyped, SlotOK
<1>3. PlanOK'
  BY DEF IInv, Acquires, Bind, Copies, PlanOK
<1>4. SessionsOK'
  BY DEF IInv, Running, At, History, Acquires, Bind, Copies, ForksSurvive, Live, SessionsOK
<1>5. UnusedUnbound'
  BY BoundFacts DEF IInv, History, Acquires, Bind, SessionsTyped, RostersTyped, UnusedUnbound
<1>6. KnownOK'
  BY DEF IInv, Acquires, Bind, KnownOK
<1>7. ExpectedOK'
  BY DEF IInv, Free, Idle, History, Acquires, Bind, Live, Expected, Unsettled, Tracked,
     ExpectedOK
<1>8. WasExpected'
  BY DEF IInv, Free, Idle, History, Acquires, Bind, Live, Expected, Unsettled, Tracked,
     ExpectedOK, WasExpected
<1>9. ChildExpected'
  BY DEF IInv, Acquires, Bind, Copies, ChildExpected
<1>10. SessionsTyped' /\ LaneTyped' /\ RostersTyped' /\ MayTyped' /\ LaneOK' /\ FreshIsFile'
  BY DEF IInv, Running, Quiet, History, Bind, SessionsTyped, LaneTyped, RostersTyped, MayTyped,
     LaneOK, FreshIsFile
<1>. QED BY <1>1, <1>2, <1>3, <1>4, <1>5, <1>6, <1>7, <1>8, <1>9, <1>10 DEF IInv

\* An agent is created.
LEMMA CreateAgentKeeps ==
  ASSUME IInv, NEW a \in Agents, CreateAgent(a)
  PROVE  IInv'
<1>1. SlotTyped'
  BY DEF IInv, Rosters, Acquires, CreateAgent, RosterKinds, Steps, RostersTyped, SlotTyped
<1>2. SlotOK'
  BY DEF IInv, Running, Acquires, CreateAgent, Copies, SlotOK
<1>3. PlanOK'
  BY DEF IInv, Acquires, CreateAgent, Copies, PlanOK
<1>4. SessionsOK'
  BY DEF IInv, Running, At, History, Acquires, CreateAgent, Copies, ForksSurvive, Live,
     SessionsOK
<1>5. UnusedUnbound'
  BY DEF IInv, Rosters, History, Acquires, CreateAgent, RostersTyped, UnusedUnbound
<1>6. KnownOK'
  BY DEF IInv, Acquires, CreateAgent, KnownOK
<1>7. ExpectedOK'
  BY DEF IInv, Free, Idle, History, Acquires, CreateAgent, Live, Expected, Unsettled, Tracked,
     ExpectedOK
<1>8. WasExpected'
  BY DEF IInv, Free, Idle, History, Acquires, CreateAgent, Live, Expected, Unsettled, Tracked,
     ExpectedOK, WasExpected
<1>9. ChildExpected'
  BY DEF IInv, Acquires, CreateAgent, Copies, ChildExpected
<1>10. SessionsTyped' /\ LaneTyped' /\ RostersTyped' /\ MayTyped' /\ LaneOK' /\ FreshIsFile'
  BY DEF IInv, Running, Quiet, History, CreateAgent, SessionsTyped, LaneTyped, RostersTyped,
     MayTyped, LaneOK, FreshIsFile
<1>. QED BY <1>1, <1>2, <1>3, <1>4, <1>5, <1>6, <1>7, <1>8, <1>9, <1>10 DEF IInv

\* An agent is updated.
LEMMA UpdateAgentKeeps ==
  ASSUME IInv, NEW a \in Agents, UpdateAgent(a)
  PROVE  IInv'
<1>1. SlotTyped'
  BY DEF IInv, Acquires, UpdateAgent, RosterKinds, Steps, RostersTyped, SlotTyped
<1>2. SlotOK'
  BY DEF IInv, Running, Acquires, UpdateAgent, Copies, SlotOK
<1>3. PlanOK'
  BY DEF IInv, Acquires, UpdateAgent, Copies, PlanOK
<1>4. SessionsOK'
  BY DEF IInv, Running, At, History, Acquires, UpdateAgent, Copies, ForksSurvive, Live,
     SessionsOK
<1>5. UnusedUnbound'
  BY DEF IInv, History, Acquires, UpdateAgent, UnusedUnbound
<1>6. KnownOK'
  BY DEF IInv, Acquires, UpdateAgent, KnownOK
<1>7. ExpectedOK'
  BY DEF IInv, Free, Idle, History, Acquires, UpdateAgent, Live, Expected, Unsettled, Tracked,
     ExpectedOK
<1>8. WasExpected'
  BY DEF IInv, Free, Idle, History, Acquires, UpdateAgent, Live, Expected, Unsettled, Tracked,
     ExpectedOK, WasExpected
<1>9. ChildExpected'
  BY DEF IInv, Acquires, UpdateAgent, Copies, ChildExpected
<1>10. SessionsTyped' /\ LaneTyped' /\ RostersTyped' /\ MayTyped' /\ LaneOK' /\ FreshIsFile'
  BY DEF IInv, Running, Quiet, History, UpdateAgent, SessionsTyped, LaneTyped, RostersTyped,
     MayTyped, LaneOK, FreshIsFile
<1>. QED BY <1>1, <1>2, <1>3, <1>4, <1>5, <1>6, <1>7, <1>8, <1>9, <1>10 DEF IInv

\* An agent is deleted with its bindings.
LEMMA DeleteAgentKeeps ==
  ASSUME IInv, NEW a \in Agents, DeleteAgent(a)
  PROVE  IInv'
<1>1. SlotTyped'
  BY DEF IInv, Bindings, Rosters, Acquires, DeleteAgent, RosterKinds, Steps, RostersTyped,
     SlotTyped
<1>2. SlotOK'
  BY DEF IInv, Running, Acquires, DeleteAgent, Copies, SlotOK
<1>3. PlanOK'
  BY DEF IInv, Acquires, DeleteAgent, Copies, PlanOK
<1>4. SessionsOK'
  BY DEF IInv, Running, At, History, Acquires, DeleteAgent, Copies, ForksSurvive, Live,
     SessionsOK
<1>5. UnusedUnbound'
  BY DEF IInv, History, Acquires, DeleteAgent, UnusedUnbound
<1>6. KnownOK'
  BY DEF IInv, Acquires, DeleteAgent, KnownOK
<1>7. ExpectedOK'
  BY DEF IInv, Free, Idle, History, Acquires, DeleteAgent, Live, Expected, Unsettled, Tracked,
     ExpectedOK
<1>8. WasExpected'
  BY DEF IInv, Free, Idle, History, Acquires, DeleteAgent, Live, Expected, Unsettled, Tracked,
     ExpectedOK, WasExpected
<1>9. ChildExpected'
  BY DEF IInv, Acquires, DeleteAgent, Copies, ChildExpected
<1>10. SessionsTyped' /\ LaneTyped' /\ RostersTyped' /\ MayTyped' /\ LaneOK' /\ FreshIsFile'
  BY DEF IInv, Running, Quiet, History, DeleteAgent, SessionsTyped, LaneTyped, RostersTyped,
     MayTyped, LaneOK, FreshIsFile
<1>. QED BY <1>1, <1>2, <1>3, <1>4, <1>5, <1>6, <1>7, <1>8, <1>9, <1>10 DEF IInv

\* A mutation is saved.
LEMMA RosterSavedKeeps ==
  ASSUME IInv, RosterSaved
  PROVE  IInv'
<1>1. RostersTyped'
  BY LoadedFacts DEF IInv, StoreSaves, RosterSaved, RostersTyped, SlotTyped
<1>2. SlotTyped'
  BY DEF IInv, RosterSaved, Steps, SlotTyped
<1>3. MayTyped'
  BY RosterFacts DEF IInv, Certain, RosterSaved, SlotTyped, MayTyped
<1>4. SlotOK'
  BY DEF IInv, Free, Running, RosterKinds, RosterSaved, SlotOK
<1>5. PlanOK'
  BY DEF IInv, RosterSaved, PlanOK
<1>6. SessionsOK'
  BY DEF IInv, Running, At, RosterSaved, ForksSurvive, Live, SessionsOK
<1>7. UnusedUnbound'
  BY LoadedFacts DEF IInv, StoreSaves, Certain, RosterSaved, SlotTyped, UnusedUnbound
<1>8. FreshIsFile'
  BY LoadedFacts DEF IInv, Running, Fits, StoreSaves, RosterSaved, SlotTyped, FreshIsFile
<1>9. KnownOK'
  BY DEF IInv, RosterSaved, KnownOK
<1>10. ExpectedOK'
  BY LoadedFacts DEF IInv, StoreSaves, Certain, RosterKinds, RosterSaved, SessionsTyped,
     LaneTyped, SlotTyped, Live, KnownOK, Expected, Unsettled, Tracked, ExpectedOK
<1>11. WasExpected'
  BY DEF IInv, RosterSaved, WasExpected
<1>12. ChildExpected'
  BY DEF IInv, RosterKinds, RosterSaved, Copies, ChildExpected
<1>13. SessionsTyped' /\ LaneTyped' /\ LaneOK'
  BY DEF IInv, Running, Quiet, RosterSaved, SessionsTyped, LaneTyped, LaneOK
<1>. QED BY <1>1, <1>2, <1>3, <1>4, <1>5, <1>6, <1>7, <1>8, <1>9, <1>10, <1>11, <1>12, <1>13 DEF IInv

\* A mutation fails, saved or not.
LEMMA RosterFailsKeeps ==
  ASSUME IInv, RosterFails
  PROVE  IInv'
<1>1. RostersTyped'
  <2>1. slot.next \in Rosters /\ RostersTyped /\ file.roster \in Rosters
    BY DEF IInv, SlotTyped, RostersTyped
  <2>2. StoreFails \/ Reloads \/ StoreUnsure(slot.next)
    BY DEF RosterFails, MutationFails
  <2>3. CASE StoreFails
    BY <2>1, <2>3 DEF RostersTyped, StoreFails
  <2>4. CASE Reloads
    BY <2>1, <2>4, EmptyRosterFacts, LoadedFacts DEF RostersTyped, Reloads, Loads
  <2>5. CASE StoreUnsure(slot.next)
    BY <2>1, <2>5, FileFacts DEF RostersTyped, StoreUnsure
  <2> QED BY <2>2, <2>3, <2>4, <2>5
<1>2. SlotTyped'
  BY EmptyRosterFacts DEF IInv, Free, RosterFails, Steps, SlotTyped
<1>3. MayTyped'
  BY RosterFacts DEF IInv, Doubtful, MutationFails, RosterFails, SlotTyped, MayTyped
<1>4. SlotOK'
  BY DEF IInv, Free, RosterKinds, RosterFails, Copies, SlotOK
<1>5. PlanOK'
  BY DEF IInv, Free, RosterFails, Copies, PlanOK
<1>6. SessionsOK'
  BY DEF IInv, Free, Running, At, RosterFails, Copies, ForksSurvive, Live, SessionsOK
<1>7. UnusedUnbound'
  BY EmptyRosterFacts, LoadedFacts DEF IInv, Free, StoreFails, StoreUnsure, Loads, Reloads,
     Doubtful, MutationFails, RosterFails, RostersTyped, UnusedUnbound
<1>8. FreshIsFile'
  BY EmptyRosterFacts, LoadedFacts DEF IInv, Free, Running, StoreFails, StoreUnsure, Loads,
     Reloads, MutationFails, RosterFails, RostersTyped, SlotOK, FreshIsFile
<1>9. KnownOK'
  BY DEF IInv, Free, RosterFails, KnownOK
<1>10. ExpectedOK'
  BY EmptyRosterFacts, LoadedFacts DEF IInv, Free, StoreFails, StoreUnsure, Loads, Reloads,
     Doubtful, RosterKinds, MutationFails, RosterFails, Copies, SessionsTyped, LaneTyped,
     RostersTyped, Live, SlotOK, KnownOK, Expected, Unsettled, Tracked, ExpectedOK
<1>11. WasExpected'
  BY DEF IInv, Free, RosterFails, WasExpected
<1>12. ChildExpected'
  BY DEF IInv, Free, RosterFails, Copies, ChildExpected
<1>13. SessionsTyped' /\ LaneTyped' /\ LaneOK'
  BY DEF IInv, Running, Quiet, RosterFails, SessionsTyped, LaneTyped, LaneOK
<1>. QED BY <1>1, <1>2, <1>3, <1>4, <1>5, <1>6, <1>7, <1>8, <1>9, <1>10, <1>11, <1>12, <1>13 DEF IInv

\* An operation lets go of the roster.
LEMMA OperationEndsKeeps ==
  ASSUME IInv, OperationEnds
  PROVE  IInv'
<1>1. SlotTyped'
  BY EmptyRosterFacts DEF IInv, Free, OperationEnds, Steps, SlotTyped
<1>2. SlotOK'
  BY DEF IInv, Free, RosterKinds, OperationEnds, Copies, SlotOK
<1>3. PlanOK'
  BY DEF IInv, Free, OperationEnds, Copies, PlanOK
<1>4. SessionsOK'
  BY DEF IInv, Free, Running, At, History, OperationEnds, Copies, ForksSurvive, Live,
     SessionsOK
<1>5. UnusedUnbound'
  BY EmptyRosterFacts DEF IInv, Free, History, OperationEnds, UnusedUnbound
<1>6. KnownOK'
  BY DEF IInv, Free, OperationEnds, KnownOK
<1>7. ExpectedOK'
  BY DEF IInv, Free, History, OperationEnds, Copies, Live, SlotOK, Expected, Unsettled,
     Tracked, ExpectedOK
<1>8. WasExpected'
  BY DEF IInv, Free, OperationEnds, WasExpected
<1>9. ChildExpected'
  BY DEF IInv, Free, OperationEnds, Copies, ChildExpected
<1>10. SessionsTyped' /\ LaneTyped' /\ RostersTyped' /\ MayTyped' /\ LaneOK' /\ FreshIsFile'
  BY DEF IInv, Running, Quiet, History, OperationEnds, SessionsTyped, LaneTyped, RostersTyped,
     MayTyped, LaneOK, FreshIsFile
<1>. QED BY <1>1, <1>2, <1>3, <1>4, <1>5, <1>6, <1>7, <1>8, <1>9, <1>10 DEF IInv

\* A recovery begins.
LEMMA RecoverKeeps ==
  ASSUME IInv, Recover
  PROVE  IInv'
<1>1. SlotTyped'
  BY DEF IInv, Free, Idle, Acquires, Recover, Steps, RostersTyped, SlotTyped
<1>2. SlotOK'
  BY DEF IInv, Running, Acquires, Recover, Copies, SlotOK
<1>3. PlanOK'
  BY DEF IInv, Acquires, Recover, Copies, PlanOK
<1>4. SessionsOK'
  BY DEF IInv, Running, At, History, Acquires, Recover, Copies, ForksSurvive, Live, SessionsOK
<1>5. UnusedUnbound'
  BY DEF IInv, Free, Idle, History, Acquires, Recover, UnusedUnbound
<1>6. KnownOK'
  BY DEF IInv, Acquires, Recover, KnownOK
<1>7. ExpectedOK'
  BY DEF IInv, Free, Idle, History, Acquires, Recover, Live, Expected, Unsettled, Tracked,
     ExpectedOK
<1>8. WasExpected'
  BY DEF IInv, Recover, WasExpected
<1>9. ChildExpected'
  BY DEF IInv, Acquires, Recover, Copies, ChildExpected
<1>10. SessionsTyped' /\ LaneTyped' /\ RostersTyped' /\ MayTyped' /\ LaneOK' /\ FreshIsFile'
  BY DEF IInv, Running, Quiet, History, Recover, SessionsTyped, LaneTyped, RostersTyped,
     MayTyped, LaneOK, FreshIsFile
<1>. QED BY <1>1, <1>2, <1>3, <1>4, <1>5, <1>6, <1>7, <1>8, <1>9, <1>10 DEF IInv

\* The roster is replaced by an empty one.
LEMMA RecoveredKeeps ==
  ASSUME IInv, Recovered
  PROVE  IInv'
<1>1. RostersTyped'
  BY EmptyRosterFacts, LoadedFacts DEF IInv, Recovered, RostersTyped
<1>2. SlotTyped'
  BY EmptyRosterFacts DEF IInv, Free, Recovered, Steps, SlotTyped
<1>3. MayTyped'
  BY DEF IInv, Recovered, MayTyped
<1>4. SlotOK'
  BY DEF IInv, Free, RosterKinds, Recovered, Copies, SlotOK
<1>5. PlanOK'
  BY DEF IInv, Free, Recovered, Copies, PlanOK
<1>6. SessionsOK'
  BY DEF IInv, Free, Running, At, Recovered, Copies, ForksSurvive, Live, SessionsOK
<1>7. UnusedUnbound'
  BY EmptyRosterFacts, LoadedFacts DEF IInv, Free, Recovered, UnusedUnbound
<1>8. FreshIsFile'
  BY EmptyRosterFacts, LoadedFacts DEF IInv, Free, Running, At, Recovered, SlotOK, FreshIsFile
<1>9. KnownOK'
  BY DEF IInv, Free, Recovered, KnownOK
<1>10. ExpectedOK'
  BY EmptyRosterFacts, LoadedFacts DEF IInv, Free, Recovered, SessionsTyped, LaneTyped, Live,
     Expected, Tracked, ExpectedOK
<1>11. WasExpected'
  BY DEF IInv, Free, Recovered, WasExpected
<1>12. ChildExpected'
  BY DEF IInv, Free, Recovered, Copies, ChildExpected
<1>13. SessionsTyped' /\ LaneTyped' /\ LaneOK'
  BY DEF IInv, Running, Quiet, Recovered, SessionsTyped, LaneTyped, LaneOK
<1>. QED BY <1>1, <1>2, <1>3, <1>4, <1>5, <1>6, <1>7, <1>8, <1>9, <1>10, <1>11, <1>12, <1>13 DEF IInv

\* A recovery fails.
LEMMA RecoveryFailsKeeps ==
  ASSUME IInv, RecoveryFails
  PROVE  IInv'
<1>1. RostersTyped'
  <2>1. known' = known /\ (file' = file \/ file' = [ok |-> TRUE, roster |-> EmptyRoster])
    BY DEF RecoveryFails
  <2>2. RostersTyped
    BY DEF IInv
  <2>3. [ok |-> TRUE, roster |-> EmptyRoster] \in [ok : BOOLEAN, roster : Rosters]
    BY EmptyRosterFacts
  <2> QED BY <2>1, <2>2, <2>3 DEF RostersTyped
<1>2. SlotTyped'
  BY EmptyRosterFacts DEF IInv, Free, RecoveryFails, Steps, SlotTyped
<1>3. MayTyped'
  BY DEF IInv, RecoveryFails, MayTyped
<1>4. SlotOK'
  BY DEF IInv, Free, RosterKinds, RecoveryFails, Copies, SlotOK
<1>5. PlanOK'
  BY DEF IInv, Free, RecoveryFails, Copies, PlanOK
<1>6. SessionsOK'
  BY DEF IInv, Free, Running, At, RecoveryFails, Copies, ForksSurvive, Live, SessionsOK
<1>7. UnusedUnbound'
  BY EmptyRosterFacts DEF IInv, Free, RecoveryFails, UnusedUnbound
<1>8. FreshIsFile'
  BY DEF IInv, At, RecoveryFails, SlotOK, FreshIsFile
<1>9. KnownOK'
  BY DEF IInv, Free, RecoveryFails, KnownOK
<1>10. ExpectedOK'
  BY EmptyRosterFacts DEF IInv, Free, At, RecoveryFails, Copies, SessionsTyped, LaneTyped, Live,
     SlotOK, Expected, Unsettled, Tracked, ExpectedOK
<1>11. WasExpected'
  BY DEF IInv, Free, RecoveryFails, WasExpected
<1>12. ChildExpected'
  BY DEF IInv, Free, RecoveryFails, Copies, ChildExpected
<1>13. SessionsTyped' /\ LaneTyped' /\ LaneOK'
  BY DEF IInv, Running, Quiet, RecoveryFails, SessionsTyped, LaneTyped, LaneOK
<1>. QED BY <1>1, <1>2, <1>3, <1>4, <1>5, <1>6, <1>7, <1>8, <1>9, <1>10, <1>11, <1>12, <1>13 DEF IInv

\* Sessions without bindings go at once.
LEMMA RemoveUnboundKeeps ==
  ASSUME IInv, NEW ids \in SUBSET Sessions, RemoveUnbound(ids)
  PROVE  IInv'
<1>1. SessionsTyped'
  BY DEF IInv, Applied, RemoveUnbound, SessionsTyped
<1>2. LaneTyped'
  BY EmittedFacts DEF IInv, Applied, RemoveUnbound, LaneTyped
<1>3. SlotTyped'
  BY DEF IInv, Acquires, RemoveUnbound, Steps, RostersTyped, SlotTyped
<1>4. SlotOK'
  BY DEF IInv, Running, Acquires, RosterKinds, Removable, RemoveUnbound, Copies, SessionsTyped,
     SlotOK
<1>5. PlanOK'
  BY DEF IInv, Acquires, RemoveUnbound, Copies, PlanOK
<1>6. LaneOK'
  BY EmittedFacts DEF IInv, Running, Quiet, Applied, RemoveUnbound, LaneOK
<1>7. SessionsOK'
  BY EmittedFacts DEF IInv, Running, At, Acquires, Applied, Removable, RemoveUnbound, Copies,
     ForksSurvive, Live, SessionsOK
<1>8. UnusedUnbound'
  BY DEF IInv, Acquires, RemoveUnbound, UnusedUnbound
<1>9. KnownOK'
  BY DEF IInv, Rebinds, Acquires, RemoveUnbound, KnownOK
<1>10. ExpectedOK'
  BY EmittedFacts DEF IInv, Free, Idle, Acquires, Applied, Removable, RemoveUnbound, Live,
     Expected, Unsettled, Tracked, ExpectedOK
<1>11. WasExpected'
  BY EmittedFacts DEF IInv, Free, Idle, Rebinds, Acquires, Applied, Removable, RemoveUnbound,
     Live, Expected, Unsettled, Tracked, ExpectedOK, WasExpected
<1>12. ChildExpected'
  BY DEF IInv, Acquires, RemoveUnbound, Copies, ChildExpected
<1>13. RostersTyped' /\ MayTyped' /\ FreshIsFile'
  BY DEF IInv, Running, RemoveUnbound, RostersTyped, MayTyped, FreshIsFile
<1>. QED BY <1>1, <1>2, <1>3, <1>4, <1>5, <1>6, <1>7, <1>8, <1>9, <1>10, <1>11, <1>12, <1>13 DEF IInv

\* The bindings go first.
LEMMA RemoveBoundKeeps ==
  ASSUME IInv, NEW ids \in SUBSET Sessions, RemoveBound(ids)
  PROVE  IInv'
<1>1. SlotTyped'
  <2>1. ids \subseteq Sessions
    OBVIOUS
  <2>2. known.roster \in Rosters
    BY DEF IInv, RostersTyped
  <2>3. AllUnbound(ids, known.roster) \in Rosters
    BY <2>1, <2>2, AllUnboundFacts
  <2>4. slot' = [kind |-> "removal", step |-> "store", on |-> ids, child |-> None,
                 was |-> known.roster, next |-> AllUnbound(ids, known.roster)]
    BY DEF RemoveBound, Acquires
  <2> QED BY <2>1, <2>2, <2>3, <2>4 DEF SlotTyped, Steps
<1>2. SlotOK'
  BY DEF IInv, Running, History, Acquires, Removable, RemoveBound, Copies, SessionsTyped,
     SlotOK
<1>3. PlanOK'
  BY DEF IInv, Acquires, RemoveBound, Copies, PlanOK
<1>4. SessionsOK'
  BY DEF IInv, Running, At, History, Acquires, Removable, RemoveBound, Copies, ForksSurvive,
     Live, SessionsOK
<1>5. UnusedUnbound'
  BY AllUnboundFacts DEF IInv, History, Acquires, RemoveBound, RostersTyped, UnusedUnbound
<1>6. KnownOK'
  BY DEF IInv, Acquires, RemoveBound, KnownOK
<1>7. ExpectedOK'
  BY DEF IInv, Free, Idle, History, Acquires, Removable, RemoveBound, Live, Expected,
     Unsettled, Tracked, ExpectedOK
<1>8. WasExpected'
  BY DEF IInv, Free, Idle, History, Acquires, Removable, RemoveBound, Live, Expected,
     Unsettled, Tracked, ExpectedOK, WasExpected
<1>9. ChildExpected'
  BY DEF IInv, Acquires, RemoveBound, Copies, ChildExpected
<1>10. SessionsTyped' /\ LaneTyped' /\ RostersTyped' /\ MayTyped' /\ LaneOK' /\ FreshIsFile'
  BY DEF IInv, Running, Quiet, History, RemoveBound, SessionsTyped, LaneTyped, RostersTyped,
     MayTyped, LaneOK, FreshIsFile
<1>. QED BY <1>1, <1>2, <1>3, <1>4, <1>5, <1>6, <1>7, <1>8, <1>9, <1>10 DEF IInv

\* The bindings are gone; the sessions go.
LEMMA PreclearedKeeps ==
  ASSUME IInv, Precleared
  PROVE  IInv'
<1>1. SessionsTyped'
  BY DEF IInv, Applied, Precleared, SessionsTyped
<1>2. LaneTyped'
  BY EmittedFacts DEF IInv, Applied, Precleared, LaneTyped
<1>3. RostersTyped'
  BY LoadedFacts DEF IInv, StoreSaves, Precleared, RostersTyped, SlotTyped
<1>4. SlotTyped'
  BY DEF IInv, Precleared, Steps, SlotTyped
<1>5. SlotOK'
  BY DEF IInv, Free, Running, At, RosterKinds, Precleared, SlotOK
<1>6. PlanOK'
  BY DEF IInv, Precleared, PlanOK
<1>7. LaneOK'
  BY EmittedFacts DEF IInv, Running, Quiet, Applied, Precleared, LaneOK
<1>8. SessionsOK'
  BY EmittedFacts DEF IInv, Running, At, Applied, Precleared, ForksSurvive, Live, SessionsOK
<1>9. UnusedUnbound'
  BY LoadedFacts DEF IInv, StoreSaves, Precleared, SlotTyped, UnusedUnbound
<1>10. FreshIsFile'
  BY LoadedFacts DEF IInv, Running, Fits, StoreSaves, Precleared, SlotTyped, FreshIsFile
<1>11. KnownOK'
  BY LoadedFacts DEF IInv, StoreSaves, Precleared, SlotTyped, KnownOK
<1>12. ExpectedOK'
  BY AllUnboundFacts, EmittedFacts, LoadedFacts DEF IInv, At, Rebinds, StoreSaves, Applied,
     Precleared, SessionsTyped, SlotTyped, Live, PlanOK, KnownOK, Expected, Unsettled, Tracked,
     ExpectedOK
<1>13. WasExpected'
  <2>1. /\ slot'.was = slot.was /\ slot'.on = slot.on /\ slot'.child = slot.child
        /\ slot'.kind = "removal" /\ slot'.step = "commit" /\ slot'.next = slot.next
    BY DEF IInv, SlotTyped, Precleared, At
  <2>2. /\ UNCHANGED <<disk, may>> /\ memory' \subseteq memory
        /\ lane'.saves = lane.saves
    BY <2>1, EmittedFacts DEF IInv, Precleared, Applied
  <2>3. Live' \subseteq Live
    BY <2>2 DEF Live
  <2>4. known.ready /\ At("removal", "store") /\ slot.on \subseteq Sessions /\ slot.child = None
    BY DEF IInv, KnownOK, SlotTyped, SlotOK, Copies, Precleared, At
  <2>5. Tracked' \union Unsettled' \subseteq Tracked \union Unsettled
    BY <2>1, <2>3, <2>4, NoneAssumption DEF Tracked, Unsettled, At
  <2>6. \A s \in Tracked \union Unsettled : slot.was.of[s] \in may[s]
    BY <2>4 DEF IInv, WasExpected, At
  <2> QED BY <2>1, <2>2, <2>5, <2>6 DEF WasExpected
<1>14. ChildExpected'
  BY DEF IInv, At, Precleared, Copies, ChildExpected
<1>15. MayTyped'
  BY DEF IInv, Precleared, MayTyped
<1>. QED BY <1>1, <1>2, <1>3, <1>4, <1>5, <1>6, <1>7, <1>8, <1>9, <1>10, <1>11, <1>12, <1>13, <1>14, <1>15 DEF IInv

\* The bindings are not cleared, or nobody knows.
LEMMA PreclearFailsKeeps ==
  ASSUME IInv, PreclearFails
  PROVE  IInv'
<1>1. RostersTyped'
  <2>1. slot.next \in Rosters /\ RostersTyped /\ file.roster \in Rosters
    BY DEF IInv, SlotTyped, RostersTyped
  <2>2. StoreFails \/ StoreUnsure(slot.next)
    BY DEF PreclearFails
  <2>3. CASE StoreFails
    BY <2>1, <2>3 DEF RostersTyped, StoreFails
  <2>4. CASE StoreUnsure(slot.next)
    BY <2>1, <2>4, FileFacts DEF RostersTyped, StoreUnsure
  <2> QED BY <2>2, <2>3, <2>4
<1>2. SlotTyped'
  BY EmptyRosterFacts DEF IInv, Free, PreclearFails, Steps, SlotTyped
<1>3. MayTyped'
  BY RosterFacts DEF IInv, Doubtful, PreclearFails, SlotTyped, MayTyped
<1>4. SlotOK'
  BY DEF IInv, Free, RosterKinds, PreclearFails, Copies, SlotOK
<1>5. PlanOK'
  BY DEF IInv, Free, PreclearFails, Copies, PlanOK
<1>6. SessionsOK'
  BY DEF IInv, Free, Running, At, PreclearFails, Copies, ForksSurvive, Live, SessionsOK
<1>7. UnusedUnbound'
  BY EmptyRosterFacts, FileFacts DEF IInv, Free, StoreFails, StoreUnsure, Doubtful,
     PreclearFails, SlotTyped, UnusedUnbound
<1>8. FreshIsFile'
  BY FileFacts DEF IInv, Running, StoreFails, StoreUnsure, PreclearFails, SlotTyped, FreshIsFile
<1>9. KnownOK'
  BY DEF IInv, Free, PreclearFails, KnownOK
<1>10. ExpectedOK'
  BY DEF IInv, Free, At, StoreFails, StoreUnsure, Doubtful, PreclearFails, Copies,
     SessionsTyped, LaneTyped, RostersTyped, Live, SlotOK, KnownOK, Expected, Unsettled,
     Tracked, ExpectedOK
<1>11. WasExpected'
  BY DEF IInv, Free, PreclearFails, WasExpected
<1>12. ChildExpected'
  BY DEF IInv, Free, PreclearFails, Copies, ChildExpected
<1>13. SessionsTyped' /\ LaneTyped' /\ LaneOK'
  BY DEF IInv, Running, Quiet, PreclearFails, SessionsTyped, LaneTyped, LaneOK
<1>. QED BY <1>1, <1>2, <1>3, <1>4, <1>5, <1>6, <1>7, <1>8, <1>9, <1>10, <1>11, <1>12, <1>13 DEF IInv

\* A removal is saved.
LEMMA RemovalCommitsKeeps ==
  ASSUME IInv, RemovalCommits
  PROVE  IInv'
<1>1. SessionsTyped'
  BY DEF IInv, RemovalCommits, SessionsTyped, SlotOK
<1>2. SlotTyped'
  BY DEF IInv, RemovalCommits, Steps, SlotTyped
<1>3. MayTyped'
  BY DEF IInv, RemovalCommits, MayTyped
<1>4. SlotOK'
  BY DEF IInv, Free, Running, At, RemovalCommits, SlotOK
<1>5. PlanOK'
  BY DEF IInv, RemovalCommits, PlanOK
<1>6. SessionsOK'
  BY DEF IInv, Free, Quiet, At, RemovalCommits, Copies, ForksSurvive, Live, SlotOK, LaneOK,
     SessionsOK
<1>7. UnusedUnbound'
  BY DEF IInv, RemovalCommits, UnusedUnbound
<1>8. KnownOK'
  BY DEF IInv, RemovalCommits, KnownOK
<1>9. ExpectedOK'
  BY DEF IInv, Quiet, At, RemovalCommits, SessionsTyped, Live, LaneOK, SessionsOK, FreshIsFile,
     KnownOK, Expected, Unsettled, Tracked, ExpectedOK
<1>10. WasExpected'
  BY DEF IInv, RemovalCommits, WasExpected
<1>11. ChildExpected'
  BY DEF IInv, At, RemovalCommits, Copies, ChildExpected
<1>12. LaneTyped' /\ RostersTyped' /\ LaneOK' /\ FreshIsFile'
  BY DEF IInv, Running, RemovalCommits, LaneTyped, RostersTyped, LaneOK, FreshIsFile
<1>. QED BY <1>1, <1>2, <1>3, <1>4, <1>5, <1>6, <1>7, <1>8, <1>9, <1>10, <1>11, <1>12 DEF IInv

\* A removal could not be saved.
LEMMA RemovalUndoneKeeps ==
  ASSUME IInv, RemovalUndone
  PROVE  IInv'
<1>1. SessionsTyped'
  BY DEF IInv, History, RemovalUndone, SessionsTyped, SlotOK
<1>2. LaneTyped'
  <2>1. lane' = Emitted \/ lane' = lane
    BY DEF RemovalUndone
  <2>2. LaneTyped /\ used' = used
    BY DEF IInv, RemovalUndone, History
  <2> QED BY <2>1, <2>2, EmittedFacts DEF LaneTyped
<1>3. SlotTyped'
  BY DEF IInv, RemovalUndone, Steps, SlotTyped
<1>4. SlotOK'
  BY DEF IInv, Free, Running, At, History, RemovalUndone, SlotTyped, SlotOK
<1>5. PlanOK'
  BY DEF IInv, Rebinds, RemovalUndone, SlotTyped, PlanOK
<1>6. LaneOK'
  <2>1. /\ slot.kind = "removal" /\ slot.step = "commit" /\ Quiet /\ lane.failed
        /\ memory' = memory \union slot.on
        /\ UNCHANGED <<phase, disk, file, known, closed, forked, may>>
    BY DEF RemovalUndone, At, History
  <2>2. /\ slot'.kind = "removal" /\ slot'.on = slot.on /\ slot'.child = slot.child
        /\ slot'.was = slot.was /\ slot'.next = slot.next
        /\ slot'.step = IF Rebinds THEN "restore" ELSE "end"
    BY <2>1 DEF IInv, SlotTyped, RemovalUndone
  <2>3. lane.saves = {} /\ lane'.saves = {} /\ lane'.failed
    BY <2>1, EmittedFacts DEF IInv, RemovalUndone, Quiet
  <2>4. Running
    BY <2>1 DEF IInv, SlotOK, Free
  <2> QED BY <2>1, <2>3, <2>4 DEF LaneOK, Running
<1>7. SessionsOK'
  <2>1. /\ slot.kind = "removal" /\ slot.step = "commit" /\ Quiet /\ lane.failed
        /\ memory' = memory \union slot.on
        /\ UNCHANGED <<phase, disk, file, known, closed, forked, may>>
    BY DEF RemovalUndone, At, History
  <2>2. /\ slot'.kind = "removal" /\ slot'.on = slot.on /\ slot'.child = slot.child
        /\ slot'.was = slot.was /\ slot'.next = slot.next
        /\ slot'.step = IF Rebinds THEN "restore" ELSE "end"
    BY <2>1 DEF IInv, SlotTyped, RemovalUndone
  <2>3. lane.saves = {} /\ lane'.saves = {} /\ lane'.failed
    BY <2>1, EmittedFacts DEF IInv, RemovalUndone, Quiet
  <2> QED BY <2>1, <2>2, <2>3 DEF IInv, SessionsOK, ForksSurvive, Live, Running, At, Copies
<1>8. UnusedUnbound'
  BY DEF IInv, History, RemovalUndone, SlotTyped, UnusedUnbound
<1>9. KnownOK'
  BY DEF IInv, At, RemovalUndone, SlotTyped, KnownOK
<1>10. ExpectedOK'
  <2>1. /\ slot.kind = "removal" /\ slot.step = "commit" /\ Quiet /\ lane.failed
        /\ memory' = memory \union slot.on
        /\ UNCHANGED <<phase, disk, file, known, closed, forked, may>>
    BY DEF RemovalUndone, At, History
  <2>2. /\ slot'.kind = "removal" /\ slot'.on = slot.on /\ slot'.child = slot.child
        /\ slot'.was = slot.was /\ slot'.next = slot.next
        /\ slot'.step = IF Rebinds THEN "restore" ELSE "end"
    BY <2>1 DEF IInv, SlotTyped, RemovalUndone
  <2>3. lane.saves = {} /\ lane'.saves = {} /\ lane'.failed
    BY <2>1, EmittedFacts DEF IInv, RemovalUndone, Quiet
  <2>4. Tracked' \subseteq Tracked
    BY <2>1, <2>2, <2>3 DEF Tracked, Unsettled, Live, Rebinds
  <2> QED BY <2>1, <2>4 DEF IInv, ExpectedOK, Expected
<1>11. WasExpected'
  BY DEF IInv, At, History, RemovalUndone, SlotTyped, Live, Unsettled, Tracked, WasExpected
<1>12. ChildExpected'
  BY DEF IInv, At, RemovalUndone, Copies, SlotTyped, ChildExpected
<1>13. RostersTyped' /\ MayTyped' /\ FreshIsFile'
  BY DEF IInv, Running, History, RemovalUndone, RostersTyped, MayTyped, FreshIsFile
<1>. QED BY <1>1, <1>2, <1>3, <1>4, <1>5, <1>6, <1>7, <1>8, <1>9, <1>10, <1>11, <1>12, <1>13 DEF IInv

\* The bindings are back.
LEMMA BindingsRestoredKeeps ==
  ASSUME IInv, BindingsRestored
  PROVE  IInv'
<1>1. LaneTyped'
  BY EmittedFacts DEF IInv, History, BindingsRestored, LaneTyped
<1>2. RostersTyped'
  BY LoadedFacts DEF IInv, StoreSaves, BindingsRestored, RostersTyped, SlotTyped
<1>3. SlotTyped'
  BY DEF IInv, BindingsRestored, Steps, SlotTyped
<1>4. SlotOK'
  BY DEF IInv, Free, Running, At, History, BindingsRestored, SlotOK
<1>5. PlanOK'
  BY DEF IInv, BindingsRestored, PlanOK
<1>6. LaneOK'
  BY EmittedFacts DEF IInv, Running, Quiet, BindingsRestored, LaneOK
<1>7. SessionsOK'
  BY EmittedFacts DEF IInv, Running, At, History, BindingsRestored, ForksSurvive, Live,
     SessionsOK
<1>8. UnusedUnbound'
  BY LoadedFacts DEF IInv, StoreSaves, History, BindingsRestored, SlotTyped, UnusedUnbound
<1>9. FreshIsFile'
  BY LoadedFacts DEF IInv, Running, Fits, StoreSaves, BindingsRestored, SlotTyped, FreshIsFile
<1>10. KnownOK'
  BY DEF IInv, BindingsRestored, KnownOK
<1>11. ExpectedOK'
  BY EmittedFacts, LoadedFacts DEF IInv, At, StoreSaves, History, BindingsRestored, SlotTyped,
     Live, KnownOK, Expected, Tracked, ExpectedOK, WasExpected
<1>12. WasExpected'
  BY DEF IInv, BindingsRestored, WasExpected
<1>13. ChildExpected'
  BY DEF IInv, At, BindingsRestored, Copies, ChildExpected
<1>14. SessionsTyped' /\ MayTyped'
  BY DEF IInv, History, BindingsRestored, SessionsTyped, MayTyped
<1>. QED BY <1>1, <1>2, <1>3, <1>4, <1>5, <1>6, <1>7, <1>8, <1>9, <1>10, <1>11, <1>12, <1>13, <1>14 DEF IInv

\* The bindings are not put back.
LEMMA BindingsLostKeeps ==
  ASSUME IInv, BindingsLost
  PROVE  IInv'
<1>1. RostersTyped'
  BY EmptyRosterFacts DEF IInv, BindingsLost, RostersTyped, SlotTyped
<1>2. SlotTyped'
  BY DEF IInv, BindingsLost, Steps, SlotTyped
<1>3. MayTyped'
  BY RosterFacts DEF IInv, Doubtful, BindingsLost, SlotTyped, MayTyped
<1>4. SlotOK'
  BY DEF IInv, Free, Running, At, BindingsLost, SlotOK
<1>5. PlanOK'
  BY DEF IInv, BindingsLost, PlanOK
<1>6. SessionsOK'
  BY DEF IInv, Running, At, BindingsLost, ForksSurvive, Live, SessionsOK
<1>7. UnusedUnbound'
  BY EmptyRosterFacts, FileFacts DEF IInv, Doubtful, BindingsLost, UnusedUnbound
<1>8. FreshIsFile'
  BY EmptyRosterFacts DEF IInv, BindingsLost, FreshIsFile
<1>9. KnownOK'
  BY DEF IInv, BindingsLost, KnownOK
<1>10. ExpectedOK'
  BY EmptyRosterFacts DEF IInv, At, Doubtful, BindingsLost, SessionsTyped, LaneTyped,
     RostersTyped, Live, FreshIsFile, KnownOK, Expected, Unsettled, Tracked, ExpectedOK,
     WasExpected
<1>11. WasExpected'
  BY DEF IInv, BindingsLost, WasExpected
<1>12. ChildExpected'
  BY DEF IInv, At, BindingsLost, Copies, ChildExpected
<1>13. SessionsTyped' /\ LaneTyped' /\ LaneOK'
  BY DEF IInv, Running, Quiet, BindingsLost, SessionsTyped, LaneTyped, LaneOK
<1>. QED BY <1>1, <1>2, <1>3, <1>4, <1>5, <1>6, <1>7, <1>8, <1>9, <1>10, <1>11, <1>12, <1>13 DEF IInv

\* A duplicate or a fork begins.
LEMMA CopyKeeps ==
  ASSUME IInv, NEW kind \in Copies, NEW s \in Sessions, NEW child \in Sessions, Copy(kind, s, child)
  PROVE  IInv'
<1>1. SessionsTyped'
  BY DEF IInv, Copy, SessionsTyped
<1>2. LaneTyped'
  BY DEF IInv, Copy, LaneTyped
<1>3. SlotTyped'
  BY BoundFacts, RosterFacts, NoneAssumption DEF IInv, Acquires, Copy, Steps, RostersTyped,
     SlotTyped
<1>4. SlotOK'
  <2>1. /\ slot' = [kind |-> kind, step |-> "check", on |-> {s}, child |-> child,
                    was |-> known.roster, next |-> Bound(child, known.roster.of[s], known.roster)]
        /\ slot = Free /\ phase = "up" /\ s \in memory /\ child \notin used
        /\ used' = used \union {child}
        /\ UNCHANGED <<phase, memory, disk, lane, file, known, may>>
    BY DEF Copy, Acquires, Idle
  <2>2. child # None /\ s \in used /\ s # None /\ s # child /\ used \subseteq Sessions
    BY <2>1, NoneAssumption DEF IInv, SessionsTyped
  <2> QED BY <2>1, <2>2 DEF SlotOK, Copies, Running, RosterKinds
<1>5. PlanOK'
  BY AllUnboundFacts, BoundFacts, RosterFacts DEF IInv, Acquires, Copies, Copy, RostersTyped,
     MayTyped, PlanOK, SessionsOK, UnusedUnbound
<1>6. SessionsOK'
  BY DEF IInv, Running, At, Acquires, Copy, ForksSurvive, SessionsTyped, LaneTyped, Live,
     SessionsOK
<1>7. UnusedUnbound'
  BY BoundFacts, RosterFacts, NoneAssumption DEF IInv, Acquires, Copy, RostersTyped,
     UnusedUnbound
<1>8. KnownOK'
  BY DEF IInv, Acquires, Copy, KnownOK
<1>9. ExpectedOK'
  <2>1. /\ slot' = [kind |-> kind, step |-> "check", on |-> {s}, child |-> child,
                    was |-> known.roster, next |-> Bound(child, known.roster.of[s], known.roster)]
        /\ slot = Free /\ phase = "up" /\ s \in memory /\ child \notin used
        /\ used' = used \union {child}
        /\ UNCHANGED <<phase, memory, disk, lane, file, known, may>>
    BY DEF Copy, Acquires, Idle
  <2>2. child # None /\ s \in used /\ s # None /\ s # child /\ used \subseteq Sessions
    BY <2>1, NoneAssumption DEF IInv, SessionsTyped
  <2>3. Live \subseteq used /\ Live' = Live
    BY <2>1 DEF IInv, SessionsTyped, LaneTyped, Live
  <2>4. s \in Tracked /\ Tracked' \union Unsettled' \subseteq Tracked
    BY <2>1, <2>2, <2>3, NoneAssumption DEF Tracked, Unsettled, Free, Live
  <2> QED BY <2>1, <2>4 DEF IInv, ExpectedOK, Expected
<1>10. WasExpected'
  <2>1. /\ slot' = [kind |-> kind, step |-> "check", on |-> {s}, child |-> child,
                    was |-> known.roster, next |-> Bound(child, known.roster.of[s], known.roster)]
        /\ slot = Free /\ phase = "up" /\ s \in memory /\ child \notin used
        /\ used' = used \union {child}
        /\ UNCHANGED <<phase, memory, disk, lane, file, known, may>>
    BY DEF Copy, Acquires, Idle
  <2>2. child # None /\ s \in used /\ s # None /\ s # child /\ used \subseteq Sessions
    BY <2>1, NoneAssumption DEF IInv, SessionsTyped
  <2>3. Live \subseteq used /\ Live' = Live
    BY <2>1 DEF IInv, SessionsTyped, LaneTyped, Live
  <2>4. s \in Tracked /\ Tracked' \union Unsettled' \subseteq Tracked
    BY <2>1, <2>2, <2>3, NoneAssumption DEF Tracked, Unsettled, Free, Live
  <2> QED BY <2>1, <2>4 DEF IInv, ExpectedOK, Expected, WasExpected
<1>11. ChildExpected'
  BY DEF IInv, Acquires, Copy, UnusedUnbound, ChildExpected
<1>12. RostersTyped' /\ MayTyped' /\ LaneOK' /\ FreshIsFile'
  BY DEF IInv, Running, Quiet, Copy, RostersTyped, MayTyped, LaneOK, FreshIsFile
<1>. QED BY <1>1, <1>2, <1>3, <1>4, <1>5, <1>6, <1>7, <1>8, <1>9, <1>10, <1>11, <1>12 DEF IInv

\* It does not pass the checks.
LEMMA CopyRefusedKeeps ==
  ASSUME IInv, CopyRefused
  PROVE  IInv'
<1>1. SlotTyped'
  BY EmptyRosterFacts DEF IInv, Free, CopyRefused, Steps, SlotTyped
<1>2. SlotOK'
  BY DEF IInv, Free, RosterKinds, Copies, CopyRefused, SlotOK
<1>3. PlanOK'
  BY DEF IInv, Free, Copies, CopyRefused, PlanOK
<1>4. SessionsOK'
  BY DEF IInv, Free, Running, At, History, Copies, CopyRefused, ForksSurvive, Live, SessionsOK
<1>5. UnusedUnbound'
  BY EmptyRosterFacts DEF IInv, Free, History, CopyRefused, UnusedUnbound
<1>6. KnownOK'
  BY DEF IInv, Free, CopyRefused, KnownOK
<1>7. ExpectedOK'
  BY DEF IInv, Free, History, CopyRefused, Live, SessionsOK, Expected, Unsettled, Tracked,
     ExpectedOK
<1>8. WasExpected'
  BY DEF IInv, Free, CopyRefused, WasExpected
<1>9. ChildExpected'
  BY DEF IInv, Free, Copies, CopyRefused, ChildExpected
<1>10. SessionsTyped' /\ LaneTyped' /\ RostersTyped' /\ MayTyped' /\ LaneOK' /\ FreshIsFile'
  BY DEF IInv, Running, Quiet, History, CopyRefused, SessionsTyped, LaneTyped, RostersTyped,
     MayTyped, LaneOK, FreshIsFile
<1>. QED BY <1>1, <1>2, <1>3, <1>4, <1>5, <1>6, <1>7, <1>8, <1>9, <1>10 DEF IInv

\* It passes the checks.
LEMMA CopyCheckedKeeps ==
  ASSUME IInv, CopyChecked
  PROVE  IInv'
<1>1. SessionsTyped'
  BY DEF IInv, History, Inserted, CopyChecked, SessionsTyped, SlotOK
<1>2. LaneTyped'
  BY EmittedFacts DEF IInv, History, Inserted, CopyChecked, LaneTyped
<1>3. SlotTyped'
  BY EmptyRosterFacts DEF IInv, Free, CopyChecked, Steps, SlotTyped
<1>4. SlotOK'
  BY DEF IInv, Free, Running, History, RosterKinds, Copies, CopyChecked, SlotTyped, SlotOK
<1>5. PlanOK'
  BY DEF IInv, Free, Rebinds, Copies, CopyChecked, SlotTyped, PlanOK
<1>6. LaneOK'
  BY EmittedFacts DEF IInv, Running, Quiet, Inserted, CopyChecked, LaneOK
<1>7. SessionsOK'
  BY EmittedFacts DEF IInv, Free, Running, At, History, Copies, Inserted, CopyChecked,
     ForksSurvive, SlotTyped, Live, SessionsOK
<1>8. UnusedUnbound'
  BY EmptyRosterFacts DEF IInv, Free, History, CopyChecked, SlotTyped, UnusedUnbound
<1>9. KnownOK'
  BY DEF IInv, Free, Rebinds, CopyChecked, SlotTyped, KnownOK
<1>10. ExpectedOK'
  BY EmittedFacts DEF IInv, Free, Rebinds, History, Inserted, CopyChecked, SlotTyped, Live,
     PlanOK, KnownOK, Expected, Unsettled, Tracked, ExpectedOK, ChildExpected
<1>11. WasExpected'
  BY DEF IInv, Free, History, CopyChecked, SlotTyped, Live, Unsettled, Tracked, WasExpected
<1>12. ChildExpected'
  BY DEF IInv, Free, Rebinds, History, Copies, CopyChecked, SlotTyped, PlanOK, ChildExpected
<1>13. RostersTyped' /\ MayTyped' /\ FreshIsFile'
  BY DEF IInv, Running, History, CopyChecked, RostersTyped, MayTyped, FreshIsFile
<1>. QED BY <1>1, <1>2, <1>3, <1>4, <1>5, <1>6, <1>7, <1>8, <1>9, <1>10, <1>11, <1>12, <1>13 DEF IInv

\* The child is not bound, or nobody knows.
LEMMA ChildUnboundKeeps ==
  ASSUME IInv, ChildUnbound
  PROVE  IInv'
<1>1. RostersTyped'
  <2>1. slot.next \in Rosters /\ RostersTyped /\ file.roster \in Rosters
    BY DEF IInv, SlotTyped, RostersTyped
  <2>2. StoreFails \/ Reloads \/ StoreUnsure(slot.next)
    BY DEF ChildUnbound
  <2>3. CASE StoreFails
    BY <2>1, <2>3 DEF RostersTyped, StoreFails
  <2>4. CASE Reloads
    BY <2>1, <2>4, EmptyRosterFacts, LoadedFacts DEF RostersTyped, Reloads, Loads
  <2>5. CASE StoreUnsure(slot.next)
    BY <2>1, <2>5, FileFacts DEF RostersTyped, StoreUnsure
  <2> QED BY <2>2, <2>3, <2>4, <2>5
<1>2. SlotTyped'
  BY EmptyRosterFacts DEF IInv, Free, ChildUnbound, Steps, SlotTyped
<1>3. SlotOK'
  BY DEF IInv, Free, RosterKinds, Copies, ChildUnbound, SlotOK
<1>4. PlanOK'
  BY DEF IInv, Free, Copies, ChildUnbound, PlanOK
<1>5. SessionsOK'
  BY DEF IInv, Free, Running, At, History, Copies, ChildUnbound, ForksSurvive, Live, SessionsOK
<1>6. UnusedUnbound'
  BY EmptyRosterFacts, LoadedFacts DEF IInv, Free, StoreFails, StoreUnsure, Loads, Reloads,
     History, ChildUnbound, RostersTyped, UnusedUnbound
<1>7. FreshIsFile'
  BY EmptyRosterFacts, LoadedFacts DEF IInv, Free, Running, StoreFails, StoreUnsure, Loads,
     Reloads, ChildUnbound, RostersTyped, SlotOK, FreshIsFile
<1>8. KnownOK'
  BY DEF IInv, Free, ChildUnbound, KnownOK
<1>9. ExpectedOK'
  BY EmptyRosterFacts, LoadedFacts DEF IInv, Free, StoreFails, StoreUnsure, Loads, Reloads,
     History, Copies, ChildUnbound, SessionsTyped, LaneTyped, RostersTyped, Live, PlanOK,
     SessionsOK, KnownOK, Expected, Unsettled, Tracked, ExpectedOK
<1>10. WasExpected'
  BY DEF IInv, Free, ChildUnbound, WasExpected
<1>11. ChildExpected'
  BY DEF IInv, Free, Copies, ChildUnbound, ChildExpected
<1>12. SessionsTyped' /\ LaneTyped' /\ MayTyped' /\ LaneOK'
  BY DEF IInv, Running, Quiet, History, ChildUnbound, SessionsTyped, LaneTyped, MayTyped,
     LaneOK
<1>. QED BY <1>1, <1>2, <1>3, <1>4, <1>5, <1>6, <1>7, <1>8, <1>9, <1>10, <1>11, <1>12 DEF IInv

\* The child of a duplicate is bound and inserted.
LEMMA DuplicateBoundKeeps ==
  ASSUME IInv, DuplicateBound
  PROVE  IInv'
<1>1. SessionsTyped'
  BY DEF IInv, At, Copies, Inserted, DuplicateBound, SessionsTyped, SlotOK
<1>2. LaneTyped'
  BY EmittedFacts DEF IInv, Inserted, DuplicateBound, LaneTyped
<1>3. RostersTyped'
  BY LoadedFacts DEF IInv, StoreSaves, DuplicateBound, RostersTyped, SlotTyped
<1>4. SlotTyped'
  BY EmptyRosterFacts DEF IInv, Free, DuplicateBound, Steps, SlotTyped
<1>5. MayTyped'
  BY RosterFacts DEF IInv, Certain, DuplicateBound, SlotTyped, MayTyped
<1>6. SlotOK'
  BY DEF IInv, Free, RosterKinds, Copies, DuplicateBound, SlotOK
<1>7. PlanOK'
  BY DEF IInv, Free, Copies, DuplicateBound, PlanOK
<1>8. LaneOK'
  BY EmittedFacts DEF IInv, Free, Running, Quiet, At, Inserted, DuplicateBound, SlotOK, LaneOK
<1>9. SessionsOK'
  BY EmittedFacts DEF IInv, Free, Running, At, Copies, Inserted, DuplicateBound, ForksSurvive,
     Live, SessionsOK
<1>10. UnusedUnbound'
  BY EmptyRosterFacts, LoadedFacts DEF IInv, Free, StoreSaves, Certain, DuplicateBound,
     SlotTyped, UnusedUnbound
<1>11. FreshIsFile'
  BY LoadedFacts DEF IInv, Running, Fits, StoreSaves, DuplicateBound, SlotTyped, FreshIsFile
<1>12. KnownOK'
  BY DEF IInv, Free, DuplicateBound, KnownOK
<1>13. ExpectedOK'
  BY EmittedFacts, LoadedFacts DEF IInv, Free, At, StoreSaves, Certain, Inserted,
     DuplicateBound, SessionsTyped, SlotTyped, Live, SlotOK, PlanOK, KnownOK, Expected,
     Unsettled, Tracked, ExpectedOK, ChildExpected
<1>14. WasExpected'
  BY DEF IInv, Free, DuplicateBound, WasExpected
<1>15. ChildExpected'
  BY DEF IInv, Free, Copies, DuplicateBound, ChildExpected
<1>. QED BY <1>1, <1>2, <1>3, <1>4, <1>5, <1>6, <1>7, <1>8, <1>9, <1>10, <1>11, <1>12, <1>13, <1>14, <1>15 DEF IInv

\* The child of a fork is bound.
LEMMA ForkBoundKeeps ==
  ASSUME IInv, ForkBound
  PROVE  IInv'
<1>1. RostersTyped'
  BY LoadedFacts DEF IInv, StoreSaves, ForkBound, RostersTyped, SlotTyped
<1>2. SlotTyped'
  BY DEF IInv, ForkBound, Steps, SlotTyped
<1>3. MayTyped'
  BY RosterFacts DEF IInv, Doubtful, ForkBound, SlotTyped, MayTyped
<1>4. SlotOK'
  BY DEF IInv, Free, Running, At, RosterKinds, ForkBound, SlotOK
<1>5. PlanOK'
  BY DEF IInv, At, Rebinds, Copies, ForkBound, PlanOK
<1>6. SessionsOK'
  BY DEF IInv, Running, At, ForkBound, ForksSurvive, Live, SessionsOK
<1>7. UnusedUnbound'
  BY LoadedFacts DEF IInv, StoreSaves, Doubtful, ForkBound, SlotTyped, UnusedUnbound
<1>8. FreshIsFile'
  BY LoadedFacts DEF IInv, Running, Fits, StoreSaves, ForkBound, SlotTyped, FreshIsFile
<1>9. KnownOK'
  BY LoadedFacts DEF IInv, StoreSaves, ForkBound, SlotTyped, KnownOK
<1>10. ExpectedOK'
  BY LoadedFacts DEF IInv, At, StoreSaves, Doubtful, ForkBound, SessionsTyped, LaneTyped,
     SlotTyped, Live, KnownOK, Expected, Unsettled, Tracked, ExpectedOK
<1>11. WasExpected'
  BY DEF IInv, At, Doubtful, ForkBound, SessionsTyped, LaneTyped, SlotTyped, Live, KnownOK,
     Unsettled, Tracked, WasExpected
<1>12. ChildExpected'
  BY DEF IInv, StoreSaves, Doubtful, ForkBound, SlotTyped, SlotOK, PlanOK, ChildExpected
<1>13. SessionsTyped' /\ LaneTyped' /\ LaneOK'
  BY DEF IInv, Running, Quiet, ForkBound, SessionsTyped, LaneTyped, LaneOK
<1>. QED BY <1>1, <1>2, <1>3, <1>4, <1>5, <1>6, <1>7, <1>8, <1>9, <1>10, <1>11, <1>12, <1>13 DEF IInv

\* The client of the fork starts.
LEMMA ForkStartedKeeps ==
  ASSUME IInv, ForkStarted
  PROVE  IInv'
<1>1. SessionsTyped'
  BY DEF IInv, At, History, Inserted, ForkStarted, SessionsTyped, SlotTyped, SlotOK
<1>2. LaneTyped'
  BY EmittedFacts DEF IInv, History, Inserted, ForkStarted, LaneTyped
<1>3. SlotTyped'
  BY DEF IInv, ForkStarted, Steps, SlotTyped
<1>4. SlotOK'
  BY DEF IInv, Running, At, History, ForkStarted, SlotOK
<1>5. PlanOK'
  BY DEF IInv, ForkStarted, PlanOK
<1>6. LaneOK'
  BY EmittedFacts DEF IInv, Running, Quiet, Inserted, ForkStarted, LaneOK
<1>7. SessionsOK'
  BY EmittedFacts DEF IInv, Running, At, History, Copies, Inserted, ForkStarted, ForksSurvive,
     Live, SessionsOK
<1>8. UnusedUnbound'
  BY DEF IInv, History, ForkStarted, UnusedUnbound
<1>9. KnownOK'
  BY DEF IInv, At, Rebinds, ForkStarted, KnownOK
<1>10. ExpectedOK'
  BY EmittedFacts DEF IInv, At, History, Inserted, ForkStarted, Live, Expected, Unsettled,
     Tracked, ExpectedOK
<1>11. WasExpected'
  BY EmittedFacts DEF IInv, At, History, Inserted, ForkStarted, Live, Unsettled, Tracked,
     WasExpected
<1>12. ChildExpected'
  BY DEF IInv, At, History, ForkStarted, ChildExpected
<1>13. RostersTyped' /\ MayTyped' /\ FreshIsFile'
  BY DEF IInv, Running, History, ForkStarted, RostersTyped, MayTyped, FreshIsFile
<1>. QED BY <1>1, <1>2, <1>3, <1>4, <1>5, <1>6, <1>7, <1>8, <1>9, <1>10, <1>11, <1>12, <1>13 DEF IInv

\* It does not, or the fork fails right after.
LEMMA ForkFailsKeeps ==
  ASSUME IInv, ForkFails
  PROVE  IInv'
<1>1. LaneTyped'
  BY EmittedFacts DEF IInv, History, ForkFails, LaneTyped
<1>2. SlotTyped'
  BY EmptyRosterFacts DEF IInv, Free, Compensation, ForkFails, Steps, SlotTyped
<1>3. SlotOK'
  BY DEF IInv, Free, Running, At, History, RosterKinds, Copies, Compensation, ForkFails,
     SlotTyped, SlotOK
<1>4. PlanOK'
  BY DEF IInv, Free, Rebinds, Copies, Compensation, ForkFails, SlotTyped, PlanOK
<1>5. LaneOK'
  BY EmittedFacts DEF IInv, Running, Quiet, ForkFails, LaneOK
<1>6. SessionsOK'
  BY EmittedFacts DEF IInv, Free, Running, At, History, Copies, Compensation, ForkFails,
     ForksSurvive, SlotTyped, Live, SessionsOK
<1>7. UnusedUnbound'
  BY EmptyRosterFacts DEF IInv, Free, History, Compensation, ForkFails, SlotTyped, UnusedUnbound
<1>8. KnownOK'
  BY DEF IInv, Free, At, Rebinds, Compensation, ForkFails, SlotTyped, KnownOK
<1>9. ExpectedOK'
  BY EmittedFacts DEF IInv, Free, At, History, Compensation, ForkFails, SlotTyped, Live, SlotOK,
     SessionsOK, Expected, Unsettled, Tracked, ExpectedOK
<1>10. WasExpected'
  BY EmittedFacts DEF IInv, Free, At, History, Compensation, ForkFails, SlotTyped, Live,
     Unsettled, Tracked, WasExpected
<1>11. ChildExpected'
  BY DEF IInv, Free, At, History, Copies, Compensation, ForkFails, SlotTyped, ChildExpected
<1>12. SessionsTyped' /\ RostersTyped' /\ MayTyped' /\ FreshIsFile'
  BY DEF IInv, Running, History, ForkFails, SessionsTyped, RostersTyped, MayTyped, FreshIsFile
<1>. QED BY <1>1, <1>2, <1>3, <1>4, <1>5, <1>6, <1>7, <1>8, <1>9, <1>10, <1>11, <1>12 DEF IInv

\* A fork is saved.
LEMMA ForkCommitsKeeps ==
  ASSUME IInv, ForkCommits
  PROVE  IInv'
<1>1. SessionsTyped'
  BY DEF IInv, At, ForkCommits, SessionsTyped, SlotTyped, SlotOK
<1>2. SlotTyped'
  BY EmptyRosterFacts DEF IInv, Free, ForkCommits, Steps, SlotTyped
<1>3. MayTyped'
  BY RosterFacts DEF IInv, Certain, ForkCommits, SlotTyped, MayTyped
<1>4. SlotOK'
  BY DEF IInv, Free, RosterKinds, Copies, ForkCommits, SlotOK
<1>5. PlanOK'
  BY DEF IInv, Free, Copies, ForkCommits, PlanOK
<1>6. SessionsOK'
  BY DEF IInv, Free, Quiet, At, Copies, ForkCommits, ForksSurvive, Live, LaneOK, SessionsOK
<1>7. UnusedUnbound'
  BY EmptyRosterFacts DEF IInv, Free, Certain, ForkCommits, UnusedUnbound
<1>8. KnownOK'
  BY DEF IInv, Free, ForkCommits, KnownOK
<1>9. ExpectedOK'
  BY DEF IInv, Free, Quiet, At, Rebinds, Certain, ForkCommits, SessionsTyped, Live, SlotOK,
     FreshIsFile, KnownOK, Expected, Unsettled, Tracked, ExpectedOK, ChildExpected
<1>10. WasExpected'
  BY DEF IInv, Free, ForkCommits, WasExpected
<1>11. ChildExpected'
  BY DEF IInv, Free, Copies, ForkCommits, ChildExpected
<1>12. LaneTyped' /\ RostersTyped' /\ LaneOK' /\ FreshIsFile'
  BY DEF IInv, Running, ForkCommits, LaneTyped, RostersTyped, LaneOK, FreshIsFile
<1>. QED BY <1>1, <1>2, <1>3, <1>4, <1>5, <1>6, <1>7, <1>8, <1>9, <1>10, <1>11, <1>12 DEF IInv

\* A fork could not be saved.
LEMMA ForkUndoneKeeps ==
  ASSUME IInv, ForkUndone
  PROVE  IInv'
<1>1. SessionsTyped'
  BY DEF IInv, History, ForkUndone, SessionsTyped
<1>2. LaneTyped'
  <2>1. lane' = Emitted \/ lane' = lane
    BY DEF ForkUndone
  <2>2. LaneTyped /\ used' = used
    BY DEF IInv, ForkUndone, History
  <2> QED BY <2>1, <2>2, EmittedFacts DEF LaneTyped
<1>3. SlotTyped'
  BY DEF IInv, ForkUndone, Steps, SlotTyped
<1>4. SlotOK'
  BY DEF IInv, Free, Running, At, History, ForkUndone, SlotOK
<1>5. PlanOK'
  BY DEF IInv, ForkUndone, PlanOK
<1>6. LaneOK'
  <2>1. /\ slot.kind = "fork" /\ slot.step = "commit" /\ Quiet /\ lane.failed
        /\ memory' = memory \ {slot.child} /\ lane' = Emitted
        /\ UNCHANGED <<phase, disk, file, known, closed, forked, may>>
    BY DEF ForkUndone, At, History
  <2>2. /\ slot'.kind = "fork" /\ slot'.step = "undo"
        /\ slot'.on = slot.on /\ slot'.child = slot.child
        /\ slot'.was = slot.was /\ slot'.next = slot.next
    BY <2>1 DEF IInv, SlotTyped, ForkUndone
  <2>3. lane.saves = {} /\ lane'.saves = {} /\ lane'.dirty
    BY <2>1, EmittedFacts DEF IInv, Quiet
  <2>4. Running
    BY <2>1 DEF IInv, SlotOK, Free
  <2> QED BY <2>1, <2>3, <2>4 DEF LaneOK, Running, Quiet
<1>7. SessionsOK'
  <2>1. /\ slot.kind = "fork" /\ slot.step = "commit" /\ Quiet /\ lane.failed
        /\ memory' = memory \ {slot.child} /\ lane' = Emitted
        /\ UNCHANGED <<phase, disk, file, known, closed, forked, may>>
    BY DEF ForkUndone, At, History
  <2>2. /\ slot'.kind = "fork" /\ slot'.step = "undo"
        /\ slot'.on = slot.on /\ slot'.child = slot.child
        /\ slot'.was = slot.was /\ slot'.next = slot.next
    BY <2>1 DEF IInv, SlotTyped, ForkUndone
  <2>3. lane.saves = {} /\ lane'.saves = {} /\ lane'.dirty
    BY <2>1, EmittedFacts DEF IInv, Quiet
  <2> QED BY <2>1, <2>2, <2>3 DEF IInv, SessionsOK, ForksSurvive, Live, Running, At, Copies
<1>8. UnusedUnbound'
  BY DEF IInv, History, ForkUndone, UnusedUnbound
<1>9. KnownOK'
  BY DEF IInv, At, Rebinds, ForkUndone, KnownOK
<1>10. ExpectedOK'
  <2>1. /\ slot.kind = "fork" /\ slot.step = "commit" /\ Quiet /\ lane.failed
        /\ memory' = memory \ {slot.child} /\ lane' = Emitted
        /\ UNCHANGED <<phase, disk, file, known, closed, forked, may>>
    BY DEF ForkUndone, At, History
  <2>2. /\ slot'.kind = "fork" /\ slot'.step = "undo"
        /\ slot'.on = slot.on /\ slot'.child = slot.child
        /\ slot'.was = slot.was /\ slot'.next = slot.next
    BY <2>1 DEF IInv, SlotTyped, ForkUndone
  <2>3. lane.saves = {} /\ lane'.saves = {} /\ lane'.dirty
    BY <2>1, EmittedFacts DEF IInv, Quiet
  <2>4. Tracked' \subseteq Tracked /\ Unsettled' = {}
    BY <2>1, <2>2, <2>3 DEF Tracked, Unsettled, Live
  <2> QED BY <2>1, <2>4 DEF IInv, ExpectedOK, Expected
<1>11. WasExpected'
  <2>1. /\ slot.kind = "fork" /\ slot.step = "commit" /\ Quiet /\ lane.failed
        /\ memory' = memory \ {slot.child} /\ lane' = Emitted
        /\ UNCHANGED <<phase, disk, file, known, closed, forked, may>>
    BY DEF ForkUndone, At, History
  <2>2. /\ slot'.kind = "fork" /\ slot'.step = "undo"
        /\ slot'.on = slot.on /\ slot'.child = slot.child
        /\ slot'.was = slot.was /\ slot'.next = slot.next
    BY <2>1 DEF IInv, SlotTyped, ForkUndone
  <2>3. lane.saves = {} /\ lane'.saves = {} /\ lane'.dirty
    BY <2>1, EmittedFacts DEF IInv, Quiet
  <2>4. Tracked' \subseteq Tracked /\ Unsettled' = {}
    BY <2>1, <2>2, <2>3 DEF Tracked, Unsettled, Live
  <2> QED BY <2>1, <2>2, <2>4 DEF IInv, WasExpected
<1>12. ChildExpected'
  BY DEF IInv, At, History, ForkUndone, ChildExpected
<1>13. RostersTyped' /\ MayTyped' /\ FreshIsFile'
  BY DEF IInv, Running, History, ForkUndone, RostersTyped, MayTyped, FreshIsFile
<1>. QED BY <1>1, <1>2, <1>3, <1>4, <1>5, <1>6, <1>7, <1>8, <1>9, <1>10, <1>11, <1>12, <1>13 DEF IInv

\* The undoing was flushed, or the flush failed.
LEMMA UndoFlushedKeeps ==
  ASSUME IInv, UndoFlushed
  PROVE  IInv'
<1>1. SlotTyped'
  BY EmptyRosterFacts DEF IInv, Free, Compensation, UndoFlushed, Steps, SlotTyped
<1>2. SlotOK'
  BY DEF IInv, Free, Running, At, History, RosterKinds, Copies, Compensation, UndoFlushed,
     SlotOK
<1>3. PlanOK'
  BY DEF IInv, Free, Rebinds, Copies, Compensation, UndoFlushed, PlanOK
<1>4. SessionsOK'
  BY DEF IInv, Free, Running, At, History, Copies, Compensation, UndoFlushed, ForksSurvive,
     Live, SessionsOK
<1>5. UnusedUnbound'
  BY EmptyRosterFacts DEF IInv, Free, History, Compensation, UndoFlushed, UnusedUnbound
<1>6. KnownOK'
  BY DEF IInv, Free, At, Compensation, UndoFlushed, KnownOK
<1>7. ExpectedOK'
  BY DEF IInv, Free, At, History, Compensation, UndoFlushed, Live, SlotOK, KnownOK, Expected,
     Unsettled, Tracked, ExpectedOK, ChildExpected
<1>8. WasExpected'
  BY DEF IInv, Free, At, History, Compensation, UndoFlushed, Live, Unsettled, Tracked,
     WasExpected
<1>9. ChildExpected'
  BY DEF IInv, Free, At, History, Copies, Compensation, UndoFlushed, ChildExpected
<1>10. SessionsTyped' /\ LaneTyped' /\ RostersTyped' /\ MayTyped' /\ LaneOK' /\ FreshIsFile'
  BY DEF IInv, Running, History, UndoFlushed, SessionsTyped, LaneTyped, RostersTyped, MayTyped,
     LaneOK, FreshIsFile
<1>. QED BY <1>1, <1>2, <1>3, <1>4, <1>5, <1>6, <1>7, <1>8, <1>9, <1>10 DEF IInv

\* The binding of the child is taken back.
LEMMA CompensatedKeeps ==
  ASSUME IInv, Compensated
  PROVE  IInv'
<1>1. RostersTyped'
  BY LoadedFacts DEF IInv, StoreSaves, Compensated, RostersTyped, SlotTyped
<1>2. SlotTyped'
  BY EmptyRosterFacts DEF IInv, Free, Compensated, Steps, SlotTyped
<1>3. SlotOK'
  BY DEF IInv, Free, RosterKinds, Copies, Compensated, SlotOK
<1>4. PlanOK'
  BY DEF IInv, Free, Copies, Compensated, PlanOK
<1>5. SessionsOK'
  BY DEF IInv, Free, Running, At, History, Copies, Compensated, ForksSurvive, Live, SessionsOK
<1>6. UnusedUnbound'
  BY EmptyRosterFacts, LoadedFacts DEF IInv, Free, StoreSaves, History, Compensated, SlotTyped,
     UnusedUnbound
<1>7. FreshIsFile'
  BY LoadedFacts DEF IInv, Running, Fits, StoreSaves, Compensated, SlotTyped, FreshIsFile
<1>8. KnownOK'
  BY DEF IInv, Free, Compensated, KnownOK
<1>9. ExpectedOK'
  BY LoadedFacts DEF IInv, Free, At, StoreSaves, History, Compensated, SlotTyped, Live, SlotOK,
     PlanOK, KnownOK, Expected, Tracked, ExpectedOK, WasExpected, ChildExpected
<1>10. WasExpected'
  BY DEF IInv, Free, Compensated, WasExpected
<1>11. ChildExpected'
  BY DEF IInv, Free, Copies, Compensated, ChildExpected
<1>12. SessionsTyped' /\ LaneTyped' /\ MayTyped' /\ LaneOK'
  BY DEF IInv, Running, Quiet, History, Compensated, SessionsTyped, LaneTyped, MayTyped, LaneOK
<1>. QED BY <1>1, <1>2, <1>3, <1>4, <1>5, <1>6, <1>7, <1>8, <1>9, <1>10, <1>11, <1>12 DEF IInv

\* It is not, or nobody knows.
LEMMA CompensationFailsKeeps ==
  ASSUME IInv, CompensationFails
  PROVE  IInv'
<1>1. RostersTyped'
  <2>1. slot.was \in Rosters /\ RostersTyped /\ file.roster \in Rosters
    BY DEF IInv, SlotTyped, RostersTyped
  <2>2. StoreFails \/ StoreUnsure(slot.was)
    BY DEF CompensationFails
  <2>3. CASE StoreFails
    BY <2>1, <2>3 DEF RostersTyped, StoreFails
  <2>4. CASE StoreUnsure(slot.was)
    BY <2>1, <2>4, FileFacts DEF RostersTyped, StoreUnsure
  <2> QED BY <2>2, <2>3, <2>4
<1>2. SlotTyped'
  BY DEF IInv, CompensationFails, Steps, SlotTyped
<1>3. SlotOK'
  BY DEF IInv, Free, Running, At, History, CompensationFails, SlotOK
<1>4. PlanOK'
  BY DEF IInv, At, Rebinds, CompensationFails, PlanOK
<1>5. SessionsOK'
  BY DEF IInv, Running, At, History, CompensationFails, ForksSurvive, Live, SessionsOK
<1>6. UnusedUnbound'
  BY DEF IInv, StoreFails, StoreUnsure, History, CompensationFails, RostersTyped, UnusedUnbound
<1>7. FreshIsFile'
  BY DEF IInv, Running, StoreFails, StoreUnsure, CompensationFails, RostersTyped, FreshIsFile
<1>8. KnownOK'
  BY FileFacts DEF IInv, At, StoreFails, StoreUnsure, CompensationFails, SlotTyped, KnownOK
<1>9. ExpectedOK'
  BY DEF IInv, At, StoreFails, StoreUnsure, History, CompensationFails, SessionsTyped,
     LaneTyped, RostersTyped, SlotTyped, Live, SlotOK, PlanOK, KnownOK, Expected, Unsettled,
     Tracked, ExpectedOK
<1>10. WasExpected'
  BY DEF IInv, At, History, CompensationFails, Live, KnownOK, Unsettled, Tracked, WasExpected
<1>11. ChildExpected'
  BY DEF IInv, At, StoreFails, StoreUnsure, History, CompensationFails, RostersTyped, PlanOK,
     ChildExpected
<1>12. SessionsTyped' /\ LaneTyped' /\ MayTyped' /\ LaneOK'
  BY DEF IInv, Running, Quiet, History, CompensationFails, SessionsTyped, LaneTyped, MayTyped,
     LaneOK
<1>. QED BY <1>1, <1>2, <1>3, <1>4, <1>5, <1>6, <1>7, <1>8, <1>9, <1>10, <1>11, <1>12 DEF IInv

\* It is taken back from the roster of the file.
LEMMA CompensatedAgainKeeps ==
  ASSUME IInv, CompensatedAgain
  PROVE  IInv'
<1>1. RostersTyped'
  BY BoundFacts, LoadedFacts DEF IInv, At, CompensatedAgain, RostersTyped, SlotTyped, SlotOK
<1>2. SlotTyped'
  BY EmptyRosterFacts DEF IInv, Free, CompensatedAgain, Steps, SlotTyped
<1>3. SlotOK'
  BY DEF IInv, Free, RosterKinds, Copies, CompensatedAgain, SlotOK
<1>4. PlanOK'
  BY DEF IInv, Free, Copies, CompensatedAgain, PlanOK
<1>5. SessionsOK'
  BY DEF IInv, Free, Running, At, History, Copies, CompensatedAgain, ForksSurvive, Live,
     SessionsOK
<1>6. UnusedUnbound'
  BY BoundFacts, EmptyRosterFacts, LoadedFacts, NoneAssumption DEF IInv, Free, At, History,
     CompensatedAgain, RostersTyped, SlotTyped, SlotOK, UnusedUnbound
<1>7. FreshIsFile'
  BY BoundFacts, LoadedFacts DEF IInv, Free, Running, At, CompensatedAgain, RostersTyped,
     SlotTyped, SlotOK, FreshIsFile
<1>8. KnownOK'
  BY DEF IInv, Free, CompensatedAgain, KnownOK
<1>9. ExpectedOK'
  BY BoundFacts, LoadedFacts DEF IInv, Free, At, History, CompensatedAgain, SessionsTyped,
     LaneTyped, RostersTyped, SlotTyped, Live, SlotOK, Expected, Unsettled, Tracked, ExpectedOK,
     ChildExpected
<1>10. WasExpected'
  BY DEF IInv, Free, CompensatedAgain, WasExpected
<1>11. ChildExpected'
  BY DEF IInv, Free, Copies, CompensatedAgain, ChildExpected
<1>12. SessionsTyped' /\ LaneTyped' /\ MayTyped' /\ LaneOK'
  BY DEF IInv, Running, Quiet, History, CompensatedAgain, SessionsTyped, LaneTyped, MayTyped,
     LaneOK
<1>. QED BY <1>1, <1>2, <1>3, <1>4, <1>5, <1>6, <1>7, <1>8, <1>9, <1>10, <1>11, <1>12 DEF IInv

\* That fails too.
LEMMA CompensationLostKeeps ==
  ASSUME IInv, CompensationLost
  PROVE  IInv'
<1>1. RostersTyped'
  BY BoundFacts, EmptyRosterFacts DEF IInv, Running, At, RosterKinds, Copies, CompensationLost,
     Steps, RostersTyped, SlotTyped, SlotOK
<1>2. SlotTyped'
  BY EmptyRosterFacts DEF IInv, Free, CompensationLost, Steps, SlotTyped
<1>3. SlotOK'
  BY DEF IInv, Free, RosterKinds, Copies, CompensationLost, SlotOK
<1>4. PlanOK'
  BY DEF IInv, Free, Copies, CompensationLost, PlanOK
<1>5. SessionsOK'
  BY DEF IInv, Free, Running, At, History, Copies, CompensationLost, ForksSurvive, Live,
     SessionsOK
<1>6. UnusedUnbound'
  BY BoundFacts, EmptyRosterFacts, NoneAssumption DEF IInv, Free, At, History, CompensationLost,
     RostersTyped, SlotTyped, SlotOK, UnusedUnbound
<1>7. FreshIsFile'
  BY EmptyRosterFacts DEF IInv, CompensationLost, FreshIsFile
<1>8. KnownOK'
  BY DEF IInv, Free, CompensationLost, KnownOK
<1>9. ExpectedOK'
  BY BoundFacts, EmptyRosterFacts DEF IInv, Free, At, History, CompensationLost, SessionsTyped,
     LaneTyped, RostersTyped, SlotTyped, Live, SlotOK, Expected, Unsettled, Tracked, ExpectedOK,
     ChildExpected
<1>10. WasExpected'
  BY DEF IInv, Free, CompensationLost, WasExpected
<1>11. ChildExpected'
  BY DEF IInv, Free, Copies, CompensationLost, ChildExpected
<1>12. SessionsTyped' /\ LaneTyped' /\ MayTyped' /\ LaneOK'
  BY DEF IInv, Running, Quiet, History, CompensationLost, SessionsTyped, LaneTyped, MayTyped,
     LaneOK
<1>. QED BY <1>1, <1>2, <1>3, <1>4, <1>5, <1>6, <1>7, <1>8, <1>9, <1>10, <1>11, <1>12 DEF IInv

\* The user quits.
LEMMA StopKeeps ==
  ASSUME IInv, Stop
  PROVE  IInv'
<1>1. SessionsTyped'
  BY DEF IInv, History, Stop, SessionsTyped
<1>2. SlotOK'
  BY DEF IInv, Running, History, Stop, SlotOK
<1>3. LaneOK'
  BY DEF IInv, Running, Quiet, Stop, LaneOK
<1>4. SessionsOK'
  BY DEF IInv, Running, At, History, Stop, ForksSurvive, Live, SessionsOK
<1>5. FreshIsFile'
  BY DEF IInv, Running, Stop, FreshIsFile
<1>6. LaneTyped' /\ RostersTyped' /\ SlotTyped' /\ MayTyped' /\ PlanOK' /\ UnusedUnbound' /\
      KnownOK' /\ ExpectedOK' /\ WasExpected' /\ ChildExpected'
  BY DEF IInv, Rebinds, History, Stop, LaneTyped, RostersTyped, SlotTyped, MayTyped, Live,
     PlanOK, UnusedUnbound, KnownOK, Expected, Unsettled, Tracked, ExpectedOK, WasExpected,
     ChildExpected
<1>. QED BY <1>1, <1>2, <1>3, <1>4, <1>5, <1>6 DEF IInv

\* Main exits.
LEMMA ExitKeeps ==
  ASSUME IInv, Exit
  PROVE  IInv'
<1>1. SessionsTyped'
  BY DEF IInv, History, Gone, Exit, SessionsTyped
<1>2. LaneTyped'
  BY CleanLaneFacts DEF IInv, Gone, Exit, LaneTyped
<1>3. RostersTyped'
  BY EmptyRosterFacts DEF IInv, Gone, Exit, RostersTyped
<1>4. SlotTyped'
  BY DEF IInv, Idle, Gone, Exit, SlotTyped
<1>5. SlotOK'
  BY DEF IInv, Free, RosterKinds, Copies, Gone, Exit, SlotOK
<1>6. PlanOK'
  BY DEF IInv, Idle, Rebinds, Gone, Exit, PlanOK
<1>7. LaneOK'
  BY CleanLaneFacts DEF IInv, Running, Gone, Exit, LaneOK
<1>8. SessionsOK'
  BY CleanLaneFacts DEF IInv, Free, Running, At, History, Copies, Gone, Exit, ForksSurvive,
     Live, SessionsOK
<1>9. UnusedUnbound'
  BY EmptyRosterFacts DEF IInv, Idle, History, Gone, Exit, UnusedUnbound
<1>10. FreshIsFile'
  BY EmptyRosterFacts DEF IInv, Gone, Exit, FreshIsFile
<1>11. KnownOK'
  BY DEF IInv, Free, Gone, Exit, KnownOK
<1>12. ExpectedOK'
  BY CleanLaneFacts, EmptyRosterFacts DEF IInv, Idle, Rebinds, History, Gone, Exit, Live,
     Expected, Unsettled, Tracked, ExpectedOK
<1>13. WasExpected'
  BY DEF IInv, Free, Gone, Exit, WasExpected
<1>14. ChildExpected'
  BY DEF IInv, Idle, History, Gone, Exit, ChildExpected
<1>15. MayTyped'
  BY DEF IInv, History, Exit, MayTyped
<1>. QED BY <1>1, <1>2, <1>3, <1>4, <1>5, <1>6, <1>7, <1>8, <1>9, <1>10, <1>11, <1>12, <1>13, <1>14, <1>15 DEF IInv

\* Main crashes.
LEMMA CrashKeeps ==
  ASSUME IInv, Crash
  PROVE  IInv'
<1>1. SessionsTyped'
  BY DEF IInv, Gone, Crash, SessionsTyped
<1>2. LaneTyped'
  BY CleanLaneFacts DEF IInv, Gone, Crash, LaneTyped
<1>3. RostersTyped'
  BY EmptyRosterFacts DEF IInv, Gone, Crash, RostersTyped
<1>4. SlotTyped'
  BY EmptyRosterFacts DEF IInv, Free, Gone, Crash, Steps, SlotTyped
<1>5. MayTyped'
  BY RosterFacts DEF IInv, Doubtful, Crash, SlotTyped, MayTyped
<1>6. SlotOK'
  BY DEF IInv, Free, RosterKinds, Copies, Gone, Crash, SlotOK
<1>7. PlanOK'
  BY DEF IInv, Free, Copies, Gone, Crash, PlanOK
<1>8. LaneOK'
  BY CleanLaneFacts DEF IInv, Running, Gone, Crash, LaneOK
<1>9. SessionsOK'
  BY CleanLaneFacts DEF IInv, Free, Running, At, Copies, Gone, Crash, ForksSurvive, Live,
     SessionsOK
<1>10. UnusedUnbound'
  BY EmptyRosterFacts DEF IInv, Free, Doubtful, Gone, Crash, UnusedUnbound
<1>11. FreshIsFile'
  BY EmptyRosterFacts DEF IInv, Gone, Crash, FreshIsFile
<1>12. KnownOK'
  BY DEF IInv, Free, Gone, Crash, KnownOK
<1>13. ExpectedOK'
  BY CleanLaneFacts, EmptyRosterFacts DEF IInv, Free, Idle, Doubtful, Gone, Crash,
     SessionsTyped, Live, SlotOK, SessionsOK, FreshIsFile, KnownOK, Expected, Unsettled,
     Tracked, ExpectedOK, WasExpected, ChildExpected
<1>14. WasExpected'
  BY DEF IInv, Free, Gone, Crash, WasExpected
<1>15. ChildExpected'
  BY DEF IInv, Free, Copies, Gone, Crash, ChildExpected
<1>. QED BY <1>1, <1>2, <1>3, <1>4, <1>5, <1>6, <1>7, <1>8, <1>9, <1>10, <1>11, <1>12, <1>13, <1>14, <1>15 DEF IInv

\* Main starts.
LEMMA StartKeeps ==
  ASSUME IInv, Start
  PROVE  IInv'
<1>1. SessionsTyped'
  BY DEF IInv, History, Start, SessionsTyped
<1>2. LaneTyped'
  BY CleanLaneFacts DEF IInv, Start, LaneTyped
<1>3. RostersTyped'
  <2> DEFINE cleaned == AllUnbound(Orphans(file.roster), file.roster)
  <2>1. file.roster \in Rosters /\ Orphans(file.roster) \subseteq Sessions /\ RostersTyped
    BY DEF IInv, RostersTyped, Orphans
  <2>2. cleaned \in Rosters
    BY <2>1, AllUnboundFacts
  <2> HIDE DEF cleaned
  <2>3. [file EXCEPT !.roster = AllUnbound(Orphans(@), @)] = [file EXCEPT !.roster = cleaned]
    BY DEF cleaned
  <2>4. /\ [file EXCEPT !.roster = cleaned] \in [ok : BOOLEAN, roster : Rosters]
        /\ [file EXCEPT !.roster = cleaned].roster = cleaned
    BY <2>1, <2>2, FileFacts
  <2>5. \/ file' = file /\ known' = Invalid
        \/ file' = [file EXCEPT !.roster = cleaned] /\ known' = Loaded(file'.roster)
    BY <2>3 DEF Start
  <2> QED BY <2>1, <2>2, <2>4, <2>5, LoadedFacts, EmptyRosterFacts DEF RostersTyped
<1>4. SlotOK'
  BY DEF IInv, Free, Running, Start, SlotOK
<1>5. LaneOK'
  BY DEF IInv, Running, Start, LaneOK
<1>6. SessionsOK'
  BY CleanLaneFacts DEF IInv, Free, Running, At, History, Start, ForksSurvive, Live, SlotOK,
     SessionsOK
<1>7. UnusedUnbound'
  BY AllUnboundFacts, EmptyRosterFacts, LoadedFacts DEF IInv, History, Orphans, Start,
     RostersTyped, SlotTyped, UnusedUnbound
<1>8. FreshIsFile'
  <2> DEFINE cleaned == AllUnbound(Orphans(file.roster), file.roster)
  <2>1. file.roster \in Rosters /\ Orphans(file.roster) \subseteq Sessions /\ RostersTyped
    BY DEF IInv, RostersTyped, Orphans
  <2>2. cleaned \in Rosters
    BY <2>1, AllUnboundFacts
  <2> HIDE DEF cleaned
  <2>3. [file EXCEPT !.roster = AllUnbound(Orphans(@), @)] = [file EXCEPT !.roster = cleaned]
    BY DEF cleaned
  <2>4. /\ [file EXCEPT !.roster = cleaned] \in [ok : BOOLEAN, roster : Rosters]
        /\ [file EXCEPT !.roster = cleaned].roster = cleaned
    BY <2>1, <2>2, FileFacts
  <2>5. /\ phase' = "up"
        /\ \/ file' = file /\ known' = Invalid
           \/ file' = [file EXCEPT !.roster = cleaned] /\ known' = Loaded(file'.roster)
    BY <2>3 DEF Start
  <2> QED BY <2>1, <2>2, <2>4, <2>5, LoadedFacts, EmptyRosterFacts DEF FreshIsFile, Running
<1>9. KnownOK'
  BY DEF IInv, Free, Running, Start, SlotOK, KnownOK
<1>10. ExpectedOK'
  BY AllUnboundFacts, CleanLaneFacts, EmptyRosterFacts, LoadedFacts DEF IInv, Free, Running,
     History, RosterKinds, Orphans, Start, SessionsTyped, RostersTyped, Live, SlotOK, Expected,
     Unsettled, Tracked, ExpectedOK
<1>11. WasExpected'
  BY DEF IInv, Free, Running, Start, SlotOK, WasExpected
<1>12. ChildExpected'
  BY AllUnboundFacts DEF IInv, History, Orphans, Start, RostersTyped, SlotTyped, SlotOK,
     ChildExpected
<1>13. SlotTyped' /\ MayTyped' /\ PlanOK'
  BY DEF IInv, Rebinds, History, Start, SlotTyped, MayTyped, PlanOK
<1>. QED BY <1>1, <1>2, <1>3, <1>4, <1>5, <1>6, <1>7, <1>8, <1>9, <1>10, <1>11, <1>12, <1>13 DEF IInv

\* A start fails after it has cleaned the roster.
LEMMA StartFailsKeeps ==
  ASSUME IInv, StartFails
  PROVE  IInv'
<1>1. RostersTyped'
  <2> DEFINE cleaned == AllUnbound(Orphans(file.roster), file.roster)
  <2>1. file.roster \in Rosters /\ Orphans(file.roster) \subseteq Sessions /\ RostersTyped
    BY DEF IInv, RostersTyped, Orphans
  <2>2. cleaned \in Rosters
    BY <2>1, AllUnboundFacts
  <2> HIDE DEF cleaned
  <2>3. [file EXCEPT !.roster = AllUnbound(Orphans(@), @)] = [file EXCEPT !.roster = cleaned]
    BY DEF cleaned
  <2>4. /\ [file EXCEPT !.roster = cleaned] \in [ok : BOOLEAN, roster : Rosters]
        /\ [file EXCEPT !.roster = cleaned].roster = cleaned
    BY <2>1, <2>2, FileFacts
  <2>5. file' = [file EXCEPT !.roster = cleaned] /\ known' = known
    BY <2>3 DEF StartFails
  <2> QED BY <2>1, <2>4, <2>5 DEF RostersTyped
<1>2. UnusedUnbound'
  BY AllUnboundFacts DEF IInv, History, Orphans, StartFails, RostersTyped, UnusedUnbound
<1>3. FreshIsFile'
  BY DEF IInv, Running, StartFails, FreshIsFile
<1>4. ExpectedOK'
  BY AllUnboundFacts DEF IInv, Free, Running, History, Orphans, StartFails, SessionsTyped,
     RostersTyped, Live, SlotOK, LaneOK, Expected, Unsettled, Tracked, ExpectedOK
<1>5. ChildExpected'
  BY AllUnboundFacts DEF IInv, History, Orphans, StartFails, RostersTyped, SlotTyped, SlotOK,
     ChildExpected
<1>6. SessionsTyped' /\ LaneTyped' /\ SlotTyped' /\ MayTyped' /\ SlotOK' /\ PlanOK' /\ LaneOK'
      /\ SessionsOK' /\ KnownOK' /\ WasExpected'
  BY DEF IInv, Running, At, Rebinds, History, StartFails, ForksSurvive, SessionsTyped,
     LaneTyped, SlotTyped, MayTyped, Live, SlotOK, PlanOK, LaneOK, SessionsOK, KnownOK,
     Unsettled, Tracked, WasExpected
<1>. QED BY <1>1, <1>2, <1>3, <1>4, <1>5, <1>6 DEF IInv

\* The roster file is damaged.
LEMMA DamageKeeps ==
  ASSUME IInv, Damage
  PROVE  IInv'
<1>1. RostersTyped'
  BY EmptyRosterFacts DEF IInv, Damage, RostersTyped
<1>2. UnusedUnbound'
  BY EmptyRosterFacts DEF IInv, History, Damage, UnusedUnbound
<1>3. FreshIsFile'
  BY DEF IInv, Running, Damage, FreshIsFile
<1>4. ExpectedOK'
  BY EmptyRosterFacts DEF IInv, Rebinds, History, Damage, Live, Expected, Unsettled, Tracked,
     ExpectedOK
<1>5. ChildExpected'
  BY EmptyRosterFacts DEF IInv, History, Damage, ChildExpected
<1>6. SessionsTyped' /\ LaneTyped' /\ SlotTyped' /\ MayTyped' /\ SlotOK' /\ PlanOK' /\ LaneOK'
      /\ SessionsOK' /\ KnownOK' /\ WasExpected'
  BY DEF IInv, Running, At, Rebinds, History, Damage, ForksSurvive, SessionsTyped, LaneTyped,
     SlotTyped, MayTyped, Live, SlotOK, PlanOK, LaneOK, SessionsOK, KnownOK, Unsettled, Tracked,
     WasExpected
<1>. QED BY <1>1, <1>2, <1>3, <1>4, <1>5, <1>6 DEF IInv

-----------------------------------------------------------------------------
(* The results.                                                            *)

\* The invariant holds of the first start, with an empty state file.
LEMMA InitHolds == Init => IInv
<1> SUFFICES ASSUME Init PROVE IInv
  OBVIOUS
<1> DEFINE start == [EmptyRoster EXCEPT !.agents = Agents]
<1>1. start \in Rosters /\ \A s \in Sessions : start.of[s] = None
  BY DEF EmptyRoster, Rosters, Bindings
<1> HIDE DEF start
<1>2. /\ file = [ok |-> TRUE, roster |-> start] /\ known = Loaded(start)
      /\ phase = "up" /\ edits = 0 /\ slot = Free /\ lane = CleanLane
      /\ memory = {} /\ disk = {} /\ used = {} /\ closed = {} /\ forked = {}
      /\ may = [s \in Sessions |-> {None}]
  BY DEF Init, start
<1>3. /\ known \in [ready : BOOLEAN, fresh : BOOLEAN, roster : Rosters]
      /\ known.ready /\ known.fresh /\ known.roster = start
  BY <1>1, <1>2, LoadedFacts
<1>4. /\ slot.kind = "none" /\ slot.step = "none" /\ slot.on = {} /\ slot.child = None
      /\ slot.was = EmptyRoster /\ slot.next = EmptyRoster
  BY <1>2 DEF Free
<1>5. lane.saves = {}
  BY <1>2, CleanLaneFacts
<1>6. SessionsTyped /\ LaneTyped /\ MayTyped
  BY <1>2, <1>5, CleanLaneFacts, MaxEditsAssumption DEF SessionsTyped, LaneTyped, MayTyped
<1>7. RostersTyped /\ SlotTyped
  BY <1>1, <1>2, <1>3, EmptyRosterFacts DEF RostersTyped, SlotTyped, Free, Steps
<1>8. SlotOK /\ PlanOK /\ LaneOK
  BY <1>2, <1>4, <1>5 DEF SlotOK, PlanOK, LaneOK, RosterKinds, Copies, Running
<1>9. SessionsOK /\ UnusedUnbound
  BY <1>1, <1>2, <1>3, <1>4, <1>5, EmptyRosterFacts
     DEF SessionsOK, UnusedUnbound, ForksSurvive, Live, At, Copies
<1>10. FreshIsFile /\ KnownOK
  BY <1>1, <1>2, <1>3, <1>4 DEF FreshIsFile, KnownOK, Running
<1>11. ExpectedOK /\ WasExpected /\ ChildExpected
  BY <1>2, <1>4, <1>5 DEF ExpectedOK, WasExpected, ChildExpected, Tracked, Live, Copies
<1> QED BY <1>6, <1>7, <1>8, <1>9, <1>10, <1>11 DEF IInv

\* And nothing changes it but a step.
LEMMA StutterKeeps ==
  ASSUME IInv, UNCHANGED vars
  PROVE  IInv'
  BY DEF vars, Free, Running, Quiet, At, Rebinds, RosterKinds, Copies, Steps, ForksSurvive,
     SessionsTyped, LaneTyped, RostersTyped, SlotTyped, MayTyped, Live, SlotOK, PlanOK, LaneOK,
     SessionsOK, UnusedUnbound, FreshIsFile, KnownOK, Expected, Unsettled, Tracked, ExpectedOK,
     WasExpected, ChildExpected, IInv

\* Every step of Next keeps the invariant.
THEOREM Invariance == Spec => []IInv
<1>1. Init => IInv
  BY InitHolds
<1>2. IInv /\ [Next]_vars => IInv'
  <2> SUFFICES ASSUME IInv, [Next]_vars PROVE IInv'
    OBVIOUS
  <2>1. CASE \E s \in Sessions : CreateSession(s)
    BY <2>1, CreateSessionKeeps
  <2>2. CASE Edit
    BY <2>2, EditKeeps
  <2>3. CASE SaveStarts
    BY <2>3, SaveStartsKeeps
  <2>4. CASE \E save \in lane.saves, ok \in BOOLEAN : SaveEnds(save, ok)
    BY <2>4, SaveEndsKeeps
  <2>5. CASE \E s \in Sessions, a \in Agents \union {None} : Bind(s, a)
    BY <2>5, BindKeeps
  <2>6. CASE \E a \in Agents : CreateAgent(a)
    BY <2>6, CreateAgentKeeps
  <2>7. CASE \E a \in Agents : UpdateAgent(a)
    BY <2>7, UpdateAgentKeeps
  <2>8. CASE \E a \in Agents : DeleteAgent(a)
    BY <2>8, DeleteAgentKeeps
  <2>9. CASE RosterSaved
    BY <2>9, RosterSavedKeeps
  <2>10. CASE RosterFails
    BY <2>10, RosterFailsKeeps
  <2>11. CASE OperationEnds
    BY <2>11, OperationEndsKeeps
  <2>12. CASE Recover
    BY <2>12, RecoverKeeps
  <2>13. CASE Recovered
    BY <2>13, RecoveredKeeps
  <2>14. CASE RecoveryFails
    BY <2>14, RecoveryFailsKeeps
  <2>15. CASE \E ids \in SUBSET Sessions : RemoveUnbound(ids)
    BY <2>15, RemoveUnboundKeeps
  <2>16. CASE \E ids \in SUBSET Sessions : RemoveBound(ids)
    BY <2>16, RemoveBoundKeeps
  <2>17. CASE Precleared
    BY <2>17, PreclearedKeeps
  <2>18. CASE PreclearFails
    BY <2>18, PreclearFailsKeeps
  <2>19. CASE RemovalCommits
    BY <2>19, RemovalCommitsKeeps
  <2>20. CASE RemovalUndone
    BY <2>20, RemovalUndoneKeeps
  <2>21. CASE BindingsRestored
    BY <2>21, BindingsRestoredKeeps
  <2>22. CASE BindingsLost
    BY <2>22, BindingsLostKeeps
  <2>23. CASE \E kind \in Copies, s \in Sessions, child \in Sessions : Copy(kind, s, child)
    BY <2>23, CopyKeeps
  <2>24. CASE CopyRefused
    BY <2>24, CopyRefusedKeeps
  <2>25. CASE CopyChecked
    BY <2>25, CopyCheckedKeeps
  <2>26. CASE ChildUnbound
    BY <2>26, ChildUnboundKeeps
  <2>27. CASE DuplicateBound
    BY <2>27, DuplicateBoundKeeps
  <2>28. CASE ForkBound
    BY <2>28, ForkBoundKeeps
  <2>29. CASE ForkStarted
    BY <2>29, ForkStartedKeeps
  <2>30. CASE ForkFails
    BY <2>30, ForkFailsKeeps
  <2>31. CASE ForkCommits
    BY <2>31, ForkCommitsKeeps
  <2>32. CASE ForkUndone
    BY <2>32, ForkUndoneKeeps
  <2>33. CASE UndoFlushed
    BY <2>33, UndoFlushedKeeps
  <2>34. CASE Compensated
    BY <2>34, CompensatedKeeps
  <2>35. CASE CompensationFails
    BY <2>35, CompensationFailsKeeps
  <2>36. CASE CompensatedAgain
    BY <2>36, CompensatedAgainKeeps
  <2>37. CASE CompensationLost
    BY <2>37, CompensationLostKeeps
  <2>38. CASE Stop
    BY <2>38, StopKeeps
  <2>39. CASE Exit
    BY <2>39, ExitKeeps
  <2>40. CASE Crash
    BY <2>40, CrashKeeps
  <2>41. CASE Start
    BY <2>41, StartKeeps
  <2>42. CASE StartFails
    BY <2>42, StartFailsKeeps
  <2>43. CASE Damage
    BY <2>43, DamageKeeps
  <2>s. CASE UNCHANGED vars
    BY <2>s, StutterKeeps
  <2> QED
    BY <2>1, <2>2, <2>3, <2>4, <2>5, <2>6, <2>7, <2>8, <2>9, <2>10, <2>11, <2>12, <2>13, <2>14,
       <2>15, <2>16, <2>17, <2>18, <2>19, <2>20, <2>21, <2>22, <2>23, <2>24, <2>25, <2>26,
       <2>27, <2>28, <2>29, <2>30, <2>31, <2>32, <2>33, <2>34, <2>35, <2>36, <2>37, <2>38,
       <2>39, <2>40, <2>41, <2>42, <2>43, <2>s DEF Next, Requests, LaneStep, RosterStep,
       RemovalStep, CopyStep
<1> QED BY <1>1, <1>2, PTL DEF Spec

\* Sessions, rosters, the lane and the open operation have their types; there is
\* never more than one save (AppController.persistLatest).
THEOREM TypeCorrect == Spec => []TypeOK
<1>1. IInv => TypeOK
  <2> SUFFICES ASSUME IInv PROVE TypeOK
    OBVIOUS
  <2> DEFINE Saves == SUBSET SUBSET Sessions
             Used == SUBSET SUBSET used
  <2>1. lane \in [dirty : BOOLEAN, saves : Saves, failed : BOOLEAN] /\ lane.saves \in Used
    BY DEF IInv, LaneTyped
  <2> HIDE DEF Saves, Used
  <2>2. lane \in [dirty : BOOLEAN, saves : Used, failed : BOOLEAN]
    BY <2>1
  <2> USE DEF Used
  <2>3. SessionsTyped /\ RostersTyped /\ SlotTyped /\ MayTyped
    BY DEF IInv
  <2>4. \A save, other \in lane.saves : save = other
    BY DEF IInv, LaneTyped
  <2> QED BY <2>2, <2>3, <2>4
          DEF TypeOK, SessionsTyped, RostersTyped, SlotTyped, MayTyped
<1> QED BY Invariance, <1>1, PTL

\* A session whose closing was reported never comes back, in main or on disk
\* (AppController.closeSession, removeProject).
THEOREM ClosedForGoodAlways == Spec => []ClosedForGood
<1>1. IInv => ClosedForGood
  BY DEF IInv, SessionsOK, Live, ClosedForGood
<1> QED BY Invariance, <1>1, PTL

\* A fork that was reported is on disk until it is removed
\* (AppController.performSessionFork).
THEOREM ForksSurviveAlways == Spec => []ForksSurvive
<1>1. IInv => ForksSurvive
  BY DEF IInv, SessionsOK
<1> QED BY Invariance, <1>1, PTL

\* Sessions keep the agents their users chose, through every undoing and crash
\* (AppController.restoreSessionBindings, compensateSessionBinding).
THEOREM IdentityKeptAlways == Spec => []IdentityKept
<1>1. IInv => IdentityKept
  <2> SUFFICES ASSUME IInv PROVE IdentityKept
    OBVIOUS
  <2>1. Unsettled \subseteq slot.on
    BY DEF Unsettled
  <2>2. Settled \subseteq Tracked
    BY <2>1 DEF Settled, Tracked, Live
  <2> QED BY <2>2 DEF IInv, ExpectedOK, Expected, IdentityKept
<1> QED BY Invariance, <1>1, PTL
=============================================================================
