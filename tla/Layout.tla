------------------------------- MODULE Layout -------------------------------
(***************************************************************************)
(* Which projects and sessions there are, in which order they are shown,   *)
(* which are pinned, settled and selected, and the undoing of a close or a *)
(* removal that cannot be saved.  A layout is one record with the fields   *)
(* of PersistedState; sessionIds is lists, selectedSessionIdByProject is   *)
(* mapped.                                                                 *)
(***************************************************************************)
EXTENDS Naturals, FiniteSets, SequencesExt

CONSTANTS Projects, Sessions, PinnedProjects, PinnedSessions, SettledSessions,   \* the MAX_ limits of the code
          MaxSteps                                                        \* requests of the user and turns, a bound

VARIABLES state, durable, stamp, working, unread,  \* the layout; sessions with a transcript, their age, their activity
          live, protected,                         \* workers, and those SessionManager may not evict: "selected"
          pending,                                 \* requests that wait for the health of a workspace
          tx, steps                                \* the transaction that closes, removes or duplicates

None == "none"
vars == <<state, durable, stamp, working, unread, live, protected, pending, tx, steps>>
turns == <<durable, stamp, working, unread>>

Idle == [kind |-> "none", id |-> None, phase |-> "", before |-> <<>>, was |-> <<>>, selected |-> <<>>, mapped |-> None]

Has(q, x) == x \in Range(q)
Without(q, gone) == SelectSeq(q, LAMBDA x : x \notin gone)
\* splice at a clamped index.
Spliced(q, i, x) == InsertAt(q, IF i > Len(q) THEN Len(q) + 1 ELSE i, x)
Index(q, x) == CHOOSE i \in DOMAIN q : q[i] = x
Back(q, before, x) == IF Has(before, x) /\ ~Has(q, x) THEN Spliced(q, Index(before, x), x) ELSE q
Selection(st) == <<st.project, st.session>>
Select(st, p, s) == [st EXCEPT !.project = p, !.session = s]

\* normalize and orderedProjects of ProjectOrderPolicy; an id occurs once.
Pins(st) == LET known == SelectSeq(st.pinnedProjects, LAMBDA p : Has(st.projects, p))
            IN  SubSeq(known, 1, IF Len(known) < PinnedProjects THEN Len(known) ELSE PinnedProjects)
Ordinary(st) == Without(st.projects, Range(Pins(st)))
OrderedProjects(st) == Pins(st) \o Ordinary(st)

Swap(q, i, j) == [q EXCEPT ![i] = q[j], ![j] = q[i]]
Adjacent(i, dir) == IF dir = "up" THEN i - 1 ELSE i + 1
\* Mutant: swap in the raw list with its neighbour there.
MovedRaw(st, p, dir) ==
  LET j == Adjacent(Index(st.projects, p), dir)
  IN  IF j \notin DOMAIN st.projects THEN st ELSE [st EXCEPT !.projects = Swap(@, Index(@, p), j)]
\* The layout after move, unchanged at the end of a group.
Moved(st, p, dir) ==
  LET group == IF Has(Pins(st), p) THEN Pins(st) ELSE Ordinary(st)
      i     == Index(group, p)
      j     == Adjacent(i, dir)
  IN  IF j \notin DOMAIN group THEN st
      ELSE IF Has(Pins(st), p) THEN [st EXCEPT !.pinnedProjects = Swap(group, i, j)]
      ELSE [st EXCEPT !.projects = Swap(@, Index(@, p), Index(@, group[j])), !.pinnedProjects = Pins(st)]

MostRecent(q) ==
  IF q = <<>> THEN None
  ELSE q[CHOOSE i \in DOMAIN q : \A j \in DOMAIN q : stamp[q[j]] < stamp[q[i]] \/ (stamp[q[j]] = stamp[q[i]] /\ j <= i)]

\* The session shown when project p is selected.
Preferred(st, p) ==
  LET recent == MostRecent(SelectSeq(st.lists[p], LAMBDA s : s \in durable))
  IN  IF Has(st.sessions, st.mapped[p]) /\ st.mapped[p] \in durable THEN st.mapped[p]
      ELSE IF Has(st.lists[p], st.session) THEN st.session
      ELSE IF recent # None THEN recent ELSE MostRecent(st.lists[p])

Remember(st, s) == IF s \in durable THEN [st EXCEPT !.mapped[st.home[s]] = s] ELSE st
\* updateSessionRecord, for which no transaction has to end: the session that is shown is shown first from now on.
Updated(s, lasting) == IF state.session = s /\ s \in lasting THEN [state EXCEPT !.mapped[state.home[s]] = s] ELSE state

-----------------------------------------------------------------------------
\* A layout as load returns it: two projects, the first with two sessions, the second of which may have no transcript.
TwoProjects == CHOOSE q \in [1..2 -> Projects] : IsInjective(q)
ThreeSessions == CHOOSE q \in [1..3 -> Sessions] : IsInjective(q)
PinnedOf(q) == {r \in BoundedSeq(Range(q), 2) : IsInjective(r)}
Loaded(pinnedProjects, pinnedSessions, settled, session, fresh) ==
  [projects |-> TwoProjects, sessions |-> ThreeSessions, pinnedProjects |-> pinnedProjects, pinnedSessions |-> pinnedSessions,
   settled |-> settled, project |-> TwoProjects[1], session |-> session,
   mapped |-> [p \in Projects |-> IF p = TwoProjects[1] THEN IF session = None THEN ThreeSessions[2] ELSE IF session = fresh THEN ThreeSessions[1] ELSE session ELSE None],
   lists |-> [p \in Projects |-> IF p = TwoProjects[1] THEN SubSeq(ThreeSessions, 1, 2) ELSE IF p = TwoProjects[2] THEN SubSeq(ThreeSessions, 3, 3) ELSE <<>>],
   home |-> [s \in Sessions |-> IF s = ThreeSessions[3] THEN TwoProjects[2] ELSE IF Has(ThreeSessions, s) THEN TwoProjects[1] ELSE None]]

Fresh(s) == CASE s = None -> {None} [] s = ThreeSessions[1] -> {None, ThreeSessions[2]} [] OTHER -> {ThreeSessions[2]}

Init ==
  /\ \E q \in PinnedOf(TwoProjects), r \in PinnedOf(ThreeSessions), s \in {None, ThreeSessions[1], ThreeSessions[2]} :
       \E t \in {<<>>} \cup {<<x>> : x \in Range(ThreeSessions) \ Range(r)} : \E fresh \in Fresh(s) :
         /\ state = Loaded(q, r, t, s, fresh)
         /\ durable = Range(state.sessions) \ {fresh}
  /\ stamp = [s \in Sessions |-> 0]
  /\ working = {} /\ unread = {} /\ live = {} /\ protected = {} /\ pending = {}
  /\ tx = Idle /\ steps = 0

TypeOK ==
  /\ Range(state.projects) \subseteq Projects /\ Range(state.sessions) \subseteq Sessions
  /\ state.project \in Projects \cup {None} /\ state.session \in Sessions \cup {None}
  /\ durable \cup working \cup unread \cup live \cup protected \subseteq Sessions
  /\ pending \subseteq [kind : {"project", "session", "create", "prompt"}, id : Projects \cup Sessions, stale : BOOLEAN]
  /\ tx.kind \in {"none", "close", "remove", "duplicate"} /\ steps \in 0..MaxSteps

-----------------------------------------------------------------------------
NoStateTransaction == tx.kind \notin {"close", "remove"}
\* sessionLifecycleLocks, which a prompt that waits holds too.
Locked(s) == (tx.kind = "duplicate" /\ tx.id = s) \/ \E r \in pending : r.kind = "prompt" /\ r.id = s
Available(s) == NoStateTransaction /\ Has(state.sessions, s) /\ ~Locked(s)
Step == steps < MaxSteps /\ steps' = steps + 1

\* SessionManager.setProtection(.., "selected", ..) for a session that is deselected and one that is selected.
Protect(old, new) == protected' = (protected \ {old}) \cup ({new} \cap live)

MoveProject(p, dir) ==
  /\ Step /\ NoStateTransaction /\ Has(state.projects, p)
  /\ state' = Moved(state, p, dir) /\ state' # state
  /\ UNCHANGED <<turns, live, protected, pending, tx>>

SetProjectPinned(p) ==
  /\ Step /\ NoStateTransaction /\ Has(state.projects, p)
  /\ IF Has(state.pinnedProjects, p)
     THEN state' = [state EXCEPT !.pinnedProjects = Without(@, {p}), !.projects = <<p>> \o Without(@, {p})]
     ELSE Len(state.pinnedProjects) < PinnedProjects /\ state' = [state EXCEPT !.pinnedProjects = <<p>> \o @]
  /\ UNCHANGED <<turns, live, protected, pending, tx>>

SetSessionPinned(s) ==
  /\ Step /\ Available(s)
  /\ state' = IF Has(state.pinnedSessions, s) THEN [state EXCEPT !.pinnedSessions = Without(@, {s})]
              ELSE [state EXCEPT !.settled = Without(@, {s}),
                      !.pinnedSessions = Append(IF Len(@) >= PinnedSessions THEN Tail(@) ELSE @, s)]
  /\ UNCHANGED <<turns, live, protected, pending, tx>>

SetSessionSettled(s) ==
  /\ Step /\ Available(s)
  /\ IF Has(state.settled, s) THEN state' = [state EXCEPT !.settled = Without(@, {s})]
     ELSE /\ s \notin working
          /\ Len(state.settled) < SettledSessions
          /\ state' = [state EXCEPT !.pinnedSessions = Without(@, {s}), !.settled = Append(@, s)]
  /\ UNCHANGED <<turns, live, protected, pending, tx>>

SetSessionUnread(s) ==
  /\ Step /\ Available(s)
  /\ unread' = IF s \in unread \/ state.session = s THEN unread \ {s} ELSE unread \cup {s}
  /\ UNCHANGED <<state, durable, stamp, working, live, protected, pending, tx>>

AddProject(p) ==
  /\ Step /\ NoStateTransaction /\ ~Has(state.projects, p)
  /\ Protect(state.session, None)
  /\ state' = Select([state EXCEPT !.projects = <<p>> \o @], p, None)
  /\ UNCHANGED <<turns, live, pending, tx>>

\* selectProject, selectSession, createSession and sendPrompt first wait for the health of the workspace.
Asks(kind, id) ==
  /\ Step /\ NoStateTransaction
  /\ IF kind \in {"session", "prompt"} THEN Available(id) ELSE Has(state.projects, id)
  /\ pending' = pending \cup {[kind |-> kind, id |-> id, stale |-> FALSE]}
  /\ UNCHANGED <<state, turns, live, protected, tx>>

Refused(r) ==
  /\ pending' = pending \ {r}
  /\ UNCHANGED <<state, turns, live, protected, tx, steps>>

SelectProject(r) ==
  /\ r.kind = "project" /\ ~r.stale /\ NoStateTransaction
  /\ LET next == Preferred(state, r.id)
     IN  IF Has(state.lists[r.id], state.session)
         THEN /\ state' = [state EXCEPT !.project = r.id]
              /\ unread' = unread \ {state.session}
              /\ UNCHANGED protected
         ELSE IF next = None
         THEN /\ Protect(state.session, None)
              /\ state' = Select(state, r.id, None)
              /\ UNCHANGED unread
         ELSE /\ Available(next)
              /\ Protect(state.session, next)
              /\ state' = Remember(Select(state, r.id, next), next)
              /\ unread' = unread \ {next}
  /\ pending' = pending \ {r}
  /\ UNCHANGED <<durable, stamp, working, live, tx, steps>>

SelectSession(r) ==
  /\ r.kind = "session" /\ ~r.stale /\ Available(r.id)
  /\ Protect(state.session, r.id)
  /\ state' = Remember(Select(state, state.home[r.id], r.id), r.id)
  /\ unread' = unread \ {r.id}
  /\ pending' = pending \ {r}
  /\ UNCHANGED <<durable, stamp, working, live, tx, steps>>

CreateSession(r) ==
  /\ r.kind = "create" /\ ~r.stale /\ NoStateTransaction
  /\ \E s \in Sessions : state.home[s] = None
  /\ LET s == CHOOSE s \in Sessions : state.home[s] = None
     IN  /\ state' = [Select(state, r.id, s) EXCEPT !.sessions = Append(@, s), !.lists[r.id] = Append(@, s), !.home[s] = r.id]
         /\ Protect(state.session, None)
  /\ pending' = pending \ {r}
  /\ UNCHANGED <<turns, live, tx, steps>>

\* ensureConnected, of the session shown or of another.
Connected(s) == /\ live' = live \cup {s}
                /\ protected' = IF state.session = s THEN protected \cup {s} ELSE protected
Connects(s) ==
  /\ Step /\ NoStateTransaction /\ Has(state.sessions, s) /\ s \notin live
  /\ Connected(s)
  /\ UNCHANGED <<state, turns, pending, tx>>

\* The worker has bound the session to its id, or reports something else: the session is a durable one.
Bound(s) ==
  /\ s \in live
  /\ durable' = durable \cup {s}
  /\ state' = Updated(s, durable')
  /\ UNCHANGED <<stamp, working, unread, live, protected, pending, tx, steps>>

\* startPrompt: the turn is noted whatever transaction began meanwhile; it has no worker when ensureConnected refuses.
Starts(r) ==
  /\ r.kind = "prompt"
  /\ working' = working \cup {r.id}
  /\ unread' = unread \ {r.id}
  /\ durable' = durable \cup {r.id}
  /\ state' = Updated(r.id, durable')
  /\ stamp' = [stamp EXCEPT ![r.id] = steps + 1]
  /\ pending' = pending \ {r}
  /\ \/ NoStateTransaction /\ Connected(r.id)
     \/ UNCHANGED <<live, protected>>
  /\ UNCHANGED <<tx, steps>>

\* The turn ends, or cancelTurn.
Ended(s, news) ==
  /\ s \in working
  /\ working' = working \ {s}
  /\ stamp' = [stamp EXCEPT ![s] = steps + 1]
  /\ unread' = IF news THEN unread \cup {s} ELSE unread \ {s}
  /\ state' = Updated(s, durable)
  /\ UNCHANGED <<durable, live, protected, pending, tx, steps>>

Finishes(s) == s \in live /\ Ended(s, state.session # s)
CancelsTurn(s) == Available(s) /\ Ended(s, FALSE)

-----------------------------------------------------------------------------
\* The transactions begin with the bindings in the roster file, which is another file and may fail.
Begins(kind, id) ==
  /\ Step /\ tx = Idle
  /\ IF kind = "remove" THEN Has(state.projects, id) /\ \A s \in Range(state.lists[id]) : ~Locked(s) ELSE Available(id)
  /\ tx' = [Idle EXCEPT !.kind = kind, !.id = id, !.phase = "bindings", !.before = state, !.was = <<durable, stamp>>]
  /\ UNCHANGED <<state, turns, live, protected, pending>>

BindingsFail ==
  /\ tx.phase = "bindings"
  /\ tx' = Idle
  /\ UNCHANGED <<state, turns, live, protected, pending, steps>>

\* What is left of layout st without session s.
Closed(st, s) ==
  LET p    == st.home[s]
      left == [st EXCEPT !.sessions = Without(@, {s}), !.lists[p] = Without(@, {s}), !.pinnedSessions = Without(@, {s}),
                         !.settled = Without(@, {s}), !.mapped[p] = IF @ = s THEN None ELSE @, !.home[s] = None]
      next == IF Preferred(left, p) # None THEN Preferred(left, p) ELSE MostRecent(left.sessions)
  IN  IF st.session # s THEN left
      ELSE IF next = None THEN Select(left, p, None) ELSE Remember(Select(left, left.home[next], next), next)

\* What is left of layout st without project p.
Removed(st, p) ==
  LET gone  == Range(st.lists[p])
      left  == [st EXCEPT !.projects = Without(@, {p}), !.sessions = Without(@, gone), !.pinnedProjects = Without(@, {p}),
                          !.pinnedSessions = Without(@, gone), !.settled = Without(@, gone), !.mapped[p] = None,
                          !.lists[p] = <<>>, !.home = [s \in Sessions |-> IF s \in gone THEN None ELSE @[s]]]
      shown == Without(OrderedProjects(st), {p})
      next  == IF shown = <<>> THEN None ELSE Preferred(left, shown[1])
  IN  IF st.project # p /\ st.session \notin gone THEN left
      ELSE IF shown = <<>> THEN Select(left, None, None)
      ELSE IF next = None THEN Select(left, shown[1], None)
      ELSE Remember(Select(left, shown[1], next), next)

Gone == IF tx.kind = "close" THEN {tx.id} ELSE Range(state.lists[tx.id])

Commits ==
  /\ tx.kind \in {"close", "remove"} /\ tx.phase = "bindings"
  /\ state' = IF tx.kind = "close" THEN Closed(state, tx.id) ELSE Removed(state, tx.id)
  /\ live' = live \ Gone
  /\ protected' = IF state'.session # state.session THEN (protected \ Gone) \cup ({state'.session} \cap live') ELSE protected \ Gone
  /\ working' = working \ Gone
  /\ pending' = {[r EXCEPT !.stale = @ \/ (tx.kind = "remove" /\ (r.id = tx.id \/ r.id \in Gone))] : r \in pending}
  /\ tx' = [tx EXCEPT !.phase = "save", !.selected = Selection(state'),
                      !.mapped = IF tx.kind = "close" THEN state'.mapped[state.home[tx.id]] ELSE None]
  /\ UNCHANGED <<durable, stamp, unread, steps>>

Saved ==
  /\ tx.phase = "save"
  /\ unread' = unread \ {s \in Sessions : state.home[s] = None}
  /\ tx' = Idle
  /\ UNCHANGED <<state, durable, stamp, working, live, protected, pending, steps>>

Reselected(st) == IF Selection(st) = tx.selected THEN Select(st, tx.before.project, tx.before.session) ELSE st

\* Mutant: the mapping that the close itself chose is kept.
ReopenedElsewhere(st) ==
  LET s == tx.id
      p == tx.before.home[s]
  IN  Reselected([st EXCEPT !.sessions = Back(@, tx.before.sessions, s), !.lists[p] = Back(@, tx.before.lists[p], s),
                    !.pinnedSessions = Back(@, tx.before.pinnedSessions, s), !.home[s] = p,
                    !.settled = Back(@, tx.before.settled, s)])
\* restoreClosedSession.
Reopened(st) ==
  LET s == tx.id
      p == tx.before.home[s]
      pinned == Back(st.pinnedSessions, tx.before.pinnedSessions, s)
  IN  Reselected([st EXCEPT !.sessions = Back(@, tx.before.sessions, s), !.lists[p] = Back(@, tx.before.lists[p], s),
                    !.pinnedSessions = pinned, !.home[s] = p,
                    !.settled = IF Has(pinned, s) THEN @ ELSE Back(@, tx.before.settled, s),
                    !.mapped[p] = IF @ = tx.mapped THEN tx.before.mapped[p] ELSE @])

\* Mutant: the tracked ids at the end.
RestoreAtEnd(q, original, tracked) == Without(q, tracked) \o SelectSeq(original, LAMBDA x : x \in tracked)
\* restoreTrackedIds: the tracked ids at the places they had.
RestoreTracked(q, original, tracked) ==
  LET f[i \in 0..Len(original)] ==
        IF i = 0 THEN Without(q, tracked)
        ELSE IF original[i] \in tracked /\ ~Has(f[i - 1], original[i]) THEN Spliced(f[i - 1], i, original[i]) ELSE f[i - 1]
  IN  f[Len(original)]

\* restoreRemovedProject.
Readded(st) ==
  LET p == tx.id
      gone == Range(tx.before.lists[p])
      pinned == RestoreTracked(st.pinnedSessions, tx.before.pinnedSessions, gone)
  IN  Reselected([st EXCEPT !.projects = Back(@, tx.before.projects, p), !.lists[p] = tx.before.lists[p],
                    !.sessions = RestoreTracked(@, tx.before.sessions, gone),
                    !.pinnedProjects = RestoreTracked(@, tx.before.pinnedProjects, {p}), !.pinnedSessions = pinned,
                    !.settled = Without(RestoreTracked(@, tx.before.settled, gone), Range(pinned)),
                    !.mapped[p] = IF @ = None THEN tx.before.mapped[p] ELSE @,
                    !.home = [s \in Sessions |-> IF s \in gone THEN p ELSE @[s]]])

SaveFails ==
  /\ tx.phase = "save"
  /\ state' = IF tx.kind = "close" THEN Reopened(state) ELSE Readded(state)
  /\ protected' = IF tx.selected[2] # state'.session THEN (protected \ {tx.selected[2]}) \cup ({state'.session} \cap live)
                  ELSE protected
  /\ LET back == IF tx.kind = "close" THEN {tx.id} ELSE Range(tx.before.lists[tx.id])
     IN  /\ durable' = (durable \ back) \cup (tx.was[1] \cap back)
         /\ stamp' = [s \in Sessions |-> IF s \in back THEN tx.was[2][s] ELSE stamp[s]]
  /\ tx' = [tx EXCEPT !.phase = "undone"]
  /\ UNCHANGED <<working, unread, live, pending, steps>>

\* The bindings are back, or could not be put back, and the worker has stopped.
Released ==
  /\ tx.phase = "undone"
  /\ tx' = Idle
  /\ UNCHANGED <<state, turns, live, protected, pending, steps>>

\* duplicateSession, after the binding of the copy.
Duplicates ==
  /\ tx.kind = "duplicate" /\ tx.phase = "bindings"
  /\ \E s \in Sessions : state.home[s] = None
  /\ LET s == CHOOSE s \in Sessions : state.home[s] = None
         p == state.home[tx.id]
     IN  /\ state' = [Select(state, p, s) EXCEPT !.sessions = InsertAt(@, Index(@, tx.id) + 1, s), !.home[s] = p,
                                                  !.lists[p] = InsertAt(@, Index(@, tx.id) + 1, s)]
         /\ Protect(state.session, None)
  /\ tx' = Idle
  /\ UNCHANGED <<turns, live, pending, steps>>

Next ==
  \/ \E p \in Projects :
       \/ \E dir \in {"up", "down"} : MoveProject(p, dir)
       \/ SetProjectPinned(p) \/ AddProject(p) \/ Asks("project", p) \/ Asks("create", p) \/ Begins("remove", p)
  \/ \E s \in Sessions :
       \/ SetSessionPinned(s) \/ SetSessionSettled(s) \/ SetSessionUnread(s) \/ Asks("session", s)
       \/ Asks("prompt", s) \/ Connects(s) \/ Bound(s) \/ Finishes(s) \/ CancelsTurn(s)
       \/ Begins("close", s) \/ Begins("duplicate", s)
  \/ \E r \in pending : Refused(r) \/ SelectProject(r) \/ SelectSession(r) \/ CreateSession(r) \/ Starts(r)
  \/ BindingsFail \/ Commits \/ Saved \/ SaveFails \/ Released \/ Duplicates

Spec == Init /\ [][Next]_vars

-----------------------------------------------------------------------------
\* What is shown exists, once and in one place: every session is in the list of its project, every id that is pinned,
\* settled, mapped or selected has a record, no session is both pinned and settled, no list is over its limit, and the only
\* worker that is kept because it is shown is the one that is shown.
LayoutIsWhole ==
  /\ \A q \in {state.projects, state.sessions, state.pinnedProjects, state.pinnedSessions, state.settled} : IsInjective(q)
  /\ \A p \in Projects :
       /\ IsInjective(state.lists[p])
       /\ Range(state.lists[p]) = {s \in Range(state.sessions) : state.home[s] = p}
       /\ state.lists[p] # <<>> => Has(state.projects, p)
       /\ state.mapped[p] # None => Has(state.lists[p], state.mapped[p])
  /\ Range(state.pinnedProjects) \subseteq Range(state.projects)
  /\ Range(state.pinnedSessions) \cup Range(state.settled) \subseteq Range(state.sessions)
  /\ Range(state.pinnedSessions) \cap Range(state.settled) = {}
  /\ Len(state.pinnedProjects) <= PinnedProjects /\ Len(state.pinnedSessions) <= PinnedSessions
  /\ state.session # None => Has(state.sessions, state.session) /\ state.project = state.home[state.session]
  /\ state.project # None => Has(state.projects, state.project)
  /\ state.projects # <<>> => state.project # None
  /\ protected = {state.session} \cap live

\* A session that could not be closed and a project that could not be removed are put back where they were, pinned, settled
\* and selected as they were, and so is everything else, except which session another project shows first. Their own project
\* shows first what it did before, unless the session that is shown meanwhile was given something to show while the close was
\* being saved, by a prompt that had waited since before it or by its worker: then that one stays.
UndoneIsAsBefore ==
  tx.phase = "save" /\ tx'.phase = "undone" =>
    LET p == IF tx.kind = "close" THEN tx.before.home[tx.id] ELSE tx.id
    IN  /\ [state' EXCEPT !.mapped = tx.before.mapped] = tx.before
        /\ \A q \in Projects \ {p} : state'.mapped[q] = state.mapped[q]
        /\ \/ state'.mapped[p] = tx.before.mapped[p]
           \/ tx.kind = "close" /\ state.mapped[p] # tx.mapped /\ state'.mapped[p] = state.session /\ state.session \in durable

\* A move changes places with the neighbour that is shown next to the project, and nothing else of what is shown.
MovesByOneStep ==
  \A p \in Projects, dir \in {"up", "down"} :
    MoveProject(p, dir) => LET shown == OrderedProjects(state)
                               i == Index(shown, p)
                           IN  OrderedProjects(state') = Swap(shown, i, Adjacent(i, dir))
=============================================================================
