---------------------------- MODULE SwiftImport ----------------------------
(***************************************************************************)
(* The import of projects and sessions from the Swift application: what   *)
(* SwiftStateMigrationService makes of the property list, the previews    *)
(* that SwiftStateImportBroker keeps, mergeSwiftState, and the            *)
(* transaction of AppController that stops the sessions, brings the merge *)
(* up to date with what happened meanwhile, saves it and shows it.        *)
(***************************************************************************)
EXTENDS Naturals, Sequences, FiniteSets, SequencesExt

CONSTANTS Projects, Folders, Chats, Remote, Previews, MaxPending, MaxEdits

None == "none"

VARIABLES
  source,    \* what the property list holds, validated
  state,     \* of main: the folder of each project, the sessions, the selection, the session last used in each project
  pending,   \* the previews, the oldest first
  unused,    \* the tokens that are not issued yet
  applied,   \* the import under way: step, merged state, what was there when it began
  done,      \* the state is as the last import made it
  edits

vars == <<source, state, pending, unused, applied, done, edits>>

Absent == [project |-> None, acp |-> None, used |-> FALSE]
Has(s, c) == s.sessions[c] # Absent
HasProject(s, p) == s.folder[p] # None
Durable(session) == session.acp # None \/ session.used       \* isDurableSession

-----------------------------------------------------------------------------
(* importFromPlist                                                         *)

\* migrateProjects: the first record of an identity and of a folder counts.
FirstOfBoth(kept, r) == IF \E q \in ToSet(kept) : q.id = r.id \/ q.folder = r.folder THEN kept ELSE Append(kept, r)
MigrateProjects(records) == FoldLeft(FirstOfBoth, <<>>, records)

\* migrateSessions: of a migrated project, the first record of an identity counts.
FirstOfProjects(projects, records) ==
  FoldLeft(LAMBDA kept, r : IF r.project \notin projects \/ (\E q \in ToSet(kept) : q.id = r.id) THEN kept ELSE Append(kept, r),
           <<>>, records)

\* The sessions go by projects, and then as they were recorded.
MigrateSessions(projects, records) ==
  LET kept == FirstOfProjects({p.id : p \in ToSet(projects)}, records) IN
  FoldLeft(LAMBDA out, p : out \o SelectSeq(kept, LAMBDA r : r.project = p.id), <<>>, projects)

\* A selection is kept when it is of what was migrated; the project of the session that is selected stands in for none.
Migrated(raw) ==
  LET projects == MigrateProjects(raw.projects)
      sessions == MigrateSessions(projects, raw.sessions)
      ofChat(c) == {r \in ToSet(sessions) : r.id = c}
      selected == IF raw.project \in {p.id : p \in ToSet(projects)} THEN {raw.project} ELSE {r.project : r \in ofChat(raw.session)}
  IN [projects |-> projects, sessions |-> sessions,
      project |-> IF selected = {} THEN None ELSE CHOOSE p \in selected : TRUE,
      session |-> IF \E r \in ofChat(raw.session) : r.project \in selected THEN raw.session ELSE None,
      last |-> [p \in Projects |-> IF \E r \in ofChat(raw.last[p]) : r.project = p /\ Durable(r) THEN raw.last[p] ELSE None]]

-----------------------------------------------------------------------------
(* mergeSwiftState                                                         *)

\* Mutant: a folder that is there already is added once more under the imported identity.
ProjectFor(s, r) == IF ~HasProject(s, r.id) THEN r.id ELSE None

\* The project that an imported one becomes: that of the same folder, or a new one unless its identity is taken.
TargetProject(s, r) ==
  IF \E p \in Projects : s.folder[p] = r.folder THEN CHOOSE p \in Projects : s.folder[p] = r.folder
  ELSE IF ~HasProject(s, r.id) THEN r.id ELSE None

\* Of every imported project, what it becomes in state s.
TargetOf(s, data, p) ==
  LET records == {r \in ToSet(data.projects) : r.id = p} IN
  IF records = {} THEN None ELSE TargetProject(s, CHOOSE r \in records : TRUE)

WithProjects(s, data) ==
  [s EXCEPT !.folder = [p \in Projects |->
     IF HasProject(s, p) THEN s.folder[p]
     ELSE IF TargetOf(s, data, p) = p THEN (CHOOSE r \in ToSet(data.projects) : r.id = p).folder ELSE None]]

\* Mutant: only the identity of a session is compared.
SameById(s, r) == IF Has(s, r.id) THEN {r.id} ELSE {}

\* The sessions that an imported one is already: by its identity, or else by the session of grok.
SameSession(s, r) ==
  IF Has(s, r.id) THEN {r.id} ELSE {c \in Chats : r.acp # None /\ s.sessions[c].acp = r.acp}

\* m: the merged state and the session that each imported one is in it.
MergeSession(m, r, target) ==
  LET same == SameSession(m.state, r) IN
  IF target = None THEN m
  ELSE IF same = {} THEN
    [state |-> [m.state EXCEPT !.sessions[r.id] = [project |-> target, acp |-> r.acp, used |-> r.used]],
     is |-> [m.is EXCEPT ![r.id] = r.id]]
  ELSE LET c == CHOOSE c \in same : TRUE IN
    IF m.state.sessions[c].project = target THEN [m EXCEPT !.is[r.id] = c] ELSE m

MergeSessions(s, data) ==
  FoldLeft(LAMBDA m, r : MergeSession(m, r, TargetOf(s, data, r.project)),
           [state |-> WithProjects(s, data), is |-> [c \in Chats |-> None]], data.sessions)

\* The selected session is remembered for its project where none is, and then the imported ones, where none is.
LastMerged(s, is, old, data) ==
  LET own == [p \in Projects |-> IF s.last[p] = None /\ s.session # None /\ s.sessions[s.session].project = p
                                     /\ Durable(s.sessions[s.session]) THEN s.session ELSE s.last[p]]
      imported(p) == {is[data.last[q]] : q \in {q \in Projects : TargetOf(old, data, q) = p /\ data.last[q] # None}} \ {None}
      good(p) == {c \in imported(p) : s.sessions[c].project = p /\ Durable(s.sessions[c])}
  IN [p \in Projects |-> IF own[p] = None /\ good(p) # {} THEN CHOOSE c \in good(p) : TRUE ELSE own[p]]

\* A selection that is there stays; the imported one fills a gap.
Selected(s, is, old, data) ==
  LET target == IF data.project = None THEN None ELSE TargetOf(old, data, data.project)
      chosen == IF data.session = None THEN None ELSE is[data.session]
      project == IF s.project # None THEN s.project ELSE target
  IN IF s.session # None \/ chosen = None THEN [s EXCEPT !.project = project]
     ELSE [s EXCEPT !.session = chosen, !.project = s.sessions[chosen].project]

Merge(s, data) ==
  LET m == MergeSessions(s, data) IN
  Selected([m.state EXCEPT !.last = LastMerged(m.state, m.is, s, data)], m.is, s, data)

-----------------------------------------------------------------------------
(* normalizeLayoutState and rebaseMigrationState                           *)

FirstProject(s) == CHOOSE p \in Projects : HasProject(s, p)

\* Sessions without a project, and memories of what is not there or not durable, are dropped; the selected session is of
\* the selected project and is remembered for it; without a selection the first project is taken.
Normalized(s) ==
  LET chats == [c \in Chats |-> IF Has(s, c) /\ HasProject(s, s.sessions[c].project) THEN s.sessions[c] ELSE Absent]
      last == [p \in Projects |-> IF s.last[p] # None /\ chats[s.last[p]].project = p /\ Durable(chats[s.last[p]])
                                  THEN s.last[p] ELSE None]
      chosen == s.session # None /\ chats[s.session] # Absent
      project == IF chosen THEN chats[s.session].project
                 ELSE IF s.project # None /\ HasProject(s, s.project) THEN s.project
                 ELSE IF \E p \in Projects : HasProject(s, p) THEN FirstProject(s) ELSE None
  IN [s EXCEPT !.sessions = chats, !.project = project, !.session = IF chosen THEN s.session ELSE None,
               !.last = IF chosen /\ Durable(chats[s.session]) THEN [last EXCEPT ![project] = s.session] ELSE last]

\* Mutant: the merged state is taken as it was when the import began.
AsMerged(candidate, original, live) == Normalized(candidate)

\* What is there now stays as it is now, the new projects and sessions of the candidate are added, and a selection that
\* has changed meanwhile wins.
Rebased(candidate, original, live) ==
  LET moved == live.project # original.project \/ live.session # original.session IN
  Normalized(
    [folder |-> [p \in Projects |-> IF HasProject(live, p) THEN live.folder[p]
                                    ELSE IF HasProject(original, p) THEN None ELSE candidate.folder[p]],
     sessions |-> [c \in Chats |-> IF Has(live, c) THEN live.sessions[c]
                                   ELSE IF Has(original, c) THEN Absent ELSE candidate.sessions[c]],
     last |-> [p \in Projects |-> IF live.last[p] # None THEN live.last[p] ELSE candidate.last[p]],
     project |-> IF moved THEN live.project ELSE candidate.project,
     session |-> IF moved THEN live.session ELSE candidate.session])

Imported(s) == Rebased(Normalized(Merge(s, source)), s, s)

-----------------------------------------------------------------------------
(* What the property list and main may hold.                               *)

Folder == [id : Projects, folder : Folders]
Chat == [id : Chats, project : Projects, acp : {Remote, None}, used : BOOLEAN]
First == CHOOSE c \in Chats : TRUE
Upto2(S) == {<<>>} \union {<<x>> : x \in S} \union {<<x, y>> : x, y \in S}
NoLast == [p \in Projects |-> None]
Some == CHOOSE p \in Projects : TRUE
PlainChat(r) == ~r.used \/ r.acp = None
Raw == [projects : {q \in Upto2(Folder) : q # <<>> /\ q[1].id = Some},
        sessions : {q \in Upto2({r \in Chat : PlainChat(r)}) : Len(q) = 2 => q[1].id = First /\ q[1].acp = q[2].acp},
        project : {None, Some}, session : {None, First}, last : {NoLast, [p \in Projects |-> First]}]

NoState == [folder |-> NoLast, sessions |-> [c \in Chats |-> Absent], project |-> None, session |-> None, last |-> NoLast]
With(s, p, d, c, acp) ==
  [s EXCEPT !.folder[p] = d, !.project = p, !.sessions[c] = [project |-> p, acp |-> acp, used |-> FALSE], !.session = c]
Starts ==
  {NoState} \union {[NoState EXCEPT !.folder[p] = d, !.project = p] : p \in Projects, d \in Folders}
    \union {With(NoState, p, d, c, acp) : p \in Projects, d \in {CHOOSE d \in Folders : TRUE}, c \in Chats, acp \in {Remote, None}}

Idle == [at |-> "idle", candidate |-> NoState, original |-> NoState, saved |-> NoState]

Init ==
  /\ source \in {Migrated(raw) : raw \in Raw} /\ state \in {Normalized(s) : s \in Starts}
  /\ pending = <<>> /\ unused = Previews
  /\ applied = Idle /\ done = FALSE /\ edits = 0

-----------------------------------------------------------------------------
(* SwiftStateImportBroker                                                  *)

\* preview, whose counts are only shown. The oldest previews make room.
Previewed(t) ==
  /\ t \in unused /\ unused' = unused \ {t}
  /\ pending' = Append(IF Len(pending) >= MaxPending THEN Tail(pending) ELSE pending, t)
  /\ UNCHANGED <<source, state, applied, done, edits>>

\* The user cancels it, its time is over, or the window goes.
Forgotten(t) ==
  /\ t \in ToSet(pending) /\ pending' = SelectSeq(pending, LAMBDA u : u # t)
  /\ UNCHANGED <<source, state, unused, applied, done, edits>>

\* consume, and applyMigrationState up to its first await. A refusal costs the preview too.
Consume(t) ==
  /\ t \in ToSet(pending) /\ pending' = SelectSeq(pending, LAMBDA u : u # t)
  /\ IF applied.at = "idle"
     THEN applied' = [Idle EXCEPT !.at = "stopping", !.candidate = Normalized(Merge(state, source)), !.original = state]
     ELSE UNCHANGED applied
  /\ UNCHANGED <<source, state, unused, done, edits>>

-----------------------------------------------------------------------------
(* performMigrationState                                                   *)

\* The checks of the workspaces and the workers of the sessions have ended.
Stopped ==
  /\ applied.at = "stopping"
  /\ applied' = [applied EXCEPT !.at = "saving", !.saved = Rebased(applied.candidate, applied.original, state)]
  /\ UNCHANGED <<source, state, pending, unused, done, edits>>

Saved ==
  /\ applied.at = "saving" /\ state' = applied.saved /\ applied' = Idle /\ done' = TRUE
  /\ UNCHANGED <<source, pending, unused, edits>>

\* A worker does not stop, or the file cannot be written: the state of main is left as it is.
Fails ==
  /\ applied.at \in {"stopping", "saving"} /\ applied' = Idle
  /\ UNCHANGED <<source, state, pending, unused, done, edits>>

-----------------------------------------------------------------------------
(* What else changes the state.                                            *)

Edit(new) ==
  /\ edits < MaxEdits /\ edits' = edits + 1 /\ state' = new /\ done' = FALSE
  /\ UNCHANGED <<source, pending, unused, applied>>

\* Events of a session: until its worker is stopped.
TurnIsHeard(c) ==
  /\ applied.at \in {"idle", "stopping"} /\ Has(state, c)
  /\ Edit([state EXCEPT !.sessions[c].used = TRUE,
                        !.last = IF state.session = c THEN [@ EXCEPT ![state.sessions[c].project] = c] ELSE @])

\* The user's changes are refused during an import.
Creates(c, p) ==
  /\ applied.at = "idle" /\ ~Has(state, c) /\ HasProject(state, p)
  /\ Edit([state EXCEPT !.sessions[c] = [project |-> p, acp |-> None, used |-> FALSE], !.session = c, !.project = p])

Closes(c) ==
  /\ applied.at = "idle" /\ Has(state, c)
  /\ Edit(Normalized([state EXCEPT !.sessions[c] = Absent]))

Next ==
  \/ \E t \in Previews : Previewed(t) \/ Forgotten(t) \/ Consume(t)
  \/ Stopped \/ Saved \/ Fails
  \/ \E c \in Chats : TurnIsHeard(c) \/ Closes(c) \/ \E p \in Projects : Creates(c, p)

Spec == Init /\ [][Next]_vars

-----------------------------------------------------------------------------
TypeOK ==
  /\ state.folder \in [Projects -> Folders \union {None}]
  /\ \A c \in Chats : Has(state, c) => state.sessions[c] \in [project : Projects, acp : {Remote, None}, used : BOOLEAN]
  /\ applied.at \in {"idle", "stopping", "saving"} /\ Len(pending) <= MaxPending /\ edits \in 0 .. MaxEdits

\* An import adds: what main has stays as it is at that moment, what was heard while the workers stopped included.
KeepsWhatIsThere ==
  applied.at = "saving" /\ applied'.at = "idle" =>
    /\ \A p \in Projects : HasProject(state, p) => state'.folder[p] = state.folder[p]
    /\ \A c \in Chats : Has(state, c) => state'.sessions[c] = state.sessions[c]
    /\ \A p \in Projects : state.last[p] # None => state'.last[p] \in {state.last[p], state'.session}
    /\ state.session # None => state'.session = state.session

\* No folder is two projects, no session of grok is bound twice, and the selection is of what is there.
Sound ==
  /\ \A p, q \in Projects : HasProject(state, p) /\ state.folder[p] = state.folder[q] => p = q
  /\ \A c, d \in Chats : Has(state, c) /\ state.sessions[c].acp # None /\ state.sessions[c].acp = state.sessions[d].acp => c = d
  /\ \A c \in Chats : Has(state, c) => HasProject(state, state.sessions[c].project)
  /\ state.session # None => Has(state, state.session) /\ state.project = state.sessions[state.session].project
  /\ state.project # None => HasProject(state, state.project)
  /\ \A p \in Projects : state.last[p] # None => state.sessions[state.last[p]].project = p

\* To import the same data again adds nothing and changes nothing.
ImportedOnce == done => Imported(state).folder = state.folder /\ Imported(state).sessions = state.sessions
=============================================================================
