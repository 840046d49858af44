----------------------------- MODULE Workspaces -----------------------------
(***************************************************************************)
(* The health of the workspaces, the workers that may run in them, the     *)
(* answers of the dashboard about the one that is selected, and the change *)
(* of the memory setting, for which every worker is started again.  Each   *)
(* workspace has one session; a project is the object that state holds for *)
(* it, 0 when there is none.                                               *)
(***************************************************************************)
EXTENDS Naturals, FiniteSets

CONSTANTS Workspaces,
          MaxChanges, MaxRequests   \* bounds: changes made outside, requests of the user

VARIABLES disk,       \* what is at the path: a kind, and the inode when it is a directory
          project,    \* workspace -> the number of its object
          selected, imports,
          health,     \* workspaceHealthStates
          checks,     \* workspaceHealthChecks that have not ended
          sweep,      \* refreshAllWorkspaceHealth: what it has read so far
          dash,       \* the dashboard's request
          worker, setting,           \* per workspace: its worker, and the memory setting it was started with
          status,     \* what its session does; "unserved" is a session shown as running whose prompt no worker was given
          asks,       \* requests that wait for a check of their workspace
          memory,     \* the setting, and the step of its change
          changes, requests

vars == <<disk, project, selected, imports, health, checks, sweep, dash, worker, status, setting, asks, memory, changes, requests>>
sessions == <<worker, status, setting, asks>>

Kinds == {"directory", "unreadable", "file", "link", "missing"}
States == {"ready", "unreadable", "not-directory", "changed", "missing"}
NoDash == [step |-> "", of |-> "", object |-> 0, imports |-> 0, health |-> "", first |-> 0, read |-> 0, second |-> 0]

\* inspectPath: lstat alone, and lstat, realpath, stat and access.
Lstat(kind) == CASE kind = "link" -> "changed" [] kind = "file" -> "not-directory" [] kind = "missing" -> "missing" [] OTHER -> ""
Inspected(kind) == IF Lstat(kind) # "" THEN Lstat(kind) ELSE IF kind = "unreadable" THEN "unreadable" ELSE "ready"
\* WorkspaceHealthService.identity: the inode of a directory, 0 of anything else.
Directory(kind) == kind \in {"directory", "unreadable"}
Identity(w) == IF Directory(disk[w].kind) THEN disk[w].inode ELSE 0

Init ==
  /\ disk \in [Workspaces -> [kind : {"directory", "missing"}, inode : {1}]]
  /\ project = [w \in Workspaces |-> 1]
  /\ selected \in Workspaces
  /\ imports = 0
  /\ health = [w \in Workspaces |-> Inspected(disk[w].kind)]
  /\ checks = {} /\ sweep = <<>> /\ dash = NoDash
  /\ worker = [w \in Workspaces |-> "none"] /\ status = [w \in Workspaces |-> "idle"]
  /\ setting = [w \in Workspaces |-> FALSE] /\ asks = [w \in Workspaces |-> ""]
  /\ memory = [on |-> FALSE, step |-> "", left |-> {}]
  /\ changes = 0 /\ requests = 0

TypeOK ==
  /\ disk \in [Workspaces -> [kind : Kinds, inode : 1..(1 + MaxChanges)]]
  /\ project \in [Workspaces -> Nat] /\ selected \in Workspaces /\ imports \in 0..1
  /\ health \in [Workspaces -> States \cup {""}]
  /\ checks \subseteq [of : Workspaces, object : Nat, step : {"lstat", "access", "result", "stopping"}, result : States \cup {""}]
  /\ worker \in [Workspaces -> {"none", "starting", "live", "stopping"}]
  /\ status \in [Workspaces -> {"idle", "working", "unserved"}] /\ setting \in [Workspaces -> BOOLEAN]
  /\ asks \in [Workspaces -> {"", "waits", "ready"}]
  /\ memory \in [on : BOOLEAN, step : {"", "save", "stop", "start"}, left : SUBSET Workspaces]

-----------------------------------------------------------------------------
\* assertNoStateTransaction: neither an import nor a change of the memory setting is under way.
NoStateTransaction == sweep = <<>> /\ memory.step = ""
Request == requests < MaxRequests /\ requests' = requests + 1

\* The user moves, replaces or protects a directory; one that is gone does not come back, another takes its place.
Outside(w, kind) ==
  /\ changes < MaxChanges /\ kind # disk[w].kind
  /\ changes' = changes + 1
  /\ disk' = [disk EXCEPT ![w] = [kind |-> kind, inode |-> IF Directory(kind) /\ ~Directory(@.kind) THEN @.inode + 1 ELSE @.inode]]
  /\ UNCHANGED <<project, selected, imports, health, checks, sweep, dash, sessions, memory, requests>>

Replaced(w) ==
  /\ changes < MaxChanges /\ disk[w].kind = "directory"
  /\ changes' = changes + 1
  /\ disk' = [disk EXCEPT ![w].inode = @ + 1]
  /\ UNCHANGED <<project, selected, imports, health, checks, sweep, dash, sessions, memory, requests>>

\* selectProject and selectSession, when their own check has ended.
Selects(w) ==
  /\ Request /\ NoStateTransaction /\ project[w] > 0 /\ w # selected
  /\ selected' = w
  /\ UNCHANGED <<disk, project, imports, health, checks, sweep, dash, sessions, memory, changes>>

\* A removal that could not be saved: the project is back as another object, its worker stops, its session is quiesced.
RemovalUndone(w) ==
  /\ Request /\ NoStateTransaction /\ asks[w] = ""
  /\ project' = [project EXCEPT ![w] = @ + 1]
  /\ worker' = [worker EXCEPT ![w] = IF @ = "none" THEN @ ELSE "stopping"]
  /\ status' = [status EXCEPT ![w] = "idle"]
  /\ UNCHANGED <<disk, selected, imports, health, checks, sweep, dash, setting, asks, memory, changes>>

\* refreshProjectHealth: joins the check of the same object, or begins one.
CheckOf(w) == [of |-> w, object |-> project[w], step |-> "lstat", result |-> ""]
Joined(w) == IF \E c \in checks : c.of = w /\ c.object = project[w] THEN checks ELSE checks \cup {CheckOf(w)}

\* addProject of a directory that has a project: it is ready at once, and selectProject begins its check.
AddsAgain(w) ==
  /\ Request /\ NoStateTransaction /\ project[w] > 0 /\ Directory(disk[w].kind)
  /\ health' = [health EXCEPT ![w] = "ready"]
  /\ checks' = Joined(w)
  /\ UNCHANGED <<disk, project, selected, imports, sweep, dash, sessions, memory, changes>>

CheckLstats(c) ==
  /\ c.step = "lstat"
  /\ LET r == Lstat(disk[c.of].kind)
     IN  checks' = (checks \ {c}) \cup {[c EXCEPT !.step = IF r = "" THEN "access" ELSE "result", !.result = r]}
  /\ UNCHANGED <<disk, project, selected, imports, health, sweep, dash, sessions, memory, changes, requests>>

CheckAccesses(c) ==
  /\ c.step = "access"
  /\ checks' = (checks \ {c}) \cup {[c EXCEPT !.step = "result", !.result = Inspected(disk[c.of].kind)]}
  /\ UNCHANGED <<disk, project, selected, imports, health, sweep, dash, sessions, memory, changes, requests>>

Current(c) == project[c.of] = c.object

\* The requests that waited for check c go on: refreshStableProject and refreshStableSession.
Answered(c, result) ==
  /\ asks' = IF asks[c.of] = "waits" THEN [asks EXCEPT ![c.of] = IF Current(c) /\ result = "ready" THEN "ready" ELSE ""] ELSE asks
  /\ dash' = IF dash.step = "health" /\ dash.of = c.of /\ dash.object = c.object THEN [dash EXCEPT !.health = result] ELSE dash

\* Mutant: the state is kept, the workers run on.
CheckOnlyKeeps(c) ==
  /\ c.step = "result"
  /\ health' = IF Current(c) THEN [health EXCEPT ![c.of] = c.result] ELSE health
  /\ checks' = checks \ {c}
  /\ Answered(c, IF Current(c) THEN c.result ELSE "unreadable")
  /\ UNCHANGED <<disk, project, selected, imports, sweep, worker, status, setting, memory, changes, requests>>

CheckEnds(c) ==
  /\ c.step = "result"
  /\ IF Current(c) /\ c.result # "ready"
     THEN /\ health' = [health EXCEPT ![c.of] = c.result]
          /\ worker' = [worker EXCEPT ![c.of] = IF @ = "none" THEN @ ELSE "stopping"]
          /\ checks' = (checks \ {c}) \cup {[c EXCEPT !.step = "stopping"]}
          /\ UNCHANGED <<asks, dash>>
     ELSE /\ health' = IF Current(c) THEN [health EXCEPT ![c.of] = "ready"] ELSE health
          /\ checks' = checks \ {c}
          /\ Answered(c, IF Current(c) THEN "ready" ELSE "unreadable")
          /\ UNCHANGED worker
  /\ UNCHANGED <<disk, project, selected, imports, sweep, status, setting, memory, changes, requests>>

\* stopProjectSessions ends: the sessions are quiesced.
CheckStopped(c) ==
  /\ c.step = "stopping" /\ worker[c.of] # "stopping"
  /\ status' = [status EXCEPT ![c.of] = "idle"]
  /\ checks' = checks \ {c}
  /\ Answered(c, c.result)
  /\ UNCHANGED <<disk, project, selected, imports, health, sweep, worker, setting, memory, changes, requests>>

WorkerStopped(w) ==
  /\ worker[w] = "stopping"
  /\ worker' = [worker EXCEPT ![w] = "none"]
  /\ UNCHANGED <<disk, project, selected, imports, health, checks, sweep, dash, status, setting, asks, memory, changes, requests>>

-----------------------------------------------------------------------------
\* sendPrompt: waits for the health, then reads its attachments, then starts the turn.
Asks(w) ==
  /\ Request /\ NoStateTransaction /\ project[w] > 0 /\ asks[w] = ""
  /\ asks' = [asks EXCEPT ![w] = "waits"]
  /\ checks' = Joined(w)
  /\ UNCHANGED <<disk, project, selected, imports, health, sweep, dash, worker, status, setting, memory, changes>>

\* startPrompt shows the session as running, and then ensureConnected refuses a workspace that is not ready any more, or
\* any prompt while the close of another session is being saved.
StartsPrompt(w) ==
  /\ asks[w] = "ready"
  /\ asks' = [asks EXCEPT ![w] = ""]
  /\ \/ /\ health[w] = "ready" /\ NoStateTransaction
        /\ status' = [status EXCEPT ![w] = "working"]
        /\ worker' = [worker EXCEPT ![w] = IF @ \in {"starting", "live"} THEN @ ELSE "starting"]
        /\ setting' = [setting EXCEPT ![w] = IF worker[w] \in {"starting", "live"} THEN @ ELSE memory.on]
     \/ /\ status' = [status EXCEPT ![w] = IF worker[w] \in {"starting", "live"} /\ @ = "working" THEN @ ELSE "unserved"]
        /\ UNCHANGED <<worker, setting>>
  /\ UNCHANGED <<disk, project, selected, imports, health, checks, sweep, dash, memory, changes, requests>>

WorkerStarted(w) ==
  /\ worker[w] = "starting"
  /\ worker' = [worker EXCEPT ![w] = "live"]
  /\ UNCHANGED <<disk, project, selected, imports, health, checks, sweep, dash, status, setting, asks, memory, changes, requests>>

TurnEnds(w) ==
  /\ worker[w] = "live" /\ status[w] = "working"
  /\ status' = [status EXCEPT ![w] = "idle"]
  /\ UNCHANGED <<disk, project, selected, imports, health, checks, sweep, dash, worker, setting, asks, memory, changes, requests>>

\* cancelTurn.
CancelsTurn(w) ==
  /\ NoStateTransaction /\ asks[w] = "" /\ status[w] # "idle"
  /\ status' = [status EXCEPT ![w] = "idle"]
  /\ UNCHANGED <<disk, project, selected, imports, health, checks, sweep, dash, worker, setting, asks, memory, changes, requests>>

-----------------------------------------------------------------------------
\* An import, which replaces the state and every project, and then inspects all the workspaces.
Quiet == checks = {} /\ \A w \in Workspaces : asks[w] = "" /\ status[w] = "idle" /\ worker[w] \notin {"starting", "stopping"}

Imported(w) ==
  /\ Request /\ NoStateTransaction /\ Quiet /\ imports = 0
  /\ imports' = 1
  /\ project' = [x \in Workspaces |-> project[x] + 1]
  /\ selected' = w
  /\ worker' = [x \in Workspaces |-> "none"]
  /\ sweep' = <<[x \in Workspaces |-> ""]>>
  /\ UNCHANGED <<disk, health, checks, dash, status, setting, asks, memory, changes>>

SweepLooks(w) ==
  /\ sweep # <<>> /\ sweep[1][w] = ""
  /\ sweep' = <<[sweep[1] EXCEPT ![w] = Inspected(disk[w].kind)]>>
  /\ UNCHANGED <<disk, project, selected, imports, health, checks, dash, sessions, memory, changes, requests>>

SweepEnds ==
  /\ sweep # <<>> /\ \A w \in Workspaces : sweep[1][w] # ""
  /\ health' = sweep[1]
  /\ sweep' = <<>>
  /\ UNCHANGED <<disk, project, selected, imports, checks, dash, sessions, memory, changes, requests>>

-----------------------------------------------------------------------------
\* performMemorySettingsUpdate: saved, then every live worker is stopped and started again.
MemoryBegins ==
  /\ Request /\ NoStateTransaction /\ Quiet /\ dash = NoDash
  /\ memory' = [memory EXCEPT !.step = "save", !.left = {w \in Workspaces : worker[w] # "none" \/ w = selected}]
  /\ UNCHANGED <<disk, project, selected, imports, health, checks, sweep, dash, sessions, changes>>

\* Mutant: only the worker of the selected session is started again.
MemorySavedSelected(good) ==
  /\ memory.step = "save"
  /\ memory' = IF good THEN [memory EXCEPT !.on = ~@, !.step = "stop", !.left = {selected}]
               ELSE [memory EXCEPT !.step = "", !.left = {}]
  /\ worker' = [w \in Workspaces |-> IF good /\ w = selected /\ worker[w] # "none" THEN "stopping" ELSE worker[w]]
  /\ UNCHANGED <<disk, project, selected, imports, health, checks, sweep, dash, status, setting, asks, changes, requests>>

MemorySaved(good) ==
  /\ memory.step = "save"
  /\ IF good
     THEN /\ memory' = [memory EXCEPT !.on = ~@, !.step = "stop"]
          /\ worker' = [w \in Workspaces |-> IF w \in memory.left /\ worker[w] # "none" THEN "stopping" ELSE worker[w]]
     ELSE memory' = [memory EXCEPT !.step = "", !.left = {}] /\ UNCHANGED worker
  /\ UNCHANGED <<disk, project, selected, imports, health, checks, sweep, dash, status, setting, asks, changes, requests>>

\* The workers of ready workspaces start with the new setting; one that cannot start stays stopped.
MemoryRestarts ==
  /\ memory.step = "stop" /\ \A w \in memory.left : worker[w] = "none"
  /\ LET again == {w \in memory.left : health[w] = "ready"}
     IN  /\ worker' = [w \in Workspaces |-> IF w \in again THEN "starting" ELSE worker[w]]
         /\ setting' = [w \in Workspaces |-> IF w \in again THEN memory.on ELSE setting[w]]
  /\ memory' = [memory EXCEPT !.step = "start"]
  /\ UNCHANGED <<disk, project, selected, imports, health, checks, sweep, dash, status, asks, changes, requests>>

RestartFails(w) ==
  /\ memory.step = "start" /\ w \in memory.left /\ worker[w] = "starting"
  /\ worker' = [worker EXCEPT ![w] = "stopping"]
  /\ UNCHANGED <<disk, project, selected, imports, health, checks, sweep, dash, status, setting, asks, memory, changes, requests>>

MemoryEnds ==
  /\ memory.step = "start" /\ \A w \in memory.left : worker[w] \in {"none", "live"}
  /\ memory' = [memory EXCEPT !.step = "", !.left = {}]
  /\ UNCHANGED <<disk, project, selected, imports, health, checks, sweep, dash, sessions, changes, requests>>

-----------------------------------------------------------------------------
\* inspectDashboardGit; stop does not wait for it, but an update and a change of the memory setting do.
DashBegins ==
  /\ Request /\ NoStateTransaction /\ dash = NoDash /\ project[selected] > 0
  /\ dash' = [NoDash EXCEPT !.step = "health", !.of = selected, !.object = project[selected], !.imports = imports]
  /\ checks' = Joined(selected)
  /\ UNCHANGED <<disk, project, selected, imports, health, sweep, sessions, memory, changes>>

\* assertStableDashboardSelection.
Stable == imports = dash.imports /\ selected = dash.of /\ project[selected] = dash.object

DashGoesOn(step, good, read) ==
  /\ dash.step = step
  /\ dash' = IF good /\ Stable THEN read ELSE NoDash
  /\ UNCHANGED <<disk, project, selected, imports, health, checks, sweep, sessions, memory, changes, requests>>

DashHealthy == dash.health # "" /\ DashGoesOn("health", dash.health = "ready", [dash EXCEPT !.step = "lstat"])

DashReads(step, next, field, value) ==
  /\ dash.step = step
  /\ dash' = [dash EXCEPT !.step = next, ![field] = value]
  /\ UNCHANGED <<disk, project, selected, imports, health, checks, sweep, sessions, memory, changes, requests>>

DashIdentifies == DashReads("lstat", "identified", "first", Identity(dash.of))
DashToGit == DashGoesOn("identified", dash.first # 0, [dash EXCEPT !.step = "git"])
DashGit == DashReads("git", "inspected", "read", Identity(dash.of))
DashIdentifiesAgain == DashReads("inspected", "again", "second", Identity(dash.of))
\* Mutant: the identity is read once, before git runs.
DashAnswersAnyway == DashGoesOn("again", TRUE, [dash EXCEPT !.step = "answered"])
DashAnswers == DashGoesOn("again", dash.first = dash.second, [dash EXCEPT !.step = "answered"])
DashTaken ==
  /\ dash.step = "answered"
  /\ dash' = NoDash
  /\ UNCHANGED <<disk, project, selected, imports, health, checks, sweep, sessions, memory, changes, requests>>

Next ==
  \/ \E w \in Workspaces : \/ \E kind \in Kinds : Outside(w, kind)
                           \/ Replaced(w) \/ Selects(w) \/ RemovalUndone(w) \/ WorkerStopped(w) \/ Asks(w) \/ StartsPrompt(w)
                           \/ AddsAgain(w) \/ WorkerStarted(w) \/ TurnEnds(w) \/ CancelsTurn(w) \/ Imported(w) \/ SweepLooks(w) \/ RestartFails(w)
  \/ \E c \in checks : CheckLstats(c) \/ CheckAccesses(c) \/ CheckEnds(c) \/ CheckStopped(c)
  \/ SweepEnds \/ MemoryBegins \/ \E good \in BOOLEAN : MemorySaved(good)
  \/ MemoryRestarts \/ MemoryEnds
  \/ DashBegins \/ DashHealthy \/ DashIdentifies \/ DashToGit \/ DashGit \/ DashIdentifiesAgain \/ DashAnswers \/ DashTaken

Spec == Init /\ [][Next]_vars

-----------------------------------------------------------------------------
\* No worker runs, and no session works, in a workspace that was last found to be unusable, once its workers have been
\* stopped: a session is shown as running there only when its prompt was refused after that, and no worker was given it.
\* And outside a change of the memory setting every worker was started with the setting there is.
OnlyUsableWorkspaces ==
  /\ \A w \in Workspaces : health[w] # "ready" /\ (\A c \in checks : c.of = w => c.step # "stopping") =>
       worker[w] \notin {"starting", "live"} /\ status[w] # "working"
  /\ memory.step = "" => \A w \in Workspaces : worker[w] \in {"starting", "live"} => setting[w] = memory.on

\* The answer of the dashboard is given for the project that is selected then, and git ran in the directory that was there
\* before and after.
AnswersOfSelected ==
  dash.step # "answered" /\ dash'.step = "answered" =>
    selected = dash.of /\ project[selected] = dash.object /\ dash.read = dash.first
=============================================================================
