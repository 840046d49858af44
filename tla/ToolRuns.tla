------------------------------ MODULE ToolRuns ------------------------------
(***************************************************************************)
(* The child processes that main runs for an answer: git, the grok CLI,    *)
(* plutil and open.  Each run is bounded in time and in output; what of    *)
(* its tree holds the pipes may outlive it.  Around the runs, what each    *)
(* operation asks for: git's probe and the reads that follow it together,  *)
(* plutil's layout and messages, the variants of an application.           *)
(***************************************************************************)
EXTENDS Naturals, Sequences, SequencesExt

CONSTANTS OutputMax,      \* records of output that a run keeps
          HelpersUpTo    \* the last run whose process leaves a descendant with its pipes

None == "none"
Runs == 1 .. 3

VARIABLES
  tool,      \* the operation
  status,    \* the entries that git status has to print
  stat,      \* the entries that git diff --numstat has to print
  run,       \* the bounded runner of each run
  process,   \* its child, and what it has written
  intact,    \* the workspace is the one that was checked first
  answer     \* of the operation

vars == <<tool, status, stat, run, process, intact, answer>>

-----------------------------------------------------------------------------
(* parsePorcelainStatus and parseNumstat                                   *)

\* A renamed file has a second record, its old name, which may look like an entry.
Printed(entries) == FlattenSeq([i \in 1 .. Len(entries) |-> IF entries[i] = "R " THEN <<"R ", "??">> ELSE <<entries[i]>>])

NoCounts == [ok |-> TRUE, skip |-> 0, total |-> 0, staged |-> 0, unstaged |-> 0, untracked |-> 0, conflicted |-> 0]
One(condition) == IF condition THEN 1 ELSE 0
Plain(x) == x \notin {"??", "UU"}

CountEntry(acc, x) ==
  IF acc.skip > 0 THEN [acc EXCEPT !.skip = @ - 1]
  ELSE [acc EXCEPT !.total = @ + 1, !.skip = One(x = "R "), !.untracked = @ + One(x = "??"), !.conflicted = @ + One(x = "UU"),
                   !.staged = @ + One(x \in {"M ", "MM", "R "}), !.unstaged = @ + One(x \in {" M", "MM"})]

\* Mutant: the old name of a renamed file is read as an entry.
CountEveryRecord(acc, x) == [CountEntry([acc EXCEPT !.skip = 0], x) EXCEPT !.skip = 0]

\* One record of git status: an entry, or the old name that belongs to the one before.
Counted(acc, x) == CountEntry(acc, x)
ParsePorcelainStatus(records) == FoldLeft(Counted, NoCounts, records)

\* A moved file has an empty name and then its old and its new one.
PrintedStat(entries) == FlattenSeq([i \in 1 .. Len(entries) |-> IF entries[i] = "moved" THEN <<"moved", "plain", "binary">> ELSE <<entries[i]>>])
NoStat == [skip |-> 0, files |-> 0, lines |-> 0, binary |-> 0]
CountedStat(acc, x) ==
  IF acc.skip > 0 THEN [acc EXCEPT !.skip = @ - 1]
  ELSE [acc EXCEPT !.files = @ + 1, !.skip = IF x = "moved" THEN 2 ELSE 0,
                   !.binary = @ + One(x = "binary"), !.lines = @ + One(x # "binary")]
ParseNumstat(records) == FoldLeft(CountedStat, NoStat, records)

-----------------------------------------------------------------------------
(* The operations                                                          *)

Failed(r) == r.at = "done" /\ r.result # "ok"
Allowed == IF tool = "doctor" THEN {0, 1} ELSE {0}
Good(r) == r.at = "done" /\ r.result = "ok" /\ r.code \in Allowed
Bad(r) == r.at = "done" /\ ~Good(r)

\* What the operation answers once its runs are as rs; it has not answered before.
Answer(rs) ==
  CASE tool = "git" ->
         IF \E r \in Runs : Bad(rs[r]) \/ (r # 1 /\ Good(rs[r]) /\ (IF r = 2 THEN ParsePorcelainStatus(rs[2].taken).skip ELSE ParseNumstat(rs[3].taken).skip) > 0)
         THEN "error" ELSE IF \A r \in Runs : Good(rs[r]) THEN "ok" ELSE None
    [] tool \in {"cli", "doctor"} -> IF Bad(rs[1]) THEN "error" ELSE IF Good(rs[1]) THEN "ok" ELSE None
    [] tool = "plutil" ->
         IF Bad(rs[1]) \/ Failed(rs[2]) THEN "error"
         ELSE IF Good(rs[2]) THEN "ok" ELSE IF rs[2].at = "done" THEN "partial" ELSE None
    [] tool = "open" ->
         IF \E r \in {1, 2} : Failed(rs[r]) THEN "error"
         ELSE IF \E r \in {1, 2} : Good(rs[r]) THEN "ok" ELSE IF Bad(rs[2]) THEN "error" ELSE None

\* The runs that the operation may begin now.
Begins ==
  {r \in Runs : run[r].at = "idle" /\ answer = None
     /\ CASE tool = "git" -> r = 1 \/ Good(run[1])
          [] tool \in {"cli", "doctor"} -> r = 1
          [] tool = "plutil" -> r = 1 \/ (r = 2 /\ Good(run[1]))
          [] tool = "open" -> r = 1 \/ (r = 2 /\ run[1].at = "done")}

Settles(r, new) ==
  /\ run' = [run EXCEPT ![r] = new]
  /\ answer' = IF answer = None THEN Answer([run EXCEPT ![r] = new]) ELSE answer

-----------------------------------------------------------------------------
(* The runner                                                              *)

IdleRun == [at |-> "idle", reason |-> None, killed |-> FALSE, taken |-> <<>>, result |-> None, code |-> 0]
NoProcess == [up |-> FALSE, helper |-> FALSE, hit |-> FALSE, out |-> <<>>, pipe |-> <<>>, wrote |-> <<>>, code |-> 0]

Output(r) == IF tool = "open" THEN <<>> ELSE IF tool # "git" \/ r = 1 THEN <<"M ">> ELSE IF r = 2 THEN Printed(status) ELSE PrintedStat(stat)

\* The workspace has been replaced: open is not run; nor is a tool that cannot be spawned.
StartFails(r) ==
  /\ r \in Begins
  /\ Settles(r, [IdleRun EXCEPT !.at = "done", !.result = "spawn"])
  /\ UNCHANGED <<tool, status, stat, process, intact>>

Start(r) ==
  /\ r \in Begins /\ (tool = "open" => intact)
  /\ run' = [run EXCEPT ![r].at = "running"]
  /\ \E helper \in IF r > HelpersUpTo THEN {FALSE} ELSE BOOLEAN :
       process' = [process EXCEPT ![r] = [NoProcess EXCEPT !.up = TRUE, !.out = Output(r), !.helper = helper]]
  /\ UNCHANGED <<tool, status, stat, intact, answer>>

Live(r) == run[r].at = "running" /\ run[r].reason = None

\* beginTermination: SIGTERM to the tree, or, of plutil and open, to the process.
Terminating(r, reason) == [run EXCEPT ![r].reason = reason]
Hit(r) == [process EXCEPT ![r].hit = TRUE]

TimesOut(r) ==
  /\ Live(r) /\ run' = Terminating(r, "timeout") /\ process' = Hit(r)
  /\ UNCHANGED <<tool, status, stat, intact, answer>>

\* Mutant: output beyond the limit is cut off.
HearsUpToLimit(r) ==
  /\ run[r].at = "running" /\ process[r].pipe # <<>> /\ process' = [process EXCEPT ![r].pipe = Tail(@)]
  /\ run' = IF Live(r) /\ Len(run[r].taken) < OutputMax THEN [run EXCEPT ![r].taken = Append(@, Head(process[r].pipe))] ELSE run
  /\ UNCHANGED <<tool, status, stat, intact, answer>>

\* capture
Hears(r) ==
  /\ run[r].at = "running" /\ process[r].pipe # <<>>
  /\ LET heard == [process EXCEPT ![r].pipe = Tail(@)] IN
     IF ~Live(r) THEN run' = run /\ process' = heard
     ELSE IF Len(run[r].taken) >= OutputMax
     THEN run' = Terminating(r, "output-limit") /\ process' = [heard EXCEPT ![r].hit = TRUE]
     ELSE run' = [run EXCEPT ![r].taken = Append(@, Head(process[r].pipe))] /\ process' = heard
  /\ UNCHANGED <<tool, status, stat, intact, answer>>

KillTimer(r) ==
  /\ run[r].at = "running" /\ run[r].reason # None /\ ~run[r].killed
  /\ run' = [run EXCEPT ![r].killed = TRUE]
  /\ UNCHANGED <<tool, status, stat, process, intact, answer>>

Fails(r) == Settles(r, [run[r] EXCEPT !.at = "done", !.result = run[r].reason])

\* Mutant: the last timer is armed with the grace of the kill.
FailSafeEarly(r) ==
  /\ run[r].at = "running" /\ run[r].reason # None /\ Fails(r)
  /\ UNCHANGED <<tool, status, stat, process, intact>>

\* The last timer, which comes after the kill: what holds the pipes is not waited for.
FailSafe(r) ==
  /\ run[r].at = "running" /\ run[r].killed /\ Fails(r)
  /\ UNCHANGED <<tool, status, stat, process, intact>>

\* The process is gone, but not yet what it wrote.
Ended(r) == ~process[r].up

\* Mutant: the run settles on the exit of the process.
ClosedOnExit(r) == Ended(r)

\* The pipes are closed and read to their end; open has none.
Closed(r) == Ended(r) /\ (tool = "open" \/ (~process[r].helper /\ process[r].pipe = <<>>))

Closes(r) ==
  /\ run[r].at = "running" /\ Closed(r)
  /\ IF run[r].reason # None THEN Fails(r)
     ELSE Settles(r, [run[r] EXCEPT !.at = "done", !.result = "ok", !.code = process[r].code])
  /\ UNCHANGED <<tool, status, stat, process, intact>>

-----------------------------------------------------------------------------
(* The process, and the workspace                                          *)

\* A process is followed while its run lasts.
Process(r, new) == run[r].at = "running" /\ process' = [process EXCEPT ![r] = new] /\ UNCHANGED <<tool, status, stat, run, intact, answer>>

Prints(r) ==
  /\ process[r].out # <<>> /\ (process[r].up \/ process[r].helper)
  /\ Process(r, [process[r] EXCEPT !.out = Tail(@), !.pipe = Append(@, Head(process[r].out)), !.wrote = Append(@, Head(process[r].out))])

\* It ends well when all is written; it fails, or dies of a signal, at any time. The code of one that main hits is of no use.
Exits(r) ==
  /\ process[r].up
  /\ \E code \in 0 .. 2 :
       /\ code = 0 => process[r].out = <<>> \/ process[r].hit
       /\ code = 1 => ~process[r].hit
       /\ code = 2 => ~process[r].hit /\ tool = "doctor"
       /\ Process(r, [process[r] EXCEPT !.up = FALSE, !.code = code, !.out = IF code = 0 \/ process[r].helper THEN @ ELSE <<>>])

HelperEnds(r) == process[r].helper /\ Process(r, [process[r] EXCEPT !.helper = FALSE, !.out = IF process[r].up THEN @ ELSE <<>>])

\* Another program replaces the workspace.
Outside == tool = "open" /\ intact /\ intact' = FALSE /\ UNCHANGED <<tool, status, stat, run, process, answer>>

-----------------------------------------------------------------------------
Single(S) == {<<>>} \union {<<x>> : x \in S}
Pairs(S) == {<<x, y>> : x, y \in S}
Statuses == Single({"M ", " M", "MM", "??", "UU", "R "}) \union Pairs({"M ", "??", "R "})
Stats == Single({"plain", "binary", "moved"}) \union Pairs({"plain", "moved"})

Init ==
  /\ tool \in {"git", "cli", "doctor", "plutil", "open"}
  /\ \/ tool = "git" /\ status \in Statuses /\ stat = <<>>
     \/ tool = "git" /\ status = <<>> /\ stat \in Stats
     \/ tool # "git" /\ status = <<>> /\ stat = <<>>
  /\ run = [r \in Runs |-> IdleRun] /\ process = [r \in Runs |-> NoProcess] /\ intact = TRUE /\ answer = None

Next ==
  \/ \E r \in Runs : \/ StartFails(r) \/ Start(r) \/ TimesOut(r) \/ Hears(r) \/ KillTimer(r) \/ FailSafe(r) \/ Closes(r)
                     \/ Prints(r) \/ Exits(r) \/ HelperEnds(r)
  \/ Outside

Spec == Init /\ [][Next]_vars

-----------------------------------------------------------------------------
TypeOK ==
  /\ answer \in {None, "ok", "partial", "error"} /\ intact \in BOOLEAN
  /\ \A r \in Runs : run[r].at \in {"idle", "running", "done"} /\ Len(run[r].taken) <= OutputMax

\* The answer of a tool is made of the whole of what the tool wrote, and git's counts are those of the workspace.
AnswerIsWhole ==
  /\ \A r \in Runs : Good(run[r]) /\ run[r].result = "ok" => run[r].taken = process[r].wrote
  /\ tool = "git" /\ answer = "ok" =>
       LET counts == ParsePorcelainStatus(run[2].taken) numbers == ParseNumstat(run[3].taken)
           having(entries, T) == Len(SelectSeq(entries, LAMBDA x : x \in T)) IN
       /\ counts.total = Len(status) /\ counts.untracked = having(status, {"??"}) /\ counts.conflicted = having(status, {"UU"})
       /\ counts.staged = having(status, {"M ", "MM", "R "}) /\ counts.unstaged = having(status, {" M", "MM"})
       /\ numbers.files = Len(stat) /\ numbers.binary = having(stat, {"binary"})

\* A run that is given up has ended, or its kill was sent.
GivenUpMeansKilled == \A r \in Runs : run[r].at = "done" /\ run[r].reason # None => run[r].killed \/ Closed(r)

\* An operation that has not answered has a run under way, which its timers end, or one to begin.
NeverStuck == answer = None => Begins # {} \/ \E r \in Runs : run[r].at = "running"
=============================================================================
