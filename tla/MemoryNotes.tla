----------------------------- MODULE MemoryNotes -----------------------------
(***************************************************************************)
(* MemoryBroker.remember: notes are appended to MEMORY.md under a lock     *)
(* file, by writers that run at once and may die with the process.  Each   *)
(* step is one call of the file system that another writer may observe.    *)
(* A lock file is the number of its creation, MEMORY.md a sequence of      *)
(* lines: "notes" is the heading of the notes, "heading" another one.      *)
(***************************************************************************)
EXTENDS Naturals, FiniteSets, Sequences, SequencesExt

CONSTANTS Writers, Documents, MaxCrashes

VARIABLES
  lock,     \* the lock file at its path, 0 for none
  locks,    \* lock files created so far
  dead,     \* locks of a process that is gone
  partial,  \* locks whose record is not complete
  file,     \* MEMORY.md: a version and its lines; version 0 is no file
  first,    \* what MEMORY.md was at first
  at,       \* the step of each writer
  mine,     \* its lock
  seen,     \* the lock it found stale
  read,     \* what it read of MEMORY.md, and then what it placed
  good,     \* writers whose note was written
  versions, \* versions of MEMORY.md so far
  crashes

vars == <<lock, locks, dead, partial, file, first, at, mine, seen, read, good, versions, crashes>>

Steps == {"idle", "acquire", "record", "judged", "compared", "locked", "read", "checked", "placed",
          "release", "releasing", "ok", "failed", "gone"}
NoFile == [version |-> 0, lines |-> <<>>]

Init ==
  /\ lock = 0 /\ locks = 0 /\ dead = {} /\ partial = {}
  /\ file \in {NoFile} \union {[version |-> 1, lines |-> d] : d \in Documents} /\ first = file.lines
  /\ at = [w \in Writers |-> "idle"] /\ mine = [w \in Writers |-> 0] /\ seen = [w \in Writers |-> 0]
  /\ read = [w \in Writers |-> NoFile] /\ good = {} /\ versions = 1 /\ crashes = 0

Goes(w, step) == at' = [at EXCEPT ![w] = step]
fileVars == <<file, versions, first, read>>
lockVars == <<lock, locks, dead, partial>>

-----------------------------------------------------------------------------
Remember(w) == at[w] = "idle" /\ Goes(w, "acquire") /\ UNCHANGED <<lockVars, mine, seen, good, fileVars, crashes>>

\* open with O_EXCL; the record of the owner follows.
CreateLock(w) ==
  /\ at[w] = "acquire" /\ lock = 0
  /\ lock' = locks + 1 /\ locks' = locks + 1 /\ partial' = partial \union {locks + 1}
  /\ mine' = [mine EXCEPT ![w] = locks + 1] /\ Goes(w, "record")
  /\ UNCHANGED <<dead, seen, good, fileVars, crashes>>

RecordLock(w) ==
  /\ at[w] = "record" /\ partial' = partial \ {mine[w]} /\ Goes(w, "locked")
  /\ UNCHANGED <<lock, locks, dead, mine, seen, good, fileVars, crashes>>

\* The wait for the lock ends: busy.
GivesUp(w) == at[w] = "acquire" /\ lock # 0 /\ Goes(w, "failed") /\ UNCHANGED <<lockVars, mine, seen, good, fileVars, crashes>>

\* The record of the owner can be read, and its process is gone.
Complete(l) == l \notin partial
OwnerGone(l) == l \in dead

\* Mutant: a lock is judged by its age alone.
JudgeByAge(w) ==
  /\ at[w] = "acquire" /\ lock # 0 /\ Complete(lock)
  /\ seen' = [seen EXCEPT ![w] = lock] /\ Goes(w, "judged")
  /\ UNCHANGED <<lockVars, mine, good, fileVars, crashes>>

\* tryRecoverStaleLock: the record is complete, old, and its process is gone.
Judge(w) ==
  /\ at[w] = "acquire" /\ lock # 0 /\ Complete(lock) /\ OwnerGone(lock)
  /\ seen' = [seen EXCEPT ![w] = lock] /\ Goes(w, "judged")
  /\ UNCHANGED <<lockVars, mine, good, fileVars, crashes>>

\* The path still has the lock that was judged; the quarantine directory exists.
Compare(w) ==
  /\ at[w] = "judged" /\ Goes(w, IF lock = seen[w] THEN "compared" ELSE "acquire")
  /\ UNCHANGED <<lockVars, mine, seen, good, fileVars, crashes>>

\* rename moves what is at the path by now; it is removed only if it is the stale lock.
Move(w) ==
  /\ at[w] = "compared" /\ lock' = 0 /\ Goes(w, "acquire")
  /\ UNCHANGED <<locks, dead, partial, mine, seen, good, fileVars, crashes>>

-----------------------------------------------------------------------------
(* appendMemoryNote.                                                       *)

IsHeading(line) == line \in {"notes", "heading"}

\* trim: blank lines at the ends are dropped.
Trimmed(lines) ==
  LET solid == {i \in DOMAIN lines : lines[i] # ""} IN
  IF solid = {} THEN <<>>
  ELSE SubSeq(lines, CHOOSE i \in solid : \A j \in solid : i <= j, CHOOSE i \in solid : \A j \in solid : i >= j)

\* Mutant: the note goes to the end of the file.
AppendedAtEnd(lines, note) == lines \o <<note>>

\* At the end of the section of the first heading of notes, in place of the blank line before the next heading, which
\* follows the note; or in a new section at the end.
Appended(lines, note) ==
  LET headings == {i \in DOMAIN lines : lines[i] = "notes"}
      section == CHOOSE i \in headings : \A j \in headings : i <= j
      later == {i \in DOMAIN lines : i > section /\ IsHeading(lines[i])}
      next == CHOOSE i \in later : \A j \in later : i <= j
      before == IF lines[next - 1] = "" THEN next - 2 ELSE next - 1
  IN IF headings = {}
     THEN Trimmed(lines) \o (IF Trimmed(lines) = <<>> THEN <<>> ELSE <<"">>) \o <<"notes", "", note>>
     ELSE IF later = {} THEN lines \o <<note>>
     ELSE SubSeq(lines, 1, before) \o <<note, "">> \o SubSeq(lines, next, Len(lines))

-----------------------------------------------------------------------------
(* writeGlobalNote, and the release of the lock in every case.             *)

Read(w) ==
  /\ at[w] = "locked" /\ read' = [read EXCEPT ![w] = file] /\ Goes(w, "read")
  /\ UNCHANGED <<lockVars, file, versions, first, mine, seen, good, crashes>>

\* The temporary file is written; MEMORY.md is still the file that was read.
CheckTarget(w) ==
  /\ at[w] = "read" /\ Goes(w, IF file.version = read[w].version THEN "checked" ELSE "release")
  /\ UNCHANGED <<lockVars, fileVars, mine, seen, good, crashes>>

Place(w) ==
  /\ at[w] = "checked" /\ Goes(w, "placed")
  /\ file' = [version |-> versions + 1, lines |-> Appended(read[w].lines, w)] /\ versions' = versions + 1
  /\ read' = [read EXCEPT ![w] = file']
  /\ UNCHANGED <<lockVars, first, mine, seen, good, crashes>>

\* What was placed is opened again and its directory synced.
Reopen(w) ==
  /\ at[w] = "placed" /\ Goes(w, "release")
  /\ good' = (IF file.version = read[w].version THEN good \union {w} ELSE good)
  /\ UNCHANGED <<lockVars, fileVars, mine, seen, crashes>>

\* The file is too large or not text, or a call fails.
WriteFails(w) ==
  /\ at[w] \in {"locked", "read", "checked", "placed"} /\ Goes(w, "release")
  /\ UNCHANGED <<lockVars, fileVars, mine, seen, good, crashes>>

ReleaseCompare(w) ==
  /\ at[w] = "release" /\ Goes(w, IF lock = mine[w] THEN "releasing" ELSE "failed")
  /\ UNCHANGED <<lockVars, fileVars, mine, seen, good, crashes>>

ReleaseMove(w) ==
  /\ at[w] = "releasing" /\ lock' = 0
  /\ Goes(w, IF lock = mine[w] /\ w \in good THEN "ok" ELSE "failed")
  /\ UNCHANGED <<locks, dead, partial, fileVars, mine, seen, good, crashes>>

-----------------------------------------------------------------------------
\* The process ends, and with it its writers; a later process has the others.
Crash ==
  /\ crashes < MaxCrashes /\ crashes' = crashes + 1 /\ dead' = 1 .. locks
  /\ at' = [w \in Writers |-> IF at[w] \in {"idle", "ok", "failed"} THEN at[w] ELSE "gone"]
  /\ UNCHANGED <<lock, locks, partial, fileVars, mine, seen, good>>

Next ==
  \/ Crash
  \/ \E w \in Writers :
       \/ Remember(w) \/ CreateLock(w) \/ RecordLock(w) \/ GivesUp(w) \/ Judge(w) \/ Compare(w) \/ Move(w) \/ Read(w)
       \/ CheckTarget(w) \/ Place(w) \/ Reopen(w) \/ WriteFails(w) \/ ReleaseCompare(w) \/ ReleaseMove(w)

Spec == Init /\ [][Next]_vars

-----------------------------------------------------------------------------
TypeOK ==
  /\ lock \in 0 .. locks /\ dead \subseteq 1 .. locks /\ partial \subseteq 1 .. locks
  /\ at \in [Writers -> Steps] /\ mine \in [Writers -> 0 .. locks] /\ seen \in [Writers -> 0 .. locks]
  /\ file.version \in 0 .. versions /\ good \subseteq Writers /\ crashes \in 0 .. MaxCrashes

Solid(lines) == SelectSeq(lines, LAMBDA line : line # "" /\ line \notin Writers)

\* A note that was reported as saved is in MEMORY.md, once, in the first section of notes, whatever other writers and
\* crashes there were; and nothing that was in MEMORY.md before is lost or moved.
NotesKept ==
  LET lines == file.lines
      headings == {i \in DOMAIN lines : IsHeading(lines[i])}
      places(w) == {i \in DOMAIN lines : lines[i] = w}
      FirstNotes(i) == lines[i] = "notes" /\ \A j \in 1 .. i - 1 : lines[j] # "notes"
  IN /\ \A w \in Writers : at[w] = "ok" => Cardinality(places(w)) = 1
     /\ \A w \in Writers : \A i \in places(w) :
          \E h \in headings : FirstNotes(h) /\ h < i /\ headings \intersect (h + 1) .. i = {}
     /\ SelectSeq(Solid(lines), LAMBDA line : line # "notes") = SelectSeq(Solid(first), LAMBDA line : line # "notes")
=============================================================================
