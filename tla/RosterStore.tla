----------------------------- MODULE RosterStore -----------------------------
(***************************************************************************)
(* AgentRosterStore: stores of several processes on one roster file, each  *)
(* with one operation at a time, under a lock file of the directory.  A    *)
(* step is one call of the file system that another store may observe.  A  *)
(* lock file is the number of its creation; a roster file has an identity, *)
(* a revision, and the mutations that it contains.                         *)
(***************************************************************************)
EXTENDS Naturals, FiniteSets

CONSTANTS Stores, Mutations, MaxCrashes, MaxDamage,
          MaxLocks   \* lock files created: as many operations get beyond their wait

VARIABLES
  lock, locks, dead, partial,   \* as the path has it; created so far; of processes that are gone; without a record
  file,      \* the roster file: [id, valid, revision, has]; id 0 is no file
  backups,   \* files that recover has moved aside
  at,        \* the step of each store
  doing,     \* the mutation it commits, or "recover"
  revision,  \* the revision that its caller has seen
  mine, seen,  \* its lock; the lock it found stale
  read,      \* the file it has read
  done,      \* mutations that were reported as saved
  damages, crashes, ids

vars == <<lock, locks, dead, partial, file, backups, at, doing, revision, mine, seen, read, done, damages, crashes, ids>>
lockVars == <<lock, locks, dead, partial>>
fileVars == <<file, backups, ids>>
callVars == <<doing, revision, done>>

Missing == [id |-> 0, valid |-> TRUE, revision |-> 0, has |-> {}]
Goes(s, step) == at' = [at EXCEPT ![s] = step]

Init ==
  /\ lock = 0 /\ locks = 0 /\ dead = {} /\ partial = {} /\ file = Missing /\ backups = {} /\ ids = 0
  /\ at = [s \in Stores |-> "idle"] /\ doing = [s \in Stores |-> "nothing"] /\ revision = [s \in Stores |-> 0]
  /\ mine = [s \in Stores |-> 0] /\ seen = [s \in Stores |-> 0] /\ read = [s \in Stores |-> Missing]
  /\ done = {} /\ damages = 0 /\ crashes = 0

-----------------------------------------------------------------------------
\* A mutation at the revision that the caller knows, or a recovery, is the next operation of the store's queue.
Commit(s, m) ==
  /\ at[s] = "idle" /\ \A t \in Stores : doing[t] # m
  /\ m \notin done /\ Goes(s, "acquire") /\ doing' = [doing EXCEPT ![s] = m]
  /\ UNCHANGED <<lockVars, fileVars, revision, mine, seen, read, done, damages, crashes>>

Recover(s) ==
  /\ at[s] = "idle" /\ ~file.valid /\ Goes(s, "acquire") /\ doing' = [doing EXCEPT ![s] = "recover"]
  /\ UNCHANGED <<lockVars, fileVars, revision, mine, seen, read, done, damages, crashes>>

\* acquireRosterLock: O_EXCL creates the file, the record of the owner follows.
CreateLock(s) ==
  /\ at[s] = "acquire" /\ lock = 0 /\ locks < MaxLocks
  /\ lock' = locks + 1 /\ locks' = locks + 1 /\ partial' = partial \union {locks + 1}
  /\ mine' = [mine EXCEPT ![s] = locks + 1] /\ Goes(s, "record")
  /\ UNCHANGED <<dead, fileVars, callVars, seen, read, damages, crashes>>

RecordLock(s) ==
  /\ at[s] = "record" /\ partial' = partial \ {mine[s]} /\ Goes(s, "locked")
  /\ UNCHANGED <<lock, locks, dead, fileVars, callVars, mine, seen, read, damages, crashes>>

\* parseRosterLockOwner and isProcessAlive.
Complete(l) == l \notin partial
OwnerGone(l) == l \in dead

\* Mutant: a lock without a complete record is taken to be abandoned.
JudgePartial(s) ==
  /\ at[s] = "acquire" /\ lock # 0 /\ (~Complete(lock) \/ OwnerGone(lock))
  /\ seen' = [seen EXCEPT ![s] = lock] /\ Goes(s, "judged")
  /\ UNCHANGED <<lockVars, fileVars, callVars, mine, read, damages, crashes>>

\* recoverStaleRosterLock: the lock is old, its record complete and the owner gone.
Judge(s) ==
  /\ at[s] = "acquire" /\ lock # 0 /\ Complete(lock) /\ OwnerGone(lock)
  /\ seen' = [seen EXCEPT ![s] = lock] /\ Goes(s, "judged")
  /\ UNCHANGED <<lockVars, fileVars, callVars, mine, read, damages, crashes>>

\* unlinkIfIdentity of the stale lock: the path is looked at, and then unlinked by name.
Compare(s) ==
  /\ at[s] = "judged" /\ Goes(s, IF lock = seen[s] THEN "compared" ELSE "acquire")
  /\ UNCHANGED <<lockVars, fileVars, callVars, mine, seen, read, damages, crashes>>

Unlink(s) ==
  /\ at[s] = "compared" /\ lock' = 0 /\ Goes(s, "acquire")
  /\ UNCHANGED <<locks, dead, partial, fileVars, callVars, mine, seen, read, damages, crashes>>

\* The attempts run out.
GivesUp(s) ==
  /\ at[s] = "acquire" /\ lock # 0 /\ Goes(s, "idle") /\ doing' = [doing EXCEPT ![s] = "nothing"]
  /\ UNCHANGED <<lockVars, fileVars, revision, done, mine, seen, read, damages, crashes>>

-----------------------------------------------------------------------------
\* readAt.  A caller whose mutation is refused for its revision knows the new one from its next load.
ReadRoster(s) ==
  /\ at[s] = "locked" /\ read' = [read EXCEPT ![s] = file]
  /\ revision' = (IF file.valid THEN [revision EXCEPT ![s] = file.revision] ELSE revision)
  /\ Goes(s, IF doing[s] = "recover" THEN (IF file.valid THEN "release" ELSE "recovering")
             ELSE (IF file.valid /\ file.revision = revision[s] THEN "writing" ELSE "release"))
  /\ UNCHANGED <<lockVars, fileVars, doing, done, mine, seen, damages, crashes>>

\* assertPathIdentity, before a rename that replaces the file or moves it aside.
CheckPath(s) ==
  /\ \/ at[s] = "writing" /\ Goes(s, IF file.id = read[s].id THEN "checked" ELSE "release")
     \/ at[s] = "recovering" /\ Goes(s, IF file.id = read[s].id THEN "aside" ELSE "release")
  /\ UNCHANGED <<lockVars, fileVars, callVars, mine, seen, read, damages, crashes>>

\* recover: the invalid file is kept under another name, and an empty roster written where nothing is.
MoveAside(s) ==
  /\ at[s] = "aside" /\ file.id # 0 /\ backups' = backups \union {file} /\ file' = Missing
  /\ read' = [read EXCEPT ![s] = Missing] /\ Goes(s, "writing")
  /\ UNCHANGED <<lockVars, ids, callVars, mine, seen, damages, crashes>>

\* rename of the temporary file.
Replace(s) ==
  /\ at[s] = "checked" /\ Goes(s, "replaced") /\ ids' = ids + 1
  /\ file' = [id |-> ids + 1, valid |-> TRUE,
              revision |-> IF doing[s] = "recover" THEN 0 ELSE read[s].revision + 1,
              has |-> IF doing[s] = "recover" THEN {} ELSE read[s].has \union {doing[s]}]
  /\ UNCHANGED <<lockVars, backups, callVars, mine, seen, read, damages, crashes>>

\* The directory is synced; the caller learns of it once the lock is released.
Synced(s) ==
  /\ at[s] = "replaced" /\ Goes(s, "release") /\ revision' = [revision EXCEPT ![s] = file.revision]
  /\ done' = done \union ({doing[s]} \intersect Mutations)
  /\ UNCHANGED <<lockVars, fileVars, doing, mine, seen, read, damages, crashes>>

\* Any of these calls fails.
Fails(s) ==
  /\ at[s] \in {"locked", "writing", "recovering", "checked", "aside", "replaced"} /\ Goes(s, "release")
  /\ UNCHANGED <<lockVars, fileVars, callVars, mine, seen, read, damages, crashes>>

\* releaseRosterLock: unlinkIfIdentity of the own lock, whose errors are dropped.
Release(s) ==
  /\ at[s] = "release" /\ Goes(s, IF lock = mine[s] THEN "releasing" ELSE "idle")
  /\ doing' = (IF lock = mine[s] THEN doing ELSE [doing EXCEPT ![s] = "nothing"])
  /\ UNCHANGED <<lockVars, fileVars, revision, done, mine, seen, read, damages, crashes>>

Released(s) ==
  /\ at[s] = "releasing" /\ lock' = 0 /\ Goes(s, "idle") /\ doing' = [doing EXCEPT ![s] = "nothing"]
  /\ UNCHANGED <<locks, dead, partial, fileVars, revision, done, mine, seen, read, damages, crashes>>

-----------------------------------------------------------------------------
\* A process ends between two steps; its lock stays.
Crash(s) ==
  /\ crashes < MaxCrashes /\ crashes' = crashes + 1 /\ at[s] # "idle" /\ Goes(s, "gone")
  /\ dead' = dead \union ({mine[s]} \ {0})
  /\ UNCHANGED <<lock, locks, partial, fileVars, callVars, mine, seen, read, damages>>

\* Something else damages the roster.
Damage ==
  /\ damages < MaxDamage /\ damages' = damages + 1 /\ file.valid /\ file.id # 0
  /\ file' = [file EXCEPT !.id = ids + 1, !.valid = FALSE] /\ ids' = ids + 1
  /\ \A s \in Stores : at[s] \notin {"checked", "replaced", "aside"}
  /\ UNCHANGED <<lockVars, backups, at, callVars, mine, seen, read, crashes>>

Next ==
  \/ Damage
  \/ \E s \in Stores :
       \/ \E m \in Mutations : Commit(s, m)
       \/ Recover(s) \/ CreateLock(s) \/ RecordLock(s) \/ Judge(s) \/ Compare(s) \/ Unlink(s) \/ GivesUp(s)
       \/ ReadRoster(s) \/ CheckPath(s) \/ MoveAside(s) \/ Replace(s) \/ Synced(s) \/ Fails(s)
       \/ Release(s) \/ Released(s) \/ Crash(s)

Spec == Init /\ [][Next]_vars

-----------------------------------------------------------------------------
TypeOK ==
  /\ lock \in 0 .. locks /\ dead \subseteq 1 .. locks /\ partial \subseteq 1 .. locks
  /\ file.id \in 0 .. ids /\ file.has \subseteq Mutations /\ done \subseteq Mutations
  /\ at \in [Stores -> {"idle", "acquire", "record", "judged", "compared", "locked", "writing", "recovering", "checked",
                        "aside", "replaced", "release", "releasing", "gone"}]
  /\ revision \in [Stores -> Nat] /\ damages \in 0 .. MaxDamage /\ crashes \in 0 .. MaxCrashes

\* Each mutation that was reported as saved is in the roster, or in a damaged file that recover kept: no other store,
\* recovery or crash overwrites it.
SavedIsKept == \A m \in done : m \in file.has \/ \E b \in backups : m \in b.has
=============================================================================
