----------------------------- MODULE ModelConfig -----------------------------
(***************************************************************************)
(* GrokModelConfigStore, managedToml and MacOsAdvisoryLockRunner: stores   *)
(* of several processes edit the models that they manage at the end of     *)
(* Grok's config.toml, whose other text belongs to the user and to grok.   *)
(* The lock is an flock on a file that stays; a helper process takes it    *)
(* on the descriptor of the store, and closing the descriptor frees it.    *)
(***************************************************************************)
EXTENDS Naturals

CONSTANTS Stores, Providers, Models, MaxMutations, MaxOutside, MaxCrashes

None == "none"

VARIABLES
  file,      \* config.toml: identity, whether it parses, the user's text and the providers that it refers to, the catalog
  holder,    \* the store whose descriptor has the lock
  at, doing, \* of each store: the step and the operation it is about
  helper,    \* lockf: "none", "waiting", "ended"
  read,      \* the file that it has read
  revision,  \* the contents that its caller has seen
  stop,      \* "no", "asked", "done"
  expected,  \* the catalog after all mutations that reached the file
  text,      \* the user's text as the user left it
  mutations, outside, crashes, ids

vars == <<file, holder, at, doing, helper, read, revision, stop, expected, text, mutations, outside, crashes, ids>>
diskVars == <<file, expected, text, outside, ids>>
callVars == <<revision, stop, mutations, crashes>>

NoCatalog == [providers |-> {}, models |-> [m \in Models |-> None]]
Contents(f) == [f EXCEPT !.id = 0]      \* revisionOfEntry: a digest of the bytes

NoFile == [id |-> 0, ok |-> TRUE, text |-> 0, refers |-> {}, catalog |-> NoCatalog]
Load == [type |-> "load"]

Init ==
  /\ file = NoFile
  /\ holder = None /\ at = [s \in Stores |-> "idle"] /\ doing = [s \in Stores |-> Load]
  /\ helper = [s \in Stores |-> "none"] /\ read = [s \in Stores |-> file] /\ revision = [s \in Stores |-> Contents(file)]
  /\ stop = [s \in Stores |-> "no"] /\ expected = NoCatalog /\ text = 0
  /\ mutations = 0 /\ outside = 0 /\ crashes = 0 /\ ids = 0

Goes(s, step) == at' = [at EXCEPT ![s] = step]

-----------------------------------------------------------------------------
(* applyMutation and rewriteManagedToml.                                   *)

Edits ==
  [type : {"upsert-provider", "delete-provider"}, provider : Providers]
    \union [type : {"upsert-model", "delete-model"}, provider : Providers, model : Models]

\* collectUnmanagedProviderReferences.
Referred(f) == f.refers

\* Mutant: only the managed models keep a provider.
AllowedForManaged(catalog, refers, m) ==
  CASE m.type = "delete-provider" -> \A n \in Models : catalog.models[n] # m.provider
    [] m.type = "upsert-model" -> m.provider \in catalog.providers
    [] OTHER -> TRUE

\* A model needs its provider, and a managed provider stays while a managed model or the user's text refers to it.
Allowed(catalog, refers, m) ==
  CASE m.type = "delete-provider" ->
         m.provider \in catalog.providers => m.provider \notin refers /\ \A n \in Models : catalog.models[n] # m.provider
    [] m.type = "upsert-model" -> m.provider \in catalog.providers
    [] OTHER -> TRUE

Applied(catalog, m) ==
  CASE m.type = "upsert-provider" -> [catalog EXCEPT !.providers = @ \union {m.provider}]
    [] m.type = "delete-provider" -> [catalog EXCEPT !.providers = @ \ {m.provider}]
    [] m.type = "upsert-model" -> [catalog EXCEPT !.models[m.model] = m.provider]
    [] m.type = "delete-model" -> [catalog EXCEPT !.models[m.model] = None]

\* validateCatalog: each model has its provider.
ValidCatalog(catalog) == \A n \in Models : catalog.models[n] \in catalog.providers \union {None}

\* parseManagedToml: the whole is TOML, with at most one managed part, at the end, as it would be written here.
Parses(f) == f.ok /\ ValidCatalog(f.catalog)

\* The user's text as it was read, and the catalog rendered after it.
Rewritten(f, m) == [f EXCEPT !.catalog = Applied(@, m)]

-----------------------------------------------------------------------------
(* One operation of the store's queue after the other; those that a stop   *)
(* finds in the queue end at once.                                         *)

Begin(s) ==
  /\ at[s] = "idle" /\ stop[s] = "no" /\ Goes(s, "opening")
  /\ \/ UNCHANGED <<doing, mutations>>
     \/ mutations < MaxMutations /\ mutations' = mutations + 1 /\ \E m \in Edits : doing' = [doing EXCEPT ![s] = m]
  /\ UNCHANGED <<diskVars, holder, helper, read, revision, stop, crashes>>

\* The lock file is opened, and made if it is not there; acquire spawns lockf, unless a stop was asked meanwhile.
OpenLock(s) ==
  /\ at[s] = "opening"
  /\ \/ stop[s] = "no" /\ Goes(s, "locking") /\ helper' = [helper EXCEPT ![s] = "waiting"]
     \/ Goes(s, "closing") /\ UNCHANGED helper
  /\ UNCHANGED <<diskVars, holder, doing, read, callVars>>

\* lockf has the lock on the descriptor that it shares with the store, and exits.
LockfTakes(s) == helper[s] = "waiting" /\ holder = None /\ holder' = s /\ helper' = [helper EXCEPT ![s] = "ended"]
                   /\ UNCHANGED <<diskVars, at, doing, read, callVars>>

\* lockf gives up after its timeout, writes too much and is terminated, or the abort or the watchdog ends it with SIGTERM
\* and then SIGKILL.
LockfEnds(s) == helper[s] = "waiting" /\ helper' = [helper EXCEPT ![s] = "ended"]
                  /\ UNCHANGED <<diskVars, holder, at, doing, read, callVars>>

\* close of the helper settles acquire: an abort wins over a lock that was taken; and stop is looked at again.
Acquired(s) ==
  /\ at[s] = "locking" /\ helper[s] = "ended" /\ helper' = [helper EXCEPT ![s] = "none"]
  /\ Goes(s, IF holder = s /\ stop[s] = "no" THEN "locked" ELSE "closing")
  /\ UNCHANGED <<diskVars, holder, doing, read, callVars>>

\* A mutation of the revision that the caller has seen, which is allowed and changes something.
Writes(s, m) ==
  /\ m # Load /\ Parses(file) /\ Contents(file) = revision[s]
  /\ Allowed(file.catalog, Referred(file), m) /\ Rewritten(file, m) # file

\* readAt, which is all that a load does.
ReadConfig(s) ==
  /\ at[s] = "locked" /\ read' = [read EXCEPT ![s] = file]
  /\ Goes(s, IF Writes(s, doing[s]) THEN "writing" ELSE "closing")
  /\ revision' = (IF Parses(file) /\ doing[s] = Load THEN [revision EXCEPT ![s] = Contents(file)] ELSE revision)
  /\ UNCHANGED <<diskVars, holder, doing, helper, stop, mutations, crashes>>

\* Mutant: the file may have changed since it was read.
CheckPathLoosely(s) ==
  /\ at[s] = "writing" /\ Goes(s, "checked")
  /\ UNCHANGED <<diskVars, holder, doing, helper, read, callVars>>

\* assertPathSnapshot: identity and digest.
Unchanged(s) == file = read[s]

\* The temporary file is written, and the path compared twice.
CheckPath(s) ==
  /\ at[s] = "writing" /\ Goes(s, IF Unchanged(s) THEN "checked" ELSE "closing")
  /\ UNCHANGED <<diskVars, holder, doing, helper, read, callVars>>

\* rename.
Replace(s) ==
  /\ at[s] = "checked" /\ Goes(s, "renamed") /\ ids' = ids + 1
  /\ file' = [Rewritten(read[s], doing[s]) EXCEPT !.id = ids + 1]
  /\ expected' = Applied(expected, doing[s])
  /\ UNCHANGED <<text, outside, holder, doing, helper, read, callVars>>

\* assertCommittedBytes, and the lease once more.
Verify(s) ==
  /\ at[s] = "renamed" /\ Goes(s, "closing")
  /\ revision' = (IF Contents(file) = Contents(Rewritten(read[s], doing[s]))
                  THEN [revision EXCEPT ![s] = Contents(file)] ELSE revision)
  /\ UNCHANGED <<diskVars, holder, doing, helper, read, stop, mutations, crashes>>

\* A directory, an identity or a call on the way is not as it should be.
Fails(s) ==
  /\ at[s] \in {"locked", "writing", "checked", "renamed"} /\ Goes(s, "closing")
  /\ UNCHANGED <<diskVars, holder, doing, helper, read, callVars>>

Ended(s) ==
  /\ Goes(s, "idle") /\ doing' = [doing EXCEPT ![s] = Load] /\ read' = [read EXCEPT ![s] = NoFile]
  /\ UNCHANGED <<diskVars, helper, callVars>>

\* Mutant: the descriptor of an acquire that was aborted stays open.
CloseUnlessStopped(s) ==
  at[s] = "closing" /\ holder' = (IF holder = s /\ stop[s] = "no" THEN None ELSE holder) /\ Ended(s)

\* The descriptor is closed in every case, and with it the lock freed; the caller has its result or its error.
Close(s) == at[s] = "closing" /\ holder' = (IF holder = s THEN None ELSE holder) /\ Ended(s)

-----------------------------------------------------------------------------
\* stop: locks that are waited for are aborted, and the queue awaited.
Stop(s) ==
  /\ stop[s] = "no" /\ at[s] # "gone" /\ stop' = [stop EXCEPT ![s] = "asked"]
  /\ UNCHANGED <<diskVars, holder, at, doing, helper, read, revision, mutations, crashes>>

Stopped(s) ==
  /\ stop[s] = "asked" /\ at[s] = "idle" /\ stop' = [stop EXCEPT ![s] = "done"]
  /\ UNCHANGED <<diskVars, holder, at, doing, helper, read, revision, mutations, crashes>>

\* A process ends, and its lock with it once a helper that shares the descriptor has ended too.
Crash(s) ==
  /\ crashes < MaxCrashes /\ crashes' = crashes + 1 /\ at[s] # "gone" /\ Goes(s, "gone")
  /\ helper' = [helper EXCEPT ![s] = "none"] /\ holder' = (IF holder = s THEN None ELSE holder)
  /\ doing' = [doing EXCEPT ![s] = Load] /\ read' = [read EXCEPT ![s] = NoFile]
  /\ UNCHANGED <<diskVars, revision, stop, mutations>>

\* The user or grok writes the file, keeping the managed part or damaging it; not between the last look of a store and
\* its rename, which no lock can exclude.
Outside ==
  /\ outside < MaxOutside /\ outside' = outside + 1 /\ \A s \in Stores : at[s] # "checked"
  /\ \E refers \in SUBSET Providers, ok \in BOOLEAN :
       file' = [file EXCEPT !.id = ids + 1, !.ok = ok, !.text = text + 1, !.refers = refers]
  /\ text' = text + 1 /\ ids' = ids + 1
  /\ UNCHANGED <<expected, holder, at, doing, helper, read, callVars>>

Next ==
  \/ Outside
  \/ \E s \in Stores :
       \/ Begin(s) \/ OpenLock(s) \/ LockfTakes(s) \/ LockfEnds(s) \/ Acquired(s) \/ ReadConfig(s) \/ CheckPath(s)
       \/ Replace(s) \/ Verify(s) \/ Fails(s) \/ Close(s) \/ Stop(s) \/ Stopped(s) \/ Crash(s)

Spec == Init /\ [][Next]_vars

-----------------------------------------------------------------------------
Catalogs == [providers : SUBSET Providers, models : [Models -> Providers \union {None}]]

TypeOK ==
  /\ file.catalog \in Catalogs /\ file.refers \subseteq Providers /\ file.id \in 0 .. ids /\ file.text \in 0 .. text
  /\ holder \in Stores \union {None} /\ expected \in Catalogs
  /\ at \in [Stores -> {"idle", "opening", "locking", "locked", "writing", "checked", "renamed", "closing", "gone"}]
  /\ helper \in [Stores -> {"none", "waiting", "ended"}] /\ stop \in [Stores -> {"no", "asked", "done"}]
  /\ mutations \in 0 .. MaxMutations /\ outside \in 0 .. MaxOutside /\ crashes \in 0 .. MaxCrashes

\* config.toml has the user's text as the user left it and the models as all mutations together made them, whichever
\* stores and programs wrote it; and each model has its provider.
NothingOverwritten == file.text = text /\ file.catalog = expected /\ ValidCatalog(file.catalog)

\* A provider that the user's text or a model refers to is not deleted.
KeepsReferences ==
  \A p \in file.catalog.providers \ file'.catalog.providers :
    p \notin file.refers /\ \A n \in Models : file.catalog.models[n] # p

ReferencesKept == [][KeepsReferences]_vars

\* The lock is held by an operation under way only: no stop, timeout or error leaves it to a store that keeps the
\* others out.
LockFreed == \A s \in Stores : holder = s => at[s] \notin {"idle", "opening", "gone"}
=============================================================================
