----------------------------- MODULE MCServices -----------------------------
(***************************************************************************)
(* The stores and brokers of main and the requests of the renderer for     *)
(* TLC.  They share no state, so each behaviour is one of the service      *)
(* chosen at first; the variables of this module and of Holders are those  *)
(* of whichever service that is, in the order in which its instance names  *)
(* them, and "" where it has fewer.                                        *)
(***************************************************************************)
EXTENDS Holders, TLC

CONSTANTS Writers,                                                     \* MemoryNotes
          Mutations, MaxDamage, MaxLocks,                              \* RosterStore
          Projects, Folders, Chats, Remote, Previews, MaxPending, MaxEdits,  \* SwiftImport
          LayoutProjects, LayoutSessions, PinnedProjects, PinnedSessions, SettledSessions, MaxSteps,  \* Layout
          Pooled, Reasons, Limits, MaxGeneration, MaxEvents, MaxDeferredCount, MaxDeferredBytes, PayloadBytes,  \* SessionManager
          MaxSequence, MaxCalls                                        \* Panels

\* MEMORY.md as the first remember finds it.
Documents == {<<>>, <<"t">>, <<"t", "", "heading", "t">>, <<"notes", "t", "", "heading", "t">>,
              <<"t", "notes", "heading", "notes">>, <<"notes", "", "t", "">>}

VARIABLES service, p

vars == <<service, a, b, c, d, e, f, g, h, i, j, k, l, m, n, o, p>>

Notes == INSTANCE MemoryNotes WITH lock <- a, locks <- b, dead <- c, partial <- d, file <- e, first <- f, at <- g,
           mine <- h, seen <- i, read <- j, good <- k, versions <- l, crashes <- m
Roster == INSTANCE RosterStore WITH lock <- a, locks <- b, dead <- c, partial <- d, file <- e, backups <- f, at <- g,
            doing <- h, revision <- i, mine <- j, seen <- k, read <- l, done <- m, damages <- n, crashes <- o, ids <- p
Swift == INSTANCE SwiftImport WITH source <- a, state <- b, pending <- c, unused <- d, applied <- e, done <- f, edits <- g
Shown == INSTANCE Layout WITH Projects <- LayoutProjects, Sessions <- LayoutSessions, state <- a, durable <- b, stamp <- c, working <- d,
           unread <- e, live <- f, protected <- g, pending <- h, tx <- i, steps <- j
Pool == INSTANCE SessionManager WITH Sessions <- Pooled, clients <- a, older <- b, generation <- c, limit <- d, running <- e,
          exited <- f, stopping <- g, emitted <- h, heard <- i, stopAll <- j, barrier <- k, unswept <- l, exempt <- m

Looks == INSTANCE Panels WITH kind <- a, picked <- b, dirty <- c, calls <- d, wire <- e, shown <- f, open <- g, sequence <- h,
           inFlight <- i, timer <- j, data <- k

\* What SessionManager assumes of its constants.
ASSUME PoolAssumption ==
  /\ IsFiniteSet(Pooled) /\ "input" \in Reasons /\ Limits \subseteq Nat /\ Limits # {} /\ PayloadBytes \subseteq Nat
  /\ {MaxGeneration, MaxEvents, MaxDeferredCount, MaxDeferredBytes} \subseteq Nat

\* What RosterStore names "recover" is no mutation.
ASSUME RosterAssumption == "recover" \notin Mutations

\* Nothing tells the managed sessions apart.
Symmetry == Permutations(Pooled)

After13 == <<n, o, p>>
After11 == <<l, m, After13>>
After10 == <<k, After11>>
After8 == <<i, j, After10>>
After7 == <<h, After8>>
Empty13 == n = "" /\ o = "" /\ p = ""
Empty11 == l = "" /\ m = "" /\ Empty13
Empty10 == k = "" /\ Empty11
Empty8 == i = "" /\ j = "" /\ Empty10
Empty7 == h = "" /\ Empty8

Init ==
  \/ service = "notes" /\ Notes!Init /\ Empty13
  \/ service = "files" /\ Files!Init /\ Empty10
  \/ service = "roster" /\ Roster!Init
  \/ service = "config" /\ Config!Init /\ o = "" /\ p = ""
  \/ service = "history" /\ History!Init /\ p = ""
  \/ service = "uploads" /\ Uploads!Init /\ Empty8
  \/ service = "catalog" /\ Catalog!Init /\ Empty10
  \/ service = "swift" /\ Swift!Init /\ Empty7
  \/ service = "layout" /\ Shown!Init /\ Empty10
  \/ service = "workspaces" /\ Usable!Init /\ p = ""
  \/ service = "pool" /\ Pool!Init /\ Empty13
  \/ service = "update" /\ Update!Init /\ o = "" /\ p = ""
  \/ service = "prompts" /\ Prompts!Init /\ Empty13
  \/ service = "panels" /\ Looks!Init /\ Empty11

Next ==
  /\ UNCHANGED service
  /\ \/ service = "notes" /\ Notes!Next /\ UNCHANGED After13
     \/ service = "files" /\ Files!Next /\ UNCHANGED After10
     \/ service = "roster" /\ Roster!Next
     \/ service = "config" /\ Config!Next /\ UNCHANGED <<o, p>>
     \/ service = "history" /\ History!Next /\ UNCHANGED p
     \/ service = "uploads" /\ Uploads!Next /\ UNCHANGED After8
     \/ service = "catalog" /\ Catalog!Next /\ UNCHANGED After10
     \/ service = "swift" /\ Swift!Next /\ UNCHANGED After7
     \/ service = "layout" /\ Shown!Next /\ UNCHANGED After10
     \/ service = "workspaces" /\ Usable!Next /\ UNCHANGED p
     \/ service = "pool" /\ Pool!Call /\ UNCHANGED After13
     \/ service = "update" /\ Update!Next /\ UNCHANGED <<o, p>>
     \/ service = "prompts" /\ Prompts!Next /\ UNCHANGED After13
     \/ service = "panels" /\ Looks!Next /\ UNCHANGED After11

Spec == Init /\ [][Next]_vars

-----------------------------------------------------------------------------
\* The state of each service is well typed.
TypeOK ==
  CASE service = "notes" -> Notes!TypeOK
    [] service = "files" -> Files!TypeOK
    [] service = "roster" -> Roster!TypeOK
    [] service = "config" -> Config!TypeOK
    [] service = "history" -> History!TypeOK
    [] service = "uploads" -> Uploads!TypeOK
    [] service = "catalog" -> Catalog!TypeOK
    [] service = "swift" -> Swift!TypeOK
    [] service = "layout" -> Shown!TypeOK
    [] service = "workspaces" -> Usable!TypeOK
    [] service = "pool" -> Pool!TypeOK
    [] service = "update" -> Update!TypeOK
    [] service = "prompts" -> Prompts!TypeOK
    [] service = "panels" -> Looks!TypeOK

\* A note, a mutation of the roster and an edit of config.toml that was reported as saved is kept, and so is the user's
\* own text, whatever another writer does and whichever of the two crashes. A state that was imported is consistent, and to import it again
\* changes nothing. What the layout shows exists, once and in one place.
\* What Squirrel was asked to install is kept until the process ends.
SavedIsKept ==
  /\ service = "notes" => Notes!NotesKept
  /\ service = "roster" => Roster!SavedIsKept
  /\ service = "config" => Config!NothingOverwritten
  /\ service = "swift" => Swift!Sound /\ Swift!ImportedOnce
  /\ service = "layout" => Shown!LayoutIsWhole
  /\ service = "update" => Update!AskedOnce

\* The tokens that are valid are those of the newest list, or of what is cached now, and a panel shows the answer
\* to its newest request, about the project that is shown as selected.
TokensOfNewestList ==
  /\ service = "files" => Files!OneGeneration
  /\ service = "history" => History!OneGeneration
  /\ service = "catalog" => Catalog!CacheIsSound
  /\ service = "panels" => Looks!ShowsTheSelected

\* What is destroyed is what the renderer was shown, in the version it was shown, and not in use; a prompt gets the
\* images that were staged for it; a token of an agent stands for one definition; the app that is installed is the
\* release that was offered, downloaded and verified; queued messages are sent one after the other as they are shown.
ActsOnWhatWasShown ==
  /\ service = "files" => Files!OnlyTheListedIsDestroyed
  /\ service = "history" => History!DeletesUnboundOnly
  /\ service = "uploads" => Uploads!GivenAsStaged
  /\ service = "catalog" => Catalog!DefinitionsAreWhole
  /\ service = "update" => Update!ReadyIsRelease
  /\ service = "prompts" => Prompts!QueueInOrder

\* When the deletion of a session, the choice of an agent or the answer of the dashboard is decided, what it rests on is
\* still true.
DecidesOnWhatIsTrue ==
  [][/\ service = "history" => History!DeletesListed
     /\ service = "catalog" => Catalog!AnswersShown
     /\ service = "workspaces" => Usable!AnswersOfSelected]_vars

\* No lock of config.toml, worker of the history or handle of an image stays behind without an owner, no worker in a
\* workspace that cannot be used, no directory of an update that ended, and no panel that waits for an answer which nobody
\* gives.
NothingLeaks ==
  /\ service = "config" => Config!LockFreed
  /\ service = "history" => History!OpenIsWhole
  /\ service = "uploads" => Uploads!HandlesAreOwned
  /\ service = "workspaces" => Usable!OnlyUsableWorkspaces
  /\ service = "update" => Update!StageReclaimed
  /\ service = "panels" => Looks!WaitsForAnAnswer

\* The registry of sessions, under every order of its calls, holds its soft limit and evicts only what nothing protects,
\* the session that was touched earliest first.
LimitHeld == service = "pool" => Pool!LimitHeld
EvictsOldestUnprotected == [][service = "pool" => Pool!EvictedRightly]_vars

\* A provider that a model or the user's text refers to stays, and so does whatever is there when an import is saved, the
\* place of every project but the one that moves and its neighbour, the layout when a close or a removal cannot be saved, and
\* what the sweep of a launch finds that is not of an update.
ReferencesKept ==
  [][/\ service = "config" => Config!KeepsReferences
     /\ service = "swift" => Swift!KeepsWhatIsThere
     /\ service = "layout" => Shown!MovesByOneStep /\ Shown!UndoneIsAsBefore
     /\ service = "update" => Update!SweepsStagesOnly]_vars
=============================================================================
