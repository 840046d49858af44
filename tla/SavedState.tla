----------------------------- MODULE SavedState -----------------------------
(***************************************************************************)
(* The application state and its file: the changes it consists of, by how  *)
(* AppController saves them, the variables of the lane that saves them     *)
(* (PersistenceLane), and what the state and the file are to each other.   *)
(* A state is the set of the changes it contains.                          *)
(***************************************************************************)
CONSTANTS
  Edits,       \* changes nobody waits for: prompts, events, selections
  Removals,    \* closeSession, removeProject
  Forks,       \* forkSession
  Histories,   \* openSessionHistory of a session without a tab
  Prepared,    \* saved before they are made: memory setting, state import
  None

Insertions == Forks \union Histories
Strict == Removals \union Insertions
Transactions == Strict \union Prepared
Changes == Edits \union Transactions

ASSUME ChangesAssumption ==
  /\ Edits \intersect Transactions = {}
  /\ Removals \intersect Insertions = {}
  /\ Strict \intersect Prepared = {}
  /\ Forks \intersect Histories = {}
  /\ None \notin Changes \union {"timer", "transaction", "stop", "prepared"}

VARIABLES
  memory,   \* AppController.state
  disk,     \* the state file
  lane,     \* persistDirty, persistTimer, persistInFlight, and the saves under way
  failed,   \* persistFailure is set
  flush,    \* the flushPersistence of the open transaction and that of stop
  txn,      \* the open transaction
  outcome,  \* what the caller of a transaction was told
  stop      \* "no", "stopping", "flushing", "stopped"

-----------------------------------------------------------------------------
(* What is promised.                                                       *)

\* While the file differs from the state, a save is under way, a timer will start
\* one, or the last save has failed: no flush that clears the timer and no save
\* that ends loses the wake-up.
NothingForgotten == memory # disk => failed \/ lane.saves # {} \/ (lane.dirty /\ lane.timer)

\* Once nothing is left to write, a change that was reported as not saved is not
\* in the file either, even if a save took it there before a later save failed.
FailedIsUndone ==
  \A t \in Transactions :
    outcome[t] = "failed" /\ ~lane.dirty /\ lane.saves = {} /\ ~failed => t \notin disk

\* The lane keeps the promises of DurableState: what a transaction reports as
\* saved stays saved, and no save writes an older state over a newer one.
Durable == INSTANCE DurableState WITH promised <- {t \in Transactions : outcome[t] = "done"}
ImplementsDurable == Durable!Spec

\* A change reaches the file, or a save fails.
Settles == memory # disk ~> failed \/ memory = disk
=============================================================================
