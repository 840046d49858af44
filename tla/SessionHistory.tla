--------------------------- MODULE SessionHistory ---------------------------
(***************************************************************************)
(* The history of the Grok CLI as the renderer uses it: SessionHistory-    *)
(* Broker, which names the sessions that a list found by tokens, and the   *)
(* transactions of AppController that list, open and delete them, with     *)
(* what else changes the state of main at their awaits.                    *)
(***************************************************************************)
EXTENDS Naturals

CONSTANTS Remotes, Lists, Mutations, MaxChanges, MaxOutside

None == "none"

VARIABLES
  remote,      \* the sessions that the CLI keeps
  local,       \* those that are bound to a session of main
  workers,     \* those for which an open of the history runs a worker
  world,       \* the identity of the workspace and of the CLI on disk
  context,     \* the selected project and the path of the CLI
  generation,
  entries,     \* the tokens: generation, session, context, identity of the workspace and the CLI
  shown,       \* the tokens that the renderer was given
  list,        \* of each call: the step, its context and world, what it found, whether the state was stable, its generation
  op,          \* the open or delete under way: what sessionHistoryMutation stands for
  starting,    \* a connection is being started
  stopping, changes, outside, left

vars == <<remote, local, workers, world, context, generation, entries, shown, list, op, starting, stopping, changes, outside, left>>

NoOp == [at |-> "idle", kind |-> "open", token |-> None, context |-> 0, world |-> 0, stable |-> FALSE]
NoList == [at |-> "idle", context |-> 0, world |-> 0, found |-> {}, stable |-> FALSE, generation |-> 0]

Init ==
  /\ remote = Remotes /\ local = {} /\ workers = {} /\ world = 0 /\ context = 0
  /\ generation = 0 /\ entries = {} /\ shown = {}
  /\ list = [l \in Lists |-> NoList] /\ op = NoOp
  /\ starting = FALSE /\ stopping = FALSE /\ changes = 0 /\ outside = 0 /\ left = Mutations

-----------------------------------------------------------------------------
(* What the transactions read of the state of main.                        *)

\* Mutant: only an update and an import keep other operations out.
NoStateTransactionButHistory == TRUE

\* assertNoStateTransaction, which every other change of the state by the user asks.
NoStateTransaction == op.at = "idle"

LifecycleAvailable == ~stopping /\ ~starting

\* emitChanged gives the state a new revision, and forgets the tokens when the selection or the CLI has changed.
Cleared == generation' = generation + 1 /\ entries' = {}
Kept == UNCHANGED <<generation, entries>>
Revised(l) == [c \in Lists |-> [l[c] EXCEPT !.stable = FALSE]]

\* assertStableSessionHistoryContext.
Stable(o) == LifecycleAvailable /\ o.stable

Pending(o, ctx) == [o EXCEPT !.context = ctx, !.world = world, !.stable = TRUE]

-----------------------------------------------------------------------------
(* SessionHistoryBroker.                                                   *)

\* resolveEntry before its await: the token names an entry of this generation.
Known(token) == \E e \in entries : e.token = token /\ e.token.generation = generation

\* Mutant: the entry alone is asked for.
ResolvableAnywhere(token, ctx) == \E e \in entries : e.token = token /\ e.token.generation = generation

\* resolveEntry after its await: the entry is the same one, and its context is what the disk has now.
Resolvable(token, ctx) ==
  \E e \in entries : e.token = token /\ e.token.generation = generation /\ e.context = ctx /\ e.world = world

Forget(token) == entries' = {e \in entries : e.token # token} /\ UNCHANGED generation

Issued(l) == {[token |-> [generation |-> l.generation, remote |-> r], context |-> l.context, world |-> l.world] : r \in l.found}

\* An entry whose time is over.
Expires(e) == entries' = entries \ {e} /\ UNCHANGED <<remote, local, workers, world, context, generation, shown, list, op, starting, stopping, changes, outside, left>>

-----------------------------------------------------------------------------
(* listSessionHistory and searchSessionHistory.                            *)

listOthers == <<remote, local, workers, world, context, op, starting, stopping, changes, outside, left>>
SetList(l, new) == list' = [list EXCEPT ![l] = new]
Over(l) == SetList(l, [NoList EXCEPT !.at = "over"])

ListCaptures(l) ==
  /\ list[l].at = "idle" /\ NoStateTransaction /\ LifecycleAvailable
  /\ SetList(l, [Pending(list[l], context) EXCEPT !.at = "captured"])
  /\ Kept /\ UNCHANGED <<shown, listOthers>>

\* refreshStableProject has ended; beginGeneration.
ListBegins(l) ==
  /\ list[l].at = "captured"
  /\ IF LifecycleAvailable /\ context = list[l].context
     THEN /\ SetList(l, [list[l] EXCEPT !.at = "binding", !.stable = TRUE, !.generation = generation + 1])
          /\ Cleared
     ELSE Over(l) /\ Kept
  /\ UNCHANGED <<shown, listOthers>>

ListBinds(l) ==
  /\ list[l].at = "binding"
  /\ \/ generation = list[l].generation /\ SetList(l, [list[l] EXCEPT !.at = "calling", !.world = world])
     \/ Over(l)                                    \* superseded, or the workspace or the CLI is not readable
  /\ Kept /\ UNCHANGED <<shown, listOthers>>

\* safeHistoryRecords: what the CLI answers is taken as a whole, each session once, or refused.
Listed == remote

ListHears(l) ==
  /\ list[l].at = "calling"
  /\ \/ generation = list[l].generation /\ SetList(l, [list[l] EXCEPT !.at = "checking", !.found = Listed])
     \/ Over(l)
  /\ Kept /\ UNCHANGED <<shown, listOthers>>

\* Mutant: the generation is not asked after the last await.
ListEndsOvertaken(l) ==
  /\ list[l].at = "checking"
  /\ IF world = list[l].world
     THEN entries' = entries \union Issued(list[l])
          /\ shown' = (IF Stable(list[l]) THEN shown \union {e.token : e \in Issued(list[l])} ELSE shown)
     ELSE UNCHANGED <<entries, shown>>
  /\ Over(l) /\ UNCHANGED <<generation, listOthers>>

ListEnds(l) ==
  /\ list[l].at = "checking"
  /\ IF generation = list[l].generation /\ world = list[l].world
     THEN entries' = entries \union Issued(list[l])
          /\ shown' = (IF Stable(list[l]) THEN shown \union {e.token : e \in Issued(list[l])} ELSE shown)
     ELSE UNCHANGED <<entries, shown>>
  /\ Over(l) /\ UNCHANGED <<generation, listOthers>>

-----------------------------------------------------------------------------
(* openSessionHistory and deleteSessionHistory.                            *)

opOthers == <<world, context, shown, starting, stopping, outside, changes>>
Goes(step) == op' = [op EXCEPT !.at = step]
R == op.token.remote

Acquires(kind, token) ==
  /\ op.at = "idle" /\ ~stopping /\ token \in shown /\ kind \in left
  /\ LifecycleAvailable
  /\ op' = [Pending(NoOp, context) EXCEPT !.at = "capturing", !.kind = kind, !.token = token]
  /\ left' = left \ {kind} /\ Kept /\ UNCHANGED <<remote, local, workers, list, opOthers>>

Refused(step) == op.at = step /\ op' = NoOp /\ Kept /\ UNCHANGED <<remote, local, workers, list, left, opOthers>>

\* captureSessionHistoryContext ends; resolve begins.
Captured ==
  /\ op.at = "capturing" /\ LifecycleAvailable /\ context = op.context /\ Known(op.token)
  /\ op' = [op EXCEPT !.at = "resolving", !.stable = TRUE]
  /\ Kept /\ UNCHANGED <<remote, local, workers, list, left, opOthers>>

\* The first resolution: a bound session is selected after another one; a delete asks the user; an open starts a worker.
Resolved ==
  /\ op.at = "resolving" /\ Resolvable(op.token, op.context) /\ Stable(op)
  /\ CASE op.kind = "open" /\ R \in local -> Known(op.token) /\ Goes("selecting") /\ UNCHANGED workers
       [] op.kind = "open" /\ R \notin local -> Goes("starting") /\ workers' = workers \union {R}
       [] OTHER -> R \notin local /\ Goes("confirming") /\ UNCHANGED workers
  /\ Kept /\ UNCHANGED <<remote, local, list, left, opOthers>>

\* selectResolvedHistorySession.
Selects ==
  /\ op.at = "selecting" /\ Resolvable(op.token, op.context) /\ Stable(op)
  /\ op' = NoOp /\ list' = Revised(list) /\ Kept /\ UNCHANGED <<remote, local, workers, left, opOthers>>

\* The client has loaded the session that was asked for.
WorkerStarted ==
  /\ op.at = "starting" /\ R \in workers /\ Known(op.token)
  /\ Goes("inserting") /\ Kept /\ UNCHANGED <<remote, local, workers, list, left, opOthers>>

Inserts ==
  /\ op.at = "inserting" /\ Resolvable(op.token, op.context) /\ Stable(op) /\ R \in workers
  /\ local' = local \union {R} /\ Goes("saving") /\ list' = Revised(list)
  /\ Kept /\ UNCHANGED <<remote, workers, left, opOthers>>

Saved == op.at = "saving" /\ op' = NoOp /\ Kept /\ UNCHANGED <<remote, local, workers, list, left, opOthers>>

\* Mutant: the worker of an open that fails is left alone.
FailsQuietly ==
  /\ op.at \in {"starting", "inserting", "saving"}
  /\ local' = (IF op.at = "saving" THEN local \ {R} ELSE local)
  /\ list' = (IF op.at = "saving" THEN Revised(list) ELSE list)
  /\ op' = NoOp /\ Kept /\ UNCHANGED <<remote, workers, left, opOthers>>

\* A step of the open fails: the record is taken out again, then the worker is stopped.
Fails ==
  /\ op.at \in {"starting", "inserting", "saving"}
  /\ local' = (IF op.at = "saving" THEN local \ {R} ELSE local)
  /\ list' = (IF op.at = "saving" THEN Revised(list) ELSE list)
  /\ Goes("undoing") /\ Kept /\ UNCHANGED <<remote, workers, left, opOthers>>

Undone ==
  /\ op.at = "undoing" /\ workers' = workers \ {R} /\ op' = NoOp
  /\ Kept /\ UNCHANGED <<remote, local, list, left, opOthers>>

\* The user answers the native dialog; on a yes the token is resolved again, and then once more by the broker's delete.
Confirmed ==
  /\ op.at = "confirming" /\ Stable(op) /\ Known(op.token)
  /\ Goes("confirmed") /\ Kept /\ UNCHANGED <<remote, local, workers, list, left, opOthers>>

Rechecked ==
  /\ op.at = "confirmed" /\ Resolvable(op.token, op.context) /\ Stable(op) /\ R \notin local
  /\ Goes("consuming") /\ Kept /\ UNCHANGED <<remote, local, workers, list, left, opOthers>>

\* The protection is read, and the token consumed, without an await before the CLI is called.
Consumes ==
  /\ op.at = "consuming" /\ Resolvable(op.token, op.context) /\ Stable(op) /\ R \notin local
  /\ Forget(op.token) /\ Goes("deleting") /\ UNCHANGED <<remote, local, workers, list, left, opOthers>>

\* The CLI deletes the session, or fails; the call returns.
CliDeletes ==
  /\ op.at = "deleting" /\ remote' = remote \ {R} /\ Goes("deleted")
  /\ Kept /\ UNCHANGED <<local, workers, list, left, opOthers>>

-----------------------------------------------------------------------------
(* What happens meanwhile.                                                 *)

changeOthers == <<remote, world, shown, left, outside>>

\* An event of any session: a new revision.
Changed ==
  /\ changes < MaxChanges /\ changes' = changes + 1
  /\ list' = Revised(list) /\ op' = [op EXCEPT !.stable = FALSE] /\ Kept
  /\ UNCHANGED <<local, workers, context, starting, stopping, changeOthers>>

\* The user selects another project or CLI.
Selected ==
  /\ changes < MaxChanges /\ changes' = changes + 1 /\ NoStateTransaction /\ ~stopping
  /\ context' = context + 1 /\ list' = Revised(list) /\ Cleared
  /\ UNCHANGED <<local, workers, op, starting, stopping, changeOthers>>

\* A session of main connects: it asks once, and binds the session that grok answers with whenever that comes.
ConnectionBegins ==
  /\ changes < MaxChanges /\ changes' = changes + 1 /\ NoStateTransaction /\ ~stopping /\ ~starting
  /\ starting' = TRUE /\ Kept /\ UNCHANGED <<local, workers, context, list, op, stopping, changeOthers>>

ConnectionEnds(r) ==
  /\ starting /\ starting' = FALSE /\ r \in remote /\ local' = local \union {r}
  /\ list' = Revised(list) /\ op' = [op EXCEPT !.stable = FALSE] /\ Kept
  /\ UNCHANGED <<workers, context, stopping, changes, changeOthers>>

\* The user removes a session of main; grok keeps it.
Removed(r) ==
  /\ changes < MaxChanges /\ changes' = changes + 1 /\ NoStateTransaction /\ ~stopping
  /\ r \in local /\ local' = local \ {r} /\ workers' = workers \ {r} /\ list' = Revised(list) /\ Kept
  /\ UNCHANGED <<context, op, starting, stopping, changeOthers>>

Outside ==
  /\ outside < MaxOutside /\ outside' = outside + 1 /\ world' = world + 1 /\ Kept
  /\ UNCHANGED <<remote, local, workers, context, shown, list, op, starting, stopping, changes, left>>

\* stop forgets the tokens and stops every worker.
Stop ==
  /\ ~stopping /\ stopping' = TRUE /\ Cleared /\ workers' = {} /\ starting' = FALSE
  /\ UNCHANGED <<local, context, list, op, changes, changeOthers>>

Steps == {"capturing", "resolving", "selecting", "confirming", "confirmed", "consuming", "deleting", "deleted"}

Listing == \E l \in Lists : ListCaptures(l) \/ ListBegins(l) \/ ListBinds(l) \/ ListHears(l) \/ ListEnds(l)
Mutating ==
  \/ \E kind \in Mutations, token \in shown : Acquires(kind, token)
  \/ \E step \in Steps : Refused(step)
  \/ Captured \/ Resolved \/ Selects \/ WorkerStarted \/ Inserts \/ Saved \/ Fails \/ Undone
  \/ Confirmed \/ Rechecked \/ Consumes \/ CliDeletes

Next ==
  \/ Listing \/ Mutating
  \/ Changed \/ Selected \/ ConnectionBegins \/ Outside \/ Stop
  \/ \E r \in Remotes : ConnectionEnds(r) \/ Removed(r)
  \/ \E e \in entries : Expires(e)

Spec == Init /\ [][Next]_vars

-----------------------------------------------------------------------------
Tokens == [generation : 0 .. generation, remote : Remotes]

TypeOK ==
  /\ remote \subseteq Remotes /\ local \subseteq Remotes /\ workers \subseteq Remotes
  /\ entries \subseteq [token : Tokens, context : 0 .. context, world : 0 .. world] /\ shown \subseteq Tokens
  /\ world \in 0 .. MaxOutside /\ context \in 0 .. MaxChanges
  /\ starting \in BOOLEAN /\ stopping \in BOOLEAN /\ left \subseteq Mutations

\* The valid tokens are of the newest list.
OneGeneration == \A e \in entries : e.token.generation = generation

\* While the CLI deletes a session, no session of main is bound to it; and the token that named it is used up.
DeletesUnboundOnly ==
  op.at = "deleting" => R \notin local /\ ~Known(op.token)

\* What is deleted was shown to the user by a list in this workspace and through this CLI, which both were still the
\* same when the deletion was decided.
DeletesListed ==
  op.at # "deleting" /\ op'.at = "deleting" =>
    \E e \in entries : e.token = op.token /\ e.token \in shown /\ e.context = context /\ e.world = world

\* An open that has ended left a session of main and its worker, or neither.
OpenIsWhole == op.at = "idle" => workers \subseteq local
=============================================================================
