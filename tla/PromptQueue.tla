---------------------------- MODULE PromptQueue ----------------------------
(***************************************************************************)
(* How the renderer sends prompts: the composer of the session in view,    *)
(* the messages typed while a turn runs, which go out one by one when the  *)
(* session is shown as idle, and sendPrompt of main with its lock and the  *)
(* turns it starts.  Invocations, their replies and the snapshots cross in *)
(* order; a snapshot shows what main held when it was sent, so renderer    *)
(* and main may disagree on what is idle.                                  *)
(***************************************************************************)
EXTENDS Naturals, Sequences, FiniteSets, SequencesExt

CONSTANTS Sessions, Messages, MaxWire

None == "none"
Nothing == 0     \* no message

VARIABLES
  status,       \* main: the status of each session
  turns,        \* main: the prompts of each session whose turn has not ended
  lock,         \* main: the prompt that holds the lifecycle lock of each session
  asks,         \* to main: the prompts in the order they were sent
  wire,         \* to the renderer: replies and snapshots
  dirty,        \* broadcastTimer is set
  shown,        \* renderer: the statuses of the snapshot
  view,         \* renderer: the session in view, or None
  draft,        \* renderer: there is text in the composer
  submitting,   \* renderer: the composer awaits its prompt
  queue,        \* renderer: queuedBySession
  dispatching,  \* renderer: dispatchingQueueRef
  message       \* of each message: its session, whether it was queued, where it is

vars == <<status, turns, lock, asks, wire, dirty, shown, view, draft, submitting, queue, dispatching, message>>

main == <<status, turns, lock, dirty>>
composer == <<view, draft, submitting>>

Statuses == {"idle", "running", "failed"}
Unsaid == [session |-> None, queued |-> FALSE, at |-> "unsaid"]

Init ==
  /\ status = [s \in Sessions |-> "idle"] /\ turns = [s \in Sessions |-> 0] /\ lock = [s \in Sessions |-> Nothing]
  /\ asks = <<>> /\ wire = <<>> /\ dirty = FALSE
  /\ shown = [s \in Sessions |-> "idle"] /\ view \in Sessions \union {None} /\ draft = FALSE /\ submitting = FALSE
  /\ queue = [s \in Sessions |-> <<>>] /\ dispatching = {}
  /\ message = [m \in Messages |-> Unsaid]

-----------------------------------------------------------------------------
(* The queue of the renderer                                               *)

\* Mutant: a session is served again before main has answered for its last message.
DispatchableTwice(q, sh, d) == {s \in Sessions : q[s] # <<>> /\ sh[s] = "idle"}
Dispatchable(q, sh, d) == {s \in Sessions \ d : q[s] # <<>> /\ sh[s] = "idle"}

\* The effect that runs after every change of the snapshot or of the queues: the first message of each idle session goes
\* out. It leaves its queue before main has answered. The effect runs again for the queues it changed, to no effect.
Dispatched(q, sh, d, sent, ms) ==
  LET ready == Dispatchable(q, sh, d)
      heads == {Head(q[s]) : s \in ready} IN
  /\ queue' = [s \in Sessions |-> IF s \in ready THEN Tail(q[s]) ELSE q[s]]
  /\ dispatching' = d \union ready
  /\ asks' = sent \o SetToSeq(heads)
  /\ message' = [m \in Messages |-> IF m \in heads THEN [ms[m] EXCEPT !.at = "asked"] ELSE ms[m]]

\* The user writes. The text area is disabled while the composer awaits a prompt.
Types ==
  /\ view # None /\ ~draft /\ ~submitting
  /\ draft' = TRUE
  /\ UNCHANGED <<main, asks, wire, shown, view, submitting, queue, dispatching, message>>

\* The text becomes the next message.
New(m) == message[m] = Unsaid /\ \A n \in Messages : n < m => message[n] # Unsaid
Said(m, queued) == [message EXCEPT ![m] = [session |-> view, queued |-> queued, at |-> IF queued THEN "queued" ELSE "asked"]]

\* While a turn is shown it is queued, else it is sent, and its text stays in the composer until main has answered.
SubmitQueues(m) ==
  /\ draft /\ ~submitting /\ shown[view] = "running" /\ New(m)
  /\ draft' = FALSE
  /\ Dispatched([queue EXCEPT ![view] = Append(@, m)], shown, dispatching, asks, Said(m, TRUE))
  /\ UNCHANGED <<main, wire, shown, view, submitting>>

SubmitSends(m) ==
  /\ draft /\ ~submitting /\ shown[view] # "running" /\ New(m)
  /\ submitting' = TRUE
  /\ asks' = Append(asks, m) /\ message' = Said(m, FALSE)
  /\ UNCHANGED <<main, wire, shown, view, draft, queue, dispatching>>

\* A queued message is taken back, by its place in the queue.
Removes ==
  /\ view # None
  /\ \E x \in DOMAIN queue[view] :
       Dispatched([queue EXCEPT ![view] = RemoveAt(@, x)], shown, dispatching, asks,
                  [message EXCEPT ![queue[view][x]].at = "removed"])
  /\ UNCHANGED <<main, wire, shown, view, draft, submitting>>

\* Another session comes into view, or none: the composer starts anew.
Views(s) ==
  /\ s # view
  /\ view' = s /\ draft' = FALSE /\ submitting' = FALSE
  /\ UNCHANGED <<main, asks, wire, shown, queue, dispatching, message>>

-----------------------------------------------------------------------------
(* sendPrompt of main, and the turns                                       *)

Snapshot == [kind |-> "snapshot", message |-> Nothing, ok |-> TRUE, status |-> status]
Replies(m, ok) == wire' = Append(wire, [kind |-> "reply", message |-> m, ok |-> ok, status |-> shown])

Refused(m) ==
  /\ message' = [message EXCEPT ![m].at = "refused"]
  /\ Replies(m, FALSE)

\* Another operation on the session holds its lock, or a fork, an import or a removal is under way: an error at once.
AskRefused ==
  /\ asks # <<>>
  /\ Refused(Head(asks))
  /\ asks' = Tail(asks)
  /\ UNCHANGED <<main, shown, composer, queue, dispatching>>

\* The lock is free: main looks whether the workspace is ready.
Locks ==
  /\ asks # <<>>
  /\ LET m == Head(asks) s == message[m].session IN
     /\ lock[s] = Nothing
     /\ lock' = [lock EXCEPT ![s] = m]
     /\ message' = [message EXCEPT ![m].at = "checking"]
  /\ asks' = Tail(asks)
  /\ UNCHANGED <<status, turns, dirty, wire, shown, composer, queue, dispatching>>

\* It is ready: the turn starts, whether or not another one is under way.
Starts(s) ==
  LET m == lock[s] IN
  /\ m # Nothing
  /\ lock' = [lock EXCEPT ![s] = Nothing]
  /\ turns' = [turns EXCEPT ![s] = @ + 1] /\ status' = [status EXCEPT ![s] = "running"] /\ dirty' = TRUE
  /\ message' = [message EXCEPT ![m].at = "begun"]
  /\ Replies(m, TRUE)
  /\ UNCHANGED <<asks, shown, composer, queue, dispatching>>

\* It is not, or the images of the prompt are gone.
Fails(s) ==
  LET m == lock[s] IN
  /\ m # Nothing
  /\ lock' = [lock EXCEPT ![s] = Nothing]
  /\ Refused(m)
  /\ UNCHANGED <<status, turns, dirty, asks, shown, composer, queue, dispatching>>

\* The turn of a prompt ends well or not; the other prompts of the session are not asked.
TurnEnds(s, result) ==
  /\ turns[s] > 0
  /\ turns' = [turns EXCEPT ![s] = @ - 1] /\ status' = [status EXCEPT ![s] = result] /\ dirty' = TRUE
  /\ UNCHANGED <<lock, asks, wire, shown, composer, queue, dispatching, message>>

\* cancelTurn: the session is idle at once, its prompt ends later.
Cancels ==
  /\ view # None /\ shown[view] = "running"
  /\ status' = [status EXCEPT ![view] = "idle"] /\ dirty' = TRUE
  /\ UNCHANGED <<turns, lock, asks, wire, shown, composer, queue, dispatching, message>>

Broadcasts ==
  /\ dirty /\ Len(wire) < MaxWire
  /\ dirty' = FALSE /\ wire' = Append(wire, Snapshot)
  /\ UNCHANGED <<status, turns, lock, asks, shown, composer, queue, dispatching, message>>

-----------------------------------------------------------------------------
(* What the renderer receives                                              *)

Shows ==
  /\ wire # <<>> /\ Head(wire).kind = "snapshot"
  /\ shown' = Head(wire).status /\ wire' = Tail(wire)
  /\ Dispatched(queue, shown', dispatching, asks, message)
  /\ UNCHANGED <<main, composer>>

\* The reply to a message of the queue lets the next one go, at the next change of the snapshot or of the queues.
QueueHears ==
  /\ wire # <<>> /\ Head(wire).kind = "reply" /\ message[Head(wire).message].queued
  /\ dispatching' = dispatching \ {message[Head(wire).message].session}
  /\ wire' = Tail(wire)
  /\ UNCHANGED <<main, asks, shown, composer, queue, message>>

\* The reply to the composer: what was sent leaves it, if the same session is in view, whatever it contains by now.
ComposerHears ==
  /\ wire # <<>> /\ Head(wire).kind = "reply" /\ ~message[Head(wire).message].queued
  /\ IF message[Head(wire).message].session = view
     THEN submitting' = FALSE /\ draft' = IF Head(wire).ok THEN FALSE ELSE draft
     ELSE UNCHANGED <<draft, submitting>>
  /\ wire' = Tail(wire)
  /\ UNCHANGED <<main, asks, shown, view, queue, dispatching, message>>

Next ==
  \/ \E m \in Messages : SubmitQueues(m) \/ SubmitSends(m)
  \/ Types \/ Removes \/ AskRefused \/ Locks \/ Cancels \/ Broadcasts
  \/ \E s \in Sessions \union {None} : Views(s)
  \/ \E s \in Sessions : Starts(s) \/ Fails(s) \/ \E r \in {"idle", "failed"} : TurnEnds(s, r)
  \/ Shows \/ QueueHears \/ ComposerHears

Spec == Init /\ [][Next]_vars

-----------------------------------------------------------------------------
TypeOK ==
  /\ status \in [Sessions -> Statuses] /\ shown \in [Sessions -> Statuses] /\ turns \in [Sessions -> Nat]
  /\ lock \in [Sessions -> Messages \union {Nothing}] /\ asks \in Seq(Messages) /\ dirty \in BOOLEAN
  /\ wire \in Seq([kind : {"reply", "snapshot"}, message : Messages \union {Nothing}, ok : BOOLEAN, status : [Sessions -> Statuses]])
  /\ view \in Sessions \union {None} /\ draft \in BOOLEAN /\ submitting \in BOOLEAN
  /\ queue \in [Sessions -> Seq(Messages)] /\ dispatching \subseteq Sessions
  /\ message \in [Messages -> [session : Sessions \union {None}, queued : BOOLEAN,
                               at : {"unsaid", "queued", "asked", "checking", "begun", "refused", "removed"}]]

Queued(s) == {m \in Messages : message[m].queued /\ message[m].session = s}

\* The messages that the user queued for a session leave their queue in the order in which they were typed, each after
\* main has decided about the one before: no queued message meets the lock of another.
QueueInOrder ==
  \A s \in Sessions : \A m, n \in Queued(s) :
    m < n /\ message[n].at \in {"asked", "checking", "begun", "refused"}
      => message[m].at \in {"begun", "refused", "removed"}

\* A queued message that main refuses is in its queue again (docs/PARITY_MATRIX.md: failed delivery preserves queue).
FailedDeliveryKeepsQueue ==
  \A s \in Sessions : \A m \in Queued(s) : message[m].at = "refused" => m \in Range(queue[s])
=============================================================================
