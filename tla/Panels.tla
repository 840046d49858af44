------------------------------- MODULE Panels -------------------------------
(***************************************************************************)
(* What the renderer shows of the selected project in a panel: the git     *)
(* status of the dashboard, the history of sessions, or the catalog of     *)
(* agents in the settings.  Main answers for the project it has selected   *)
(* by then, which the renderer learns from a later snapshot; requests are  *)
(* numbered, and closing, refreshing and another project make a number     *)
(* old.  A behaviour follows one panel.                                    *)
(***************************************************************************)
EXTENDS Naturals, Sequences, FiniteSets

CONSTANTS Projects,
          MaxSequence, MaxCalls, MaxWire   \* bounds: numbers of requests, open requests, messages to the renderer

Kinds == {"dashboard", "history", "catalog"}
None == "none"

VARIABLES
  kind,      \* the panel
  picked,    \* main: selectedProjectId
  dirty,     \* main: broadcastTimer is set
  calls,     \* the requests on their way to main or under way there
  wire,      \* to the renderer: snapshots and answers
  shown,     \* renderer: the selected project of the snapshot
  open,      \* renderer: the panel is open
  sequence,  \* renderer: the number of the newest request
  inFlight,  \* renderer: dashboardRequestInFlight
  timer,     \* renderer: the history request that waits for its timer, by its number, or 0
  data       \* renderer: the project whose data are in the panel, or None

vars == <<kind, picked, dirty, calls, wire, shown, open, sequence, inFlight, timer, data>>
panel == <<open, sequence, inFlight, timer, data>>

Init ==
  /\ kind \in Kinds
  /\ \E p \in Projects : picked = p /\ shown = p
  /\ dirty = FALSE /\ calls = {} /\ wire = <<>>
  /\ open = FALSE /\ sequence = 0 /\ inFlight = FALSE /\ timer = 0 /\ data = None

Call(n, p) == [number |-> n, expected |-> p, of |-> None, at |-> None]
Room == Cardinality(calls) < MaxCalls

-----------------------------------------------------------------------------
(* The requests of the renderer                                            *)

\* Request n for project p, as the first or the next of the open panel. The history waits for its timer, the data of the
\* catalog make room, and those of the dashboard and the history stay until the answer.
Requests(n, p) ==
  /\ n <= MaxSequence /\ Room
  /\ sequence' = n
  /\ inFlight' = (kind = "dashboard")
  /\ timer' = IF kind = "history" THEN n ELSE 0
  /\ data' = IF kind = "catalog" THEN None ELSE data
  /\ calls' = IF kind = "history" THEN calls ELSE calls \union {Call(n, p)}

Opens ==
  /\ ~open /\ open' = TRUE
  /\ Requests(sequence + 1, shown)
  /\ UNCHANGED <<kind, picked, dirty, wire, shown>>

\* By the user, or by the timer of an open panel. The dashboard does not ask twice; the others make the old number void.
Refreshes ==
  /\ open /\ UNCHANGED open
  /\ IF kind = "dashboard" THEN ~inFlight /\ Requests(sequence + 1, shown) ELSE Requests(sequence + 2, shown)
  /\ UNCHANGED <<kind, picked, dirty, wire, shown>>

TimerFires ==
  /\ timer # 0 /\ Room
  /\ calls' = calls \union {Call(timer, shown)} /\ timer' = 0
  /\ UNCHANGED <<kind, picked, dirty, wire, shown, open, sequence, inFlight, data>>

\* The answer of an earlier request is not waited for.
Closes ==
  /\ open /\ open' = FALSE /\ sequence < MaxSequence
  /\ sequence' = sequence + 1 /\ inFlight' = FALSE /\ timer' = 0
  /\ data' = IF kind = "catalog" THEN None ELSE data
  /\ UNCHANGED <<kind, picked, dirty, calls, wire, shown>>

-----------------------------------------------------------------------------
(* Main                                                                    *)

Picks(p) ==
  /\ p # picked
  /\ picked' = p /\ dirty' = TRUE
  /\ UNCHANGED <<kind, calls, wire, shown, panel>>

Broadcasts ==
  /\ dirty /\ dirty' = FALSE /\ Len(wire) < MaxWire
  /\ wire' = Append(wire, [kind |-> "snapshot", of |-> picked, number |-> 0, expected |-> None])
  /\ UNCHANGED <<kind, picked, calls, shown, panel>>

\* A request is about the project that is selected when it comes; that for the catalog names it.
Takes(c) ==
  /\ c.at = None
  /\ calls' = (calls \ {c}) \union {[c EXCEPT !.at = picked, !.of = IF kind = "catalog" THEN c.expected ELSE picked]}
  /\ UNCHANGED <<kind, picked, dirty, wire, shown, panel>>

Answer(c, of) ==
  /\ calls' = calls \ {c}
  /\ wire' = Append(wire, [kind |-> "answer", of |-> of, number |-> c.number, expected |-> c.expected])
  /\ UNCHANGED <<kind, picked, dirty, shown, panel>>

\* Main looks again whether the selection is what it was.
Answers(c) == c.at = picked /\ Len(wire) < MaxWire /\ Answer(c, c.of)
Fails(c) == c.at # None /\ Len(wire) < MaxWire /\ Answer(c, None)

-----------------------------------------------------------------------------
(* What the renderer receives                                              *)

\* Another project is shown. Dashboard and history are closed and emptied. The dashboard first asks once more, as its
\* effect still finds it open, and no longer waits for that answer. The settings stay open, and the catalog is asked for.
Shows ==
  /\ wire # <<>> /\ Head(wire).kind = "snapshot"
  /\ LET p == Head(wire).of IN
     /\ shown' = p
     /\ IF p = shown THEN UNCHANGED <<calls, panel>>
        ELSE IF kind = "catalog" /\ open THEN Requests(sequence + 2, p) /\ UNCHANGED open
        ELSE /\ sequence + 2 <= MaxSequence
             /\ sequence' = sequence + 2 /\ open' = FALSE /\ inFlight' = FALSE /\ timer' = 0 /\ data' = None
             /\ (kind = "dashboard" /\ open) => Room
             /\ calls' = IF kind = "dashboard" /\ open THEN calls \union {Call(sequence + 1, p)} ELSE calls
  /\ wire' = Tail(wire)
  /\ UNCHANGED <<kind, picked, dirty>>

\* Mutant: an answer counts whatever its number.
CurrentAlways(a) == a.number <= sequence
Current(a) == a.number = sequence

\* The data of another project than the expected one are not shown.
Hears ==
  /\ wire # <<>> /\ Head(wire).kind = "answer"
  /\ LET a == Head(wire) IN
     IF Current(a)
     THEN /\ data' = IF a.of = a.expected THEN a.of ELSE None
          /\ inFlight' = FALSE
     ELSE UNCHANGED <<data, inFlight>>
  /\ wire' = Tail(wire)
  /\ UNCHANGED <<kind, picked, dirty, calls, shown, open, sequence, timer>>

Next ==
  \/ Opens \/ Refreshes \/ TimerFires \/ Closes \/ Broadcasts \/ Shows \/ Hears
  \/ \E p \in Projects : Picks(p)
  \/ \E c \in calls : Takes(c) \/ Answers(c) \/ Fails(c)

Spec == Init /\ [][Next]_vars

-----------------------------------------------------------------------------
OnWire == [kind : {"snapshot", "answer"}, of : Projects \union {None}, number : 0 .. MaxSequence,
             expected : Projects \union {None}]

TypeOK ==
  /\ kind \in Kinds /\ picked \in Projects /\ shown \in Projects /\ dirty \in BOOLEAN
  /\ calls \subseteq [number : 1 .. MaxSequence, expected : Projects, of : Projects \union {None}, at : Projects \union {None}]
  /\ wire \in Seq(OnWire)
  /\ open \in BOOLEAN /\ inFlight \in BOOLEAN
  /\ sequence \in 0 .. MaxSequence /\ timer \in 0 .. MaxSequence /\ data \in Projects \union {None}

\* A panel shows the data of the project that the renderer shows as selected.
ShowsTheSelected == data \in {None, shown}

\* The dashboard waits only for an answer that will come: its refresh is never stuck.
WaitsForAnAnswer ==
  inFlight => \/ \E c \in calls : c.number = sequence
              \/ \E i \in DOMAIN wire : wire[i].kind = "answer" /\ wire[i].number = sequence
=============================================================================
