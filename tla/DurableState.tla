---------------------------- MODULE DurableState ----------------------------
(***************************************************************************)
(* What the persistence of the application state promises: a change of the *)
(* state that was reported as saved is in the state and in its file from   *)
(* then on, and a save never takes a change out of the file that the state *)
(* still holds.  A state is the set of the changes it contains.            *)
(***************************************************************************)
CONSTANT Changes

VARIABLES
  memory,   \* the state
  disk,     \* its file
  promised  \* the changes reported as saved

states == <<memory, disk, promised>>

Init == memory = {} /\ disk = {} /\ promised = {}

\* The state is changed, or an unpromised change of it is undone.
Edit ==
  /\ memory' \in {state \in SUBSET Changes : promised \subseteq state}
  /\ UNCHANGED <<disk, promised>>

\* The file is replaced.
Save ==
  /\ disk' \in {state \in SUBSET Changes : promised \union (disk \intersect memory) \subseteq state}
  /\ UNCHANGED <<memory, promised>>

\* A change that is in the state and in its file is reported as saved.
Promise ==
  \E t \in memory \intersect disk :
    promised' = promised \union {t} /\ UNCHANGED <<memory, disk>>

\* A change is saved first, then made and reported.
SaveThenEdit ==
  \E t \in Changes :
    /\ disk' \in {state \in SUBSET Changes :
                    promised \union (disk \intersect memory) \union {t} \subseteq state}
    /\ memory' = memory \union {t}
    /\ promised' = promised \union {t}

Next == Edit \/ Save \/ Promise \/ SaveThenEdit

Spec == Init /\ [][Next]_states
=============================================================================
