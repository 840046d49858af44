----------------------------- MODULE MCMainState -----------------------------
(***************************************************************************)
(* What AppController.stop has to bring to rest, for TLC: the registry of  *)
(* sessions with their workers (SessionManager), and the state on its way  *)
(* to its file (PersistenceLane).  They share no state: each behaviour is  *)
(* one of the part chosen at first, and the other part stays in its        *)
(* initial state.                                                          *)
(***************************************************************************)
EXTENDS SessionManager, SavedState

VARIABLE part

Lane == INSTANCE PersistenceLane

laneVars == <<memory, disk, lane, failed, flush, txn, outcome, stop>>

MainInit == part \in {"sessions", "state"} /\ Init /\ Lane!Init

MainNext ==
  /\ UNCHANGED part
  /\ \/ part = "sessions" /\ Next /\ UNCHANGED laneVars
     \/ part = "state" /\ Lane!Next /\ UNCHANGED vars

\* The fairness of the two modules, each for its own part: what stays in its initial state owes nothing.
SessionFairness ==
  /\ \A c \in Clients : WF_vars(part = "sessions" /\ StopSettles(c))
  /\ WF_vars(part = "sessions" /\ StopAllReturns)

LaneFairness ==
  /\ WF_laneVars(part = "state" /\ Lane!LaneStep)
  /\ WF_laneVars(part = "state" /\ Lane!TransactionStep)
  /\ WF_laneVars(part = "state" /\ Lane!StopStep)

MainSpec == MainInit /\ [][MainNext]_<<part, vars, laneVars>> /\ SessionFairness /\ LaneFairness
=============================================================================
