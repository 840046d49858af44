--------------------------- MODULE MCSessionTurns ---------------------------
(***************************************************************************)
(* Four instances of SessionTurns for TLC, each behaviour one of them.     *)
(* Three have short queues and two clients: Permits has one prompt and a   *)
(* permission the agent may ask for twice, Asks one prompt and two         *)
(* questions, Cards both kinds of request and no prompt.  Auto has more    *)
(* permission requests of one client, with a longer queue, which Auto      *)
(* accept drains.  They share the variables, and the invariants, which are *)
(* those of SessionTurns over the ids of all.                              *)
(***************************************************************************)
EXTENDS SessionTurns

CONSTANTS ClientsMaxQueue, AutoPermissions, CardQuestions

VARIABLE instance

Permits == INSTANCE SessionTurns WITH Permissions <- Permissions \ AutoPermissions, Questions <- {},
             MaxQueue <- ClientsMaxQueue

Asks == INSTANCE SessionTurns WITH Permissions <- {}, Reasked <- {},
          MaxQueue <- ClientsMaxQueue

Cards == INSTANCE SessionTurns WITH Permissions <- Permissions \ AutoPermissions,
           Questions <- CardQuestions, MaxTurns <- 0,
           MaxQueue <- ClientsMaxQueue

Auto == INSTANCE SessionTurns WITH Permissions <- AutoPermissions, Questions <- {}, Reasked <- {},
          MaxTurns <- 0, MaxClients <- 1, MaxPathChanges <- 0

MCInit == \/ instance = "permits" /\ Permits!Init
          \/ instance = "asks" /\ Asks!Init
          \/ instance = "cards" /\ Cards!Init
          \/ instance = "auto" /\ Auto!Init

MCNext == /\ UNCHANGED instance
          /\ \/ instance = "permits" /\ Permits!Next
             \/ instance = "asks" /\ Asks!Next
             \/ instance = "cards" /\ Cards!Next
             \/ instance = "auto" /\ Auto!Next

MCSpec == /\ MCInit /\ [][MCNext]_<<instance, vars>>
          /\ WF_vars(instance = "auto" /\ Auto!MainHandles)
          /\ WF_vars(instance = "auto" /\ Auto!WorkerHandles)

-----------------------------------------------------------------------------
\* Auto accept drains the queue or hands it back to the user.
AutoAcceptDrains == instance = "auto" => Auto!AutoDrains
=============================================================================
