--------------------------- MODULE MCAgentBindings ---------------------------
(***************************************************************************)
(* One project of two sessions, and one agent: a session to copy and its   *)
(* copy, a session that is removed and one that is not, a bound session    *)
(* and an unbound one.                                                     *)
(***************************************************************************)
EXTENDS AgentBindings
=============================================================================
