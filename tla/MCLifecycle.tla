----------------------------- MODULE MCLifecycle -----------------------------
(***************************************************************************)
(* How the application and its workers come to an end, for TLC: the update *)
(* transactions with the quit (UpdateInstall), and the channel of a worker *)
(* from its start to its stop (AcpChannel).  They share no state: each     *)
(* behaviour is one of the part chosen at first, and the other part stays  *)
(* in its initial state.                                                   *)
(***************************************************************************)
EXTENDS UpdateInstall

CONSTANTS Calls, Starting, MaxStarts, MaxFaults

VARIABLES
  part,
  host, killed, attempt, start, call, stop, late, announced, toWorker, toMain, created, phase, ready, waiters, rpc,
  child, intended, closing, ending, exiting, faults

Channel == INSTANCE AcpChannel WITH worker <- host, stopping <- ending

\* The pending calls of a client are finitely many, and no call has the name of a start or of the stop.
ASSUME CallsAssumption ==
  /\ IsFiniteSet(Calls) /\ Starting \subseteq Calls /\ MaxStarts \in Nat
  /\ Calls \intersect ({Channel!StopId} \union {<<"start", n>> : n \in 0 .. MaxStarts}) = {}

channelVars == <<host, killed, attempt, start, call, stop, late, announced, toWorker, toMain, created, phase, ready, waiters,
                 rpc, child, intended, closing, ending, exiting, faults>>

LifecycleInit == part \in {"update", "channel"} /\ Init /\ Channel!Init

LifecycleNext ==
  /\ UNCHANGED part
  /\ \/ part = "update" /\ Next /\ UNCHANGED channelVars
     \/ part = "channel" /\ Channel!Next /\ UNCHANGED vars

\* Nothing that must happen can happen in an initial state, so the fairness of the part that stays there asks nothing.
LifecycleSpec == LifecycleInit /\ [][LifecycleNext]_<<part, vars, channelVars>> /\ Fairness /\ Channel!Fairness

-----------------------------------------------------------------------------
\* A client that main holds to be started has a child with an open session, or the news of its exit is under way.
StartIsTrue == Channel!StartIsTrue

\* stop() of a client returns without its timer.
StopReturns == Channel!StopReturns

\* The exit of the child of a started client reaches main, unless main stops the client first.
CrashIsHeard == Channel!CrashIsHeard
=============================================================================
