---------------------------- MODULE TerminalHost ----------------------------
(***************************************************************************)
(* TerminalHost: the terminals that the agent of one session opens in its  *)
(* worker.  Each operation of the agent runs up to its next await; the     *)
(* process of a terminal ends on its own or after the signals of terminate,*)
(* which several operations may run at once for one terminal.  Output is   *)
(* counted in bytes, kept up to a limit per terminal and a budget for all. *)
(***************************************************************************)
EXTENDS Naturals, FiniteSets, Sequences, SequencesExt

CONSTANTS Terms,          \* terminal ids, each used once
          MaxTerminals, OutputLimit, Budget, Chunks,
          MaxStubborn     \* processes that outlive SIGKILL's grace period

VARIABLES
  create,     \* of each terminal: "free", "resolving", "spawning", "open" (returned), "failing", "refused"
  terminals,  \* the map of the terminals the agent may name
  retained,   \* retainedSessions
  proc,       \* "none", "alive", "group" (descendants only), "gone"
  ending,     \* operations that run terminate, as <<terminal, operation>>
  size,       \* bytes of output kept
  order,      \* terminals by their last output, the oldest first
  bytes,      \* retainedOutputBytes
  stop,       \* "no", "stopping", "stopped", "failed"
  unreaped,   \* terminals whose release was answered with an error
  stubborn    \* failed terminations so far

vars == <<create, terminals, retained, proc, ending, size, order, bytes, stop, unreaped, stubborn>>

Init ==
  /\ create = [t \in Terms |-> "free"] /\ terminals = {} /\ retained = {}
  /\ proc = [t \in Terms |-> "none"] /\ ending = {} /\ size = [t \in Terms |-> 0] /\ order = <<>>
  /\ bytes = 0 /\ stop = "no" /\ unreaped = {} /\ stubborn = 0

Full == Cardinality(terminals) >= MaxTerminals
Set(t, value) == create' = [create EXCEPT ![t] = value]

\* Mutant: the bytes of a terminal that is discarded stay in the count.
DiscardedUncounted(t) ==
  size' = [size EXCEPT ![t] = 0] /\ retained' = retained \ {t} /\ UNCHANGED <<bytes, order>>

\* detachSession and discardSessionOutput.
Discarded(t) ==
  /\ bytes' = (IF bytes >= size[t] THEN bytes - size[t] ELSE 0)
  /\ size' = [size EXCEPT ![t] = 0] /\ retained' = retained \ {t}
  /\ UNCHANGED order

-----------------------------------------------------------------------------
\* The parameters of the request are not acceptable, or the capacity is used up.
Rejected(t) ==
  /\ create[t] = "free" /\ Set(t, "refused")
  /\ UNCHANGED <<terminals, retained, proc, ending, size, order, bytes, stop, unreaped, stubborn>>

Create(t) ==
  /\ create[t] = "free" /\ stop = "no" /\ ~Full
  /\ Set(t, "resolving")
  /\ UNCHANGED <<terminals, retained, proc, ending, size, order, bytes, stop, unreaped, stubborn>>

\* The directory and the executable are found: stopped and the capacity are looked at again.
Spawns == stop = "no" /\ ~Full

\* resolveLaunch fails, or one of the two looks after it.
Unresolved(t) ==
  /\ create[t] = "resolving" /\ Set(t, "refused")
  /\ UNCHANGED <<terminals, retained, proc, ending, size, order, bytes, stop, unreaped, stubborn>>

\* resolveLaunch returns; the terminal is registered before its process is known to run.
Resolved(t) ==
  /\ create[t] = "resolving" /\ Spawns /\ Set(t, "spawning")
  /\ terminals' = terminals \union {t} /\ retained' = retained \union {t}
  /\ proc' = [proc EXCEPT ![t] = "alive"]
  /\ UNCHANGED <<ending, size, order, bytes, stop, unreaped, stubborn>>

\* waitForSpawn: the terminal is the agent's, unless the host stopped meanwhile.
Spawned(t) ==
  /\ create[t] = "spawning"
  /\ \/ stop = "no" /\ t \in terminals /\ Set(t, "open") /\ UNCHANGED <<terminals, ending>>
     \/ /\ stop # "no" \/ t \notin terminals
        /\ Set(t, "failing") /\ terminals' = terminals \ {t} /\ ending' = ending \union {<<t, "create">>}
  /\ UNCHANGED <<retained, proc, size, order, bytes, stop, unreaped, stubborn>>

\* The process could not be started.
SpawnFails(t) ==
  /\ create[t] = "spawning" /\ proc[t] = "alive" /\ <<t, "stop">> \notin ending
  /\ Set(t, "refused") /\ proc' = [proc EXCEPT ![t] = "gone"] /\ terminals' = terminals \ {t}
  /\ Discarded(t) /\ UNCHANGED <<ending, stop, unreaped, stubborn>>

Kill(t) ==
  /\ create[t] = "open" /\ t \in terminals
  /\ ending' = ending \union {<<t, "kill">>}
  /\ UNCHANGED <<create, terminals, retained, proc, size, order, bytes, stop, unreaped, stubborn>>

\* release: the terminal cannot be named any more from here on.
Release(t) ==
  /\ create[t] = "open" /\ t \in terminals
  /\ terminals' = terminals \ {t} /\ ending' = ending \union {<<t, "release">>}
  /\ UNCHANGED <<create, retained, proc, size, order, bytes, stop, unreaped, stubborn>>

\* Mutant: stopAll looks at the terminals that the agent may name.
StopAllOfNamed ==
  /\ stop = "no" /\ stop' = "stopping" /\ terminals' = {}
  /\ ending' = ending \union {<<t, "stop">> : t \in terminals}
  /\ UNCHANGED <<create, retained, proc, size, order, bytes, unreaped, stubborn>>

StopAll ==
  /\ stop = "no" /\ stop' = "stopping" /\ terminals' = {}
  /\ ending' = ending \union {<<t, "stop">> : t \in retained}
  /\ UNCHANGED <<create, retained, proc, size, order, bytes, unreaped, stubborn>>

\* What an operation does once terminate has returned or failed.
AfterTerminate(t, op) ==
  /\ IF op = "kill" THEN UNCHANGED <<retained, size, order, bytes>> ELSE Discarded(t)
  /\ IF op = "create" THEN Set(t, "refused") ELSE UNCHANGED create

\* The process and its group are gone, before any signal or after SIGTERM or SIGKILL.
Terminated(t, op) ==
  /\ <<t, op>> \in ending /\ proc[t] = "gone" /\ ending' = ending \ {<<t, op>>}
  /\ AfterTerminate(t, op)
  /\ UNCHANGED <<terminals, proc, stop, unreaped, stubborn>>

\* It outlives both grace periods: release and stopAll report it, and keep nothing of it.
NotTerminated(t, op) ==
  /\ <<t, op>> \in ending /\ proc[t] # "gone" /\ stubborn < MaxStubborn /\ stubborn' = stubborn + 1
  /\ ending' = ending \ {<<t, op>>} /\ AfterTerminate(t, op)
  /\ unreaped' = (IF op = "release" THEN unreaped \union {t} ELSE unreaped)
  /\ stop' = (IF op = "stop" THEN "failed" ELSE stop)
  /\ UNCHANGED <<terminals, proc>>

\* Promise.allSettled of stopAll.
Stopped ==
  /\ stop = "stopping" /\ ~\E t \in Terms : <<t, "stop">> \in ending
  /\ stop' = "stopped"
  /\ UNCHANGED <<create, terminals, retained, proc, ending, size, order, bytes, unreaped, stubborn>>

ProcessEnds(t) ==
  /\ \/ proc[t] = "alive" /\ \E p \in {"group", "gone"} : proc' = [proc EXCEPT ![t] = p]
     \/ proc[t] = "group" /\ proc' = [proc EXCEPT ![t] = "gone"]
  /\ UNCHANGED <<create, terminals, retained, ending, size, order, bytes, stop, unreaped, stubborn>>

-----------------------------------------------------------------------------
(* Output.                                                                 *)

Least(a, b) == IF a < b THEN a ELSE b
Total(sizes, ts) == FoldLeft(LAMBDA sum, t : sum + sizes[t], 0, ts)

\* enforceRetainedOutputBudget: the oldest output gives way first, each terminal as far as needed.
Trimmed(sizes, ts, excess) ==
  [t \in Terms |->
     IF t \notin Range(ts) THEN sizes[t]
     ELSE LET older == Total(sizes, SubSeq(ts, 1, CHOOSE i \in 1 .. Len(ts) : ts[i] = t)) - sizes[t]
          IN IF excess <= older THEN sizes[t] ELSE sizes[t] - Least(excess - older, sizes[t])]

\* append: a chunk, cut to the terminal's limit at a character boundary, which may cost a byte more.
Output(t, n) ==
  /\ t \in retained /\ proc[t] # "none"
  /\ LET recent == Append(SelectSeq(order, LAMBDA u : u # t), t) IN
     \E boundary \in {0, 1} :
       LET kept == IF size[t] + n <= OutputLimit THEN size[t] + n ELSE OutputLimit - boundary
           grown == [size EXCEPT ![t] = kept]
           now == bytes + kept - size[t]
           excess == IF now > Budget THEN now - Budget ELSE 0
           after == Trimmed(grown, SelectSeq(recent, LAMBDA u : grown[u] > 0), excess)
       IN /\ size' = after /\ order' = recent
          /\ bytes' = now - (Total(grown, recent) - Total(after, recent))
  /\ UNCHANGED <<create, terminals, retained, proc, ending, stop, unreaped, stubborn>>

Next ==
  \/ StopAll \/ Stopped
  \/ \E t \in Terms :
       \/ Rejected(t) \/ Create(t) \/ Unresolved(t) \/ Resolved(t) \/ Spawned(t) \/ SpawnFails(t) \/ Kill(t) \/ Release(t) \/ ProcessEnds(t)
       \/ \E op \in {"create", "kill", "release", "stop"} : Terminated(t, op) \/ NotTerminated(t, op)
       \/ \E n \in Chunks : Output(t, n)

Spec == Init /\ [][Next]_vars

-----------------------------------------------------------------------------
TypeOK ==
  /\ create \in [Terms -> {"free", "resolving", "spawning", "open", "failing", "refused"}]
  /\ terminals \subseteq retained /\ retained \subseteq Terms
  /\ proc \in [Terms -> {"none", "alive", "group", "gone"}]
  /\ ending \subseteq Terms \X {"create", "kill", "release", "stop"}
  /\ size \in [Terms -> 0 .. OutputLimit] /\ Range(order) \subseteq Terms /\ bytes \in Nat
  /\ stop \in {"no", "stopping", "stopped", "failed"} /\ unreaped \subseteq Terms /\ stubborn \in 0 .. MaxStubborn
  /\ Cardinality(terminals) <= MaxTerminals

\* When stopAll has succeeded, no process of the agent's terminals runs, however creates and releases were interleaved
\* with it, but for one whose release was already answered with an error.
StoppedMeansGone ==
  stop = "stopped" => \A t \in Terms : proc[t] \in {"alive", "group"} => t \in unreaped

\* The count of kept bytes is what the terminals keep, and within the budget, through concurrent releases and a stop.
OutputCounted == /\ bytes <= Budget
                 /\ bytes = FoldLeft(LAMBDA sum, t : sum + size[t], 0, SetToSeq(retained))
=============================================================================
