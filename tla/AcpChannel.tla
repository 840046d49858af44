----------------------------- MODULE AcpChannel -----------------------------
(***************************************************************************)
(* One agent connection, from main to the grok process: AcpWorkerClient in *)
(* main, the utility process of worker.ts with its AcpClient, and the      *)
(* child that AcpClient spawns.  Two FIFO channels connect main and the    *)
(* worker; an answer of the child is a step of the worker.                 *)
(*                                                                         *)
(* A call is a request of main: one of Starting (prompt, set_model,        *)
(* set_mode) first awaits start(), the others (cancel and the answers) do  *)
(* not.  Main calls only a client that SessionManager still has registered:*)
(* not after stop() and not after the exit event.                          *)
(***************************************************************************)
EXTENDS Naturals, Sequences, FiniteSets, SequencesExt

CONSTANTS Calls, Starting, MaxStarts, MaxFaults

VARIABLES
  worker,     \* the utility process: "none", "up", "gone"
  killed,     \* main has asked for its end
  attempt,    \* start requests sent so far
  start,      \* AcpWorkerClient.startPromise: "none", "asked", "ok"
  call,       \* of each call: "idle", "starting", "sent", "ok", "failed"
  stop,       \* AcpWorkerClient.stop: "no", "asked", "done"
  late,       \* the stop request ran into its timer
  announced,  \* AcpWorkerClient.exitEmitted
  toWorker,   \* commands on their way, each a request id
  toMain,     \* responses and events on their way
  created,    \* the worker has its AcpClient
  phase,      \* AcpClient.startFresh: "idle", "waiting", "initialize", "open", "mode", "failing"
  ready,      \* AcpClient.lastStartResult is set
  waiters,    \* requests that await AcpClient.start
  rpc,        \* calls with a request at the child
  child,      \* the grok process: "none", "running", "exited"
  intended,   \* AcpClient.intentionallyStoppingProcess is that child
  closing,    \* AcpClient.stopFresh: "no", "eof", "term", "kill", "terminals"
  stopping,   \* worker.ts has seen the stop command
  exiting,    \* worker.ts has scheduled its exit
  faults      \* exits, crashes and failed steps so far, at most MaxFaults

mainVars == <<worker, killed, attempt, start, call, stop, late, announced>>
clientVars == <<created, phase, ready, waiters, rpc, child, intended, closing, stopping, exiting>>
vars == <<mainVars, clientVars, toWorker, toMain, faults>>

StartId == <<"start", attempt>>
StopId == <<"stop", 0>>
Ids == Calls \union {StopId} \union {<<"start", n>> : n \in 1 .. MaxStarts}
Response(id, ok) == [kind |-> "response", id |-> id, ok |-> ok]
Event(name) == [kind |-> "event", id |-> name, ok |-> TRUE]
Responses(ids, ok) == SetToSeq({Response(id, ok) : id \in ids})

Init ==
  /\ worker = "none" /\ killed = FALSE /\ attempt = 0 /\ start = "none" /\ call = [c \in Calls |-> "idle"]
  /\ stop = "no" /\ late = FALSE /\ announced = FALSE /\ toWorker = <<>> /\ toMain = <<>>
  /\ created = FALSE /\ phase = "idle" /\ ready = FALSE /\ waiters = {} /\ rpc = {} /\ child = "none"
  /\ intended = FALSE /\ closing = "no" /\ stopping = FALSE /\ exiting = FALSE /\ faults = 0

-----------------------------------------------------------------------------
(* Main: AcpWorkerClient.                                                  *)

Registered == stop = "no" /\ ~announced

\* request('start'): forks the worker if there is none and posts the command.
AskStart ==
  /\ attempt < MaxStarts
  /\ worker' = "up" /\ attempt' = attempt + 1 /\ start' = "asked"
  /\ toWorker' = Append(toWorker, <<"start", attempt + 1>>)

\* The first start, of ensureConnected.
Connect ==
  /\ Registered /\ start = "none" /\ AskStart
  /\ UNCHANGED <<killed, call, stop, late, announced, clientVars, toMain, faults>>

\* prompt, setModel, setMode: they share the start promise, or begin a new one.
Ask(c) ==
  /\ Registered /\ attempt > 0 /\ call[c] = "idle"
  /\ \/ /\ c \in Starting /\ start # "ok"
        /\ call' = [call EXCEPT ![c] = "starting"]
        /\ IF start = "none" THEN AskStart ELSE UNCHANGED <<worker, attempt, start, toWorker>>
     \/ /\ c \notin Starting \/ start = "ok"
        /\ call' = [call EXCEPT ![c] = "sent"]
        /\ toWorker' = Append(toWorker, c)
        /\ UNCHANGED <<worker, attempt, start>>
  /\ UNCHANGED <<killed, stop, late, announced, clientVars, toMain, faults>>

\* The rejection of the start promise forgets it, so that the next call starts again.
Rejected(lost) == [c \in Calls |-> IF call[c] \in lost THEN "failed" ELSE call[c]]

RequestTimesOut ==
  /\ \/ /\ start = "asked" /\ start' = "none" /\ call' = Rejected({"starting"})
     \/ \E c \in Calls : call[c] = "sent" /\ call' = [call EXCEPT ![c] = "failed"] /\ UNCHANGED start
  /\ UNCHANGED <<worker, killed, attempt, stop, late, announced, clientVars, toWorker, toMain, faults>>

Stop ==
  /\ stop = "no" /\ attempt > 0
  /\ IF worker = "up" THEN stop' = "asked" /\ toWorker' = Append(toWorker, StopId)
                      ELSE stop' = "done" /\ UNCHANGED toWorker
  /\ UNCHANGED <<worker, killed, attempt, start, call, late, announced, clientVars, toMain, faults>>

StopTimesOut ==
  /\ stop = "asked" /\ stop' = "done" /\ late' = TRUE /\ killed' = TRUE
  /\ UNCHANGED <<worker, attempt, start, call, announced, clientVars, toWorker, toMain, faults>>

Started ==
  /\ start' = "ok" /\ call' = [c \in Calls |-> IF call[c] = "starting" THEN "sent" ELSE call[c]]
  /\ toWorker' = toWorker \o SetToSeq({c \in Calls : call[c] = "starting"})
  /\ UNCHANGED <<stop, killed>>

\* handleMessage: a response settles its request if that is still pending.
Settled(m) ==
  \/ m.id = StartId /\ start = "asked" /\ m.ok /\ Started
  \/ /\ m.id = StartId /\ start = "asked" /\ ~m.ok
     /\ start' = "none" /\ call' = Rejected({"starting"}) /\ UNCHANGED <<toWorker, stop, killed>>
  \/ /\ m.id \in Calls /\ call[m.id] = "sent"
     /\ call' = [call EXCEPT ![m.id] = IF m.ok THEN "ok" ELSE "failed"]
     /\ UNCHANGED <<start, toWorker, stop, killed>>
  \/ /\ m.id = StopId /\ stop = "asked" /\ stop' = "done" /\ killed' = TRUE
     /\ UNCHANGED <<start, call, toWorker>>

Pending(id) == \/ id = StartId /\ start = "asked"
               \/ id \in Calls /\ call[id] = "sent"
               \/ id = StopId /\ stop = "asked"

MainHears ==
  /\ worker = "up" /\ toMain # <<>> /\ toMain' = Tail(toMain)
  /\ LET m == Head(toMain) IN
     \/ m.kind = "response" /\ Pending(m.id) /\ Settled(m) /\ UNCHANGED announced
     \/ /\ m.kind = "response" /\ ~Pending(m.id)
        /\ UNCHANGED <<start, call, toWorker, stop, killed, announced>>
     \/ /\ m.kind = "event" /\ m.id = "exit" /\ announced' = TRUE /\ killed' = TRUE
        /\ UNCHANGED <<start, call, toWorker, stop>>
     \/ /\ m.kind = "event" /\ m.id # "exit"
        /\ UNCHANGED <<start, call, toWorker, stop, killed, announced>>
  /\ UNCHANGED <<worker, attempt, late, clientVars, faults>>

\* The worker process is gone: everything pending is rejected, and the exit is announced unless main stops.
WorkerEnds ==
  /\ worker' = "gone" /\ toWorker' = <<>> /\ toMain' = <<>>
  /\ start' = (IF start = "asked" THEN "none" ELSE start)
  /\ call' = Rejected({"starting", "sent"})
  /\ announced' = (announced \/ stop = "no")
  /\ stop' = (IF stop = "asked" THEN "done" ELSE stop)
  /\ created' = FALSE /\ phase' = "idle" /\ ready' = FALSE /\ waiters' = {} /\ rpc' = {}
  /\ closing' = "no" /\ stopping' = FALSE /\ exiting' = FALSE
  /\ UNCHANGED <<killed, attempt, late, child, intended>>

WorkerExits == worker = "up" /\ (killed \/ exiting) /\ WorkerEnds /\ UNCHANGED faults
WorkerCrashes == worker = "up" /\ faults < MaxFaults /\ faults' = faults + 1 /\ WorkerEnds

-----------------------------------------------------------------------------
(* The worker: worker.ts and AcpClient.                                    *)

Live == child = "running" /\ closing = "no"       \* this.process.stdin.writable

\* rejectAll: the requests at the child fail; in startFresh that fails every step but the last, set_mode.
AfterReject == IF phase \in {"initialize", "open"} THEN "failing" ELSE phase

\* stop(): one shutdown at a time, ended stdin first; without a child only the terminals are awaited.
CloseBegins ==
  IF closing # "no" THEN UNCHANGED <<closing, intended, rpc, toMain, phase>> ELSE
  /\ closing' = (IF child = "running" THEN "eof" ELSE "terminals")
  /\ intended' = (child = "running")
  /\ toMain' = toMain \o Responses(rpc, FALSE) /\ rpc' = {}
  /\ phase' = AfterReject

\* A start command, or the start() that a prompt awaits: at once with an open session, else shared or begun.
AwaitStart(id) ==
  IF child = "running" /\ ready
  THEN /\ IF id \in Calls /\ Live THEN rpc' = rpc \union {id} /\ UNCHANGED toMain
          ELSE toMain' = Append(toMain, Response(id, id \notin Calls)) /\ UNCHANGED rpc
       /\ UNCHANGED <<waiters, phase>>
  ELSE /\ waiters' = waiters \union {id}
       /\ phase' = (IF phase = "idle" THEN "waiting" ELSE phase)
       /\ UNCHANGED <<rpc, toMain>>

\* One command.  The promise steps from a start to its spawn run before the next command is read.
WorkerHears ==
  /\ worker = "up" /\ toWorker # <<>> /\ toWorker' = Tail(toWorker)
  /\ phase = "waiting" => closing # "no"
  /\ LET id == Head(toWorker)
         isStart == id \notin Calls /\ id # StopId
     IN
     \/ /\ isStart /\ created' = TRUE /\ AwaitStart(id) /\ UNCHANGED <<closing, intended, stopping>>
     \/ /\ ~isStart /\ ~created
        /\ toMain' = Append(toMain, Response(id, FALSE))
        /\ UNCHANGED <<created, phase, waiters, rpc, intended, closing, stopping>>
     \/ /\ created /\ id \in Starting
        /\ AwaitStart(id) /\ UNCHANGED <<created, closing, intended, stopping>>
     \/ /\ created /\ id \in Calls \ Starting
        /\ \E ok \in BOOLEAN : toMain' = Append(toMain, Response(id, ok))
        /\ UNCHANGED <<created, phase, waiters, rpc, intended, closing, stopping>>
     \/ /\ created /\ id = StopId
        /\ stopping' = TRUE /\ CloseBegins /\ UNCHANGED <<created, waiters>>
  /\ UNCHANGED <<mainVars, ready, child, exiting, faults>>

\* startFresh: after a shutdown under way, the child is spawned and asked to initialize; or it cannot be spawned.
Spawn ==
  /\ worker = "up" /\ phase = "waiting" /\ closing = "no"
  /\ \/ child' = "running" /\ phase' = "initialize" /\ UNCHANGED closing
     \/ child' = "exited" /\ phase' = "failing" /\ closing' = "eof"
  /\ intended' = FALSE /\ ready' = FALSE
  /\ UNCHANGED <<mainVars, created, waiters, rpc, stopping, exiting, toWorker, toMain, faults>>

\* The child answers initialize, or session/load, session/fork, session/new (a missing session falls back to new).
Opens ==
  /\ worker = "up" /\ Live /\ phase \in {"initialize", "open"}
  /\ phase' = (IF phase = "initialize" THEN "open" ELSE "mode")
  /\ UNCHANGED <<mainVars, created, ready, waiters, rpc, child, intended, closing, stopping, exiting, toWorker, toMain, faults>>

\* One of those steps fails or times out: the attempt shuts the child down before it is rejected.
OpenFails ==
  /\ worker = "up" /\ Live /\ phase \in {"initialize", "open"} /\ faults < MaxFaults /\ faults' = faults + 1
  /\ CloseBegins
  /\ UNCHANGED <<mainVars, created, ready, waiters, child, stopping, exiting, toWorker>>

\* set_mode is answered, refused or rejected: in every case the start succeeds.
StartDone ==
  /\ worker = "up" /\ phase = "mode" /\ phase' = "idle" /\ ready' = TRUE /\ waiters' = {}
  /\ toMain' = toMain \o <<Event("capabilities")>> \o Responses(waiters \ Calls, TRUE)
                      \o (IF Live THEN <<>> ELSE Responses(waiters \intersect Calls, FALSE))
  /\ rpc' = (IF Live THEN rpc \union (waiters \intersect Calls) ELSE rpc)
  /\ UNCHANGED <<mainVars, created, child, intended, closing, stopping, exiting, toWorker, faults>>

ChildAnswers ==
  /\ worker = "up" /\ Live
  /\ \E c \in rpc, ok \in BOOLEAN :
       rpc' = rpc \ {c} /\ toMain' = Append(toMain, Response(c, ok))
  /\ UNCHANGED <<mainVars, created, phase, ready, waiters, child, intended, closing, stopping, exiting, toWorker, faults>>

\* Mutant: an exit is reported only for a client whose start has finished.
ReportedOnceReady == ~intended /\ ~stopping /\ ready

\* Mutant: an exit is reported only to requests that wait for the child.
ReportedToRequests == ~intended /\ ~stopping /\ (rpc # {} \/ ~ready)

\* The exit handler: an exit that was not asked for is reported, unless worker.ts stops, and ends the worker.
Reported == ~intended /\ ~stopping

ChildGone ==
  /\ child' = "exited" /\ intended' = FALSE /\ ready' = FALSE
  /\ rpc' = {} /\ phase' = AfterReject
  /\ toMain' = toMain \o (IF Reported THEN <<Event("exit")>> ELSE <<>>) \o Responses(rpc, FALSE)
  /\ exiting' = (exiting \/ Reported)
  /\ closing' = (IF closing \in {"eof", "term", "kill"} THEN "terminals"
                 ELSE IF AfterReject = "failing" THEN "terminals" ELSE closing)
  /\ UNCHANGED <<mainVars, created, waiters, stopping, toWorker>>

ChildExits ==
  /\ worker = "up" /\ child = "running"
  /\ \/ closing # "no" /\ UNCHANGED faults
     \/ closing = "no" /\ faults < MaxFaults /\ faults' = faults + 1
  /\ ChildGone

\* Without its worker the child reads the end of its stdin and ends by itself.
OrphanExits ==
  /\ worker = "gone" /\ child = "running" /\ child' = "exited"
  /\ UNCHANGED <<mainVars, created, phase, ready, waiters, rpc, intended, closing, stopping, exiting, toWorker, toMain, faults>>

\* More than 64 MiB without a newline: every request is rejected and the child is terminated, unasked for.
StdoutOverflows ==
  /\ worker = "up" /\ Live /\ phase \notin {"waiting", "failing"} /\ faults < MaxFaults /\ faults' = faults + 1
  /\ IF AfterReject = "failing" THEN CloseBegins
     ELSE toMain' = toMain \o Responses(rpc, FALSE) /\ rpc' = {} /\ UNCHANGED <<phase, closing, intended>>
  /\ UNCHANGED <<mainVars, created, ready, waiters, child, stopping, exiting, toWorker>>

\* Mutant: a child that ignores SIGTERM is waited for without end.
GraceEndsOnce ==
  /\ worker = "up"
  /\ \/ closing = "eof" /\ child = "running" /\ closing' = "term"
     \/ closing \in {"eof", "term", "kill"} /\ child # "running" /\ closing' = "terminals"
  /\ UNCHANGED <<mainVars, created, phase, ready, waiters, rpc, child, intended, stopping, exiting, toWorker, toMain, faults>>

\* 250 ms after the end of stdin SIGTERM, two seconds later SIGKILL, which no child survives.
GraceEnds ==
  /\ worker = "up"
  /\ \/ closing = "eof" /\ child = "running" /\ closing' = "term"
     \/ closing = "term" /\ child = "running" /\ closing' = "kill"
     \/ closing \in {"eof", "term", "kill"} /\ child # "running" /\ closing' = "terminals"
  /\ UNCHANGED <<mainVars, created, phase, ready, waiters, rpc, child, intended, stopping, exiting, toWorker, toMain, faults>>

\* The terminals are gone, or could not be terminated.  A start that failed is rejected now; the stop
\* command is answered and the worker leaves.
Closed ==
  /\ worker = "up" /\ closing = "terminals" /\ closing' = "no" /\ ready' = FALSE /\ intended' = FALSE
  /\ phase' = (IF phase = "failing" THEN "idle" ELSE phase)
  /\ waiters' = (IF phase = "failing" THEN {} ELSE waiters)
  /\ \E ok \in BOOLEAN :
       /\ exiting' = (exiting \/ (stopping /\ ok))
       /\ toMain' = toMain \o (IF phase = "failing" THEN Responses(waiters, FALSE) ELSE <<>>)
                           \o (IF stopping THEN <<Response(StopId, ok)>> ELSE <<>>)
  /\ UNCHANGED <<mainVars, created, rpc, child, stopping, toWorker, faults>>

Next ==
  \/ Connect \/ RequestTimesOut \/ Stop \/ StopTimesOut \/ MainHears \/ WorkerExits \/ WorkerCrashes
  \/ WorkerHears \/ Spawn \/ Opens \/ OpenFails \/ StartDone \/ ChildAnswers
  \/ ChildExits \/ OrphanExits \/ StdoutOverflows \/ GraceEnds \/ Closed
  \/ \E c \in Calls : Ask(c)

\* Messages are delivered and processes that were told to end do; nothing is assumed
\* of the child's answers, nor of main's timers.
Fairness ==
  /\ WF_vars(MainHears) /\ WF_vars(WorkerHears) /\ WF_vars(WorkerExits) /\ WF_vars(Spawn)
  /\ WF_vars(StartDone) /\ WF_vars(GraceEnds) /\ WF_vars(Closed) /\ WF_vars(closing = "kill" /\ ChildExits)

Spec == Init /\ [][Next]_vars /\ Fairness

-----------------------------------------------------------------------------
(* Properties.                                                             *)

TypeOK ==
  /\ worker \in {"none", "up", "gone"} /\ killed \in BOOLEAN /\ attempt \in 0 .. MaxStarts
  /\ start \in {"none", "asked", "ok"} /\ call \in [Calls -> {"idle", "starting", "sent", "ok", "failed"}]
  /\ stop \in {"no", "asked", "done"} /\ late \in BOOLEAN /\ announced \in BOOLEAN
  /\ \A i \in 1 .. Len(toWorker) : toWorker[i] \in Ids
  /\ \A i \in 1 .. Len(toMain) : toMain[i].kind = "response" => toMain[i].id \in Ids
  /\ created \in BOOLEAN /\ phase \in {"idle", "waiting", "initialize", "open", "mode", "failing"}
  /\ ready \in BOOLEAN /\ waiters \subseteq Ids /\ rpc \subseteq Starting
  /\ child \in {"none", "running", "exited"} /\ intended \in BOOLEAN
  /\ closing \in {"no", "eof", "term", "kill", "terminals"} /\ stopping \in BOOLEAN /\ exiting \in BOOLEAN
  /\ phase = "failing" => closing # "no"

\* A client that main holds to be started has a child with an open session, or the news of its exit is under
\* way: no order of failed starts, timers and exits leaves main prompting a session that is not there.
StartIsTrue ==
  start = "ok" /\ stop = "no" /\ worker = "up" /\ ~announced
    => \/ child = "running" /\ ready /\ closing = "no"
       \/ \E i \in 1 .. Len(toMain) : toMain[i] = Event("exit")

\* When the worker answers stop, the grok process is gone, whatever else was under way when stop was called.
StopIsClean ==
  [][stop = "asked" /\ stop' = "done" /\ worker' = "up" /\ ~late' => child # "running"]_vars

\* stop() returns without its timer, since every wait of the shutdown is bounded.
StopReturns == stop = "asked" ~> stop = "done"

\* The exit of the child of a started client reaches main, unless main stops the client first.
CrashIsHeard == (start = "ok" /\ worker = "up" /\ child = "exited") ~> (announced \/ stop # "no")

=============================================================================
