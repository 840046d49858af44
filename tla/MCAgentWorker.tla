---------------------------- MODULE MCAgentWorker ----------------------------
(***************************************************************************)
(* The parts of one agent worker for TLC: the requests of grok, the        *)
(* terminals and the files it asks for; what main shows of its work and its *)
(* messages; and the tools that main runs itself.  (Its channel is in      *)
(* MCLifecycle.)  They share no state, so each behaviour is one of the     *)
(* part chosen at first; two parts that name a variable alike use one      *)
(* variable here.                                                          *)
(***************************************************************************)
EXTENDS Naturals, Sequences, FiniteSets, TLC

CONSTANTS Rpcs, Keys, MaxOpen, MaxAgain, Questions, Multi, Options,
          Terms, MaxTerminals, OutputLimit, Budget, Chunks, MaxStubborn, Writes, MaxOutside, MaxFaults, Characters, MaxLine, OutputMax, HelpersUpTo,
          MaxStarts, Schedules, Commands, Flows, Goals, Others, MaxItems, MaxStones, MaxPending, MaxCached, MaxTold, MaxWire,
          ToolKinds, MaxText, MaxItemsKept, MaxChars, MaxCount, MaxEvents

\* The bounds of the tables are numbers.
ASSUME BoundsAssumption == MaxOpen \in Nat

\* The questions of a request are numbered.
ASSUME QuestionsAssumption == Questions \subseteq Nat

\* The ids of the requests are alike, and so are the keys.
Symmetry == Permutations(Rpcs) \union Permutations(Keys)

Texts == UNION {[1 .. n -> Characters] : n \in 0 .. MaxLine}

VARIABLES
  part,
  worker, stop,
  open, answers, again, asked, said, sent,
  create, terminals, retained, proc, ending, size, order, bytes, unreaped, stubborn,
  file, versions, step, seen, temporary, outside, faults, lost, read,
  tool, status, stat, run, process, intact, answer,
  speaks, truth, wire, held, told, starting, shown, cached, others, protected, tracked, older, starts,
  items, pending, events, pieces, kinded, runs, trimmed

Requests == INSTANCE AgentRequests
Terminal == INSTANCE TerminalHost
Files == INSTANCE FsHost
Tools == INSTANCE ToolRuns
Beside == INSTANCE Activity
Shown == INSTANCE Transcript

requestVars == <<open, answers, again, asked, said, sent>>
terminalVars == <<create, terminals, retained, proc, ending, size, order, bytes, unreaped, stubborn>>
fileVars == <<file, versions, step, seen, temporary, outside, faults, lost, read>>
toolVars == <<tool, stat, run, process, intact, answer>>
activityVars == <<speaks, truth, wire, held, told, starting, shown, cached, others, protected, tracked, older, starts>>
transcriptVars == <<items, pending, events, pieces, kinded, runs, trimmed>>
vars == <<part, requestVars, terminalVars, fileVars, toolVars, activityVars, transcriptVars, worker, status, stop>>

NoRequests == open = "idle" /\ answers = "idle" /\ again = "idle" /\ asked = "idle" /\ said = "idle" /\ sent = "idle"
NoTerminal == /\ create = "idle" /\ terminals = "idle" /\ retained = "idle" /\ proc = "idle" /\ ending = "idle"
              /\ size = "idle" /\ order = "idle" /\ bytes = "idle" /\ unreaped = "idle" /\ stubborn = "idle"
NoFiles == /\ file = "idle" /\ versions = "idle" /\ step = "idle" /\ seen = "idle" /\ temporary = "idle"
           /\ outside = "idle" /\ faults = "idle" /\ lost = "idle" /\ read = "idle"
NoTools == /\ tool = "idle" /\ stat = "idle" /\ run = "idle" /\ process = "idle" /\ intact = "idle"
           /\ answer = "idle"

NoActivity == /\ speaks = "idle" /\ truth = "idle" /\ wire = "idle" /\ held = "idle" /\ told = "idle" /\ starting = "idle"
              /\ shown = "idle" /\ cached = "idle" /\ others = "idle" /\ protected = "idle" /\ tracked = "idle" /\ older = "idle" /\ starts = "idle"
NoTranscript == items = "idle" /\ pending = "idle" /\ events = "idle" /\ pieces = "idle" /\ kinded = "idle" /\ runs = "idle" /\ trimmed = "idle"

Init ==
  \/ /\ part = "requests" /\ Requests!Init
     /\ NoTerminal /\ NoFiles /\ NoTools /\ NoActivity /\ NoTranscript
     /\ worker = "idle" /\ status = "idle" /\ stop = "idle"
  \/ /\ part = "terminal" /\ Terminal!Init
     /\ NoRequests /\ NoFiles /\ NoTools /\ NoActivity /\ NoTranscript
     /\ worker = "idle" /\ status = "idle"
  \/ /\ part = "files" /\ Files!Init
     /\ NoRequests /\ NoTerminal /\ NoTools /\ NoActivity /\ NoTranscript
     /\ worker = "idle" /\ status = "idle" /\ stop = "idle"
  \/ /\ part = "tools" /\ Tools!Init
     /\ NoRequests /\ NoTerminal /\ NoFiles /\ NoActivity /\ NoTranscript
     /\ worker = "idle" /\ stop = "idle"
  \/ /\ part = "activity" /\ Beside!Init
     /\ NoRequests /\ NoTerminal /\ NoFiles /\ NoTools /\ NoTranscript
     /\ status = "idle" /\ stop = "idle"
  \/ /\ part = "transcript" /\ Shown!Init
     /\ NoRequests /\ NoTerminal /\ NoFiles /\ NoTools /\ NoActivity
     /\ worker = "idle" /\ stop = "idle"

Next ==
  /\ UNCHANGED part
  /\ \/ part = "requests" /\ Requests!Next
        /\ UNCHANGED <<terminalVars, fileVars, toolVars, activityVars, transcriptVars, worker, status, stop>>
     \/ part = "terminal" /\ Terminal!Next
        /\ UNCHANGED <<requestVars, fileVars, toolVars, activityVars, transcriptVars, worker, status>>
     \/ part = "files" /\ Files!Next
        /\ UNCHANGED <<requestVars, terminalVars, toolVars, activityVars, transcriptVars, worker, status, stop>>
     \/ part = "tools" /\ Tools!Next
        /\ UNCHANGED <<requestVars, terminalVars, fileVars, activityVars, transcriptVars, worker, stop>>
     \/ part = "activity" /\ Beside!Next
        /\ UNCHANGED <<requestVars, terminalVars, fileVars, toolVars, transcriptVars, status, stop>>
     \/ part = "transcript" /\ Shown!Next
        /\ UNCHANGED <<requestVars, terminalVars, fileVars, toolVars, activityVars, worker, stop>>

Spec == Init /\ [][Next]_vars

-----------------------------------------------------------------------------
\* The state of each part is well typed.
TypeOK ==
  CASE part = "requests" -> Requests!TypeOK
    [] part = "terminal" -> Terminal!TypeOK
    [] part = "files" -> Files!TypeOK
    [] part = "tools" -> Tools!TypeOK
    [] part = "activity" -> Beside!TypeOK
    [] part = "transcript" -> Shown!TypeOK

\* Each request of grok is answered at most once, and is closed then, but for each time it was sent again and not
\* recognised.
AnsweredOnce == part = "requests" => Requests!AnsweredOnce

\* grok is told every choice and text of an accepted answer, of the questions that share a text those of the last one.
NothingSaidIsLost == part = "requests" => Requests!NothingSaidIsLost

\* After stopAll no process of a terminal runs; the process of a run that is given up has ended or was sent its kill.
StoppedMeansGone ==
  /\ part = "terminal" => Terminal!StoppedMeansGone
  /\ part = "tools" => Tools!GivenUpMeansKilled

\* What main keeps of its worker is what there is: the bytes of output, counted exactly and within the budget; the work
\* it has told, for which a worker is protected, and no longer; its messages in order, every tool among them, nothing of
\* a turn that is over left open, and the notice that no tool was called only where that is so.
AccountsAreTrue ==
  /\ part = "terminal" => Terminal!OutputCounted
  /\ part = "activity" => Beside!WorkIsProtected /\ Beside!ProtectionEnds
  /\ part = "transcript" => Shown!SaidInOrder /\ Shown!ClosedWhenDone /\ Shown!ActivityCounts /\ Shown!NoticeIsTrue

\* A new file never takes the place of one that appeared meanwhile.
NewFileNeverClobbers == part = "files" => Files!NewFileNeverClobbers

\* A read returns the lines that were asked for, and what a tool answers is made of all that it
\* wrote; it never waits for a run that nothing ends.
ReadsAreWhole == (part = "files" => Files!ReadIsTheLines) /\ (part = "tools" => Tools!AnswerIsWhole /\ Tools!NeverStuck)
=============================================================================
