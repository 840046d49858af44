----------------------------- MODULE Transcript -----------------------------
(***************************************************************************)
(* The transcript of a session: applyAcpEvent and the messages that the    *)
(* controller adds.  Events come in any order; some arrive when their turn *)
(* is over.  Text is a sequence of pieces, each named by the event that    *)
(* brought it; a piece counts one character.                               *)
(***************************************************************************)
EXTENDS Naturals, Sequences, FiniteSets, SequencesExt, FiniteSetsExt

CONSTANTS ToolKinds,        \* what a tool does, as its title tells
          MaxText, MaxItemsKept, MaxChars, MaxCount,
          MaxEvents     \* bound of the model

None == "none"

VARIABLES
  status,    \* of the session: "idle" | "running" | "failed"
  items,     \* the transcript
  pending,   \* pendingHookRuns
  events,    \* so far
  pieces,    \* of messages that were said
  kinded,    \* tools that started with a kind
  runs,      \* of hooks that were told
  trimmed    \* the transcript has lost items at its front

vars == <<status, items, pending, events, pieces, kinded, runs, trimmed>>

Now == events + 1

-----------------------------------------------------------------------------
NoKinds == [k \in ToolKinds |-> 0]
Item == [kind |-> None, user |-> FALSE, text |-> <<>>, cut |-> FALSE, streaming |-> FALSE, open |-> FALSE, id |-> 0,
         does |-> None, counts |-> NoKinds, hooks |-> 0]

Least(a, b) == IF a < b THEN a ELSE b
Added(a, b) == Least(MaxCount, a + b)

\* appendBounded: text that does not fit is cut, and nothing more is added to it.
Extended(item) ==
  IF item.cut THEN item
  ELSE IF Len(item.text) < MaxText THEN [item EXCEPT !.text = Append(@, Now)] ELSE [item EXCEPT !.cut = TRUE]
Said(kind, streaming) == Extended([Item EXCEPT !.kind = kind, !.streaming = streaming])

Size(item) == IF item.text = <<>> THEN 1 ELSE Len(item.text)
SizeFrom(s, i) == FoldLeft(LAMBDA sum, item : sum + Size(item), 0, SubSeq(s, i, Len(s)))

\* boundTranscript: the newest items that fit, the last one in any case.
FirstKept(s) ==
  IF s = <<>> THEN 1
  ELSE Min({i \in 1 .. Len(s) : i = Len(s) \/ (Len(s) - i + 1 <= MaxItemsKept /\ SizeFrom(s, i) <= MaxChars)})
Bounded(s) == SubSeq(s, FirstKept(s), Len(s))

StreamingClosed(s) == [i \in 1 .. Len(s) |-> [s[i] EXCEPT !.streaming = FALSE]]
ActivitiesClosed(s) == [i \in 1 .. Len(s) |-> [s[i] EXCEPT !.open = FALSE]]
Closed(s) == ActivitiesClosed(StreamingClosed(s))

\* The last index of s at which P holds, or 0.
Last_(s, P(_)) == Max({0} \union {i \in 1 .. Len(s) : P(s[i])})

LastUser(s) == Last_(s, LAMBDA x : x.user)
IsAnswer(x) == x.kind = "message" /\ ~x.user
LastAnswer(s) == LET i == Last_(s, IsAnswer) IN IF i > LastUser(s) THEN i ELSE 0

\* Mutant: the last answer, of whichever turn.
AnyAnswer(s) == Last_(s, IsAnswer)

FindLastAssistantSinceUser(s) == LastAnswer(s)

Continues(s, kind) == s # <<>> /\ Last(s).kind = kind /\ Last(s).streaming /\ ~Last(s).user

\* A piece goes to the item that streams it, a late one to the answer of its turn, if there is one.
AppendStreaming(s, kind, late) ==
  LET answer == FindLastAssistantSinceUser(s) IN
  IF Continues(s, kind) THEN [s EXCEPT ![Len(s)] = Extended(@)]
  ELSE IF kind = "message" /\ late /\ answer > 0 THEN [s EXCEPT ![answer] = [Extended(@) EXCEPT !.streaming = FALSE]]
  ELSE Append(s, Said(kind, TRUE))

-----------------------------------------------------------------------------
(* Activities                                                              *)

LastOpen(s) == Last_(s, LAMBDA x : x.open)
Counted(item, kind) == [item EXCEPT !.counts[kind] = Added(@, 1), !.hooks = Added(@, pending)]
Activity(kind) == Counted([Item EXCEPT !.kind = "activity", !.open = TRUE], kind)

\* foldNewToolActivity: the tool is the last item.
FoldedNew(s, kind) ==
  LET o == LastOpen(s) IN
  IF kind = None THEN s
  ELSE IF o > 0 THEN [s EXCEPT ![o] = Counted(@, kind)] ELSE InsertAt(s, Len(s), Activity(kind))

\* Mutant: a new tool does not join the activity that is open.
FoldedOnce(s, kind) == IF kind = None \/ LastOpen(s) > 0 THEN s ELSE InsertAt(s, Len(s), Activity(kind))

FoldNewToolActivity(s, kind) == FoldedNew(s, kind)

\* An activity counts a tool anew under the kind that an update tells.
ReplaceActivityKind(item, previous, kind) ==
  LET hooked == [item EXCEPT !.hooks = Added(@, pending)] IN
  IF previous = kind THEN hooked
  ELSE IF previous # None /\ item.counts[previous] > 0
       THEN [hooked EXCEPT !.counts[previous] = @ - 1, !.counts[kind] = Added(@, 1)]
       ELSE [hooked EXCEPT !.counts[kind] = Added(@, 1)]

\* Where the activity of a tool that has none is put: before the first tool after the last message or activity.
Boundary(s, target) == Max({0} \union {i \in 1 .. target - 1 : s[i].kind \in {"message", "activity"}})
Insertion(s, target) == Min({i \in Boundary(s, target) + 1 .. target : s[i].kind = "tool"})

Joins(s, target) == LastOpen(s) > 0 /\ target > LastOpen(s)
Creates(s, target) == status = "running"

\* Mutant: an update after the turn opens an activity too.
CreatesAlways(s, target) == TRUE

AllowCreate(s, target) == Creates(s, target)

\* foldUpdatedToolActivity
FoldedUpdate(s, target, previous, kind) ==
  IF Joins(s, target) THEN [s EXCEPT ![LastOpen(s)] = ReplaceActivityKind(@, previous, kind)]
  ELSE IF AllowCreate(s, target) THEN InsertAt(s, Insertion(s, target), Activity(kind))
  ELSE s

-----------------------------------------------------------------------------
Init ==
  /\ status = "idle" /\ items = <<>> /\ pending = 0
  /\ events = 0 /\ pieces = {} /\ kinded = {} /\ runs = 0 /\ trimmed = FALSE

Happens == events < MaxEvents /\ events' = Now
Keeps(s) == items' = Bounded(s) /\ trimmed' = (trimmed \/ FirstKept(s) > 1)

AssistantDelta ==
  /\ Happens /\ Keeps(AppendStreaming(ActivitiesClosed(items), "message", status = "idle"))
  /\ status' = (IF status = "idle" THEN "idle" ELSE "running")
  /\ pieces' = pieces \union {Now} /\ UNCHANGED <<pending, kinded, runs>>

\* A thought, when it comes late too, says that the session runs.
ThoughtDelta ==
  /\ Happens /\ Keeps(AppendStreaming(items, "thought", FALSE)) /\ status' = "running"
  /\ UNCHANGED <<pending, pieces, kinded, runs>>

ToolStart(kind) ==
  /\ Happens /\ status' = "running"
  /\ Keeps(FoldNewToolActivity(Append(StreamingClosed(items), [Item EXCEPT !.kind = "tool", !.id = Now, !.does = kind]), kind))
  /\ pending' = (IF kind = None THEN pending ELSE 0)
  /\ kinded' = (IF kind = None THEN kinded ELSE kinded \union {Now})
  /\ UNCHANGED <<pieces, runs>>

\* An update of a tool that the transcript has not, or that names no kind, changes no activity.
ToolUpdate(id, kind) ==
  /\ Happens
  /\ LET target == Last_(items, LAMBDA x : x.kind = "tool" /\ x.id = id)
         patched == [items EXCEPT ![target].does = IF kind = None THEN @ ELSE kind]
     IN  IF target = 0 \/ kind = None THEN UNCHANGED <<items, pending, trimmed>>
         ELSE /\ Keeps(FoldedUpdate(patched, target, items[target].does, kind))
              /\ pending' = (IF Joins(items, target) \/ AllowCreate(items, target) THEN 0 ELSE pending)
  /\ UNCHANGED <<status, pieces, kinded, runs>>

\* A run of a hook before a tool is counted with the activity that is open, or with the next one.
HookExecution(hook) ==
  /\ Happens /\ runs' = runs + 1
  /\ LET o == LastOpen(items)
         stop == [Item EXCEPT !.kind = "activity", !.hooks = Added(0, 1)]
     IN  CASE hook = "stop" -> Keeps(Append(ActivitiesClosed(items), stop)) /\ pending' = 0
           [] hook = "pre_tool_use" /\ o > 0 ->
                items' = [items EXCEPT ![o].hooks = Added(@, 1)] /\ UNCHANGED <<pending, trimmed>>
           [] hook = "user_prompt_submit" \/ (hook = "pre_tool_use" /\ o = 0) ->
                pending' = Added(pending, 1) /\ UNCHANGED <<items, trimmed>>
  /\ UNCHANGED <<status, pieces, kinded>>

\* A plan, or a notice of the controller.
Plan ==
  /\ Happens /\ Keeps(Append(StreamingClosed(items), [Item EXCEPT !.kind = "plan"]))
  /\ UNCHANGED <<status, pending, pieces, kinded, runs>>

\* The notice that a reply tells of work while no tool was called: since the last message of the user.
Narrates(s) == \E i \in LastUser(s) + 1 .. Len(s) : IsAnswer(s[i])
Unbacked(s) == Narrates(s) /\ \A i \in LastUser(s) + 1 .. Len(s) : s[i].kind \notin {"tool", "unbacked"}

\* Mutant: only tools after the last answer count.
UnbackedSinceAnswer(s) == Narrates(s) /\ \A i \in Last_(s, IsAnswer) + 1 .. Len(s) : s[i].kind \notin {"tool", "unbacked"}

Suspects(s) == Unbacked(s)

\* The words of the reply look like a claim, or they do not.
TurnComplete ==
  /\ Happens /\ status' = "idle" /\ pending' = 0
  /\ LET s == Closed(items)
     IN  \/ items' = s /\ UNCHANGED trimmed
         \/ Suspects(s) /\ Keeps(Append(s, [Item EXCEPT !.kind = "unbacked"]))
  /\ UNCHANGED <<pieces, kinded, runs>>

AppendUserMessage ==
  /\ Happens /\ status' = "running" /\ pending' = 0
  /\ Keeps(Append(Closed(items), [Said("message", FALSE) EXCEPT !.user = TRUE]))
  /\ pieces' = pieces \union {Now} /\ UNCHANGED <<kinded, runs>>

AppendSessionError ==
  /\ Happens /\ status' = "failed"
  /\ Keeps(Append(Closed(items), [Item EXCEPT !.kind = "error"]))
  /\ UNCHANGED <<pending, pieces, kinded, runs>>

Next ==
  \/ AssistantDelta \/ ThoughtDelta \/ Plan \/ TurnComplete \/ AppendUserMessage \/ AppendSessionError
  \/ \E kind \in ToolKinds \union {None} :
       \/ ToolStart(kind)
       \/ \E id \in {items[i].id : i \in 1 .. Len(items)} \ {0} : ToolUpdate(id, kind)
  \/ \E hook \in {"stop", "pre_tool_use", "user_prompt_submit"} : HookExecution(hook)

Spec == Init /\ [][Next]_vars

-----------------------------------------------------------------------------
TypeOK ==
  /\ status \in {"idle", "running", "failed"} /\ pending \in 0 .. MaxCount
  /\ Len(items) <= MaxItemsKept

MessagePieces == FlattenSeq([i \in 1 .. Len(items) |-> IF items[i].kind = "message" THEN items[i].text ELSE <<>>])

\* The messages are in the order in which they were said, late pieces too, and what is missing is older than all that is
\* there or came after a text was cut.
SaidInOrder ==
  /\ \A i \in 1 .. Len(MessagePieces) - 1 : MessagePieces[i] < MessagePieces[i + 1]
  /\ \A n \in pieces \ ToSet(MessagePieces) :
       \/ \A m \in ToSet(MessagePieces) : n < m
       \/ \E i \in 1 .. Len(items) : items[i].cut /\ Last(items[i].text) < n

\* When a turn is over nothing of it is open, whatever comes late; only a late answer to a turn that had none streams on.
ClosedWhenDone ==
  status = "idle" =>
    /\ \A i \in 1 .. Len(items) : ~items[i].open
    /\ \A i \in 1 .. Len(items) : items[i].streaming =>
         IsAnswer(items[i]) /\ \A j \in LastUser(SubSeq(items, 1, i)) + 1 .. i - 1 : ~IsAnswer(items[j])

Sum(f(_)) == FoldLeft(LAMBDA sum, item : sum + f(item), 0, items)
Tools(item) == FoldFunction(LAMBDA x, y : x + y, 0, item.counts)
Saturated == \E i \in 1 .. Len(items) : \E k \in ToolKinds : items[i].counts[k] = MaxCount

\* Every tool that said what it does is counted, under whatever kind, and no run of a hook twice.
ActivityCounts ==
  /\ ~trimmed /\ ~Saturated => Sum(Tools) >= Cardinality(kinded)
  /\ Sum(LAMBDA item : item.hooks) + pending <= runs

\* The notice stands only in a turn that had called no tool.
NoticeIsTrue ==
  \A i \in 1 .. Len(items) : items[i].kind = "unbacked" =>
    \A j \in LastUser(SubSeq(items, 1, i)) + 1 .. i - 1 : items[j].kind # "tool"
=============================================================================
