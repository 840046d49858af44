---------------------------- MODULE AgentRequests ----------------------------
(***************************************************************************)
(* The requests that the grok child makes of AcpClient: permissions, plan  *)
(* reviews and questions, from the request to its answer.  AcpClient keeps *)
(* the ones that are open by their key and answers each JSON-RPC id.       *)
(* Questions are numbered in the order they are asked; the answer names    *)
(* them by their text, which two of them may share.  An option is a number *)
(* and 0 is the free-form option.                                          *)
(***************************************************************************)
EXTENDS Naturals, FiniteSets

CONSTANTS Rpcs,       \* JSON-RPC ids of the child
          Keys,       \* request ids and tool calls
          MaxOpen,    \* interactions kept open: 64 in the code
          MaxAgain,   \* how often a request is sent again that is not recognised
          Questions, Multi, Options    \* the questions asked, those with several choices, the fixed options

VARIABLES open,       \* permissionRequests, interactionRequests and interactionKeys
          answers,    \* how often each JSON-RPC id was answered
          again,      \* history: how often each was sent again and not recognised
          asked,      \* what each id asked, once it has
          said,       \* the answer of the user to a question, where the last step was one
          sent        \* and what was written for it

vars == <<open, answers, again, asked, said, sent>>

Kinds == {"permission", "plan", "question"}
None == [kind |-> "none"]

Init ==
  /\ open = {} /\ answers = [r \in Rpcs |-> 0] /\ again = [r \in Rpcs |-> 0]
  /\ asked = [r \in Rpcs |-> None] /\ said = None /\ sent = None

Answered(rs) == answers' = [r \in Rpcs |-> answers[r] + (IF r \in rs THEN 1 ELSE 0)]
\* No question is answered in this step.
Quiet == said' = None /\ sent' = None

OpenFor(kind, key) == {o \in open : o.kind = kind /\ o.key = key}
Interactions == {o \in open : o.kind # "permission"}

-----------------------------------------------------------------------------
\* A request of another session, or one that cannot be read, is answered with an error.
Unacceptable(r) == Answered({r}) /\ UNCHANGED open

\* A key that is open already: the same request sent again is left alone, another is cancelled.
Repeated(r, kind, key) ==
  /\ UNCHANGED open
  /\ IF \E o \in OpenFor(kind, key) : o.rpc = r THEN UNCHANGED answers ELSE Answered({r})

Accepted(r, kind, key) == open' = open \union {[rpc |-> r, kind |-> kind, key |-> key]} /\ UNCHANGED answers

\* The table of the interactions is looked at before the request is read or looked for.
Full(kind) == kind # "permission" /\ Cardinality(Interactions) >= MaxOpen

\* A request sent again is not recognised when it was answered and forgotten, or is answered before it is looked for.
Unrecognised(r, kind, valid) ==
  IF \E o \in open : o.rpc = r THEN ~valid \/ Full(kind) ELSE answers[r] > 0

\* handleServerRequest and handleInteractionRequest.  The child sends a request, or the same one again, at any time:
\* while it is open, after its answer, or when its session is no longer the one of the client.
Ask(r, kind, key, valid) ==
  LET what == [kind |-> kind, key |-> key] IN
  /\ asked[r] \in {None, what} /\ asked' = [asked EXCEPT ![r] = what]
  /\ IF Unrecognised(r, kind, valid)
     THEN again[r] < MaxAgain /\ again' = [again EXCEPT ![r] = @ + 1]
     ELSE UNCHANGED again
  /\ IF Full(kind) \/ ~valid THEN Unacceptable(r)
     ELSE IF OpenFor(kind, key) # {} THEN Repeated(r, kind, key)
     ELSE Accepted(r, kind, key)
  /\ Quiet

AnswerPermission(o) ==
  /\ o \in open /\ o.kind = "permission"
  /\ Answered({o.rpc}) /\ open' = open \ {o} /\ UNCHANGED <<again, asked>> /\ Quiet

AnswerPlan(o) ==
  /\ o \in open /\ o.kind = "plan"
  /\ Answered({o.rpc}) /\ open' = open \ {o} /\ UNCHANGED <<again, asked>> /\ Quiet

-----------------------------------------------------------------------------
(* questionResponse: what the user chose for each question, as the child   *)
(* is told of it.                                                          *)

Choices == [chosen : SUBSET (Options \union {0}), text : BOOLEAN]

\* A question without a choice is left out; the free-form option needs its text and goes with fixed options only where
\* several may be chosen.
Refused(q, c) ==
  \/ c.chosen = {} /\ c.text
  \/ q \notin Multi /\ Cardinality(c.chosen) > 1
  \/ c.chosen # {} /\ (0 \in c.chosen) # c.text

\* The answers that are not refused, and the ways in which questions may share a text (named by the first that has it).
Sayable == {choice \in [Questions -> Choices] : \A q \in Questions : ~Refused(q, choice[q])}
Wordings == {text \in [Questions -> Questions] : \A q \in Questions : text[q] <= q /\ text[text[q]] = text[q]}

Labels(c) == IF c.chosen = {0} THEN {0} ELSE c.chosen \ {0}

\* The answer is keyed by the text of a question: of those that share it, the last one takes the place of the others.
LastOf(qs, text) == {q \in qs : \A p \in qs : p > q => text[p] # text[q]}
Keyed(qs, text) == [t \in {text[q] : q \in LastOf(qs, text)} |-> CHOOSE q \in LastOf(qs, text) : text[q] = t]

Told(choice) == {q \in Questions : choice[q].chosen # {}}

\* Mutant: the words are kept only when they are the whole answer.
NotedDropping(choice, previews) == {q \in Questions : choice[q].chosen = {0}} \union previews

\* The questions that are annotated: with the words of a free-form answer, or with the preview of the one option chosen.
Noted(choice, previews) == {q \in Questions : 0 \in choice[q].chosen} \union previews

Annotation(q, choice) == [question |-> q, kind |-> IF 0 \in choice[q].chosen THEN "words" ELSE "preview"]

Response(choice, text, previews, accepted) ==
  LET told == Keyed(Told(choice), text)
      noted == Keyed(Noted(choice, previews), text) IN
  [labels |-> [t \in DOMAIN told |-> Labels(choice[told[t]])],
   notes |-> IF accepted THEN [t \in DOMAIN noted |-> Annotation(noted[t], choice)] ELSE <<>>]

\* answerInteraction for a question: an answer that is refused leaves the request open.
AnswerQuestion(o) ==
  /\ o \in open /\ o.kind = "question"
  /\ \E choice \in Sayable, text \in Wordings, previews \in SUBSET (Questions \ Multi), accepted \in BOOLEAN :
       /\ \A q \in previews : choice[q].chosen \ {0} # {}
       /\ said' = [kind |-> "said", choice |-> choice, text |-> text, accepted |-> accepted]
       /\ sent' = Response(choice, text, previews, accepted)
  /\ Answered({o.rpc}) /\ open' = open \ {o} /\ UNCHANGED <<again, asked>>

-----------------------------------------------------------------------------
\* interaction_resolved: another client of the session has answered; both kinds of the tool call are forgotten.
Resolve(key) ==
  LET gone == {o \in Interactions : o.key = key} IN
  /\ gone # {} /\ open' = open \ gone /\ UNCHANGED <<answers, again, asked>> /\ Quiet

\* Mutant: cancel answers the requests and keeps the interactions.
CancelKeeping == open # {} /\ Answered({o.rpc : o \in open}) /\ open' = Interactions /\ UNCHANGED <<again, asked>> /\ Quiet

\* cancel: every open request is answered "cancelled".
Cancel == open # {} /\ Answered({o.rpc : o \in open}) /\ open' = {} /\ UNCHANGED <<again, asked>> /\ Quiet

\* stop: the child is told by the end of its stdin, the tables are cleared.
Stop == open # {} /\ open' = {} /\ UNCHANGED <<answers, again, asked>> /\ Quiet

Next ==
  \/ \E r \in Rpcs, kind \in Kinds, key \in Keys, valid \in BOOLEAN : Ask(r, kind, key, valid)
  \/ \E o \in open : AnswerPermission(o) \/ AnswerPlan(o) \/ AnswerQuestion(o)
  \/ \E key \in Keys : Resolve(key)
  \/ Cancel \/ Stop

Spec == Init /\ [][Next]_vars

-----------------------------------------------------------------------------
TypeOK ==
  /\ \A o \in open : o.rpc \in Rpcs /\ o.kind \in Kinds /\ o.key \in Keys
  /\ \A o, p \in open : (o.kind = p.kind /\ o.key = p.key) => o = p
  /\ Cardinality(Interactions) <= MaxOpen
  /\ answers \in [Rpcs -> Nat] /\ \A r \in Rpcs : asked[r] = None \/ asked[r].key \in Keys

\* A request is answered at most once, and is not open then, but for each time it was sent again and not recognised: no
\* later answer, cancel, or repetition of another request of its key answers it a second time.
AnsweredOnce ==
  \A r \in Rpcs : answers[r] <= 1 + again[r] /\ (answers[r] = 1 + again[r] => \A o \in open : o.rpc # r)

\* Of an accepted answer the child is told all that was said to the last question of each text: each option that was
\* chosen, and the words exactly where they were given.  (An earlier question of the same text is told as the last one.)
NothingSaidIsLost ==
  said # None /\ said.accepted =>
    \A q \in LastOf(Told(said.choice), said.text) :
      LET c == said.choice[q]
          t == said.text[q] IN
      /\ t \in DOMAIN sent.labels /\ c.chosen \ {0} \subseteq sent.labels[t] /\ sent.labels[t] # {}
      /\ c.text <=> t \in DOMAIN sent.notes /\ sent.notes[t] = [question |-> q, kind |-> "words"]
=============================================================================
