------------------------- MODULE AgentWorkerProofs -------------------------
(***************************************************************************)
(* TLAPS proofs about the parts of an agent worker: the requests of grok,  *)
(* its terminals, its file writes, and the tools that main runs, for any   *)
(* number of each.                                                         *)
(***************************************************************************)
EXTENDS MCAgentWorker, FiniteSetTheorems, TLAPS

-----------------------------------------------------------------------------
(* The requests of grok.                                                   *)

\* An open request is what its id has asked, and has an answer for each unrecognised repetition at most; there is one for
\* each key.
RequestsInv ==
  /\ IsFiniteSet(open) /\ open \subseteq [rpc : Rpcs, kind : Requests!Kinds, key : Keys]
  /\ answers \in [Rpcs -> Nat] /\ again \in [Rpcs -> Nat]
  /\ asked \in [Rpcs -> {Requests!None} \union [kind : Requests!Kinds, key : Keys]]
  /\ \A r \in Rpcs : answers[r] <= 1 + again[r]
  /\ \A o \in open : answers[o.rpc] <= again[o.rpc] /\ asked[o.rpc].kind = o.kind /\ asked[o.rpc].key = o.key
  /\ \A o, p \in open : o.kind = p.kind /\ o.key = p.key => o = p

LEMMA RequestsInit == Requests!Init => RequestsInv /\ Requests!NothingSaidIsLost
<1> SUFFICES ASSUME Requests!Init PROVE RequestsInv /\ Requests!NothingSaidIsLost
  OBVIOUS
<1>1. RequestsInv
  BY FS_EmptySet DEF Requests!Init, RequestsInv
<1>2. Requests!NothingSaidIsLost
  BY DEF Requests!Init, Requests!NothingSaidIsLost
<1> QED
  BY <1>1, <1>2

LEMMA OpenAsked ==
  ASSUME RequestsInv, NEW o \in open
  PROVE  /\ o.rpc \in Rpcs /\ o.kind \in Requests!Kinds /\ o.key \in Keys /\ answers[o.rpc] <= again[o.rpc]
         /\ asked[o.rpc].kind = o.kind /\ asked[o.rpc].key = o.key /\ asked[o.rpc] # Requests!None
<1>1. o \in [rpc : Rpcs, kind : Requests!Kinds, key : Keys]
  BY DEF RequestsInv
<1>2. o.rpc \in Rpcs /\ o.kind \in Requests!Kinds /\ o.key \in Keys
  BY <1>1
<1>3. answers[o.rpc] <= again[o.rpc] /\ asked[o.rpc].kind = o.kind /\ asked[o.rpc].key = o.key
  BY DEF RequestsInv
<1>4. asked[o.rpc] # Requests!None
  BY <1>2, <1>3 DEF Requests!None, Requests!Kinds
<1> QED
  BY <1>2, <1>3, <1>4

\* What is answered now had an answer for each unrecognised repetition at most, and is not open afterwards.
LEMMA AnsweredStep ==
  ASSUME RequestsInv, NEW rs \in SUBSET Rpcs, Requests!Answered(rs), UNCHANGED <<again, asked>>, open' \subseteq open,
         \A r \in rs : answers[r] <= again[r], \A o \in open' : o.rpc \notin rs
  PROVE  RequestsInv'
<1>1. answers' \in [Rpcs -> Nat] /\ \A r \in Rpcs : answers'[r] = IF r \in rs THEN answers[r] + 1 ELSE answers[r]
  BY DEF Requests!Answered, RequestsInv
<1>2. IsFiniteSet(open')
  BY FS_Subset DEF RequestsInv
<1>3. \A o \in open' : answers'[o.rpc] <= again[o.rpc]
  BY <1>1, OpenAsked
<1>4. \A r \in Rpcs : answers'[r] <= 1 + again[r]
  BY <1>1 DEF RequestsInv
<1> QED
  BY <1>1, <1>2, <1>3, <1>4 DEF RequestsInv, Requests!None

LEMMA AskStep ==
  ASSUME RequestsInv, NEW r \in Rpcs, NEW kind \in Requests!Kinds, NEW key \in Keys, NEW valid \in BOOLEAN,
         Requests!Ask(r, kind, key, valid)
  PROVE  RequestsInv'
<1> DEFINE what == [kind |-> kind, key |-> key]
           asks == [rpc |-> r, kind |-> kind, key |-> key]
           opened == \E o \in open : o.rpc = r
<1>1. what \in [kind : Requests!Kinds, key : Keys] /\ what.kind = kind /\ what.key = key
  OBVIOUS
<1>2. asked' = [asked EXCEPT ![r] = what] /\ (asked[r] = Requests!None \/ asked[r] = what)
  BY DEF Requests!Ask
<1>3. \A o \in open : o.rpc = r => o.kind = kind /\ o.key = key
  BY <1>1, <1>2, OpenAsked
<1>4. again' \in [Rpcs -> Nat] /\ \A s \in Rpcs : again'[s] = IF s = r /\ Requests!Unrecognised(r, kind, valid) THEN again[s] + 1 ELSE again[s]
  BY DEF Requests!Ask, RequestsInv
<1>5. asked' \in [Rpcs -> {Requests!None} \union [kind : Requests!Kinds, key : Keys]]
  BY <1>1, <1>2 DEF RequestsInv
<1>6. \A s \in Rpcs : asked'[s] = IF s = r THEN what ELSE asked[s]
  BY <1>2 DEF RequestsInv
<1>7. \A o \in open : asked'[o.rpc].kind = o.kind /\ asked'[o.rpc].key = o.key
  BY <1>1, <1>3, <1>6, OpenAsked
\* The room that the request leaves for one more answer.
<1>8. Requests!Unrecognised(r, kind, valid) \/ answers[r] = 0 \/ (opened /\ valid /\ ~Requests!Full(kind))
  <2>1. answers[r] > 0 \/ answers[r] = 0
    BY DEF RequestsInv
  <2> QED
    BY <2>1 DEF Requests!Unrecognised
<1>9. opened => answers[r] <= again[r]
  BY OpenAsked
<1>10. \/ Requests!Answered({r}) /\ UNCHANGED open /\ (opened => Requests!Unrecognised(r, kind, valid))
       \/ UNCHANGED <<open, answers>>
       \/ open' = open \union {asks} /\ (\A o \in open : o.kind # kind \/ o.key # key) /\ UNCHANGED answers
  <2>1. CASE Requests!Full(kind) \/ ~valid
    BY <2>1 DEF Requests!Ask, Requests!Unacceptable, Requests!Unrecognised
  <2>2. CASE ~Requests!Full(kind) /\ valid /\ Requests!OpenFor(kind, key) # {}
    <3>1. Requests!Repeated(r, kind, key)
      BY <2>2 DEF Requests!Ask
    <3>2. opened => \E o \in Requests!OpenFor(kind, key) : o.rpc = r
      BY <1>3 DEF Requests!OpenFor
    <3> QED
      BY <3>1, <3>2 DEF Requests!Repeated
  <2>3. CASE ~Requests!Full(kind) /\ valid /\ Requests!OpenFor(kind, key) = {}
    BY <2>3 DEF Requests!Ask, Requests!Accepted, Requests!OpenFor
  <2> QED
    BY <2>1, <2>2, <2>3
<1> HIDE DEF what, opened
<1>11. CASE Requests!Answered({r}) /\ UNCHANGED open /\ (opened => Requests!Unrecognised(r, kind, valid))
  <2>1. answers' \in [Rpcs -> Nat] /\ \A s \in Rpcs : answers'[s] = IF s = r THEN answers[s] + 1 ELSE answers[s]
    BY <1>11 DEF Requests!Answered, RequestsInv
  <2>2. \A s \in Rpcs : answers'[s] <= 1 + again'[s]
    <3>1. \A s \in Rpcs : answers[s] \in Nat /\ again[s] \in Nat /\ answers[s] <= 1 + again[s]
      BY DEF RequestsInv
    <3>2. answers'[r] <= 1 + again'[r]
      <4>1. CASE Requests!Unrecognised(r, kind, valid)
        BY <1>4, <2>1, <3>1, <4>1
      <4>2. CASE ~Requests!Unrecognised(r, kind, valid)
        <5>1. answers[r] = 0
          BY <1>8, <1>11, <4>2
        <5> QED
          BY <1>4, <2>1, <3>1, <4>2, <5>1
      <4> QED
        BY <4>1, <4>2
    <3> QED
      BY <1>4, <2>1, <3>1, <3>2
  <2>3. \A o \in open : answers'[o.rpc] <= again'[o.rpc]
    BY <1>4, <1>9, <1>11, <2>1, OpenAsked DEF RequestsInv, opened
  <2> QED
    BY <1>4, <1>5, <1>7, <1>11, <2>1, <2>2, <2>3 DEF RequestsInv, Requests!None
<1>12. CASE UNCHANGED <<open, answers>>
  <2>1. \A s \in Rpcs : again'[s] \in Nat /\ again'[s] >= again[s] /\ answers[s] \in Nat /\ again[s] \in Nat
    BY <1>4 DEF RequestsInv
  <2>2. \A s \in Rpcs : answers'[s] <= 1 + again'[s]
    BY <1>12, <2>1 DEF RequestsInv
  <2>3. \A o \in open : answers'[o.rpc] <= again'[o.rpc]
    BY <1>12, <2>1, OpenAsked
  <2> QED
    BY <1>4, <1>5, <1>7, <1>12, <2>2, <2>3 DEF RequestsInv, Requests!None
<1>13. CASE open' = open \union {asks} /\ (\A o \in open : o.kind # kind \/ o.key # key) /\ UNCHANGED answers
  <2>1. \A s \in Rpcs : again'[s] \in Nat /\ again'[s] >= again[s] /\ answers[s] \in Nat /\ again[s] \in Nat
    BY <1>4 DEF RequestsInv
  <2>2. \A s \in Rpcs : answers'[s] <= 1 + again'[s]
    BY <1>13, <2>1 DEF RequestsInv
  <2>3. ~opened
    BY <1>3, <1>13 DEF opened
  <2>4. answers[r] <= again'[r]
    <3>1. CASE Requests!Unrecognised(r, kind, valid)
      <4>1. again'[r] = again[r] + 1 /\ answers[r] <= 1 + again[r]
        BY <1>4, <3>1 DEF RequestsInv
      <4> QED
        BY <2>1, <4>1
    <3>2. CASE ~Requests!Unrecognised(r, kind, valid)
      BY <1>8, <2>1, <2>3, <3>2
    <3> QED
      BY <3>1, <3>2
  <2>5. IsFiniteSet(open') /\ open' \subseteq [rpc : Rpcs, kind : Requests!Kinds, key : Keys]
    <3>1. asks \in [rpc : Rpcs, kind : Requests!Kinds, key : Keys]
      OBVIOUS
    <3>2. IsFiniteSet(open \union {asks})
      BY FS_AddElement DEF RequestsInv
    <3> QED
      BY <1>13, <3>1, <3>2 DEF RequestsInv
  <2>6. asks.rpc = r /\ asks.kind = kind /\ asks.key = key
    OBVIOUS
  <2> HIDE DEF asks
  <2>7. \A o, p \in open' : o.kind = p.kind /\ o.key = p.key => o = p
    BY <1>13, <2>6 DEF RequestsInv
  <2>8. \A o \in open' : answers'[o.rpc] <= again'[o.rpc]
    BY <1>13, <2>1, <2>4, <2>6, OpenAsked
  <2>9. \A o \in open' : asked'[o.rpc].kind = o.kind /\ asked'[o.rpc].key = o.key
    BY <1>1, <1>6, <1>7, <1>13, <2>6
  <2> QED
    BY <1>4, <1>5, <1>13, <2>2, <2>5, <2>7, <2>8, <2>9 DEF RequestsInv, Requests!None
<1> QED
  BY <1>10, <1>11, <1>12, <1>13

\* Each step of the requests keeps the invariant, and a question's answer is told whole.
LEMMA RequestsStep == RequestsInv /\ Requests!Next => RequestsInv'
<1> SUFFICES ASSUME RequestsInv, Requests!Next PROVE RequestsInv'
  OBVIOUS
<1>1. ASSUME NEW o \in open, open' = open \ {o}, Requests!Answered({o.rpc}), UNCHANGED <<again, asked>> PROVE RequestsInv'
  <2>1. \A u \in open' : u.rpc # o.rpc
    <3> SUFFICES ASSUME NEW u \in open, u.rpc = o.rpc PROVE u = o
      BY <1>1
    <3>1. u.kind = o.kind /\ u.key = o.key
      BY OpenAsked
    <3> QED
      BY <3>1 DEF RequestsInv
  <2>2. {o.rpc} \in SUBSET Rpcs /\ answers[o.rpc] <= again[o.rpc]
    BY OpenAsked
  <2> QED
    BY <1>1, <2>1, <2>2, AnsweredStep
<1>2. ASSUME open' \subseteq open, UNCHANGED <<answers, again, asked>> PROVE RequestsInv'
  <2>1. IsFiniteSet(open')
    BY <1>2, FS_Subset DEF RequestsInv
  <2> QED
    BY <1>2, <2>1 DEF RequestsInv, Requests!None
<1>3. ASSUME NEW r \in Rpcs, NEW kind \in Requests!Kinds, NEW key \in Keys, NEW valid \in BOOLEAN,
             Requests!Ask(r, kind, key, valid)
      PROVE  RequestsInv'
  BY <1>3, AskStep
<1>4. ASSUME NEW o \in open, Requests!AnswerPermission(o) \/ Requests!AnswerPlan(o) \/ Requests!AnswerQuestion(o)
      PROVE  RequestsInv'
  BY <1>1, <1>4 DEF Requests!AnswerPermission, Requests!AnswerPlan, Requests!AnswerQuestion
<1>5. ASSUME NEW key \in Keys, Requests!Resolve(key) PROVE RequestsInv'
  BY <1>2, <1>5 DEF Requests!Resolve
<1>6. CASE Requests!Cancel
  <2> DEFINE rs == {o.rpc : o \in open}
  <2>1. open' = {} /\ Requests!Answered(rs) /\ UNCHANGED <<again, asked>>
    BY <1>6 DEF Requests!Cancel
  <2>2. rs \in SUBSET Rpcs /\ \A r \in rs : answers[r] <= again[r]
    BY OpenAsked
  <2> HIDE DEF rs
  <2> QED
    BY <2>1, <2>2, AnsweredStep
<1>7. CASE Requests!Stop
  BY <1>2, <1>7 DEF Requests!Stop
<1> QED
  BY <1>3, <1>4, <1>5, <1>6, <1>7 DEF Requests!Next

\* A text stands for the last of the questions that have it.
LEMMA KeyedByLast ==
  ASSUME NEW qs \in SUBSET Questions, NEW text \in [Questions -> Questions], NEW q \in Requests!LastOf(qs, text)
  PROVE  text[q] \in DOMAIN Requests!Keyed(qs, text) /\ Requests!Keyed(qs, text)[text[q]] = q
<1> DEFINE last == Requests!LastOf(qs, text)
<1>1. last \subseteq Nat /\ last \subseteq qs
  BY QuestionsAssumption DEF Requests!LastOf
<1>2. \A p \in last : text[p] = text[q] => p = q
  BY <1>1 DEF Requests!LastOf
<1>3. text[q] \in {text[p] : p \in last}
  OBVIOUS
<1> HIDE DEF last
<1>4. (CHOOSE p \in last : text[p] = text[q]) = q
  BY <1>2 DEF last
<1> QED
  BY <1>3, <1>4 DEF Requests!Keyed, last

\* What reply tells of question q is what was said to it.
ToldWhole(reply, choice, text, q) ==
  LET c == choice[q]
      t == text[q] IN
  /\ t \in DOMAIN reply.labels /\ c.chosen \ {0} \subseteq reply.labels[t] /\ reply.labels[t] # {}
  /\ c.text <=> t \in DOMAIN reply.notes /\ reply.notes[t] = [question |-> q, kind |-> "words"]

LEMMA AnswerTold ==
  ASSUME NEW choice \in Requests!Sayable, NEW text \in [Questions -> Questions], NEW previews \in SUBSET (Questions \ Multi),
         \A q \in previews : choice[q].chosen \ {0} # {},
         NEW q \in Requests!LastOf(Requests!Told(choice), text)
  PROVE  ToldWhole(Requests!Response(choice, text, previews, TRUE), choice, text, q)
<1> DEFINE asks == Requests!Told(choice)
           noted == Requests!Noted(choice, previews)
           heard == Requests!Keyed(asks, text)
           words == Requests!Keyed(noted, text)
           reply == Requests!Response(choice, text, previews, TRUE)
           t == text[q]
<1>1. /\ reply.labels = [u \in DOMAIN heard |-> Requests!Labels(choice[heard[u]])]
      /\ reply.notes = [u \in DOMAIN words |-> Requests!Annotation(words[u], choice)]
  BY DEF Requests!Response
<1>2. asks \in SUBSET Questions /\ noted \in SUBSET Questions /\ q \in asks /\ q \in Questions
  BY DEF Requests!Noted, Requests!LastOf, Requests!Told
<1>3. t \in DOMAIN heard /\ heard[t] = q
  BY <1>2, KeyedByLast
<1>4. ~Requests!Refused(q, choice[q]) /\ choice[q] \in Requests!Choices
  BY <1>2 DEF Requests!Sayable
<1>5. choice[q].text <=> 0 \in choice[q].chosen
  BY <1>2, <1>4 DEF Requests!Refused, Requests!Choices
<1>6. noted \subseteq asks
  BY DEF Requests!Noted, Requests!Told
<1>7. q \in noted => q \in Requests!LastOf(noted, text)
  BY <1>6 DEF Requests!LastOf
<1>8. q \in noted => t \in DOMAIN words /\ words[t] = q
  BY <1>2, <1>7, KeyedByLast
<1> HIDE DEF asks, noted, heard, words, reply, t
<1>9. t \in DOMAIN reply.labels /\ reply.labels[t] = Requests!Labels(choice[q])
  BY <1>1, <1>3
<1>10. choice[q].chosen \ {0} \subseteq Requests!Labels(choice[q]) /\ Requests!Labels(choice[q]) # {}
  BY <1>2 DEF Requests!Labels, Requests!Told, asks
<1>11. choice[q].text => t \in DOMAIN reply.notes /\ reply.notes[t] = [question |-> q, kind |-> "words"]
  <2>1. choice[q].text => q \in noted
    BY <1>2, <1>5 DEF noted, Requests!Noted
  <2> QED
    BY <1>1, <1>5, <1>8, <2>1 DEF Requests!Annotation
<1>12. t \in DOMAIN reply.notes /\ reply.notes[t] = [question |-> q, kind |-> "words"] => choice[q].text
  <2> SUFFICES ASSUME t \in DOMAIN reply.notes, reply.notes[t] = [question |-> q, kind |-> "words"] PROVE choice[q].text
    OBVIOUS
  <2>1. reply.notes[t] = Requests!Annotation(words[t], choice)
    BY <1>1
  <2>2. reply.notes[t].question = words[t] /\ reply.notes[t].kind = (IF 0 \in choice[words[t]].chosen THEN "words" ELSE "preview")
    BY <2>1 DEF Requests!Annotation
  <2>3. words[t] = q /\ 0 \in choice[words[t]].chosen
    BY <2>2
  <2> QED
    BY <1>5, <2>3
<1> QED
  BY <1>9, <1>10, <1>11, <1>12 DEF ToldWhole, reply, t

LEMMA ToldStep == Requests!NothingSaidIsLost /\ Requests!Next => Requests!NothingSaidIsLost'
<1> SUFFICES ASSUME Requests!NothingSaidIsLost, Requests!Next PROVE Requests!NothingSaidIsLost'
  OBVIOUS
<1>1. CASE Requests!Quiet
  BY <1>1 DEF Requests!Quiet, Requests!NothingSaidIsLost
<1>2. CASE \E o \in open : Requests!AnswerQuestion(o)
  <2>1. PICK choice \in Requests!Sayable, text \in Requests!Wordings, previews \in SUBSET (Questions \ Multi), accepted \in BOOLEAN :
          /\ \A q \in previews : choice[q].chosen \ {0} # {}
          /\ said' = [kind |-> "said", choice |-> choice, text |-> text, accepted |-> accepted]
          /\ sent' = Requests!Response(choice, text, previews, accepted)
    BY <1>2 DEF Requests!AnswerQuestion
  <2>2. said'.choice = choice /\ said'.text = text /\ said'.accepted = accepted
    BY <2>1
  <2>3. CASE accepted = TRUE
    <3>1. sent' = Requests!Response(choice, text, previews, TRUE) /\ text \in [Questions -> Questions]
      BY <2>1, <2>3 DEF Requests!Wordings
    <3>2. \A q \in Requests!LastOf(Requests!Told(choice), text) : ToldWhole(sent', choice, text, q)
      BY <2>1, <3>1, AnswerTold
    <3> QED
      BY <2>2, <3>2 DEF Requests!NothingSaidIsLost, ToldWhole
  <2>4. CASE accepted = FALSE
    BY <2>2, <2>4 DEF Requests!NothingSaidIsLost
  <2> QED
    BY <2>3, <2>4
<1> QED
  BY <1>1, <1>2 DEF Requests!Next, Requests!Ask, Requests!AnswerPermission, Requests!AnswerPlan, Requests!Resolve, Requests!Cancel, Requests!Stop

-----------------------------------------------------------------------------
(* The file writes.                                                        *)

\* A write that is over has a temporary file only where its removal failed, or what came before it.
FilesInv ==
  /\ step \in [Writes -> {"idle", "seen", "staged", "checked", "placed", "failed", "ok", "error"}] /\ lost = {} /\ faults \in Nat
  /\ \A w \in temporary : step[w] \notin {"idle", "seen", "ok"} /\ (step[w] = "error" => faults > 0)
  /\ temporary \subseteq Writes

LEMMA FilesInit == Files!Init => FilesInv
BY DEF Files!Init, FilesInv

LEMMA FilesStep == FilesInv /\ Files!Next => FilesInv'
<1> SUFFICES ASSUME FilesInv, Files!Next PROVE FilesInv'
  OBVIOUS
<1> USE DEF FilesInv, Files!Goes, Files!Fault
<1>1. ASSUME NEW w \in Writes, Files!Denied(w) PROVE FilesInv'
  BY <1>1 DEF Files!Denied
<1>2. ASSUME NEW w \in Writes, Files!Begin(w) PROVE FilesInv'
  BY <1>2 DEF Files!Begin
<1>3. ASSUME NEW w \in Writes, Files!Stage(w) PROVE FilesInv'
  BY <1>3 DEF Files!Stage
<1>4. ASSUME NEW w \in Writes, Files!Check(w) PROVE FilesInv'
  BY <1>4 DEF Files!Check
<1>5. ASSUME NEW w \in Writes, Files!Place(w) PROVE FilesInv'
  BY <1>5 DEF Files!Place, Files!Placed
<1>6. ASSUME NEW w \in Writes, Files!Finish(w) PROVE FilesInv'
  BY <1>6 DEF Files!Finish
<1>7. CASE Files!Outside
  BY <1>7 DEF Files!Outside
<1>8. CASE \E text \in Texts, line, limit \in -1 .. MaxLine : Files!Read(text, line, limit)
  BY <1>8 DEF Files!Read
<1> QED
  BY <1>1, <1>2, <1>3, <1>4, <1>5, <1>6, <1>7, <1>8 DEF Files!Next

-----------------------------------------------------------------------------
(* The terminals.                                                          *)

Running(t) == proc[t] \in {"alive", "group"}
Ops == {"create", "kill", "release", "stop"}

\* A process that runs is in the map that stopAll looks at, until stopAll has looked; then it is one that stopAll ends.
\* What the two rest on: no create gives up, and nothing of stopAll is under way, before it is called or after it has returned.
TerminalInv ==
  /\ create \in [Terms -> {"free", "resolving", "spawning", "open", "failing", "refused"}]
  /\ proc \in [Terms -> {"none", "alive", "group", "gone"}] /\ stop \in {"no", "stopping", "stopped", "failed"}
  /\ stop = "no" => \A t \in Terms : /\ Running(t) => t \in retained \/ t \in unreaped
                                     /\ create[t] = "spawning" => t \in terminals
                                     /\ <<t, "create">> \notin ending
  /\ stop = "stopping" => \A t \in Terms : Running(t) => t \in unreaped \/ <<t, "stop">> \in ending
  /\ stop = "stopped" => \A t \in Terms : Running(t) => t \in unreaped
  /\ stop \in {"no", "stopped"} => \A t \in Terms : <<t, "stop">> \notin ending

LEMMA TerminalInit == Terminal!Init => TerminalInv
BY DEF Terminal!Init, TerminalInv, Running

LEMMA TerminalStep == TerminalInv /\ Terminal!Next => TerminalInv'
<1> SUFFICES ASSUME TerminalInv, Terminal!Next PROVE TerminalInv'
  OBVIOUS
<1> USE DEF TerminalInv, Running, Terminal!Set
<1>1. ASSUME NEW t \in Terms, Terminal!Rejected(t) \/ Terminal!Create(t) \/ Terminal!Unresolved(t) PROVE TerminalInv'
  BY <1>1 DEF Terminal!Rejected, Terminal!Create, Terminal!Unresolved
<1>2. ASSUME NEW t \in Terms, Terminal!Resolved(t) PROVE TerminalInv'
  BY <1>2 DEF Terminal!Resolved, Terminal!Spawns
<1>3. ASSUME NEW t \in Terms, Terminal!Spawned(t) PROVE TerminalInv'
  BY <1>3 DEF Terminal!Spawned
<1>4. ASSUME NEW t \in Terms, Terminal!SpawnFails(t) PROVE TerminalInv'
  BY <1>4 DEF Terminal!SpawnFails, Terminal!Discarded
<1>5. ASSUME NEW t \in Terms, Terminal!Kill(t) PROVE TerminalInv'
  BY <1>5 DEF Terminal!Kill
<1>6. ASSUME NEW t \in Terms, Terminal!Release(t) PROVE TerminalInv'
  BY <1>6 DEF Terminal!Release
<1>7. CASE Terminal!StopAll
  BY <1>7 DEF Terminal!StopAll
<1>8. ASSUME NEW t \in Terms, NEW op \in Ops, Terminal!Terminated(t, op) PROVE TerminalInv'
  BY <1>8 DEF Terminal!Terminated, Terminal!AfterTerminate, Terminal!Discarded, Ops
<1>9. ASSUME NEW t \in Terms, NEW op \in Ops, Terminal!NotTerminated(t, op) PROVE TerminalInv'
  BY <1>9 DEF Terminal!NotTerminated, Terminal!AfterTerminate, Terminal!Discarded, Ops
<1>10. CASE Terminal!Stopped
  BY <1>10 DEF Terminal!Stopped
<1>11. ASSUME NEW t \in Terms, Terminal!ProcessEnds(t) PROVE TerminalInv'
  BY <1>11 DEF Terminal!ProcessEnds
<1>12. ASSUME NEW t \in Terms, NEW n \in Chunks, Terminal!Output(t, n) PROVE TerminalInv'
  BY <1>12 DEF Terminal!Output
<1> QED
  BY <1>1, <1>2, <1>3, <1>4, <1>5, <1>6, <1>7, <1>8, <1>9, <1>10, <1>11, <1>12 DEF Terminal!Next, Ops

-----------------------------------------------------------------------------
(* The tools that main runs.                                               *)

\* The runs and their processes are what the runner keeps of them; a run that was given up is over only once its process
\* was sent the kill, or has ended and closed its pipes.
ToolsInv ==
  /\ DOMAIN run = Tools!Runs /\ DOMAIN process = Tools!Runs
  /\ \A r \in Tools!Runs : DOMAIN run[r] = DOMAIN Tools!IdleRun
  /\ Tools!GivenUpMeansKilled

LEMMA ToolsInit == Tools!Init => ToolsInv
BY DEF Tools!Init, ToolsInv, Tools!IdleRun, Tools!GivenUpMeansKilled, Tools!None

\* One run changes, and its process; those of the other runs stay.  It goes on, or is over as it should be.
LEMMA OneRunMoves ==
  ASSUME ToolsInv, NEW r \in Tools!Runs, UNCHANGED tool, DOMAIN run' = Tools!Runs, DOMAIN process' = Tools!Runs,
         \A s \in Tools!Runs \ {r} : run'[s] = run[s] /\ process'[s] = process[s],
         DOMAIN run'[r] = DOMAIN Tools!IdleRun,
         \/ run'[r].at # "done" \/ run'[r].reason = Tools!None \/ run'[r].killed
         \/ Tools!Closed(r) /\ process' = process
  PROVE  ToolsInv'
<1>1. \A s \in Tools!Runs \ {r} : Tools!Closed(s)' <=> Tools!Closed(s)
  BY DEF Tools!Closed, Tools!Ended
<1>2. process' = process => (Tools!Closed(r)' <=> Tools!Closed(r))
  BY DEF Tools!Closed, Tools!Ended
<1>3. \A s \in Tools!Runs : run'[s].at = "done" /\ run'[s].reason # Tools!None => run'[s].killed \/ Tools!Closed(s)'
  BY <1>1, <1>2 DEF ToolsInv, Tools!GivenUpMeansKilled
<1>4. \A s \in Tools!Runs : DOMAIN run'[s] = DOMAIN Tools!IdleRun
  BY DEF ToolsInv
<1> QED
  BY <1>3, <1>4 DEF ToolsInv, Tools!GivenUpMeansKilled

LEMMA ToolsStep == ToolsInv /\ Tools!Next => ToolsInv'
<1> SUFFICES ASSUME ToolsInv, Tools!Next PROVE ToolsInv'
  OBVIOUS
<1> USE DEF ToolsInv
<1>1. ASSUME NEW r \in Tools!Runs, Tools!StartFails(r) PROVE ToolsInv'
  <2>1. run' = [run EXCEPT ![r] = [Tools!IdleRun EXCEPT !.at = "done", !.result = "spawn"]] /\ UNCHANGED <<tool, process>>
    BY <1>1 DEF Tools!StartFails, Tools!Settles
  <2>2. DOMAIN run'[r] = DOMAIN Tools!IdleRun /\ run'[r].reason = Tools!None
    BY <2>1 DEF Tools!IdleRun
  <2> QED
    BY <2>1, <2>2, OneRunMoves
<1>2. ASSUME NEW r \in Tools!Runs, Tools!Start(r) PROVE ToolsInv'
  <2>1. run' = [run EXCEPT ![r].at = "running"] /\ UNCHANGED tool /\ DOMAIN process' = Tools!Runs
        /\ \A s \in Tools!Runs \ {r} : process'[s] = process[s]
    BY <1>2 DEF Tools!Start
  <2>2. DOMAIN run'[r] = DOMAIN Tools!IdleRun /\ run'[r].at = "running"
    BY <2>1 DEF Tools!IdleRun
  <2> QED
    BY <2>1, <2>2, OneRunMoves
<1>3. ASSUME NEW r \in Tools!Runs, NEW reason, run[r].at = "running", run' = Tools!Terminating(r, reason), UNCHANGED tool,
             DOMAIN process' = Tools!Runs, \A s \in Tools!Runs \ {r} : process'[s] = process[s]
      PROVE  ToolsInv'
  <2>1. DOMAIN run'[r] = DOMAIN Tools!IdleRun /\ run'[r].at = "running"
    BY <1>3 DEF Tools!Terminating, Tools!IdleRun
  <2> QED
    BY <1>3, <2>1, OneRunMoves DEF Tools!Terminating
<1>4. ASSUME NEW r \in Tools!Runs, Tools!TimesOut(r) PROVE ToolsInv'
  BY <1>3, <1>4 DEF Tools!TimesOut, Tools!Hit, Tools!Live
<1>5. ASSUME NEW r \in Tools!Runs, run[r].at = "running", UNCHANGED <<tool, run>>, DOMAIN process' = Tools!Runs,
             \A s \in Tools!Runs \ {r} : process'[s] = process[s]
      PROVE  ToolsInv'
  BY <1>5, OneRunMoves
<1>6. ASSUME NEW r \in Tools!Runs, Tools!Hears(r) PROVE ToolsInv'
  <2>1. run[r].at = "running" /\ UNCHANGED tool /\ DOMAIN process' = Tools!Runs
        /\ \A s \in Tools!Runs \ {r} : process'[s] = process[s]
    BY <1>6 DEF Tools!Hears
  <2>2. CASE UNCHANGED run
    BY <1>5, <2>1, <2>2
  <2>3. CASE run' = Tools!Terminating(r, "output-limit")
    BY <1>3, <2>1, <2>3
  <2>4. CASE run' = [run EXCEPT ![r].taken = Append(run[r].taken, Head(process[r].pipe))]
    <3>1. DOMAIN run'[r] = DOMAIN Tools!IdleRun /\ run'[r].at = "running"
      BY <2>1, <2>4 DEF Tools!IdleRun
    <3> QED
      BY <2>1, <2>4, <3>1, OneRunMoves
  <2> QED
    BY <1>6, <2>2, <2>3, <2>4 DEF Tools!Hears
<1>7. ASSUME NEW r \in Tools!Runs, Tools!KillTimer(r) PROVE ToolsInv'
  <2>1. run' = [run EXCEPT ![r].killed = TRUE] /\ UNCHANGED <<tool, process>> /\ run[r].at = "running"
    BY <1>7 DEF Tools!KillTimer
  <2>2. DOMAIN run'[r] = DOMAIN Tools!IdleRun /\ run'[r].at = "running"
    BY <2>1 DEF Tools!IdleRun
  <2> QED
    BY <2>1, <2>2, OneRunMoves
<1>8. ASSUME NEW r \in Tools!Runs, Tools!Fails(r), UNCHANGED <<tool, process>>, run[r].killed \/ Tools!Closed(r) PROVE ToolsInv'
  <2>1. run' = [run EXCEPT ![r] = [run[r] EXCEPT !.at = "done", !.result = run[r].reason]]
    BY <1>8 DEF Tools!Fails, Tools!Settles
  <2>2. DOMAIN run'[r] = DOMAIN Tools!IdleRun /\ (run[r].killed => run'[r].killed)
    BY <2>1 DEF Tools!IdleRun
  <2> QED
    BY <1>8, <2>1, <2>2, OneRunMoves
<1>9. ASSUME NEW r \in Tools!Runs, Tools!FailSafe(r) PROVE ToolsInv'
  BY <1>8, <1>9 DEF Tools!FailSafe
<1>10. ASSUME NEW r \in Tools!Runs, Tools!Closes(r) PROVE ToolsInv'
  <2>1. CASE run[r].reason # Tools!None
    BY <1>8, <1>10, <2>1 DEF Tools!Closes
  <2>2. CASE run[r].reason = Tools!None
    <3>1. run' = [run EXCEPT ![r] = [run[r] EXCEPT !.at = "done", !.result = "ok", !.code = process[r].code]] /\ UNCHANGED <<tool, process>>
      BY <1>10, <2>2 DEF Tools!Closes, Tools!Settles
    <3>2. DOMAIN run'[r] = DOMAIN Tools!IdleRun /\ run'[r].reason = Tools!None
      BY <2>2, <3>1 DEF Tools!IdleRun
    <3> QED
      BY <3>1, <3>2, OneRunMoves
  <2> QED
    BY <2>1, <2>2
<1>11. ASSUME NEW r \in Tools!Runs, NEW new, Tools!Process(r, new) PROVE ToolsInv'
  BY <1>5, <1>11 DEF Tools!Process
<1>12. ASSUME NEW r \in Tools!Runs, Tools!Prints(r) \/ Tools!Exits(r) \/ Tools!HelperEnds(r) PROVE ToolsInv'
  BY <1>11, <1>12 DEF Tools!Prints, Tools!Exits, Tools!HelperEnds
<1>13. CASE Tools!Outside
  BY <1>13 DEF Tools!Outside, Tools!GivenUpMeansKilled, Tools!Closed, Tools!Ended
<1> QED
  BY <1>1, <1>2, <1>4, <1>6, <1>7, <1>9, <1>10, <1>12, <1>13 DEF Tools!Next

-----------------------------------------------------------------------------
(* The worker: its behaviours are those of its parts.                      *)

WorkerInv ==
  /\ part = "requests" => RequestsInv /\ Requests!NothingSaidIsLost
  /\ part = "terminal" => TerminalInv
  /\ part = "files" => FilesInv
  /\ part = "tools" => ToolsInv

LEMMA WorkerInit == Init => WorkerInv
BY RequestsInit, TerminalInit, FilesInit, ToolsInit DEF Init, WorkerInv

LEMMA WorkerStutters == WorkerInv /\ UNCHANGED vars => WorkerInv'
<1> SUFFICES ASSUME WorkerInv, UNCHANGED vars PROVE WorkerInv'
  OBVIOUS
<1>1. part = "requests" => (RequestsInv /\ Requests!NothingSaidIsLost)'
  BY DEF WorkerInv, vars, requestVars, RequestsInv, Requests!NothingSaidIsLost
<1>2. part = "terminal" => TerminalInv'
  BY DEF WorkerInv, vars, terminalVars, TerminalInv, Running
<1>3. part = "files" => FilesInv'
  BY DEF WorkerInv, vars, fileVars, FilesInv
<1>4. part = "tools" => ToolsInv'
  BY DEF WorkerInv, vars, toolVars, ToolsInv, Tools!GivenUpMeansKilled, Tools!Closed, Tools!Ended
<1> QED
  BY <1>1, <1>2, <1>3, <1>4 DEF WorkerInv, vars

LEMMA WorkerStep == WorkerInv /\ Next => WorkerInv'
<1> SUFFICES ASSUME WorkerInv, Next PROVE WorkerInv'
  OBVIOUS
<1>1. part = "requests" => (RequestsInv /\ Requests!NothingSaidIsLost)'
  BY RequestsStep, ToldStep DEF WorkerInv, Next
<1>2. part = "terminal" => TerminalInv'
  BY TerminalStep DEF WorkerInv, Next
<1>3. part = "files" => FilesInv'
  BY FilesStep DEF WorkerInv, Next
<1>4. part = "tools" => ToolsInv'
  BY ToolsStep DEF WorkerInv, Next
<1> QED
  BY <1>1, <1>2, <1>3, <1>4 DEF WorkerInv, Next

\* What holds of the parts of a worker whatever they do, for any number of requests, terminals, writes and runs.
THEOREM WorkerInvariance == Spec => []WorkerInv
BY WorkerInit, WorkerStep, WorkerStutters, PTL DEF Spec

\* AcpClient: no request of grok is answered twice, and one that was answered is not open, but for each time it was sent
\* again and not recognised.
THEOREM AnsweredOnceAlways == Spec => []AnsweredOnce
<1>1. WorkerInv => AnsweredOnce
  BY OpenAsked DEF WorkerInv, AnsweredOnce, Requests!AnsweredOnce, RequestsInv
<1> QED
  BY <1>1, WorkerInvariance, PTL

\* questionResponse: of an answer that was accepted grok is told every choice and every text given to the last question of
\* each text.
THEOREM NothingSaidIsLostAlways == Spec => []NothingSaidIsLost
<1>1. WorkerInv => NothingSaidIsLost
  BY DEF WorkerInv, NothingSaidIsLost
<1> QED
  BY <1>1, WorkerInvariance, PTL

\* TerminalHost.stopAll and the bounded runner: nothing runs on that was said to be over.
THEOREM StoppedMeansGoneAlways == Spec => []StoppedMeansGone
<1>1. WorkerInv => StoppedMeansGone
  BY DEF WorkerInv, StoppedMeansGone, TerminalInv, Running, Terminal!StoppedMeansGone, ToolsInv
<1> QED
  BY <1>1, WorkerInvariance, PTL

\* FsHost.writeTextFile: a new file takes the place of no other, and leaves no temporary one behind but where that fails.
THEOREM NewFileNeverClobbersAlways == Spec => []NewFileNeverClobbers
<1>1. WorkerInv => NewFileNeverClobbers
  BY DEF WorkerInv, NewFileNeverClobbers, FilesInv, Files!NewFileNeverClobbers
<1> QED
  BY <1>1, WorkerInvariance, PTL
=============================================================================
