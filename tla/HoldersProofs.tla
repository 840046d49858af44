--------------------------- MODULE HoldersProofs ---------------------------
(***************************************************************************)
(* TLAPS proofs about the services that hold something: the invariants of  *)
(* each in the behaviour where it is the one, for any number of stores,    *)
(* lists, files, workspaces, agents and directories.  ServicesProofs has   *)
(* the theorems of MCServices that follow.                                 *)
(***************************************************************************)
EXTENDS Holders, FiniteSetTheorems, SequenceTheorems, TLAPS

-----------------------------------------------------------------------------
(* The memory files: the tokens are issued for the generation that the     *)
(* list began, while it is the newest, and what is destroyed is what a     *)
(* list showed.                                                            *)

LEMMA FilesTokens ==
  /\ Files!Init => Files!OneGeneration
  /\ Files!OneGeneration /\ (Files!Next \/ UNCHANGED <<f, g>>) => Files!OneGeneration'
<1>1. Files!Init => Files!OneGeneration
  BY DEF Files!Init, Files!OneGeneration
<1> SUFFICES ASSUME Files!OneGeneration, Files!Next \/ UNCHANGED <<f, g>> PROVE Files!OneGeneration'
  BY <1>1
<1>2. ASSUME g' \subseteq g, UNCHANGED f PROVE Files!OneGeneration'
  BY <1>2 DEF Files!OneGeneration
<1>3. ASSUME Files!BeginGeneration PROVE Files!OneGeneration'
  BY <1>3 DEF Files!BeginGeneration, Files!OneGeneration
<1>4. ASSUME NEW x \in Lists, Files!ListEnds(x) PROVE Files!OneGeneration'
  BY <1>4 DEF Files!ListEnds, Files!IssueTokens, Files!OneGeneration
<1>5. CASE Files!Forgotten \/ Files!Outside
  BY <1>2, <1>3, <1>5 DEF Files!Forgotten, Files!Outside
<1>6. ASSUME NEW x \in Lists, Files!ListBegins(x) \/ Files!Discovers(x) \/ Files!Fails(x) PROVE Files!OneGeneration'
  BY <1>2, <1>3, <1>6 DEF Files!ListBegins, Files!Discovers, Files!Fails
<1>7. ASSUME NEW x \in Deletes,
             Files!Resolves(x) \/ Files!Reads(x) \/ Files!Opens(x) \/ Files!Moves(x) \/ Files!Verifies(x) \/ Files!Fails(x)
      PROVE  Files!OneGeneration'
  BY <1>2, <1>3, <1>7 DEF Files!Resolves, Files!Reads, Files!Opens, Files!Moves, Files!Verifies, Files!Fails
<1> QED
  BY <1>2, <1>4, <1>5, <1>6, <1>7 DEF Files!Next


\* Who names a file: a list what it has found, a delete its entry, which was issued, and what it has moved away.
Found(call) == call.step = "listing" => /\ DOMAIN call = {"step", "generation", "found", "left"} /\ call.left \subseteq Files!Paths
                                        /\ \A t \in call.found : t.path \in Files!Paths
Named(call, tokens) ==
  /\ call.step \in {"resolved", "opened"} => DOMAIN call = {"step", "entry"}
  /\ call.step \in {"resolved", "opened", "moved"} => call.entry \in tokens /\ call.entry.path # Global
  /\ call.step = "moved" => DOMAIN call = {"step", "entry", "moved"}
CallsShaped ==
  /\ DOMAIN i = Lists \union Deletes
  /\ \A x \in DOMAIN i : "step" \in DOMAIN i[x] /\ Found(i[x]) /\ Named(i[x], h)

\* Every version that there was is somewhere.
Somewhere(v) == v \in e \/ v \in d \/ v \in c \/ \E q \in Files!Paths : a[q] = v
FilesInv ==
  /\ b \in Nat /\ DOMAIN a = Files!Paths /\ CallsShaped
  /\ \A t \in h : t.path \in Files!Paths
  /\ \A v \in d : \E t \in h : t.version = v /\ t.path \in Sessions
  /\ \A v \in 1 .. b : Somewhere(v)

LEMMA FilesSafe == FilesInv => Files!OnlyTheListedIsDestroyed
BY DEF FilesInv, Somewhere, Files!OnlyTheListedIsDestroyed

LEMMA FilesInit == Files!Init => FilesInv
<1> SUFFICES ASSUME Files!Init PROVE FilesInv
  OBVIOUS
<1>1. IsFiniteSet(Files!Paths)
  BY SessionsAssumption, FS_Union, FS_Singleton DEF Files!Paths
<1>2. b \in Nat
  BY <1>1, FS_CardinalityType DEF Files!Init, Files!Cardinality, Cardinality
<1>3. /\ DOMAIN a = Files!Paths /\ \A v \in 1 .. b : \E q \in Files!Paths : a[q] = v
      /\ c = {} /\ d = {} /\ e = {} /\ h = {} /\ i = [x \in Lists \union Deletes |-> Files!Idle]
  BY DEF Files!Init
<1>4. CallsShaped
  BY <1>3 DEF CallsShaped, Found, Named, Files!Idle
<1> QED
  BY <1>2, <1>3, <1>4 DEF FilesInv, Somewhere

\* A call goes on, and issues or not; nothing on the disk changes.
LEMMA CallGoes ==
  ASSUME FilesInv, NEW x \in DOMAIN i, NEW call, i' = [i EXCEPT ![x] = call], UNCHANGED <<a, b, c, d, e>>, h \subseteq h',
         \A t \in h' : t.path \in Files!Paths, "step" \in DOMAIN call, Found(call), Named(call, h')
  PROVE  FilesInv'
<1>1. \A y \in DOMAIN i : i'[y] = IF y = x THEN call ELSE i[y]
  OBVIOUS
<1>2. CallsShaped'
  BY <1>1 DEF FilesInv, CallsShaped, Found, Named
<1> QED
  BY <1>2 DEF FilesInv, Somewhere

LEMMA FilesStep == FilesInv /\ (Files!Next \/ UNCHANGED <<a, b, c, d, e, h, i>>) => FilesInv'
<1> SUFFICES ASSUME FilesInv, Files!Next \/ UNCHANGED <<a, b, c, d, e, h, i>> PROVE FilesInv'
  OBVIOUS
<1>0. \A x \in Lists \union Deletes : x \in DOMAIN i /\ "step" \in DOMAIN i[x] /\ Found(i[x]) /\ Named(i[x], h)
  BY DEF FilesInv, CallsShaped
<1>1. CASE UNCHANGED <<a, b, c, d, e, h, i>>
  BY <1>1 DEF FilesInv, CallsShaped, Named, Somewhere
<1>2. CASE Files!Forgotten
  BY <1>1, <1>2 DEF Files!Forgotten, Files!diskVars
<1>3. CASE Files!Outside
  <2>1. UNCHANGED <<c, d, h, i>>
    BY <1>3 DEF Files!Outside
  <2>2. PICK q \in Files!Paths :
          /\ e' = e \union ({a[q]} \ {0})
          /\ \/ a' = [a EXCEPT ![q] = b + 1] /\ b' = b + 1
             \/ a[q] # 0 /\ a' = [a EXCEPT ![q] = 0] /\ UNCHANGED b
    BY <1>3 DEF Files!Outside
  <2>3. b' \in Nat /\ DOMAIN a' = Files!Paths
    BY <2>2 DEF FilesInv
  <2>4. ASSUME NEW v \in 1 .. b' PROVE Somewhere(v)'
    <3>1. CASE v \in 1 .. b
      <4>1. Somewhere(v)
        BY <3>1 DEF FilesInv
      <4>2. CASE a[q] = v
        BY <2>2, <3>1, <4>2 DEF Somewhere
      <4>3. CASE a[q] # v
        <5>1. \A r \in Files!Paths : a[r] = v => a'[r] = v
          BY <2>2, <4>3 DEF FilesInv
        <5> QED
          BY <2>1, <2>2, <4>1, <5>1 DEF Somewhere
      <4> QED
        BY <4>2, <4>3
    <3>2. CASE v \notin 1 .. b
      <4>1. v = b + 1 /\ a' = [a EXCEPT ![q] = b + 1]
        BY <2>2, <2>4, <3>2 DEF FilesInv
      <4>2. a'[q] = v
        BY <4>1 DEF FilesInv
      <4> QED
        BY <4>2 DEF Somewhere
    <3> QED
      BY <3>1, <3>2
  <2>5. CallsShaped'
    BY <2>1 DEF FilesInv, CallsShaped, Named
  <2> QED
    BY <2>1, <2>3, <2>4, <2>5 DEF FilesInv
<1>4. ASSUME NEW x \in Lists, Files!ListBegins(x) PROVE FilesInv'
  <2> DEFINE call == [step |-> "listing", generation |-> f + 1, found |-> {}, left |-> Files!Paths]
  <2>1. i' = [i EXCEPT ![x] = call] /\ UNCHANGED <<a, b, c, d, e, h>>
    BY <1>4 DEF Files!ListBegins, Files!diskVars
  <2>2. "step" \in DOMAIN call /\ Found(call) /\ call.step = "listing"
    BY DEF Found
  <2> HIDE DEF call
  <2>3. Named(call, h')
    BY <2>2 DEF Named
  <2> QED
    BY <1>0, <2>1, <2>2, <2>3, CallGoes DEF FilesInv
<1>5. ASSUME NEW x \in Lists, Files!Discovers(x) PROVE FilesInv'
  <2>1. PICK q \in i[x].left :
          i' = [i EXCEPT ![x].left = @ \ {q},
                         ![x].found = IF a[q] = 0 THEN @ ELSE @ \union {[path |-> q, version |-> a[q]]}]
    BY <1>5 DEF Files!Discovers
  <2> DEFINE call == [i[x] EXCEPT !.left = @ \ {q}, !.found = IF a[q] = 0 THEN @ ELSE @ \union {[path |-> q, version |-> a[q]]}]
  <2>2. i' = [i EXCEPT ![x] = call] /\ UNCHANGED <<a, b, c, d, e, h>> /\ i[x].step = "listing"
    BY <1>0, <1>5, <2>1 DEF Files!Discovers, Files!diskVars
  <2>3. DOMAIN i[x] = {"step", "generation", "found", "left"} /\ i[x].left \subseteq Files!Paths /\ \A t \in i[x].found : t.path \in Files!Paths
    BY <1>0, <2>2 DEF Found
  <2>4. /\ DOMAIN call = DOMAIN i[x] /\ call.step = "listing" /\ call.left \subseteq i[x].left
        /\ call.found \subseteq i[x].found \union {[path |-> q, version |-> a[q]]}
    BY <2>2, <2>3
  <2> HIDE DEF call
  <2>5. Found(call) /\ Named(call, h')
    BY <2>1, <2>3, <2>4 DEF Found, Named
  <2> QED
    BY <1>0, <2>2, <2>3, <2>4, <2>5, CallGoes DEF FilesInv
\* A call that only goes to a step at which it names nothing new.
<1>6. ASSUME NEW x \in Lists \union Deletes, NEW step, Files!Goes(x, step), UNCHANGED <<a, b, c, d, e>>, h \subseteq h',
             \A t \in h' : t.path \in Files!Paths, step \in {"ok", "failed"}
      PROVE  FilesInv'
  <2> DEFINE call == [i[x] EXCEPT !.step = step]
  <2>1. i' = [i EXCEPT ![x] = call]
    BY <1>0, <1>6 DEF Files!Goes
  <2>2. "step" \in DOMAIN call /\ call.step \in {"ok", "failed"}
    BY <1>0, <1>6
  <2> HIDE DEF call
  <2>3. Found(call) /\ Named(call, h')
    BY <2>2 DEF Found, Named
  <2> QED
    BY <1>0, <1>6, <2>1, <2>2, <2>3, CallGoes DEF FilesInv
<1>7. ASSUME NEW x \in Lists, Files!ListEnds(x) PROVE FilesInv'
  <2>1. \A t \in i[x].found : t.path \in Files!Paths
    BY <1>0, <1>7 DEF Files!ListEnds, Found
  <2>2. UNCHANGED <<a, b, c, d, e>>
    BY <1>7 DEF Files!ListEnds, Files!diskVars
  <2>3. CASE Files!IssueTokens(x)
    <3>1. h \subseteq h' /\ \A t \in h' : t.path \in Files!Paths
      BY <2>1, <2>3 DEF Files!IssueTokens, FilesInv
    <3> QED
      BY <1>6, <2>2, <2>3, <3>1 DEF Files!IssueTokens
  <2>4. CASE Files!Goes(x, "failed") /\ UNCHANGED h
    BY <1>6, <2>2, <2>4 DEF FilesInv
  <2> QED
    BY <1>7, <2>3, <2>4 DEF Files!ListEnds
<1>8. ASSUME NEW x \in Lists \union Deletes, Files!Fails(x) PROVE FilesInv'
  BY <1>6, <1>8 DEF Files!Fails, Files!diskVars, FilesInv
<1>9. ASSUME NEW x \in Deletes, Files!Resolves(x) PROVE FilesInv'
  <2>1. PICK t \in h : i' = [i EXCEPT ![x] = [step |-> IF t \in g /\ t.path # Global THEN "resolved" ELSE "failed", entry |-> t]]
    BY <1>9 DEF Files!Resolves
  <2> DEFINE call == [step |-> IF t \in g /\ t.path # Global THEN "resolved" ELSE "failed", entry |-> t]
  <2>2. i' = [i EXCEPT ![x] = call] /\ UNCHANGED <<a, b, c, d, e, h>>
    BY <1>9, <2>1 DEF Files!Resolves, Files!diskVars
  <2>3. DOMAIN call = {"step", "entry"} /\ ((call.step = "resolved" /\ t.path # Global) \/ call.step = "failed") /\ call.entry = t
    OBVIOUS
  <2> HIDE DEF call
  <2>4. Found(call) /\ Named(call, h')
    BY <2>2, <2>3 DEF Found, Named
  <2> QED
    BY <1>0, <2>2, <2>3, <2>4, CallGoes DEF FilesInv
<1>10. ASSUME NEW x \in Deletes, Files!Opens(x) PROVE FilesInv'
  <2>1. i[x].step = "resolved" /\ UNCHANGED <<a, b, c, d, e, h>> /\ (Files!Goes(x, "opened") \/ Files!Goes(x, "failed"))
    BY <1>10 DEF Files!Opens, Files!diskVars
  <2>2. CASE Files!Goes(x, "opened")
    <3> DEFINE call == [i[x] EXCEPT !.step = "opened"]
    <3>1. i' = [i EXCEPT ![x] = call]
      BY <1>0, <2>2 DEF Files!Goes
    <3>2. DOMAIN i[x] = {"step", "entry"} /\ i[x].entry \in h /\ i[x].entry.path # Global
      BY <1>0, <2>1 DEF Named
    <3>3. DOMAIN call = {"step", "entry"} /\ call.step = "opened" /\ call.entry = i[x].entry
      BY <3>2
    <3> HIDE DEF call
    <3>4. Found(call) /\ Named(call, h')
      BY <2>1, <3>2, <3>3 DEF Found, Named
    <3> QED
      BY <1>0, <2>1, <3>1, <3>3, <3>4, CallGoes DEF FilesInv
  <2> QED
    BY <1>6, <2>1, <2>2 DEF FilesInv
<1>11. ASSUME NEW x \in Deletes, Files!Reads(x) PROVE FilesInv'
  <2>1. UNCHANGED <<a, b, c, d, e, h>> /\ (Files!Goes(x, "ok") \/ Files!Goes(x, "failed"))
    BY <1>11 DEF Files!Reads, Files!diskVars
  <2> QED
    BY <1>6, <2>1 DEF FilesInv
<1>12. ASSUME NEW x \in Deletes, Files!Moves(x) PROVE FilesInv'
  <2> DEFINE q == i[x].entry.path
  <2>1. i[x].step = "opened" /\ UNCHANGED <<b, d, e, h>>
    BY <1>12 DEF Files!Moves
  <2>2. CASE Files!Goes(x, "failed") /\ UNCHANGED <<a, c>>
    BY <1>6, <2>1, <2>2 DEF FilesInv
  <2>3. CASE /\ a[q] # 0 /\ a' = [a EXCEPT ![q] = 0] /\ c' = c \union {a[q]}
             /\ i' = [i EXCEPT ![x] = [step |-> "moved", entry |-> @.entry, moved |-> a[q]]]
    <3> DEFINE call == [step |-> "moved", entry |-> i[x].entry, moved |-> a[q]]
    <3>1. i' = [i EXCEPT ![x] = call] /\ i[x].entry \in h /\ i[x].entry.path # Global
      BY <1>0, <2>1, <2>3 DEF Named
    <3>2. DOMAIN call = {"step", "entry", "moved"} /\ call.step = "moved" /\ call.entry = i[x].entry
      OBVIOUS
    <3> HIDE DEF call
    <3>3. Found(call) /\ Named(call, h')
      BY <2>1, <3>1, <3>2 DEF Found, Named
    <3>4. \A y \in DOMAIN i : i'[y] = IF y = x THEN call ELSE i[y]
      BY <3>1
    <3>5. CallsShaped'
      BY <2>1, <3>1, <3>2, <3>3, <3>4 DEF FilesInv, CallsShaped, Named
    <3>6. ASSUME NEW v \in 1 .. b PROVE Somewhere(v)'
      <4>1. Somewhere(v)
        BY DEF FilesInv
      <4>2. CASE a[q] = v
        BY <2>3, <4>2 DEF Somewhere
      <4>3. CASE a[q] # v
        <5>1. \A r \in Files!Paths : a[r] = v => a'[r] = v
          BY <2>3, <4>3 DEF FilesInv
        <5> QED
          BY <2>1, <2>3, <4>1, <5>1 DEF Somewhere
      <4> QED
        BY <4>2, <4>3
    <3>7. DOMAIN a' = Files!Paths
      BY <2>3 DEF FilesInv
    <3> QED
      BY <2>1, <3>5, <3>6, <3>7 DEF FilesInv
  <2> QED
    BY <1>12, <2>2, <2>3 DEF Files!Moves
<1>13. ASSUME NEW x \in Deletes, Files!Verifies(x) PROVE FilesInv'
  <2>1. i[x].step = "moved" /\ UNCHANGED <<a, b, e, h>> /\ (Files!Goes(x, "ok") \/ Files!Goes(x, "failed"))
    BY <1>13 DEF Files!Verifies
  <2>2. CASE UNCHANGED <<c, d>>
    BY <1>6, <2>1, <2>2 DEF FilesInv
  <2>3. CASE i[x].moved = i[x].entry.version /\ d' = d \union {i[x].moved} /\ c' = c \ {i[x].moved}
    <3>1. i[x].entry \in h /\ i[x].entry.path # Global
      BY <1>0, <2>1 DEF Named
    <3>2. i[x].entry.path \in Sessions
      BY <3>1 DEF FilesInv, Files!Paths
    <3>3. \A v \in d' : \E t \in h : t.version = v /\ t.path \in Sessions
      BY <2>3, <3>1, <3>2 DEF FilesInv
    <3>4. \A v \in 1 .. b : Somewhere(v)'
      BY <2>1, <2>3 DEF FilesInv, Somewhere
    <3>5. CallsShaped'
      <4>1. PICK step \in {"ok", "failed"} : i' = [i EXCEPT ![x].step = step]
        BY <2>1 DEF Files!Goes
      <4> DEFINE call == [i[x] EXCEPT !.step = step]
      <4>2. /\ DOMAIN i' = DOMAIN i /\ \A y \in DOMAIN i : i'[y] = IF y = x THEN call ELSE i[y]
            /\ "step" \in DOMAIN call /\ call.step \in {"ok", "failed"}
        BY <1>0, <4>1
      <4> HIDE DEF call
      <4>3. Found(call) /\ Named(call, h')
        BY <4>2 DEF Found, Named
      <4> QED
        BY <2>1, <4>2, <4>3 DEF FilesInv, CallsShaped, Named
    <3> QED
      BY <2>1, <3>3, <3>4, <3>5 DEF FilesInv
  <2> QED
    BY <1>13, <2>2, <2>3 DEF Files!Verifies
<1> QED
  BY <1>1, <1>2, <1>3, <1>4, <1>5, <1>7, <1>8, <1>9, <1>10, <1>11, <1>12, <1>13 DEF Files!Next

-----------------------------------------------------------------------------
(* The prompts that the renderer queues: they go out in the order in which *)
(* they were typed, one at a time for each session.                        *)

Moments == {"unsaid", "queued", "asked", "checking", "begun", "refused", "removed"}
Prompted == [session : Sessions \union {"none"}, queued : BOOLEAN, at : Moments]
Wired == [kind : {"reply", "snapshot"}, message : Messages \union {0}, ok : BOOLEAN, status : [Sessions -> Prompts!Statuses]]

QueuedFor(msg, s) == msg.queued /\ msg.session = s
QueuesTyped(q, busy, sent, ms) ==
  q \in [Sessions -> Seq(Messages)] /\ busy \subseteq Sessions /\ sent \in Seq(Messages) /\ ms \in [Messages -> Prompted]

\* A queue has the messages that wait in it, in their order, and no other waits.
Sorted(q) == \A s \in Sessions : \A x, y \in DOMAIN q[s] : x < y => q[s][x] < q[s][y]
WaitingThere(q, ms) == \A s \in Sessions : \A x \in DOMAIN q[s] : ms[q[s][x]].at = "queued" /\ QueuedFor(ms[q[s][x]], s)
AllWaitThere(q, ms) == \A r \in Messages : ms[r].at = "queued" => \E s \in Sessions : \E x \in DOMAIN q[s] : q[s][x] = r

\* What is on its way to main is there once.
SentOnce(sent, ms) == \A x, y \in DOMAIN sent : ms[sent[x]].at = "asked" /\ (sent[x] = sent[y] => x = y)

\* A session whose queued message main has not answered yet is dispatching, and it is one message.
Replied(r, w) == \E x \in DOMAIN w : w[x].kind = "reply" /\ w[x].message = r
Awaited(r, ms, w) == ms[r].at \in {"asked", "checking"} \/ Replied(r, w)
OneAtATime(busy, ms, w) ==
  \A s \in Sessions : \A r \in Messages : QueuedFor(ms[r], s) /\ Awaited(r, ms, w) =>
    /\ s \in busy
    /\ \A t \in Messages : QueuedFor(ms[t], s) /\ Awaited(t, ms, w) => t = r

\* The messages are typed in their order, and those of a session are decided about in their order.
SaidInOrder(ms) ==
  /\ \A r \in Messages : ms[r].at = "unsaid" => ms[r] = Prompts!Unsaid
  /\ \A r, t \in Messages : r < t /\ ms[r].at = "unsaid" => ms[t].at = "unsaid"
Decided == {"begun", "refused", "removed"}
InOrder(ms) ==
  \A s \in Sessions : \A r, t \in Messages :
    QueuedFor(ms[r], s) /\ QueuedFor(ms[t], s) /\ r < t /\ ms[t].at \in {"asked", "checking", "begun", "refused"} => ms[r].at \in Decided

\* What the rest of the renderer and main have of the messages.
LocksHeld(lk, ms) ==
  /\ lk \in [Sessions -> Messages \union {0}]
  /\ \A s \in Sessions : lk[s] # 0 => ms[lk[s]].at = "checking" /\ ms[lk[s]].session = s
RepliesOnce(w, ms) ==
  /\ w \in Seq(Wired)
  /\ \A x \in DOMAIN w : w[x].kind = "reply" => w[x].message \in Messages /\ ms[w[x].message].at \in {"begun", "refused"}
  /\ \A x, y \in DOMAIN w : w[x].kind = "reply" /\ w[y].kind = "reply" /\ w[x].message = w[y].message => x = y

QueuesInv(q, busy, sent, ms, lk, w) ==
  /\ QueuesTyped(q, busy, sent, ms) /\ Sorted(q) /\ WaitingThere(q, ms) /\ AllWaitThere(q, ms) /\ SentOnce(sent, ms)
  /\ OneAtATime(busy, ms, w) /\ SaidInOrder(ms) /\ InOrder(ms) /\ LocksHeld(lk, ms) /\ RepliesOnce(w, ms)

ShownTyped ==
  /\ a \in [Sessions -> Prompts!Statuses] /\ g \in [Sessions -> Prompts!Statuses]
  /\ h \in Sessions \union {"none"} /\ (i => h \in Sessions)
PromptsInv == QueuesInv(k, l, d, m, c, e) /\ ShownTyped

LEMMA PromptsSafe == PromptsInv => Prompts!QueueInOrder
BY DEF PromptsInv, QueuesInv, InOrder, QueuedFor, Decided, Prompts!QueueInOrder, Prompts!Queued

LEMMA PromptsInit == Prompts!Init => PromptsInv
<1> SUFFICES ASSUME Prompts!Init PROVE PromptsInv
  OBVIOUS
<1>1. ShownTyped
  BY DEF Prompts!Init, Prompts!None, Prompts!Statuses, ShownTyped
<1>2. \A r \in Messages : m[r] = Prompts!Unsaid /\ m[r].at = "unsaid" /\ ~m[r].queued
  BY DEF Prompts!Init, Prompts!Unsaid
<1>3. m \in [Messages -> Prompted]
  BY DEF Prompts!Init, Prompts!Unsaid, Prompts!None, Prompted, Moments
<1>4. \A s \in Sessions : k[s] = <<>> /\ c[s] = 0
  BY DEF Prompts!Init, Prompts!Nothing
<1>5. QueuesTyped(k, l, d, m) /\ LocksHeld(c, m)
  BY <1>3, <1>4 DEF Prompts!Init, Prompts!Nothing, QueuesTyped, LocksHeld
<1>6. Sorted(k) /\ WaitingThere(k, m) /\ SentOnce(d, m) /\ RepliesOnce(e, m)
  BY <1>4 DEF Prompts!Init, Sorted, WaitingThere, SentOnce, RepliesOnce
<1>7. AllWaitThere(k, m) /\ SaidInOrder(m) /\ InOrder(m) /\ OneAtATime(l, m, e)
  BY <1>2 DEF AllWaitThere, SaidInOrder, InOrder, OneAtATime, QueuedFor
<1> QED
  BY <1>1, <1>5, <1>6, <1>7 DEF PromptsInv, QueuesInv

(* Sequences: what the operators that the queue uses do.                   *)

LEMMA TailShape ==
  ASSUME NEW S, NEW s \in Seq(S), s # <<>>
  PROVE  /\ Tail(s) \in Seq(S) /\ 1 \in DOMAIN s /\ Head(s) = s[1] /\ Head(s) \in S
         /\ \A x \in DOMAIN Tail(s) : x \in Nat /\ x + 1 \in DOMAIN s /\ x + 1 # 1 /\ Tail(s)[x] = s[x + 1]
         /\ \A y \in DOMAIN s : y \in Nat /\ (y = 1 \/ (y - 1 \in DOMAIN Tail(s) /\ Tail(s)[y - 1] = s[y]))
OBVIOUS

LEMMA AppendOf ==
  ASSUME NEW S, NEW s \in Seq(S), NEW r \in S
  PROVE  /\ Append(s, r) \in Seq(S) /\ Len(s) + 1 \in DOMAIN Append(s, r) /\ Append(s, r)[Len(s) + 1] = r
         /\ \A x \in DOMAIN s : x \in Nat /\ x < Len(s) + 1 /\ x \in DOMAIN Append(s, r) /\ Append(s, r)[x] = s[x]
         /\ \A x \in DOMAIN Append(s, r) : x \in DOMAIN s \/ x = Len(s) + 1
OBVIOUS

LEMMA ConcatOf ==
  ASSUME NEW S, NEW s \in Seq(S), NEW t \in Seq(S)
  PROVE  /\ s \o t \in Seq(S)
         /\ \A x \in DOMAIN (s \o t) :
              \/ x \in DOMAIN s /\ (s \o t)[x] = s[x]
              \/ \E y \in DOMAIN t : x = Len(s) + y /\ (s \o t)[x] = t[y]
<1>1. s \o t \in Seq(S) /\ Len(s) \in Nat /\ Len(t) \in Nat /\ DOMAIN (s \o t) = 1 .. Len(s) + Len(t)
  BY ConcatProperties, LenProperties
<1> SUFFICES ASSUME NEW x \in DOMAIN (s \o t)
             PROVE  \/ x \in DOMAIN s /\ (s \o t)[x] = s[x]
                    \/ \E y \in DOMAIN t : x = Len(s) + y /\ (s \o t)[x] = t[y]
  BY <1>1
<1>2. (s \o t)[x] = IF x <= Len(s) THEN s[x] ELSE t[x - Len(s)]
  BY <1>1, ConcatProperties
<1>3. CASE x <= Len(s)
  BY <1>1, <1>2, <1>3
<1>4. CASE ~(x <= Len(s))
  <2>1. x - Len(s) \in DOMAIN t /\ x = Len(s) + (x - Len(s))
    BY <1>1, <1>4
  <2> QED
    BY <1>2, <1>4, <2>1
<1> QED
  BY <1>3, <1>4

LEMMA SubSeqShape ==
  ASSUME NEW S, NEW s \in Seq(S), NEW x \in Nat \ {0}, NEW y \in Nat, y <= Len(s)
  PROVE  /\ SubSeq(s, x, y) \in Seq(S)
         /\ \A z \in DOMAIN SubSeq(s, x, y) : z \in Nat /\ x + z - 1 \in DOMAIN s /\ x + z - 1 <= y /\ x + z - 1 >= x /\ SubSeq(s, x, y)[z] = s[x + z - 1]
         /\ \A z \in x .. y : z - x + 1 \in DOMAIN SubSeq(s, x, y) /\ SubSeq(s, x, y)[z - x + 1] = s[z]
OBVIOUS

\* A finite set as a sequence has each of its members once.
LEMMA SetToSeqShape ==
  ASSUME NEW S, IsFiniteSet(S)
  PROVE  /\ Prompts!SetToSeq(S) \in Seq(S)
         /\ \A x, y \in DOMAIN Prompts!SetToSeq(S) : Prompts!SetToSeq(S)[x] = Prompts!SetToSeq(S)[y] => x = y
<1>1. Cardinality(S) \in Nat /\ ExistsBijection(1 .. Cardinality(S), S)
  BY FS_CardinalityType
<1>2. PICK z \in Bijection(1 .. Cardinality(S), S) : TRUE
  BY <1>1 DEF ExistsBijection
<1>3. z \in [1 .. Cardinality(S) -> S] /\ Prompts!IsInjective(z)
  BY <1>2 DEF Bijection, Injection, IsInjective, Prompts!IsInjective
<1>4. Prompts!Cardinality(S) = Cardinality(S)
  BY DEF Prompts!Cardinality, Cardinality
<1>5. Prompts!SetToSeq(S) \in [1 .. Cardinality(S) -> S] /\ Prompts!IsInjective(Prompts!SetToSeq(S))
  BY <1>3, <1>4 DEF Prompts!SetToSeq
<1> QED
  BY <1>1, <1>5 DEF Prompts!IsInjective

LEMMA RemoveAtShape ==
  ASSUME NEW S, NEW s \in Seq(S), NEW z \in DOMAIN s
  PROVE  /\ Prompts!RemoveAt(s, z) \in Seq(S)
         /\ \A x \in DOMAIN Prompts!RemoveAt(s, z) :
              \E y \in DOMAIN s : y = (IF x < z THEN x ELSE x + 1) /\ y # z /\ Prompts!RemoveAt(s, z)[x] = s[y]
         /\ \A y \in DOMAIN s : y # z => \E x \in DOMAIN Prompts!RemoveAt(s, z) : Prompts!RemoveAt(s, z)[x] = s[y]
<1> DEFINE front == SubSeq(s, 1, z - 1)
           back == SubSeq(s, z + 1, Len(s))
<1>1. Len(s) \in Nat /\ DOMAIN s = 1 .. Len(s) /\ z \in 1 .. Len(s)
  BY LenProperties
<1>2. /\ front \in Seq(S)
      /\ \A x \in DOMAIN front : x \in Nat /\ x \in DOMAIN s /\ x <= z - 1 /\ front[x] = s[x]
      /\ \A x \in 1 .. z - 1 : x \in DOMAIN front /\ front[x] = s[x]
  <2>1. 1 \in Nat \ {0} /\ z - 1 \in Nat /\ z - 1 <= Len(s)
    BY <1>1
  <2>2. /\ SubSeq(s, 1, z - 1) \in Seq(S)
        /\ \A x \in DOMAIN SubSeq(s, 1, z - 1) : x \in Nat /\ 1 + x - 1 \in DOMAIN s /\ 1 + x - 1 <= z - 1 /\ SubSeq(s, 1, z - 1)[x] = s[1 + x - 1]
        /\ \A x \in 1 .. z - 1 : x - 1 + 1 \in DOMAIN SubSeq(s, 1, z - 1) /\ SubSeq(s, 1, z - 1)[x - 1 + 1] = s[x]
    BY <2>1, SubSeqShape
  <2>3. \A x \in Nat : 1 + x - 1 = x /\ x - 1 + 1 = x
    OBVIOUS
  <2>4. \A x \in 1 .. z - 1 : x \in Nat
    BY <1>1
  <2> HIDE DEF front
  <2> QED
    BY <2>2, <2>3, <2>4 DEF front
<1>3. /\ back \in Seq(S)
      /\ \A x \in DOMAIN back : x \in Nat /\ z + x \in DOMAIN s /\ z + x > z /\ back[x] = s[z + x]
      /\ \A x \in z + 1 .. Len(s) : x - z \in DOMAIN back /\ back[x - z] = s[x]
  <2>1. PICK w \in Nat \ {0} : w = z + 1
    BY <1>1
  <2>2. PICK v \in Nat : v = Len(s)
    BY <1>1
  <2>3. /\ SubSeq(s, w, v) \in Seq(S)
        /\ \A x \in DOMAIN SubSeq(s, w, v) :
             x \in Nat /\ w + x - 1 \in DOMAIN s /\ w + x - 1 <= v /\ w + x - 1 >= w /\ SubSeq(s, w, v)[x] = s[w + x - 1]
        /\ \A x \in w .. v : x - w + 1 \in DOMAIN SubSeq(s, w, v) /\ SubSeq(s, w, v)[x - w + 1] = s[x]
    <3>1. v <= Len(s)
      BY <1>1, <2>2
    <3> QED
      BY <3>1
  <2>4. back = SubSeq(s, w, v) /\ w .. v = z + 1 .. Len(s)
    BY <2>1, <2>2
  <2>5. \A x \in Nat : w + x - 1 = z + x /\ x - w + 1 = x - z /\ (z + x >= w => z + x > z)
    BY <1>1, <2>1
  <2>6. \A x \in w .. v : x \in Nat
    OBVIOUS
  <2> HIDE DEF back
  <2> QED
    BY <2>3, <2>4, <2>5, <2>6
<1>4. Prompts!RemoveAt(s, z) = front \o back
  BY DEF Prompts!RemoveAt
<1>5. Len(front) = z - 1
  BY <1>1
<1> HIDE DEF front, back
<1>6. ASSUME NEW x \in DOMAIN (front \o back)
      PROVE  \E y \in DOMAIN s : y = (IF x < z THEN x ELSE x + 1) /\ y # z /\ (front \o back)[x] = s[y]
  <2>1. CASE x \in DOMAIN front /\ (front \o back)[x] = front[x]
    BY <1>1, <1>2, <2>1
  <2>2. CASE \E y \in DOMAIN back : x = Len(front) + y /\ (front \o back)[x] = back[y]
    <3>1. PICK y \in DOMAIN back : x = Len(front) + y /\ (front \o back)[x] = back[y]
      BY <2>2
    <3>2. y \in Nat /\ z + y \in DOMAIN s /\ z + y > z /\ (front \o back)[x] = s[z + y] /\ x + 1 = z + y
      BY <1>1, <1>3, <1>5, <3>1
    <3> QED
      BY <1>1, <3>2
  <2> QED
    BY <1>2, <1>3, <2>1, <2>2, ConcatOf
<1>7. ASSUME NEW y \in DOMAIN s, y # z PROVE \E x \in DOMAIN (front \o back) : (front \o back)[x] = s[y]
  <2>1. DOMAIN (front \o back) = 1 .. Len(front) + Len(back) /\ Len(back) \in Nat /\ DOMAIN back = 1 .. Len(back) /\ DOMAIN front = 1 .. z - 1
    <3>1. front \o back \in Seq(S) /\ Len(front \o back) = Len(front) + Len(back)
      BY <1>2, <1>3, ConcatProperties
    <3>2. DOMAIN (front \o back) = 1 .. Len(front \o back)
      BY <3>1, LenProperties
    <3>3. Len(back) \in Nat /\ DOMAIN back = 1 .. Len(back)
      BY <1>3, LenProperties
    <3>4. DOMAIN front = 1 .. Len(front)
      BY <1>2, LenProperties
    <3> QED
      BY <1>5, <3>1, <3>2, <3>3, <3>4
  <2>2. CASE y < z
    <3>1. y \in 1 .. z - 1
      BY <1>1, <2>2
    <3>2. y \in DOMAIN (front \o back) /\ y <= Len(front)
      BY <1>1, <1>5, <2>1, <3>1
    <3>3. (front \o back)[y] = front[y]
      BY <1>2, <1>3, <1>5, <2>1, <3>1, <3>2, ConcatProperties
    <3> QED
      BY <1>2, <3>1, <3>2, <3>3
  <2>3. CASE y > z
    <3>1. y - z \in DOMAIN back /\ back[y - z] = s[y]
      BY <1>1, <1>3, <2>3
    <3>2. y - 1 \in 1 .. Len(front) + Len(back) /\ ~(y - 1 <= Len(front)) /\ y - 1 - Len(front) = y - z
      BY <1>1, <1>5, <2>1, <2>3, <3>1
    <3>3. (front \o back)[y - 1] = back[y - z]
      BY <1>2, <1>3, <3>2, ConcatProperties
    <3> QED
      BY <2>1, <3>1, <3>2, <3>3
  <2>4. y \in Int /\ z \in Int
    BY <1>1
  <2> QED
    BY <1>7, <2>2, <2>3, <2>4
<1>8. front \o back \in Seq(S)
  BY <1>2, <1>3, ConcatOf
<1> QED
  BY <1>4, <1>6, <1>7, <1>8

(* The messages: what changes of one when it moves on.                     *)

Moves(ms, ns, P, at) ==
  /\ ns \in [Messages -> Prompted]
  /\ \A r \in Messages : ns[r].at = (IF r \in P THEN at ELSE ms[r].at) /\ ns[r].session = ms[r].session
  /\ \A r \in Messages : r \notin P => ns[r] = ms[r]
  /\ \A s, r : r \in Messages => (QueuedFor(ns[r], s) <=> QueuedFor(ms[r], s))

LEMMA MovesOn ==
  ASSUME NEW msg \in Prompted, NEW at \in Moments
  PROVE  LET next == [msg EXCEPT !.at = at] IN
           /\ next \in Prompted /\ next.at = at /\ next.session = msg.session /\ next.queued = msg.queued
BY DEF Prompted

LEMMA ManyMove ==
  ASSUME NEW ms \in [Messages -> Prompted], NEW P, NEW at \in Moments
  PROVE  Moves(ms, [r \in Messages |-> IF r \in P THEN [ms[r] EXCEPT !.at = at] ELSE ms[r]], P, at)
<1> DEFINE ns == [r \in Messages |-> IF r \in P THEN [ms[r] EXCEPT !.at = at] ELSE ms[r]]
<1>1. ASSUME NEW r \in Messages
      PROVE  /\ ns[r] \in Prompted /\ ns[r].at = (IF r \in P THEN at ELSE ms[r].at) /\ ns[r].session = ms[r].session
             /\ ns[r].queued = ms[r].queued /\ (r \notin P => ns[r] = ms[r])
  <2>1. CASE r \in P
    <3>1. ns[r] = [ms[r] EXCEPT !.at = at] /\ ms[r] \in Prompted
      BY <2>1
    <3>2. [ms[r] EXCEPT !.at = at] \in Prompted /\ [ms[r] EXCEPT !.at = at].at = at
          /\ [ms[r] EXCEPT !.at = at].session = ms[r].session /\ [ms[r] EXCEPT !.at = at].queued = ms[r].queued
      BY <3>1, MovesOn
    <3> HIDE DEF ns
    <3> QED
      BY <2>1, <3>1, <3>2
  <2>2. CASE r \notin P
    BY <2>2
  <2> QED
    BY <2>1, <2>2
<1>2. ns \in [Messages -> Prompted]
  BY <1>1
<1>3. \A r \in Messages : ns[r].queued = ms[r].queued /\ ns[r].session = ms[r].session
  BY <1>1
<1> HIDE DEF ns
<1>4. \A s, r : r \in Messages => (QueuedFor(ns[r], s) <=> QueuedFor(ms[r], s))
  BY <1>3, Zenon DEF QueuedFor
<1> QED
  BY <1>1, <1>2, <1>4 DEF Moves, ns

LEMMA OneMoves ==
  ASSUME NEW ms \in [Messages -> Prompted], NEW r \in Messages, NEW at \in Moments
  PROVE  Moves(ms, [ms EXCEPT ![r].at = at], {r}, at)
<1>1. [ms EXCEPT ![r].at = at] = [t \in Messages |-> IF t \in {r} THEN [ms[t] EXCEPT !.at = at] ELSE ms[t]]
  OBVIOUS
<1> QED
  BY <1>1, ManyMove

LEMMA QueuedForOne == \A msg, s, t : QueuedFor(msg, s) /\ QueuedFor(msg, t) => s = t
BY DEF QueuedFor

LEMMA UnsaidQueuedFor ==
  ASSUME NEW ms, SaidInOrder(ms), NEW r \in Messages, NEW s, QueuedFor(ms[r], s)
  PROVE  ms[r].at # "unsaid"
BY DEF SaidInOrder, QueuedFor, Prompts!Unsaid

LEMMA MomentOf ==
  ASSUME NEW ms \in [Messages -> Prompted], NEW r \in Messages
  PROVE  ms[r].at \in Moments
BY DEF Prompted

\* The effect of the renderer keeps the queues in order: the head of each idle session goes out.
LEMMA DispatchKeeps ==
  ASSUME NEW q, NEW busy, NEW sent, NEW ms, NEW lk, NEW w, QueuesInv(q, busy, sent, ms, lk, w),
         NEW ready, NEW heads, NEW q2, NEW sent2, NEW ns,
         ready \subseteq Sessions \ busy, \A s \in ready : q[s] # <<>>, heads = {Head(q[s]) : s \in ready},
         q2 = [s \in Sessions |-> IF s \in ready THEN Tail(q[s]) ELSE q[s]],
         sent2 = sent \o Prompts!SetToSeq(heads), Moves(ms, ns, heads, "asked")
  PROVE  QueuesInv(q2, busy \union ready, sent2, ns, lk, w)
<1>1. /\ QueuesTyped(q, busy, sent, ms) /\ Sorted(q) /\ WaitingThere(q, ms) /\ AllWaitThere(q, ms) /\ SentOnce(sent, ms)
      /\ OneAtATime(busy, ms, w) /\ SaidInOrder(ms) /\ InOrder(ms) /\ LocksHeld(lk, ms) /\ RepliesOnce(w, ms)
  BY DEF QueuesInv
<1>2. q \in [Sessions -> Seq(Messages)] /\ busy \subseteq Sessions /\ sent \in Seq(Messages) /\ ms \in [Messages -> Prompted]
  BY <1>1 DEF QueuesTyped
<1>3. ASSUME NEW s \in ready
      PROVE  /\ s \in Sessions /\ s \notin busy /\ 1 \in DOMAIN q[s] /\ q[s][1] \in Messages /\ q[s][1] \in heads /\ q2[s] = Tail(q[s])
             /\ ms[q[s][1]].at = "queued" /\ QueuedFor(ms[q[s][1]], s)
             /\ q2[s] \in Seq(Messages)
             /\ \A x \in DOMAIN q2[s] : x \in Nat /\ x + 1 \in DOMAIN q[s] /\ x + 1 # 1 /\ q2[s][x] = q[s][x + 1]
             /\ \A y \in DOMAIN q[s] : y \in Nat /\ (y = 1 \/ (y - 1 \in DOMAIN q2[s] /\ q2[s][y - 1] = q[s][y]))
             /\ \A y \in DOMAIN q[s] : y # 1 => q[s][1] < q[s][y] /\ q[s][y] \in Messages
  <2>1. s \in Sessions /\ s \notin busy /\ q[s] \in Seq(Messages) /\ q[s] # <<>> /\ q2[s] = Tail(q[s])
    BY <1>2
  <2>2. /\ Tail(q[s]) \in Seq(Messages) /\ 1 \in DOMAIN q[s] /\ Head(q[s]) = q[s][1] /\ Head(q[s]) \in Messages
        /\ \A x \in DOMAIN Tail(q[s]) : x \in Nat /\ x + 1 \in DOMAIN q[s] /\ x + 1 # 1 /\ Tail(q[s])[x] = q[s][x + 1]
        /\ \A y \in DOMAIN q[s] : y \in Nat /\ (y = 1 \/ (y - 1 \in DOMAIN Tail(q[s]) /\ Tail(q[s])[y - 1] = q[s][y]))
    BY <2>1, TailShape
  <2>3. ms[q[s][1]].at = "queued" /\ QueuedFor(ms[q[s][1]], s)
    BY <1>1, <2>1, <2>2 DEF WaitingThere
  <2>4. \A y \in DOMAIN q[s] : y # 1 => 1 < y /\ q[s][y] \in Messages
    BY <2>1
  <2>5. \A y \in DOMAIN q[s] : y # 1 => q[s][1] < q[s][y]
    BY <1>1, <2>1, <2>2, <2>4 DEF Sorted
  <2>6. Head(q[s]) \in heads
    OBVIOUS
  <2> QED
    BY <2>1, <2>2, <2>3, <2>4, <2>5, <2>6
<1>4. ASSUME NEW r \in heads
      PROVE  r \in Messages /\ ms[r].at = "queued" /\ \E s \in ready : r = q[s][1] /\ QueuedFor(ms[r], s)
  <2>1. PICK s \in ready : r = Head(q[s])
    OBVIOUS
  <2>2. q[s] \in Seq(Messages) /\ q[s] # <<>>
    BY <1>2
  <2>3. Head(q[s]) = q[s][1]
    BY <2>2, TailShape
  <2> QED
    BY <1>3, <2>1, <2>3
<1>5. \A s \in Sessions : s \notin ready => q2[s] = q[s]
  OBVIOUS
<1>6. /\ ns \in [Messages -> Prompted]
      /\ \A r \in Messages : ns[r].at = (IF r \in heads THEN "asked" ELSE ms[r].at) /\ ns[r].session = ms[r].session
      /\ \A r \in Messages : r \notin heads => ns[r] = ms[r]
      /\ \A s, r : r \in Messages => (QueuedFor(ns[r], s) <=> QueuedFor(ms[r], s))
  BY DEF Moves
\* Of a session that is ready no other queued message is less than its head, or awaited.
<1>7. ASSUME NEW s \in Sessions, NEW r \in Messages, QueuedFor(ms[r], s), r \in heads
      PROVE  s \in ready /\ r = q[s][1]
  BY <1>4, <1>7, QueuedForOne
<1>8. IsFiniteSet(heads)
  <2>1. IsFiniteSet(ready)
    BY SessionsAssumption, FS_Subset
  <2> DEFINE head == [s \in ready |-> Head(q[s])]
  <2>2. head \in Surjection(ready, heads)
    BY DEF Surjection
  <2> HIDE DEF head
  <2> QED
    BY <2>1, <2>2, FS_Surjection
<1>9. /\ Prompts!SetToSeq(heads) \in Seq(heads)
      /\ \A x, y \in DOMAIN Prompts!SetToSeq(heads) : Prompts!SetToSeq(heads)[x] = Prompts!SetToSeq(heads)[y] => x = y
  BY <1>8, SetToSeqShape
<1> DEFINE news == Prompts!SetToSeq(heads)
<1>23. news \in Seq(heads) /\ \A x, y \in DOMAIN news : news[x] = news[y] => x = y
  BY <1>9
<1>11. sent2 = sent \o news
  OBVIOUS
<1> HIDE DEF news
<1>10. heads \subseteq Messages /\ news \in Seq(Messages) /\ \A x \in DOMAIN news : news[x] \in heads
  <2>1. heads \subseteq Messages
    BY <1>4
  <2>2. \A x \in DOMAIN news : news[x] \in heads
    BY <1>23, ElementOfSeq, LenProperties
  <2>3. news \in Seq(Messages)
    BY <1>23, <2>1
  <2> QED
    BY <2>1, <2>2, <2>3
<1>12. /\ sent2 \in Seq(Messages)
       /\ \A x \in DOMAIN sent2 :
            \/ x \in DOMAIN sent /\ sent2[x] = sent[x]
            \/ \E y \in DOMAIN news : x = Len(sent) + y /\ sent2[x] = news[y]
  <2>1. sent \in Seq(Messages) /\ news \in Seq(Messages)
    BY <1>2, <1>10
  <2>2. /\ sent \o news \in Seq(Messages)
        /\ \A x \in DOMAIN (sent \o news) :
             \/ x \in DOMAIN sent /\ (sent \o news)[x] = sent[x]
             \/ \E y \in DOMAIN news : x = Len(sent) + y /\ (sent \o news)[x] = news[y]
    BY <2>1, ConcatOf
  <2> QED
    BY <1>11, <2>2
<1>13. QueuesTyped(q2, busy \union ready, sent2, ns)
  <2>1. q2 \in [Sessions -> Seq(Messages)]
    BY <1>2, <1>3
  <2> QED
    BY <1>2, <1>6, <1>12, <2>1 DEF QueuesTyped
<1>14. Sorted(q2)
  <2> SUFFICES ASSUME NEW s \in Sessions, NEW x \in DOMAIN q2[s], NEW y \in DOMAIN q2[s], x < y PROVE q2[s][x] < q2[s][y]
    BY DEF Sorted
  <2>1. CASE s \notin ready
    BY <1>1, <1>5, <2>1 DEF Sorted
  <2>2. CASE s \in ready
    <3>1. /\ x \in Nat /\ y \in Nat /\ x + 1 \in DOMAIN q[s] /\ y + 1 \in DOMAIN q[s] /\ q2[s][x] = q[s][x + 1] /\ q2[s][y] = q[s][y + 1]
      BY <1>3, <2>2
    <3>2. x + 1 < y + 1
      BY <3>1
    <3> QED
      BY <1>1, <3>1, <3>2 DEF Sorted
  <2> QED
    BY <2>1, <2>2
<1>15. WaitingThere(q2, ns)
  <2> SUFFICES ASSUME NEW s \in Sessions, NEW x \in DOMAIN q2[s] PROVE ns[q2[s][x]].at = "queued" /\ QueuedFor(ns[q2[s][x]], s)
    BY DEF WaitingThere
  <2>1. PICK y \in DOMAIN q[s] : q2[s][x] = q[s][y] /\ (s \in ready => y # 1)
    BY <1>3, <1>5
  <2>2. q[s][y] \in Messages /\ ms[q[s][y]].at = "queued" /\ QueuedFor(ms[q[s][y]], s)
    BY <1>1, <1>2 DEF WaitingThere
  <2>3. q[s][y] \notin heads
    <3>1. SUFFICES ASSUME q[s][y] \in heads PROVE FALSE
      OBVIOUS
    <3>2. s \in ready /\ q[s][y] = q[s][1]
      BY <1>7, <2>2, <3>1
    <3>3. q[s][1] < q[s][y] /\ q[s][1] \in Nat
      BY <1>3, <2>1, <3>2, SessionsAssumption
    <3> QED
      BY <3>2, <3>3
  <2> QED
    BY <1>6, <2>1, <2>2, <2>3
<1>16. AllWaitThere(q2, ns)
  <2> SUFFICES ASSUME NEW r \in Messages, ns[r].at = "queued" PROVE \E s \in Sessions : \E x \in DOMAIN q2[s] : q2[s][x] = r
    BY DEF AllWaitThere
  <2>1. r \notin heads /\ ms[r].at = "queued"
    BY <1>6
  <2>2. PICK s \in Sessions : \E x \in DOMAIN q[s] : q[s][x] = r
    BY <1>1, <2>1 DEF AllWaitThere
  <2>3. PICK x \in DOMAIN q[s] : q[s][x] = r
    BY <2>2
  <2>4. CASE s \notin ready
    BY <1>5, <2>3, <2>4
  <2>5. CASE s \in ready
    <3>1. x # 1
      BY <1>3, <2>1, <2>3, <2>5
    <3>2. x - 1 \in DOMAIN q2[s] /\ q2[s][x - 1] = r
      BY <1>3, <2>3, <2>5, <3>1
    <3> QED
      BY <3>2
  <2> QED
    BY <2>4, <2>5
<1>17. SentOnce(sent2, ns)
  <2>1. \A x \in DOMAIN sent : sent[x] \in Messages /\ ms[sent[x]].at = "asked" /\ sent[x] \notin heads
    BY <1>1, <1>2, <1>4 DEF SentOnce
  <2>2. \A x \in DOMAIN sent2 : ns[sent2[x]].at = "asked"
    <3> SUFFICES ASSUME NEW x \in DOMAIN sent2 PROVE ns[sent2[x]].at = "asked"
      OBVIOUS
    <3>1. CASE x \in DOMAIN sent /\ sent2[x] = sent[x]
      BY <1>6, <2>1, <3>1
    <3>2. ASSUME NEW y \in DOMAIN news, sent2[x] = news[y] PROVE ns[sent2[x]].at = "asked"
      BY <1>6, <1>10, <3>2
    <3> QED
      BY <1>12, <3>1, <3>2
  <2>3. ASSUME NEW x \in DOMAIN sent2, NEW y \in DOMAIN sent2, sent2[x] = sent2[y] PROVE x = y
    <3>1. CASE x \in DOMAIN sent /\ sent2[x] = sent[x] /\ y \in DOMAIN sent /\ sent2[y] = sent[y]
      BY <1>1, <2>3, <3>1 DEF SentOnce
    <3>2. ASSUME NEW z \in DOMAIN news, x = Len(sent) + z, sent2[x] = news[z] PROVE x = y
      <4>1. sent2[x] \in heads
        BY <1>10, <3>2
      <4>2. PICK u \in DOMAIN news : y = Len(sent) + u /\ sent2[y] = news[u]
        BY <1>12, <2>1, <2>3, <4>1
      <4> QED
        BY <1>23, <2>3, <3>2, <4>2
    <3>3. ASSUME NEW z \in DOMAIN news, y = Len(sent) + z, sent2[y] = news[z] PROVE x = y
      <4>1. sent2[y] \in heads
        BY <1>10, <3>3
      <4>2. PICK u \in DOMAIN news : x = Len(sent) + u /\ sent2[x] = news[u]
        BY <1>12, <2>1, <2>3, <4>1
      <4> QED
        BY <1>23, <2>3, <3>3, <4>2
    <3> QED
      BY <1>12, <3>1, <3>2, <3>3
  <2> QED
    BY <2>2, <2>3 DEF SentOnce
<1>18. \A r \in Messages : r \notin heads => (Awaited(r, ns, w) <=> Awaited(r, ms, w))
  BY <1>6 DEF Awaited
<1>19. OneAtATime(busy \union ready, ns, w)
  <2> SUFFICES ASSUME NEW s \in Sessions, NEW r \in Messages, QueuedFor(ns[r], s), Awaited(r, ns, w)
               PROVE  /\ s \in busy \union ready
                      /\ \A t \in Messages : QueuedFor(ns[t], s) /\ Awaited(t, ns, w) => t = r
    BY DEF OneAtATime
  <2>1. QueuedFor(ms[r], s)
    BY <1>6
  <2>2. ASSUME NEW t \in Messages, QueuedFor(ns[t], s), Awaited(t, ns, w), t \notin heads
        PROVE  s \in busy /\ \A z \in Messages : QueuedFor(ms[z], s) /\ Awaited(z, ms, w) => z = t
    BY <1>1, <1>6, <1>18, <2>2 DEF OneAtATime
  <2>3. ASSUME NEW t \in Messages, QueuedFor(ns[t], s), t \in heads PROVE s \in ready /\ s \notin busy /\ t = q[s][1]
    BY <1>3, <1>6, <1>7, <2>3
  <2>4. CASE r \in heads
    BY <2>2, <2>3, <2>4
  <2>5. CASE r \notin heads
    BY <1>6, <1>18, <2>2, <2>3, <2>5
  <2> QED
    BY <2>4, <2>5
<1>20. SaidInOrder(ns)
  BY <1>1, <1>4, <1>6 DEF SaidInOrder
<1>21. InOrder(ns)
  <2> SUFFICES ASSUME NEW s \in Sessions, NEW r \in Messages, NEW t \in Messages, QueuedFor(ns[r], s), QueuedFor(ns[t], s), r < t,
                      ns[t].at \in {"asked", "checking", "begun", "refused"}
               PROVE  ns[r].at \in Decided
    BY DEF InOrder
  <2>1. QueuedFor(ms[r], s) /\ QueuedFor(ms[t], s)
    BY <1>6
  <2>2. ASSUME ms[r].at \in Decided PROVE ns[r].at \in Decided
    BY <1>4, <1>6, <2>2 DEF Decided
  <2>3. CASE t \notin heads
    BY <1>1, <1>6, <2>1, <2>2, <2>3 DEF InOrder
  <2>4. CASE t \in heads
    <3>1. s \in ready /\ t = q[s][1]
      BY <1>7, <2>1, <2>4
    <3>2. ms[r].at # "queued"
      <4>1. SUFFICES ASSUME ms[r].at = "queued" PROVE FALSE
        OBVIOUS
      <4>2. PICK z \in Sessions : \E x \in DOMAIN q[z] : q[z][x] = r
        BY <1>1, <4>1 DEF AllWaitThere
      <4>3. PICK x \in DOMAIN q[z] : q[z][x] = r
        BY <4>2
      <4>4. z = s
        BY <1>1, <2>1, <4>3, QueuedForOne DEF WaitingThere
      <4>5. x = 1 \/ t < r
        BY <1>3, <3>1, <4>3, <4>4
      <4>6. r # t /\ ~(t < r)
        BY SessionsAssumption
      <4> QED
        BY <3>1, <4>3, <4>4, <4>5, <4>6
    <3>3. ~Awaited(r, ms, w)
      BY <1>1, <1>3, <2>1, <3>1 DEF OneAtATime
    <3>4. ms[r].at \in Moments /\ ms[r].at # "unsaid"
      BY <1>1, <1>2, <2>1, UnsaidQueuedFor, MomentOf
    <3> QED
      BY <2>2, <3>2, <3>3, <3>4 DEF Awaited, Moments, Decided
  <2> QED
    BY <2>3, <2>4
<1>22. LocksHeld(lk, ns) /\ RepliesOnce(w, ns)
  <2>1. LocksHeld(lk, ns)
    BY <1>1, <1>4, <1>6 DEF LocksHeld
  <2>2. RepliesOnce(w, ns)
    BY <1>1, <1>4, <1>6 DEF RepliesOnce
  <2> QED
    BY <2>1, <2>2
<1> QED
  BY <1>13, <1>14, <1>15, <1>16, <1>17, <1>19, <1>20, <1>21, <1>22 DEF QueuesInv

\* A reply or a snapshot on the wire.
LEMMA WireGrows ==
  ASSUME NEW w \in Seq(Wired), NEW entry \in Wired
  PROVE  /\ Append(w, entry) \in Seq(Wired)
         /\ \A r : Replied(r, Append(w, entry)) => Replied(r, w) \/ (entry.kind = "reply" /\ r = entry.message)
<1>1. /\ Append(w, entry) \in Seq(Wired) /\ Append(w, entry)[Len(w) + 1] = entry
      /\ \A x \in DOMAIN w : Append(w, entry)[x] = w[x]
      /\ \A x \in DOMAIN Append(w, entry) : x \in DOMAIN w \/ x = Len(w) + 1
  BY AppendOf
<1> QED
  BY <1>1 DEF Replied

LEMMA ReplyOnce ==
  ASSUME NEW w, NEW ms, RepliesOnce(w, ms), NEW ns, NEW r \in Messages, NEW entry \in Wired, entry.kind = "reply", entry.message = r,
         ms[r].at \notin {"begun", "refused"}, ns[r].at \in {"begun", "refused"}, \A t \in Messages : t # r => ns[t] = ms[t]
  PROVE  RepliesOnce(Append(w, entry), ns)
<1>1. /\ w \in Seq(Wired)
      /\ \A x \in DOMAIN w : w[x].kind = "reply" => w[x].message \in Messages /\ ms[w[x].message].at \in {"begun", "refused"}
      /\ \A x, y \in DOMAIN w : w[x].kind = "reply" /\ w[y].kind = "reply" /\ w[x].message = w[y].message => x = y
  BY DEF RepliesOnce
<1>2. /\ Append(w, entry) \in Seq(Wired) /\ Append(w, entry)[Len(w) + 1] = entry
      /\ \A x \in DOMAIN w : Append(w, entry)[x] = w[x]
      /\ \A x \in DOMAIN Append(w, entry) : x \in DOMAIN w \/ x = Len(w) + 1
  BY <1>1, AppendOf
<1>3. \A x \in DOMAIN w : w[x].kind = "reply" => w[x].message # r /\ ns[w[x].message].at \in {"begun", "refused"}
  BY <1>1
<1>4. \A x \in DOMAIN Append(w, entry) :
        Append(w, entry)[x].kind = "reply" =>
          Append(w, entry)[x].message \in Messages /\ ns[Append(w, entry)[x].message].at \in {"begun", "refused"}
  BY <1>1, <1>2, <1>3
<1>5. ASSUME NEW x \in DOMAIN Append(w, entry), NEW y \in DOMAIN Append(w, entry), Append(w, entry)[x].kind = "reply",
             Append(w, entry)[y].kind = "reply", Append(w, entry)[x].message = Append(w, entry)[y].message
      PROVE  x = y
  BY <1>1, <1>2, <1>3, <1>5
<1> QED
  BY <1>2, <1>4, <1>5 DEF RepliesOnce

LEMMA SnapshotOnce ==
  ASSUME NEW w, NEW ms, RepliesOnce(w, ms), NEW entry \in Wired, entry.kind # "reply"
  PROVE  RepliesOnce(Append(w, entry), ms)
<1>1. w \in Seq(Wired)
  BY DEF RepliesOnce
<1>2. /\ Append(w, entry) \in Seq(Wired) /\ Append(w, entry)[Len(w) + 1] = entry
      /\ \A x \in DOMAIN w : Append(w, entry)[x] = w[x]
      /\ \A x \in DOMAIN Append(w, entry) : x \in DOMAIN w \/ x = Len(w) + 1
  BY <1>1, AppendOf
<1> QED
  BY <1>2 DEF RepliesOnce

LEMMA WireMoves ==
  ASSUME NEW w, NEW ms, RepliesOnce(w, ms), w # <<>>
  PROVE  /\ RepliesOnce(Tail(w), ms) /\ Head(w) = w[1] /\ 1 \in DOMAIN w /\ w \in Seq(Wired)
         /\ \A r : Replied(r, Tail(w)) => Replied(r, w) /\ (w[1].kind = "reply" => r # w[1].message)
<1>1. w \in Seq(Wired)
  BY DEF RepliesOnce
<1>2. /\ Tail(w) \in Seq(Wired) /\ 1 \in DOMAIN w /\ Head(w) = w[1]
      /\ \A x \in DOMAIN Tail(w) : x \in Nat /\ x + 1 \in DOMAIN w /\ x + 1 # 1 /\ Tail(w)[x] = w[x + 1]
  BY <1>1, TailShape
<1>3. RepliesOnce(Tail(w), ms)
  <2>1. \A x, y \in DOMAIN Tail(w) : x + 1 = y + 1 => x = y
    BY <1>2
  <2> QED
    BY <1>2, <2>1 DEF RepliesOnce
<1>4. \A r : Replied(r, Tail(w)) => Replied(r, w) /\ (w[1].kind = "reply" => r # w[1].message)
  BY <1>2 DEF Replied, RepliesOnce
<1> QED
  BY <1>1, <1>2, <1>3, <1>4

\* A message that is on its way, or that main checks, moves on: the queues stay as they are.
LEMMA ProgressKeeps ==
  ASSUME NEW q, NEW busy, NEW sent, NEW ms, NEW lk, NEW w, QueuesInv(q, busy, sent, ms, lk, w),
         NEW r \in Messages, ms[r].at \in {"asked", "checking"}, NEW ns, NEW at \in {"checking", "begun", "refused"}, Moves(ms, ns, {r}, at),
         NEW sent2, sent2 \in Seq(Messages), SentOnce(sent2, ns), NEW lk2, LocksHeld(lk2, ns),
         NEW w2, RepliesOnce(w2, ns), \A t : Replied(t, w2) => Replied(t, w) \/ t = r
  PROVE  QueuesInv(q, busy, sent2, ns, lk2, w2)
<1>1. /\ QueuesTyped(q, busy, sent, ms) /\ Sorted(q) /\ WaitingThere(q, ms) /\ AllWaitThere(q, ms)
      /\ OneAtATime(busy, ms, w) /\ SaidInOrder(ms) /\ InOrder(ms)
  BY DEF QueuesInv
<1>2. /\ ns \in [Messages -> Prompted] /\ ns[r].at = at
      /\ \A t \in Messages : t # r => ns[t] = ms[t]
      /\ \A s, t : t \in Messages => (QueuedFor(ns[t], s) <=> QueuedFor(ms[t], s))
  BY DEF Moves
<1>3. QueuesTyped(q, busy, sent2, ns)
  BY <1>1, <1>2 DEF QueuesTyped
<1>4. WaitingThere(q, ns)
  <2>1. \A s \in Sessions : \A x \in DOMAIN q[s] : q[s][x] \in Messages
    BY <1>1 DEF QueuesTyped
  <2>2. \A s \in Sessions : \A x \in DOMAIN q[s] : ms[q[s][x]].at = "queued" /\ QueuedFor(ms[q[s][x]], s)
    BY <1>1 DEF WaitingThere
  <2> QED
    BY <1>2, <2>1, <2>2 DEF WaitingThere
<1>5. AllWaitThere(q, ns)
  BY <1>1, <1>2 DEF AllWaitThere
<1>6. \A t \in Messages : Awaited(t, ns, w2) => Awaited(t, ms, w)
  BY <1>2 DEF Awaited
<1>7. OneAtATime(busy, ns, w2)
  BY <1>1, <1>2, <1>6 DEF OneAtATime
<1>8. SaidInOrder(ns)
  <2>1. \A t \in Messages : ns[t].at = "unsaid" <=> ms[t].at = "unsaid"
    BY <1>2
  <2> QED
    BY <1>1, <1>2, <2>1 DEF SaidInOrder
<1>9. InOrder(ns)
  <2> SUFFICES ASSUME NEW s \in Sessions, NEW t \in Messages, NEW u \in Messages, QueuedFor(ns[t], s), QueuedFor(ns[u], s), t < u,
                      ns[u].at \in {"asked", "checking", "begun", "refused"}
               PROVE  ns[t].at \in Decided
    BY DEF InOrder
  <2>1. QueuedFor(ms[t], s) /\ QueuedFor(ms[u], s) /\ ms[u].at \in {"asked", "checking", "begun", "refused"}
    BY <1>2
  <2>2. ms[t].at \in Decided
    BY <1>1, <2>1 DEF InOrder
  <2> QED
    BY <1>2, <2>2 DEF Decided
<1> QED
  BY <1>1, <1>3, <1>4, <1>5, <1>7, <1>8, <1>9 DEF QueuesInv

\* The wire alone moves.
LEMMA WireKeeps ==
  ASSUME NEW q, NEW busy, NEW sent, NEW ms, NEW lk, NEW w, QueuesInv(q, busy, sent, ms, lk, w),
         NEW w2, RepliesOnce(w2, ms), \A t : Replied(t, w2) => Replied(t, w)
  PROVE  QueuesInv(q, busy, sent, ms, lk, w2)
<1>1. \A t : Awaited(t, ms, w2) => Awaited(t, ms, w)
  BY DEF Awaited
<1>2. OneAtATime(busy, ms, w2)
  BY <1>1 DEF QueuesInv, OneAtATime
<1> QED
  BY <1>2 DEF QueuesInv

\* The head of what was sent leaves it.
LEMMA SentMoves ==
  ASSUME NEW sent \in Seq(Messages), NEW ms, SentOnce(sent, ms), sent # <<>>, NEW ns, \A t \in Messages : t # Head(sent) => ns[t] = ms[t]
  PROVE  Tail(sent) \in Seq(Messages) /\ SentOnce(Tail(sent), ns) /\ Head(sent) \in Messages /\ ms[Head(sent)].at = "asked"
<1>1. /\ Tail(sent) \in Seq(Messages) /\ 1 \in DOMAIN sent /\ Head(sent) = sent[1] /\ Head(sent) \in Messages
      /\ \A x \in DOMAIN Tail(sent) : x \in Nat /\ x + 1 \in DOMAIN sent /\ x + 1 # 1 /\ Tail(sent)[x] = sent[x + 1]
  BY TailShape
<1>2. ms[Head(sent)].at = "asked"
  BY <1>1 DEF SentOnce
<1>3. \A x \in DOMAIN Tail(sent) : Tail(sent)[x] # Head(sent) /\ Tail(sent)[x] \in Messages /\ ms[Tail(sent)[x]].at = "asked"
  BY <1>1 DEF SentOnce
<1>4. \A x, y \in DOMAIN Tail(sent) : Tail(sent)[x] = Tail(sent)[y] => x = y
  <2>1. \A x, y \in DOMAIN Tail(sent) : x + 1 = y + 1 => x = y
    BY <1>1
  <2> QED
    BY <1>1, <2>1 DEF SentOnce
<1> QED
  BY <1>1, <1>2, <1>3, <1>4 DEF SentOnce

\* The next message is said: it is later than all that were.
Says(ms, ns, r, s, queued, at) ==
  /\ ns \in [Messages -> Prompted] /\ ns[r].at = at /\ ns[r] # Prompts!Unsaid
  /\ \A t \in Messages : t # r => ns[t] = ms[t]
  /\ \A t : QueuedFor(ns[r], t) <=> queued /\ t = s

LEMMA SaysMessage ==
  ASSUME NEW ms \in [Messages -> Prompted], NEW r \in Messages, NEW s \in Sessions, NEW queued \in BOOLEAN, NEW at \in Moments \ {"unsaid"}
  PROVE  Says(ms, [ms EXCEPT ![r] = [session |-> s, queued |-> queued, at |-> at]], r, s, queued, at)
<1> DEFINE said == [session |-> s, queued |-> queued, at |-> at]
           ns == [ms EXCEPT ![r] = said]
<1>1. said \in Prompted /\ said.at = at /\ said.session = s /\ said.queued = queued /\ said # Prompts!Unsaid
  BY DEF Prompted, Prompts!Unsaid
<1>2. \A t : QueuedFor(said, t) <=> queued /\ t = s
  BY DEF QueuedFor
<1> HIDE DEF said
<1>3. ns \in [Messages -> Prompted] /\ ns[r] = said /\ \A t \in Messages : t # r => ns[t] = ms[t]
  BY <1>1
<1> HIDE DEF ns
<1>4. Says(ms, ns, r, s, queued, at)
  BY <1>1, <1>2, <1>3 DEF Says
<1> QED
  BY <1>4 DEF ns, said

LEMMA SaidKeeps ==
  ASSUME NEW q, NEW busy, NEW sent, NEW ms, NEW lk, NEW w, QueuesInv(q, busy, sent, ms, lk, w),
         NEW r \in Messages, ms[r].at = "unsaid", \A t \in Messages : t < r => ms[t].at # "unsaid",
         NEW ns, NEW s \in Sessions, NEW queued, NEW at \in Moments \ {"unsaid"}, Says(ms, ns, r, s, queued, at), queued <=> at = "queued",
         at \in {"queued", "asked"}, NEW q2, NEW sent2, QueuesTyped(q2, busy, sent2, ns), Sorted(q2), WaitingThere(q2, ns), AllWaitThere(q2, ns), SentOnce(sent2, ns)
  PROVE  QueuesInv(q2, busy, sent2, ns, lk, w)
<1>1. /\ OneAtATime(busy, ms, w) /\ SaidInOrder(ms) /\ InOrder(ms) /\ LocksHeld(lk, ms) /\ RepliesOnce(w, ms)
      /\ ms \in [Messages -> Prompted]
  BY DEF QueuesInv, QueuesTyped
<1>2. /\ ns[r].at = at /\ \A t \in Messages : t # r => ns[t] = ms[t]
      /\ \A t : QueuedFor(ns[r], t) <=> queued /\ t = s
      /\ ns[r] # Prompts!Unsaid
  BY DEF Says
<1>3. \A t : Replied(t, w) => t # r
  BY <1>1 DEF Replied, RepliesOnce
<1>4. \A t \in Messages : t > r => ms[t].at = "unsaid"
  BY <1>1, SessionsAssumption DEF SaidInOrder
<1>5. OneAtATime(busy, ns, w)
  <2>1. \A t \in Messages, z \in Sessions : QueuedFor(ns[t], z) /\ Awaited(t, ns, w) => QueuedFor(ms[t], z) /\ Awaited(t, ms, w)
    BY <1>2, <1>3 DEF Awaited
  <2> QED
    BY <1>1, <2>1 DEF OneAtATime
<1>6. SaidInOrder(ns)
  <2>1. \A t \in Messages : ns[t].at = "unsaid" => t # r /\ ns[t] = Prompts!Unsaid
    BY <1>1, <1>2 DEF SaidInOrder
  <2>2. ASSUME NEW t \in Messages, NEW u \in Messages, t < u, ns[t].at = "unsaid" PROVE ns[u].at = "unsaid"
    <3>1. t # r /\ ms[t].at = "unsaid" /\ ms[u].at = "unsaid"
      BY <1>1, <1>2, <2>1, <2>2 DEF SaidInOrder
    <3>2. u # r
      BY <2>2, <3>1
    <3> QED
      BY <1>2, <3>1, <3>2
  <2> QED
    BY <2>1, <2>2 DEF SaidInOrder
<1>7. InOrder(ns)
  <2> SUFFICES ASSUME NEW z \in Sessions, NEW t \in Messages, NEW u \in Messages, QueuedFor(ns[t], z), QueuedFor(ns[u], z), t < u,
                      ns[u].at \in {"asked", "checking", "begun", "refused"}
               PROVE  ns[t].at \in Decided
    BY DEF InOrder
  <2>1. u # r
    BY <1>2
  <2>2. t # r
    <3>1. ms[u].at # "unsaid" /\ t \in Int /\ u \in Int
      BY <1>2, <2>1, SessionsAssumption
    <3> QED
      BY <1>4, <3>1
  <2> QED
    BY <1>1, <1>2, <2>1, <2>2 DEF InOrder
<1>8. LocksHeld(lk, ns) /\ RepliesOnce(w, ns)
  <2>1. LocksHeld(lk, ns)
    BY <1>1, <1>2 DEF LocksHeld
  <2>2. RepliesOnce(w, ns)
    BY <1>1, <1>2 DEF RepliesOnce
  <2> QED
    BY <2>1, <2>2
<1> QED
  BY <1>5, <1>6, <1>7, <1>8 DEF QueuesInv

LEMMA QueuesKeep ==
  ASSUME NEW q, NEW busy, NEW sent, NEW ms, NEW lk, NEW w, QueuesInv(q, busy, sent, ms, lk, w),
         NEW r \in Messages, ms[r].at = "unsaid", \A t \in Messages : t < r => ms[t].at # "unsaid",
         NEW s \in Sessions, NEW ns, Says(ms, ns, r, s, TRUE, "queued")
  PROVE  QueuesInv([q EXCEPT ![s] = Append(@, r)], busy, sent, ns, lk, w)
<1> DEFINE q2 == [q EXCEPT ![s] = Append(@, r)]
<1>1. /\ QueuesTyped(q, busy, sent, ms) /\ Sorted(q) /\ WaitingThere(q, ms) /\ AllWaitThere(q, ms) /\ SentOnce(sent, ms) /\ SaidInOrder(ms)
      /\ q \in [Sessions -> Seq(Messages)] /\ sent \in Seq(Messages) /\ busy \subseteq Sessions
  BY DEF QueuesInv, QueuesTyped
<1>2. /\ ns \in [Messages -> Prompted] /\ ns[r].at = "queued" /\ \A t \in Messages : t # r => ns[t] = ms[t]
      /\ \A t : QueuedFor(ns[r], t) <=> t = s
  BY DEF Says
<1>3. q2 \in [Sessions -> Seq(Messages)] /\ q2[s] = Append(q[s], r) /\ \A z \in Sessions : z # s => q2[z] = q[z]
  BY <1>1
<1>4. /\ Len(q[s]) + 1 \in DOMAIN q2[s] /\ q2[s][Len(q[s]) + 1] = r
      /\ \A x \in DOMAIN q[s] : x \in Nat /\ x < Len(q[s]) + 1 /\ x \in DOMAIN q2[s] /\ q2[s][x] = q[s][x]
      /\ \A x \in DOMAIN q2[s] : x \in DOMAIN q[s] \/ x = Len(q[s]) + 1
  BY <1>1, <1>3, AppendOf
<1> DEFINE last == Len(q[s]) + 1
<1>5. last \in Nat /\ \A x \in DOMAIN q[s] : ~(last < x)
  <2>1. Len(q[s]) \in Nat /\ DOMAIN q[s] = 1 .. Len(q[s])
    BY <1>1, LenProperties
  <2> QED
    BY <2>1
<1> HIDE DEF q2, last
\* What waits is said before.
<1>6. \A z \in Sessions : \A x \in DOMAIN q[z] : q[z][x] \in Messages /\ q[z][x] # r /\ ms[q[z][x]].at = "queued" /\ QueuedFor(ms[q[z][x]], z)
  BY <1>1 DEF WaitingThere
<1>7. \A t \in Messages : ms[t].at = "queued" => t < r
  BY <1>1, SessionsAssumption DEF SaidInOrder
<1>8. QueuesTyped(q2, busy, sent, ns)
  BY <1>1, <1>2, <1>3 DEF QueuesTyped
<1>9. Sorted(q2)
  <2> SUFFICES ASSUME NEW z \in Sessions, NEW x \in DOMAIN q2[z], NEW y \in DOMAIN q2[z], x < y PROVE q2[z][x] < q2[z][y]
    BY DEF Sorted
  <2>1. CASE z # s
    BY <1>1, <1>3, <2>1 DEF Sorted
  <2>2. CASE z = s
    <3>1. CASE y = last
      <4>1. x \in DOMAIN q[s]
        BY <1>4, <1>5, <2>2, <3>1 DEF last
      <4> QED
        BY <1>4, <1>6, <1>7, <2>2, <3>1, <4>1 DEF last
    <3>2. CASE y \in DOMAIN q[s]
      <4>1. x \in DOMAIN q[s]
        BY <1>4, <1>5, <2>2, <3>2 DEF last
      <4> QED
        BY <1>1, <1>4, <2>2, <3>2, <4>1 DEF Sorted
    <3> QED
      BY <1>4, <2>2, <3>1, <3>2 DEF last
  <2> QED
    BY <2>1, <2>2
<1>10. WaitingThere(q2, ns)
  <2> SUFFICES ASSUME NEW z \in Sessions, NEW x \in DOMAIN q2[z] PROVE ns[q2[z][x]].at = "queued" /\ QueuedFor(ns[q2[z][x]], z)
    BY DEF WaitingThere
  <2>1. CASE z # s
    <3>1. q2[z] = q[z]
      BY <1>3, <2>1
    <3> QED
      BY <1>2, <1>6, <3>1
  <2>2. CASE z = s /\ x \in DOMAIN q[s]
    BY <1>2, <1>4, <1>6, <2>2
  <2>3. CASE z = s /\ x = Len(q[s]) + 1
    BY <1>2, <1>4, <2>3
  <2> QED
    BY <1>4, <2>1, <2>2, <2>3
<1>11. AllWaitThere(q2, ns)
  <2> SUFFICES ASSUME NEW t \in Messages, ns[t].at = "queued" PROVE \E z \in Sessions : \E x \in DOMAIN q2[z] : q2[z][x] = t
    BY DEF AllWaitThere
  <2>1. CASE t = r
    BY <1>4, <2>1
  <2>2. CASE t # r
    <3>1. PICK z \in Sessions : \E x \in DOMAIN q[z] : q[z][x] = t
      BY <1>1, <1>2, <2>2 DEF AllWaitThere
    <3> QED
      BY <1>3, <1>4, <3>1
  <2> QED
    BY <2>1, <2>2
<1>12. SentOnce(sent, ns)
  BY <1>1, <1>2 DEF SentOnce
<1>13. QueuesInv(q2, busy, sent, ns, lk, w)
  BY <1>8, <1>9, <1>10, <1>11, <1>12, SaidKeeps DEF Moments
<1> QED
  BY <1>13 DEF q2

LEMMA SendsKeep ==
  ASSUME NEW q, NEW busy, NEW sent, NEW ms, NEW lk, NEW w, QueuesInv(q, busy, sent, ms, lk, w),
         NEW r \in Messages, ms[r].at = "unsaid", \A t \in Messages : t < r => ms[t].at # "unsaid",
         NEW s \in Sessions, NEW ns, Says(ms, ns, r, s, FALSE, "asked")
  PROVE  QueuesInv(q, busy, Append(sent, r), ns, lk, w)
<1>1. /\ QueuesTyped(q, busy, sent, ms) /\ Sorted(q) /\ WaitingThere(q, ms) /\ AllWaitThere(q, ms) /\ SentOnce(sent, ms)
      /\ q \in [Sessions -> Seq(Messages)] /\ sent \in Seq(Messages) /\ busy \subseteq Sessions
  BY DEF QueuesInv, QueuesTyped
<1>2. ns \in [Messages -> Prompted] /\ ns[r].at = "asked" /\ \A t \in Messages : t # r => ns[t] = ms[t]
  BY DEF Says
<1>3. /\ Append(sent, r) \in Seq(Messages) /\ Append(sent, r)[Len(sent) + 1] = r
      /\ \A x \in DOMAIN sent : Append(sent, r)[x] = sent[x]
      /\ \A x \in DOMAIN Append(sent, r) : x \in DOMAIN sent \/ x = Len(sent) + 1
  BY <1>1, AppendOf
<1>4. \A x \in DOMAIN sent : sent[x] \in Messages /\ sent[x] # r /\ ms[sent[x]].at = "asked"
  BY <1>1 DEF SentOnce
<1>5. SentOnce(Append(sent, r), ns)
  <2>1. \A x \in DOMAIN Append(sent, r) : ns[Append(sent, r)[x]].at = "asked"
    BY <1>2, <1>3, <1>4
  <2>2. \A x, y \in DOMAIN Append(sent, r) : Append(sent, r)[x] = Append(sent, r)[y] => x = y
    BY <1>1, <1>3, <1>4 DEF SentOnce
  <2> QED
    BY <2>1, <2>2 DEF SentOnce
<1>6. WaitingThere(q, ns)
  <2>1. \A z \in Sessions : \A x \in DOMAIN q[z] : q[z][x] \in Messages /\ q[z][x] # r /\ ms[q[z][x]].at = "queued"
    BY <1>1 DEF WaitingThere
  <2> QED
    BY <1>1, <1>2, <2>1 DEF WaitingThere
<1>7. AllWaitThere(q, ns)
  BY <1>1, <1>2 DEF AllWaitThere
<1>8. QueuesTyped(q, busy, Append(sent, r), ns)
  BY <1>1, <1>2, <1>3 DEF QueuesTyped
<1>9. "asked" \in Moments \ {"unsaid"} /\ (FALSE <=> "asked" = "queued") /\ "asked" \in {"queued", "asked"}
  BY DEF Moments
<1> QED
  BY <1>1, <1>5, <1>6, <1>7, <1>8, <1>9, SaidKeeps

LEMMA TakesBackKeep ==
  ASSUME NEW q, NEW busy, NEW sent, NEW ms, NEW lk, NEW w, QueuesInv(q, busy, sent, ms, lk, w),
         NEW s \in Sessions, NEW z \in DOMAIN q[s], NEW ns, Moves(ms, ns, {q[s][z]}, "removed")
  PROVE  QueuesInv([q EXCEPT ![s] = Prompts!RemoveAt(@, z)], busy, sent, ns, lk, w)
<1> DEFINE q2 == [q EXCEPT ![s] = Prompts!RemoveAt(@, z)]
           r == q[s][z]
<1>1. /\ QueuesTyped(q, busy, sent, ms) /\ Sorted(q) /\ WaitingThere(q, ms) /\ AllWaitThere(q, ms) /\ SentOnce(sent, ms) /\ SaidInOrder(ms)
      /\ OneAtATime(busy, ms, w) /\ InOrder(ms) /\ LocksHeld(lk, ms) /\ RepliesOnce(w, ms)
      /\ q \in [Sessions -> Seq(Messages)] /\ sent \in Seq(Messages) /\ busy \subseteq Sessions
  BY DEF QueuesInv, QueuesTyped
<1>2. r \in Messages /\ ms[r].at = "queued" /\ QueuedFor(ms[r], s)
  BY <1>1 DEF WaitingThere
<1>3. q2[s] = Prompts!RemoveAt(q[s], z) /\ \A t \in Sessions : t # s => q2[t] = q[t]
  BY <1>1
<1>4. /\ q2[s] \in Seq(Messages)
      /\ \A x \in DOMAIN q2[s] : \E y \in DOMAIN q[s] : y = (IF x < z THEN x ELSE x + 1) /\ y # z /\ q2[s][x] = q[s][y]
      /\ \A y \in DOMAIN q[s] : y # z => \E x \in DOMAIN q2[s] : q2[s][x] = q[s][y]
  BY <1>1, <1>3, RemoveAtShape
<1>5. q2 \in [Sessions -> Seq(Messages)]
  BY <1>1, <1>3, <1>4
<1>6. /\ ns \in [Messages -> Prompted] /\ ns[r].at = "removed"
      /\ \A t \in Messages : t # r => ns[t] = ms[t]
      /\ \A u, t : t \in Messages => (QueuedFor(ns[t], u) <=> QueuedFor(ms[t], u))
  BY <1>2 DEF Moves
<1> HIDE DEF q2
<1>7. /\ \A x \in DOMAIN q[s] : x \in Nat
      /\ \A x \in DOMAIN q2[s] : x \in Nat
  BY <1>1, <1>4
<1>8. ASSUME NEW x \in DOMAIN q[s], NEW y \in DOMAIN q[s], x # y PROVE q[s][x] # q[s][y]
  <2>1. q[s][x] \in Nat /\ q[s][y] \in Nat
    <3>1. q[s] \in Seq(Messages)
      BY <1>1
    <3>2. q[s][x] \in Messages /\ q[s][y] \in Messages
      BY <3>1, ElementOfSeq, LenProperties
    <3> QED
      BY <3>2, SessionsAssumption
  <2>2. x < y \/ y < x
    BY <1>7, <1>8
  <2> QED
    BY <1>1, <2>1, <2>2 DEF Sorted
<1> HIDE DEF r
<1>9. QueuesTyped(q2, busy, sent, ns)
  BY <1>1, <1>5, <1>6 DEF QueuesTyped
<1>10. Sorted(q2)
  <2> SUFFICES ASSUME NEW t \in Sessions, NEW x \in DOMAIN q2[t], NEW y \in DOMAIN q2[t], x < y PROVE q2[t][x] < q2[t][y]
    BY DEF Sorted
  <2>1. CASE t # s
    BY <1>1, <1>3, <2>1 DEF Sorted
  <2>2. CASE t = s
    <3>1. PICK u \in DOMAIN q[s] : u = (IF x < z THEN x ELSE x + 1) /\ q2[s][x] = q[s][u]
      BY <1>4, <2>2
    <3>2. PICK v \in DOMAIN q[s] : v = (IF y < z THEN y ELSE y + 1) /\ q2[s][y] = q[s][v]
      BY <1>4, <2>2
    <3>3. x \in Nat /\ y \in Nat /\ z \in Nat
      BY <1>7, <2>2
    <3>4. u < v
      BY <3>1, <3>2, <3>3
    <3> QED
      BY <1>1, <2>2, <3>1, <3>2, <3>4 DEF Sorted
  <2> QED
    BY <2>1, <2>2
<1>11. WaitingThere(q2, ns)
  <2> SUFFICES ASSUME NEW t \in Sessions, NEW x \in DOMAIN q2[t] PROVE ns[q2[t][x]].at = "queued" /\ QueuedFor(ns[q2[t][x]], t)
    BY DEF WaitingThere
  <2>1. PICK y \in DOMAIN q[t] : q2[t][x] = q[t][y] /\ (t = s => y # z)
    BY <1>3, <1>4
  <2>2. q[t][y] \in Messages /\ ms[q[t][y]].at = "queued" /\ QueuedFor(ms[q[t][y]], t)
    BY <1>1 DEF WaitingThere
  <2>3. q[t][y] # r
    <3>1. CASE t = s
      BY <1>8, <2>1, <3>1 DEF r
    <3>2. CASE t # s
      BY <1>2, <2>2, <3>2, QueuedForOne
    <3> QED
      BY <3>1, <3>2
  <2> QED
    BY <1>6, <2>1, <2>2, <2>3
<1>12. AllWaitThere(q2, ns)
  <2> SUFFICES ASSUME NEW t \in Messages, ns[t].at = "queued" PROVE \E u \in Sessions : \E x \in DOMAIN q2[u] : q2[u][x] = t
    BY DEF AllWaitThere
  <2>1. t # r /\ ms[t].at = "queued"
    BY <1>6
  <2>2. PICK u \in Sessions : \E x \in DOMAIN q[u] : q[u][x] = t
    BY <1>1, <2>1 DEF AllWaitThere
  <2>3. PICK y \in DOMAIN q[u] : q[u][y] = t
    BY <2>2
  <2>4. CASE u # s
    BY <1>3, <2>3, <2>4
  <2>5. CASE u = s
    <3>1. y # z
      BY <2>1, <2>3, <2>5 DEF r
    <3> QED
      BY <1>4, <2>3, <2>5, <3>1
  <2> QED
    BY <2>4, <2>5
<1>13. SentOnce(sent, ns)
  <2>1. \A x \in DOMAIN sent : sent[x] \in Messages /\ sent[x] # r
    BY <1>1, <1>2 DEF SentOnce
  <2> QED
    BY <1>1, <1>6, <2>1 DEF SentOnce
<1>14. OneAtATime(busy, ns, w)
  <2>1. \A t \in Messages : Awaited(t, ns, w) => Awaited(t, ms, w)
    BY <1>6 DEF Awaited
  <2> QED
    BY <1>1, <1>6, <2>1 DEF OneAtATime
<1>15. SaidInOrder(ns)
  <2>1. \A t \in Messages : ns[t].at = "unsaid" <=> ms[t].at = "unsaid"
    BY <1>2, <1>6
  <2> QED
    BY <1>1, <1>6, <2>1 DEF SaidInOrder
<1>16. InOrder(ns)
  <2> SUFFICES ASSUME NEW u \in Sessions, NEW t \in Messages, NEW v \in Messages, QueuedFor(ns[t], u), QueuedFor(ns[v], u), t < v,
                      ns[v].at \in {"asked", "checking", "begun", "refused"}
               PROVE  ns[t].at \in Decided
    BY DEF InOrder
  <2>1. QueuedFor(ms[t], u) /\ QueuedFor(ms[v], u) /\ ms[v].at \in {"asked", "checking", "begun", "refused"}
    BY <1>6
  <2>2. ms[t].at \in Decided
    BY <1>1, <2>1 DEF InOrder
  <2> QED
    BY <1>6, <2>2 DEF Decided
<1>17. LocksHeld(lk, ns)
  BY <1>1, <1>2, <1>6 DEF LocksHeld
<1>18. RepliesOnce(w, ns)
  BY <1>1, <1>2, <1>6 DEF RepliesOnce
<1>19. QueuesInv(q2, busy, sent, ns, lk, w)
  BY <1>9, <1>10, <1>11, <1>12, <1>13, <1>14, <1>15, <1>16, <1>17, <1>18 DEF QueuesInv
<1> QED
  BY <1>19 DEF q2

LEMMA EffectKeeps ==
  ASSUME NEW q, NEW busy, NEW sent, NEW ms, NEW lk, NEW w, QueuesInv(q, busy, sent, ms, lk, w),
         NEW sh, Prompts!Dispatched(q, sh, busy, sent, ms)
  PROVE  QueuesInv(k', l', d', m', lk, w)
<1> DEFINE ready == {s \in Sessions \ busy : q[s] # <<>> /\ sh[s] = "idle"}
           heads == {Head(q[s]) : s \in ready}
           q2 == [s \in Sessions |-> IF s \in ready THEN Tail(q[s]) ELSE q[s]]
           sent2 == sent \o Prompts!SetToSeq(heads)
           ns == [r \in Messages |-> IF r \in heads THEN [ms[r] EXCEPT !.at = "asked"] ELSE ms[r]]
<1>1. k' = q2 /\ l' = busy \union ready /\ d' = sent2 /\ m' = ns
  BY DEF Prompts!Dispatched, Prompts!Dispatchable
<1>2. ms \in [Messages -> Prompted]
  BY DEF QueuesInv, QueuesTyped
<1>3. Moves(ms, ns, heads, "asked")
  BY <1>2, ManyMove DEF Moments
<1>4. ready \subseteq Sessions \ busy /\ \A s \in ready : q[s] # <<>>
  OBVIOUS
<1>5. heads = {Head(q[s]) : s \in ready} /\ q2 = [s \in Sessions |-> IF s \in ready THEN Tail(q[s]) ELSE q[s]]
      /\ sent2 = sent \o Prompts!SetToSeq(heads)
  OBVIOUS
<1> HIDE DEF ready, heads, q2, sent2, ns
<1>6. QueuesInv(q2, busy \union ready, sent2, ns, lk, w)
  BY <1>3, <1>4, <1>5, DispatchKeeps
<1> QED
  BY <1>1, <1>6

LEMMA EntryShapes ==
  ASSUME ShownTyped
  PROVE  /\ Prompts!Snapshot \in Wired /\ Prompts!Snapshot.kind = "snapshot"
         /\ \A r \in Messages, ok \in BOOLEAN :
              LET entry == [kind |-> "reply", message |-> r, ok |-> ok, status |-> g] IN
                entry \in Wired /\ entry.kind = "reply" /\ entry.message = r
BY DEF ShownTyped, Prompts!Snapshot, Prompts!Nothing, Wired

\* The user types, submits, takes back, and looks at another session.
LEMMA ComposerKeeps ==
  ASSUME PromptsInv,
         \/ Prompts!Types \/ Prompts!Removes \/ \E r \in Messages : Prompts!SubmitQueues(r) \/ Prompts!SubmitSends(r)
         \/ \E s \in Sessions \union {"none"} : Prompts!Views(s)
  PROVE  PromptsInv'
<1>1. QueuesInv(k, l, d, m, c, e) /\ ShownTyped /\ m \in [Messages -> Prompted] /\ k \in [Sessions -> Seq(Messages)] /\ SaidInOrder(m)
  BY DEF PromptsInv, QueuesInv, QueuesTyped
<1>2. ASSUME UNCHANGED <<c, e>>, QueuesInv(k', l', d', m', c, e), ShownTyped' PROVE PromptsInv'
  BY <1>2 DEF PromptsInv
<1>3. CASE Prompts!Types
  BY <1>1, <1>2, <1>3 DEF Prompts!Types, Prompts!main, Prompts!None, ShownTyped
<1>4. ASSUME NEW s \in Sessions \union {"none"}, Prompts!Views(s) PROVE PromptsInv'
  BY <1>1, <1>2, <1>4 DEF Prompts!Views, Prompts!main, ShownTyped
<1>5. ASSUME NEW r \in Messages, Prompts!New(r)
      PROVE  m[r].at = "unsaid" /\ \A t \in Messages : t < r => m[t].at # "unsaid"
  <2>1. m[r] = Prompts!Unsaid /\ \A t \in Messages : t < r => m[t] # Prompts!Unsaid
    BY <1>5 DEF Prompts!New
  <2>2. Prompts!Unsaid.at = "unsaid"
    BY DEF Prompts!Unsaid
  <2> QED
    BY <1>1, <2>1, <2>2 DEF SaidInOrder
<1>6. ASSUME NEW r \in Messages, Prompts!SubmitQueues(r) PROVE PromptsInv'
  <2> DEFINE said == [m EXCEPT ![r] = [session |-> h, queued |-> TRUE, at |-> "queued"]]
             typed == [k EXCEPT ![h] = Append(@, r)]
  <2>1. h \in Sessions /\ UNCHANGED <<a, c, e, g, h, j>> /\ ~i' /\ Prompts!New(r)
    BY <1>1, <1>6 DEF Prompts!SubmitQueues, Prompts!main, ShownTyped
  <2>2. Prompts!Dispatched(typed, g, l, d, said)
    BY <1>6 DEF Prompts!SubmitQueues, Prompts!Said
  <2>3. Says(m, said, r, h, TRUE, "queued")
    BY <1>1, <2>1, SaysMessage DEF Moments
  <2>4. typed = [k EXCEPT ![h] = Append(@, r)]
    OBVIOUS
  <2> HIDE DEF said, typed
  <2>5. QueuesInv(typed, l, d, said, c, e)
    BY <1>1, <1>5, <2>1, <2>3, <2>4, QueuesKeep
  <2>6. QueuesInv(k', l', d', m', c, e)
    BY <2>2, <2>5, EffectKeeps
  <2> QED
    BY <1>1, <1>2, <2>1, <2>6 DEF ShownTyped
<1>7. ASSUME NEW r \in Messages, Prompts!SubmitSends(r) PROVE PromptsInv'
  <2>1. h \in Sessions /\ UNCHANGED <<a, c, e, g, h, i, k, l>> /\ Prompts!New(r) /\ d' = Append(d, r)
        /\ m' = [m EXCEPT ![r] = [session |-> h, queued |-> FALSE, at |-> "asked"]]
    BY <1>1, <1>7 DEF Prompts!SubmitSends, Prompts!Said, Prompts!main, ShownTyped
  <2>2. Says(m, m', r, h, FALSE, "asked")
    BY <1>1, <2>1, SaysMessage DEF Moments
  <2>3. QueuesInv(k, l, Append(d, r), m', c, e)
    BY <1>1, <1>5, <2>1, <2>2, SendsKeep
  <2> QED
    BY <1>1, <1>2, <2>1, <2>3 DEF ShownTyped
<1>8. CASE Prompts!Removes
  <2>1. h \in Sessions /\ UNCHANGED <<a, c, e, g, h, i>>
    BY <1>1, <1>8 DEF Prompts!Removes, Prompts!None, Prompts!main, ShownTyped
  <2>2. PICK x \in DOMAIN k[h] :
          Prompts!Dispatched([k EXCEPT ![h] = Prompts!RemoveAt(@, x)], g, l, d, [m EXCEPT ![k[h][x]].at = "removed"])
    BY <1>8 DEF Prompts!Removes
  <2> DEFINE left == [k EXCEPT ![h] = Prompts!RemoveAt(@, x)]
             ns == [m EXCEPT ![k[h][x]].at = "removed"]
  <2>3. k[h][x] \in Messages
    BY <1>1, <2>1
  <2>4. Moves(m, ns, {k[h][x]}, "removed")
    BY <1>1, <2>3, OneMoves DEF Moments
  <2>5. left = [k EXCEPT ![h] = Prompts!RemoveAt(@, x)] /\ Prompts!Dispatched(left, g, l, d, ns)
    BY <2>2
  <2> HIDE DEF left, ns
  <2>6. QueuesInv(left, l, d, ns, c, e)
    BY <1>1, <2>1, <2>4, <2>5, TakesBackKeep
  <2>7. QueuesInv(k', l', d', m', c, e)
    BY <2>5, <2>6, EffectKeeps
  <2> QED
    BY <1>1, <1>2, <2>1, <2>7 DEF ShownTyped
<1> QED
  BY <1>3, <1>4, <1>6, <1>7, <1>8

LEMMA AnswerProgresses ==
  ASSUME NEW q, NEW busy, NEW sent, NEW ms, NEW lk, NEW w, QueuesInv(q, busy, sent, ms, lk, w),
         NEW r \in Messages, ms[r].at \in {"asked", "checking"}, NEW ns, NEW at \in {"begun", "refused"}, Moves(ms, ns, {r}, at),
         NEW entry \in Wired, entry.kind = "reply", entry.message = r,
         NEW sent2, sent2 \in Seq(Messages), SentOnce(sent2, ns), NEW lk2, LocksHeld(lk2, ns)
  PROVE  QueuesInv(q, busy, sent2, ns, lk2, Append(w, entry))
<1>1. RepliesOnce(w, ms) /\ w \in Seq(Wired)
  BY DEF QueuesInv, RepliesOnce
<1>2. ns[r].at = at /\ \A t \in Messages : t # r => ns[t] = ms[t]
  BY DEF Moves
<1>3. ms[r].at \notin {"begun", "refused"} /\ ns[r].at \in {"begun", "refused"}
  BY <1>2
<1>4. RepliesOnce(Append(w, entry), ns)
  BY <1>1, <1>2, <1>3, ReplyOnce
<1>5. \A t : Replied(t, Append(w, entry)) => Replied(t, w) \/ t = r
  BY <1>1, WireGrows
<1>6. at \in {"checking", "begun", "refused"}
  OBVIOUS
<1>7. ASSUME NEW w2, RepliesOnce(w2, ns), \A t : Replied(t, w2) => Replied(t, w) \/ t = r PROVE QueuesInv(q, busy, sent2, ns, lk2, w2)
  <2>1. CASE at = "begun"
    <3>1. Moves(ms, ns, {r}, "begun") /\ "begun" \in {"checking", "begun", "refused"}
      BY <2>1
    <3> QED
      BY <1>7, <3>1, ProgressKeeps
  <2>2. CASE at = "refused"
    <3>1. Moves(ms, ns, {r}, "refused") /\ "refused" \in {"checking", "begun", "refused"}
      BY <2>2
    <3> QED
      BY <1>7, <3>1, ProgressKeeps
  <2> QED
    BY <2>1, <2>2
<1> QED
  BY <1>4, <1>5, <1>7

\* main takes what was sent, and answers.
LEMMA MainKeeps ==
  ASSUME PromptsInv,
         \/ Prompts!AskRefused \/ Prompts!Locks \/ Prompts!Cancels \/ Prompts!Broadcasts
         \/ \E s \in Sessions : Prompts!Starts(s) \/ Prompts!Fails(s) \/ \E r \in {"idle", "failed"} : Prompts!TurnEnds(s, r)
  PROVE  PromptsInv'
<1>1. /\ QueuesInv(k, l, d, m, c, e) /\ ShownTyped /\ m \in [Messages -> Prompted] /\ d \in Seq(Messages)
      /\ SentOnce(d, m) /\ LocksHeld(c, m) /\ RepliesOnce(e, m) /\ c \in [Sessions -> Messages \union {0}] /\ e \in Seq(Wired)
  BY DEF PromptsInv, QueuesInv, QueuesTyped, LocksHeld, RepliesOnce
<1>2. ASSUME UNCHANGED <<k, l, g, h, i>>, QueuesInv(k, l, d', m', c', e'), a' \in [Sessions -> Prompts!Statuses] PROVE PromptsInv'
  BY <1>1, <1>2 DEF PromptsInv, ShownTyped
<1>3. CASE Prompts!Cancels
  <2>1. UNCHANGED <<c, d, e, g, h, i, k, l, m>> /\ a' = [a EXCEPT ![h] = "idle"]
    BY <1>3 DEF Prompts!Cancels, Prompts!composer
  <2>2. a' \in [Sessions -> Prompts!Statuses]
    BY <1>1, <2>1 DEF ShownTyped, Prompts!Statuses
  <2> QED
    BY <1>1, <1>2, <2>1, <2>2
<1>4. ASSUME NEW s \in Sessions, NEW r \in {"idle", "failed"}, Prompts!TurnEnds(s, r) PROVE PromptsInv'
  <2>1. UNCHANGED <<c, d, e, g, h, i, k, l, m>> /\ a' = [a EXCEPT ![s] = r]
    BY <1>4 DEF Prompts!TurnEnds, Prompts!composer
  <2>2. a' \in [Sessions -> Prompts!Statuses]
    BY <1>1, <2>1 DEF ShownTyped, Prompts!Statuses
  <2> QED
    BY <1>1, <1>2, <2>1, <2>2
<1>5. CASE Prompts!Broadcasts
  <2>1. UNCHANGED <<a, c, d, g, h, i, k, l, m>> /\ e' = Append(e, Prompts!Snapshot)
    BY <1>5 DEF Prompts!Broadcasts, Prompts!composer
  <2>2. Prompts!Snapshot \in Wired /\ Prompts!Snapshot.kind # "reply"
    BY <1>1, EntryShapes
  <2>3. RepliesOnce(e', m) /\ \A t : Replied(t, e') => Replied(t, e)
    BY <1>1, <2>1, <2>2, SnapshotOnce, WireGrows
  <2>4. QueuesInv(k, l, d, m, c, e')
    BY <1>1, <2>3, WireKeeps
  <2> QED
    BY <1>1, <1>2, <2>1, <2>4 DEF ShownTyped
\* A message is answered.
<1>6. ASSUME NEW r \in Messages, m[r].at \in {"asked", "checking"}, NEW ok \in BOOLEAN, NEW at \in {"begun", "refused"},
             m' = [m EXCEPT ![r].at = at], e' = Append(e, [kind |-> "reply", message |-> r, ok |-> ok, status |-> g]),
             d' \in Seq(Messages), SentOnce(d', m'), LocksHeld(c', m')
      PROVE  QueuesInv(k, l, d', m', c', e')
  <2> DEFINE entry == [kind |-> "reply", message |-> r, ok |-> ok, status |-> g]
  <2>1. entry \in Wired /\ entry.kind = "reply" /\ entry.message = r /\ e' = Append(e, entry)
    BY <1>1, <1>6, EntryShapes
  <2>2. Moves(m, m', {r}, at)
    BY <1>1, <1>6, OneMoves DEF Moments
  <2> HIDE DEF entry
  <2>3. QueuesInv(k, l, d', m', c', Append(e, entry))
    BY <1>1, <1>6, <2>1, <2>2, AnswerProgresses
  <2> QED
    BY <2>1, <2>3
<1>7. CASE Prompts!AskRefused
  <2>1. /\ UNCHANGED <<a, c, g, h, i, k, l>> /\ d # <<>> /\ d' = Tail(d) /\ m' = [m EXCEPT ![Head(d)].at = "refused"]
        /\ e' = Append(e, [kind |-> "reply", message |-> Head(d), ok |-> FALSE, status |-> g])
    BY <1>7 DEF Prompts!AskRefused, Prompts!Refused, Prompts!Replies, Prompts!main, Prompts!composer
  <2>2. Head(d) \in Messages
    BY <1>1, <2>1
  <2>3. Moves(m, m', {Head(d)}, "refused")
    BY <1>1, <2>1, <2>2, OneMoves DEF Moments
  <2>4. \A t \in Messages : t # Head(d) => m'[t] = m[t]
    BY <2>3 DEF Moves
  <2>5. d' \in Seq(Messages) /\ SentOnce(d', m') /\ m[Head(d)].at = "asked"
    BY <1>1, <2>1, <2>4, SentMoves
  <2>6. LocksHeld(c', m')
    BY <1>1, <2>1, <2>4, <2>5 DEF LocksHeld
  <2>7. QueuesInv(k, l, d', m', c', e')
    BY <1>6, <2>1, <2>2, <2>5, <2>6
  <2> QED
    BY <1>1, <1>2, <2>1, <2>7 DEF ShownTyped
<1>8. CASE Prompts!Locks
  <2> DEFINE r == Head(d)
  <2>1. /\ UNCHANGED <<a, e, g, h, i, k, l>> /\ d # <<>> /\ d' = Tail(d) /\ m' = [m EXCEPT ![r].at = "checking"]
        /\ c' = [c EXCEPT ![m[r].session] = r] /\ c[m[r].session] = 0
    BY <1>8 DEF Prompts!Locks, Prompts!composer, Prompts!Nothing
  <2>2. r \in Messages
    BY <1>1, <2>1
  <2> HIDE DEF r
  <2>3. Moves(m, m', {r}, "checking")
    BY <1>1, <2>1, <2>2, OneMoves DEF Moments
  <2>4. m'[r].at = "checking" /\ m'[r].session = m[r].session /\ \A t \in Messages : t # r => m'[t] = m[t]
    BY <2>2, <2>3 DEF Moves
  <2>5. d' \in Seq(Messages) /\ SentOnce(d', m') /\ m[r].at = "asked"
    BY <1>1, <2>1, <2>4, SentMoves DEF r
  <2>6. LocksHeld(c', m')
    BY <1>1, <2>1, <2>2, <2>4, <2>5 DEF LocksHeld
  <2>7. RepliesOnce(e', m')
    BY <1>1, <2>1, <2>4, <2>5 DEF RepliesOnce
  <2>8. QueuesInv(k, l, d', m', c', e')
    <3>1. m[r].at \in {"asked", "checking"} /\ "checking" \in {"checking", "begun", "refused"}
      BY <2>5
    <3>2. \A t : Replied(t, e') => Replied(t, e) \/ t = r
      BY <2>1
    <3>3. QueuesInv(k, l, d, m, c, e) /\ d' \in Seq(Messages) /\ SentOnce(d', m')
      BY <1>1, <2>5
    <3> QED
      BY <2>2, <2>3, <2>6, <2>7, <3>1, <3>2, <3>3, ProgressKeeps
  <2> QED
    BY <1>1, <1>2, <2>1, <2>8 DEF ShownTyped
<1>9. ASSUME NEW s \in Sessions, Prompts!Starts(s) \/ Prompts!Fails(s) PROVE PromptsInv'
  <2> DEFINE r == c[s]
  <2>1. /\ UNCHANGED <<d, g, h, i, k, l>> /\ r # 0 /\ c' = [c EXCEPT ![s] = 0] /\ a' \in {a, [a EXCEPT ![s] = "running"]}
        /\ \E at \in {"begun", "refused"}, ok \in BOOLEAN :
             m' = [m EXCEPT ![r].at = at] /\ e' = Append(e, [kind |-> "reply", message |-> r, ok |-> ok, status |-> g])
    BY <1>9 DEF Prompts!Starts, Prompts!Fails, Prompts!Refused, Prompts!Replies, Prompts!composer, Prompts!Nothing
  <2>2. PICK at \in {"begun", "refused"}, ok \in BOOLEAN :
          m' = [m EXCEPT ![r].at = at] /\ e' = Append(e, [kind |-> "reply", message |-> r, ok |-> ok, status |-> g])
    BY <2>1
  <2>3. r \in Messages /\ m[r].at = "checking" /\ m[r].session = s
    BY <1>1, <2>1 DEF LocksHeld
  <2>4. a' \in [Sessions -> Prompts!Statuses]
    BY <1>1, <2>1 DEF ShownTyped, Prompts!Statuses
  <2>5. \A t \in Sessions : t # s => c'[t] = c[t] /\ (c[t] # 0 => c[t] # r)
    BY <1>1, <2>1, <2>3 DEF LocksHeld
  <2>6. c' \in [Sessions -> Messages \union {0}] /\ c'[s] = 0
    BY <1>1, <2>1
  <2> HIDE DEF r
  <2>7. Moves(m, m', {r}, at)
    BY <1>1, <2>2, <2>3, OneMoves DEF Moments
  <2>8. \A t \in Messages : t # r => m'[t] = m[t]
    BY <2>7 DEF Moves
  <2>9. LocksHeld(c', m')
    BY <1>1, <2>5, <2>6, <2>8 DEF LocksHeld
  <2>10. SentOnce(d', m')
    BY <1>1, <2>1, <2>3, <2>8 DEF SentOnce
  <2>11. QueuesInv(k, l, d', m', c', e')
    BY <1>1, <1>6, <2>1, <2>2, <2>3, <2>9, <2>10
  <2> QED
    BY <1>2, <2>1, <2>4, <2>11
<1> QED
  BY <1>3, <1>4, <1>5, <1>7, <1>8, <1>9

\* The renderer receives.
LEMMA HearingKeeps ==
  ASSUME PromptsInv, Prompts!Shows \/ Prompts!QueueHears \/ Prompts!ComposerHears
  PROVE  PromptsInv'
<1>1. /\ QueuesInv(k, l, d, m, c, e) /\ ShownTyped /\ QueuesTyped(k, l, d, m) /\ RepliesOnce(e, m) /\ OneAtATime(l, m, e)
  BY DEF PromptsInv, QueuesInv
<1>2. e # <<>> /\ e' = Tail(e) /\ UNCHANGED <<a, c, h>>
  BY DEF Prompts!Shows, Prompts!QueueHears, Prompts!ComposerHears, Prompts!main, Prompts!composer
<1>3. /\ RepliesOnce(e', m) /\ Head(e) = e[1] /\ 1 \in DOMAIN e /\ e \in Seq(Wired)
      /\ \A t : Replied(t, e') => Replied(t, e) /\ (e[1].kind = "reply" => t # e[1].message)
  BY <1>1, <1>2, WireMoves
<1>4. QueuesInv(k, l, d, m, c, e')
  BY <1>1, <1>3, WireKeeps
<1>5. e[1] \in Wired
  BY <1>3
<1>6. CASE Prompts!Shows
  <2>1. Prompts!Dispatched(k, g', l, d, m) /\ g' = e[1].status /\ UNCHANGED i
    BY <1>3, <1>6 DEF Prompts!Shows, Prompts!composer
  <2>2. QueuesInv(k', l', d', m', c, e')
    BY <1>4, <2>1, EffectKeeps
  <2>3. g' \in [Sessions -> Prompts!Statuses]
    BY <1>5, <2>1 DEF Wired
  <2> QED
    BY <1>1, <1>2, <2>1, <2>2, <2>3 DEF PromptsInv, ShownTyped
<1>7. CASE Prompts!QueueHears
  <2> DEFINE r == e[1].message
  <2>1. /\ UNCHANGED <<d, g, i, k, m>> /\ e[1].kind = "reply" /\ m[r].queued /\ l' = l \ {m[r].session}
    BY <1>3, <1>7 DEF Prompts!QueueHears, Prompts!main, Prompts!composer
  <2>2. r \in Messages /\ m[r].at \in {"begun", "refused"} /\ Replied(r, e) /\ ~Replied(r, e')
    BY <1>1, <1>3, <2>1 DEF RepliesOnce, Replied
  <2>3. QueuedFor(m[r], m[r].session)
    BY <2>1 DEF QueuedFor
  <2> HIDE DEF r
  <2>4. OneAtATime(l', m, e')
    <3> SUFFICES ASSUME NEW s \in Sessions, NEW t \in Messages, QueuedFor(m[t], s), Awaited(t, m, e')
                 PROVE  /\ s \in l'
                        /\ \A u \in Messages : QueuedFor(m[u], s) /\ Awaited(u, m, e') => u = t
      BY DEF OneAtATime
    <3>1. \A u \in Messages : Awaited(u, m, e') => Awaited(u, m, e)
      BY <1>3 DEF Awaited
    <3>2. Awaited(r, m, e) /\ ~Awaited(r, m, e')
      BY <2>2 DEF Awaited
    <3>3. s \in l /\ \A u \in Messages : QueuedFor(m[u], s) /\ Awaited(u, m, e) => u = t
      BY <1>1, <3>1 DEF OneAtATime
    <3>4. s # m[r].session
      BY <2>2, <2>3, <3>2, <3>3
    <3> QED
      BY <2>1, <3>1, <3>3, <3>4
  <2>5. QueuesInv(k', l', d', m', c, e')
    BY <1>4, <2>1, <2>4 DEF QueuesInv, QueuesTyped
  <2> QED
    BY <1>1, <1>2, <2>1, <2>5 DEF PromptsInv, ShownTyped
<1>8. CASE Prompts!ComposerHears
  <2>1. UNCHANGED <<d, g, k, l, m>>
    BY <1>8 DEF Prompts!ComposerHears, Prompts!main
  <2>2. i' => i
    BY <1>8, Zenon DEF Prompts!ComposerHears
  <2>3. ShownTyped'
    BY <1>1, <1>2, <2>1, <2>2 DEF ShownTyped
  <2>4. QueuesInv(k', l', d', m', c', e')
    BY <1>2, <1>4, <2>1
  <2> QED
    BY <2>3, <2>4 DEF PromptsInv
<1> QED
  BY <1>6, <1>7, <1>8

LEMMA PromptsStep == PromptsInv /\ (Prompts!Next \/ UNCHANGED <<a, c, d, e, g, h, i, k, l, m>>) => PromptsInv'
<1>1. PromptsInv /\ UNCHANGED <<a, c, d, e, g, h, i, k, l, m>> => PromptsInv'
  BY DEF PromptsInv, ShownTyped
<1> QED
  BY <1>1, ComposerKeeps, MainKeeps, HearingKeeps DEF Prompts!Next, Prompts!None

-----------------------------------------------------------------------------
(* The history of the remote sessions: what is deleted is listed and bound *)
(* to nothing, and what is opened has its worker.                          *)

\* The tokens are issued for the generation that the list began, while it is the newest.
LEMMA HistoryTokens ==
  /\ History!Init => History!OneGeneration
  /\ History!OneGeneration /\ (History!Next \/ UNCHANGED <<f, g>>) => History!OneGeneration'
<1>1. History!Init => History!OneGeneration
  BY DEF History!Init, History!OneGeneration
<1> SUFFICES ASSUME History!OneGeneration, History!Next \/ UNCHANGED <<f, g>> PROVE History!OneGeneration'
  BY <1>1
<1>2. ASSUME g' \subseteq g, UNCHANGED f PROVE History!OneGeneration'
  BY <1>2 DEF History!OneGeneration
<1>3. ASSUME History!Kept PROVE History!OneGeneration'
  BY <1>2, <1>3 DEF History!Kept
<1>4. ASSUME History!Cleared PROVE History!OneGeneration'
  BY <1>4 DEF History!Cleared, History!OneGeneration
<1>5. ASSUME NEW x \in Lists, History!ListEnds(x) PROVE History!OneGeneration'
  BY <1>5 DEF History!ListEnds, History!Issued, History!OneGeneration
<1>6. CASE History!Listing
  BY <1>3, <1>4, <1>5, <1>6 DEF History!Listing, History!ListCaptures, History!ListBegins, History!ListBinds, History!ListHears
<1>7. CASE History!Consumes
  BY <1>2, <1>7 DEF History!Consumes, History!Forget
<1>8. CASE History!Mutating /\ ~History!Consumes
  BY <1>3, <1>8
     DEF History!Mutating, History!Acquires, History!Refused, History!Captured, History!Resolved, History!Selects, History!WorkerStarted,
         History!Inserts, History!Saved, History!Fails, History!Undone, History!Confirmed, History!Rechecked, History!CliDeletes
<1>9. CASE History!Changed \/ History!Selected \/ History!ConnectionBegins \/ History!Outside \/ History!Stop
  BY <1>3, <1>4, <1>9 DEF History!Changed, History!Selected, History!ConnectionBegins, History!Outside, History!Stop
<1>10. ASSUME NEW x \in Remotes, History!ConnectionEnds(x) \/ History!Removed(x) PROVE History!OneGeneration'
  BY <1>3, <1>10 DEF History!ConnectionEnds, History!Removed
<1>11. ASSUME NEW x \in g, History!Expires(x) PROVE History!OneGeneration'
  BY <1>2, <1>11 DEF History!Expires
<1> QED
  BY <1>2, <1>6, <1>7, <1>8, <1>9, <1>10, <1>11 DEF History!Next

\* Every generation is that of one list at most, which has not ended when a token of it is issued.
Numbered(q) == i[q].at \in {"binding", "calling", "checking"}
HistoryLists ==
  /\ f \in Nat /\ DOMAIN i = Lists /\ \A q \in Lists : DOMAIN i[q] = DOMAIN History!NoList
  /\ \A q \in Lists : Numbered(q) =>
       /\ i[q].generation \in Nat /\ i[q].generation <= f
       /\ \A t \in h : t.generation # i[q].generation
       /\ \A r \in Lists : Numbered(r) /\ i[r].generation = i[q].generation => r = q
  /\ \A t \in h : t.generation \in Nat /\ t.generation <= f

\* What an operation has found of the state, which nobody else changes while it is open, and the worker it has started.
HistoryOp ==
  /\ DOMAIN j = DOMAIN History!NoOp
  /\ j.at # "idle" => ~k /\ j.token \in h /\ j.context = e
  /\ j.at \notin {"starting", "inserting", "undoing"} => c \subseteq b
  /\ c \subseteq b \union {j.token.remote}
  /\ j.at = "deleting" => j.token.remote \notin b /\ \A x \in g : x.token # j.token

HistoryInv == History!OneGeneration /\ HistoryLists /\ HistoryOp

LEMMA HistoryInit == History!Init => HistoryInv
<1> SUFFICES ASSUME History!Init PROVE HistoryInv
  OBVIOUS
<1>1. b = {} /\ c = {} /\ f = 0 /\ g = {} /\ h = {} /\ j = History!NoOp /\ i = [q \in Lists |-> History!NoList]
  BY DEF History!Init
<1>2. HistoryLists
  BY <1>1 DEF HistoryLists, Numbered, History!NoList
<1>3. HistoryOp
  BY <1>1 DEF HistoryOp, History!NoOp
<1> QED
  BY <1>1, <1>2, <1>3 DEF HistoryInv, History!OneGeneration

\* A list that goes on keeps its number, whatever else of it changes.
LEMMA ListsKeep ==
  ASSUME HistoryLists, UNCHANGED h, f' \in Nat, f' >= f,
         DOMAIN i' = Lists, \A q \in Lists : DOMAIN i'[q] = DOMAIN i[q],
         \A q \in Lists : Numbered(q)' => Numbered(q) /\ i'[q].generation = i[q].generation
  PROVE  HistoryLists'
BY DEF HistoryLists

LEMMA RevisedKeeps == ASSUME HistoryLists, UNCHANGED <<f, h>>, i' = History!Revised(i) PROVE HistoryLists'
<1>1. DOMAIN i' = Lists /\ \A q \in Lists : i'[q] = [i[q] EXCEPT !.stable = FALSE]
  BY DEF History!Revised
<1>2. \A q \in Lists : DOMAIN i'[q] = DOMAIN i[q] /\ i'[q].at = i[q].at /\ i'[q].generation = i[q].generation
  BY <1>1 DEF HistoryLists, History!NoList
<1> QED
  BY <1>1, <1>2, ListsKeep DEF HistoryLists, Numbered

LEMMA SameListsKeep == HistoryLists /\ UNCHANGED <<f, h, i>> => HistoryLists'
BY DEF HistoryLists, Numbered

\* SetList of a record of the same shape.
LEMMA SetListsKeep ==
  ASSUME HistoryLists, UNCHANGED <<f, h>>, NEW q \in Lists, NEW new, History!SetList(q, new), DOMAIN new = DOMAIN History!NoList,
         new.at \in {"binding", "calling", "checking"} => Numbered(q) /\ new.generation = i[q].generation
  PROVE  HistoryLists'
<1>1. DOMAIN i' = Lists /\ i'[q] = new /\ \A r \in Lists \ {q} : i'[r] = i[r]
  BY DEF HistoryLists, History!SetList
<1> QED
  BY <1>1, ListsKeep DEF HistoryLists, Numbered

LEMMA OpKeeps ==
  ASSUME HistoryOp, UNCHANGED <<b, c, e, j, k>>, h \subseteq h', j.at = "deleting" => \A x \in g' : x.token # j.token
  PROVE  HistoryOp'
BY DEF HistoryOp

LEMMA FinishKeeps ==
  ASSUME HistoryInv, NEW q \in Lists, History!ListEnds(q)
  PROVE  HistoryLists' /\ HistoryOp'
<1> DEFINE issued == History!Issued(i[q])
<1>1. Numbered(q) /\ UNCHANGED <<b, c, e, f, j, k>> /\ History!Over(q)
  BY DEF History!ListEnds, History!listOthers, Numbered
<1>2. \A x \in issued : x.token.generation = i[q].generation
  BY DEF History!Issued
<1>3. /\ g' \subseteq g \union issued /\ h \subseteq h' /\ h' \subseteq h \union {x.token : x \in issued}
  BY DEF History!ListEnds
<1> HIDE DEF issued
<1>4. i[q].generation \in Nat /\ i[q].generation <= f
  BY <1>1 DEF HistoryInv, HistoryLists
<1>5. DOMAIN i' = Lists /\ i'[q] = [History!NoList EXCEPT !.at = "over"] /\ \A r \in Lists \ {q} : i'[r] = i[r]
  BY <1>1 DEF HistoryInv, HistoryLists, History!Over, History!SetList
<1>6. DOMAIN i'[q] = DOMAIN History!NoList /\ i'[q].at = "over"
  BY <1>5 DEF History!NoList
<1>7. \A t \in h' : t.generation \in Nat /\ t.generation <= f /\ (t \in h \/ t.generation = i[q].generation)
  BY <1>2, <1>3, <1>4 DEF HistoryInv, HistoryLists
<1>8. \A r \in Lists : Numbered(r)' => r # q /\ Numbered(r) /\ i'[r] = i[r] /\ i[r].generation # i[q].generation
  BY <1>1, <1>5, <1>6 DEF HistoryInv, HistoryLists, Numbered
<1>9. HistoryLists'
  <2>1. f' \in Nat /\ DOMAIN i' = Lists /\ \A r \in Lists : DOMAIN i'[r] = DOMAIN History!NoList
    BY <1>1, <1>5, <1>6 DEF HistoryInv, HistoryLists
  <2>2. \A r \in Lists : Numbered(r)' => \A t \in h' : t.generation # i'[r].generation
    BY <1>7, <1>8 DEF HistoryInv, HistoryLists
  <2>3. \A r \in Lists : Numbered(r)' =>
          /\ i'[r].generation \in Nat /\ i'[r].generation <= f'
          /\ \A s \in Lists : Numbered(s)' /\ i'[s].generation = i'[r].generation => s = r
    BY <1>1, <1>8 DEF HistoryInv, HistoryLists
  <2> QED
    BY <1>1, <1>7, <2>1, <2>2, <2>3 DEF HistoryLists, Numbered
<1>10. j.at = "deleting" => \A x \in g' : x.token # j.token
  <2>1. j.at = "deleting" => j.token \in h
    BY DEF HistoryInv, HistoryOp
  <2> QED
    BY <1>1, <1>2, <1>3, <2>1 DEF HistoryInv, HistoryLists, HistoryOp
<1> QED
  BY <1>1, <1>3, <1>9, <1>10, OpKeeps DEF HistoryInv

LEMMA BeginsKeeps ==
  ASSUME HistoryInv, NEW q \in Lists, History!ListBegins(q)
  PROVE  HistoryLists' /\ HistoryOp'
<1>1. UNCHANGED <<b, c, e, h, j, k>> /\ i[q].at = "captured"
  BY DEF History!ListBegins, History!listOthers
<1>2. CASE History!Over(q) /\ History!Kept
  <2>1. DOMAIN [History!NoList EXCEPT !.at = "over"] = DOMAIN History!NoList /\ [History!NoList EXCEPT !.at = "over"].at = "over"
    BY DEF History!NoList
  <2>2. UNCHANGED <<f, h>> /\ g' = g /\ History!SetList(q, [History!NoList EXCEPT !.at = "over"])
    BY <1>1, <1>2 DEF History!Kept, History!Over
  <2>3. HistoryLists'
    BY <2>1, <2>2, SetListsKeep DEF HistoryInv
  <2> QED
    BY <1>1, <2>2, <2>3, OpKeeps DEF HistoryInv, HistoryOp
<1>3. CASE ~(History!Over(q) /\ History!Kept)
  <2> DEFINE new == [i[q] EXCEPT !.at = "binding", !.stable = TRUE, !.generation = f + 1]
  <2>1. History!SetList(q, new) /\ f' = f + 1 /\ g' = {}
    BY <1>3 DEF History!ListBegins, History!Cleared
  <2>2. DOMAIN new = DOMAIN i[q] /\ new.generation = f + 1
    BY DEF HistoryInv, HistoryLists, History!NoList
  <2> HIDE DEF new
  <2>3. DOMAIN i' = Lists /\ i'[q] = new /\ \A r \in Lists \ {q} : i'[r] = i[r]
    BY <2>1 DEF HistoryInv, HistoryLists, History!SetList
  <2>4. f \in Nat /\ f' \in Nat /\ f' > f
    BY <2>1 DEF HistoryInv, HistoryLists
  <2>5. /\ \A t \in h' : t.generation \in Nat /\ t.generation <= f
        /\ \A r \in Lists \ {q} : Numbered(r)' => Numbered(r) /\ i'[r].generation \in Nat /\ i'[r].generation <= f
    BY <1>1, <2>3 DEF HistoryInv, HistoryLists, Numbered
  <2>6. \A r \in Lists : Numbered(r)' => \A s \in Lists : Numbered(s)' /\ i'[s].generation = i'[r].generation => s = r
    BY <2>1, <2>2, <2>3, <2>4, <2>5 DEF HistoryInv, HistoryLists, Numbered
  <2>7. \A r \in Lists : Numbered(r)' =>
          i'[r].generation \in Nat /\ i'[r].generation <= f' /\ \A t \in h' : t.generation # i'[r].generation
    <3>1. i'[q].generation \in Nat /\ i'[q].generation <= f' /\ \A t \in h' : t.generation # i'[q].generation
      BY <2>1, <2>2, <2>3, <2>4, <2>5
    <3>2. ASSUME NEW r \in Lists \ {q}, Numbered(r)'
          PROVE  i'[r].generation \in Nat /\ i'[r].generation <= f' /\ \A t \in h' : t.generation # i'[r].generation
      BY <1>1, <2>3, <2>4, <2>5, <3>2 DEF HistoryInv, HistoryLists
    <3> QED
      BY <3>1, <3>2
  <2>8. HistoryLists'
    <3>1. \A t \in h' : t.generation \in Nat /\ t.generation <= f'
      BY <2>4, <2>5 DEF HistoryInv, HistoryLists
    <3>2. DOMAIN i' = Lists /\ \A r \in Lists : DOMAIN i'[r] = DOMAIN History!NoList
      BY <2>2, <2>3 DEF HistoryInv, HistoryLists
    <3> QED
      BY <2>4, <2>6, <2>7, <3>1, <3>2 DEF HistoryLists, Numbered
  <2> QED
    BY <1>1, <2>1, <2>8, OpKeeps DEF HistoryInv
<1> QED
  BY <1>2, <1>3

LEMMA ListingKeeps ==
  ASSUME HistoryInv, History!Listing
  PROVE  HistoryLists' /\ HistoryOp'
<1>1. \A q \in Lists : DOMAIN i[q] = DOMAIN History!NoList
  BY DEF HistoryInv, HistoryLists
<1>2. DOMAIN [History!NoList EXCEPT !.at = "over"] = DOMAIN History!NoList /\ [History!NoList EXCEPT !.at = "over"].at = "over"
  BY DEF History!NoList
<1>3. ASSUME NEW q \in Lists, UNCHANGED <<f, h>>, History!Over(q) PROVE HistoryLists'
  BY <1>2, <1>3, SetListsKeep DEF HistoryInv, History!Over
<1>4. ASSUME NEW q \in Lists, History!ListCaptures(q) PROVE HistoryLists' /\ HistoryOp'
  <2> DEFINE new == [History!Pending(i[q], e) EXCEPT !.at = "captured"]
  <2>1. History!SetList(q, new) /\ UNCHANGED <<b, c, e, f, g, h, j, k>>
    BY <1>4 DEF History!ListCaptures, History!Kept, History!listOthers
  <2>2. DOMAIN new = DOMAIN History!NoList /\ new.at = "captured"
    BY <1>1 DEF History!Pending, History!NoList
  <2> HIDE DEF new
  <2>3. HistoryLists'
    BY <2>1, <2>2, SetListsKeep DEF HistoryInv
  <2> QED
    BY <2>1, <2>3, OpKeeps DEF HistoryInv, HistoryOp
<1>5. ASSUME NEW q \in Lists, History!ListBinds(q) PROVE HistoryLists' /\ HistoryOp'
  <2> DEFINE new == [i[q] EXCEPT !.at = "calling", !.world = d]
  <2>1. (History!SetList(q, new) \/ History!Over(q)) /\ UNCHANGED <<b, c, e, f, g, h, j, k>> /\ Numbered(q)
    BY <1>5 DEF History!ListBinds, History!Kept, History!listOthers, Numbered
  <2>2. DOMAIN new = DOMAIN History!NoList /\ new.generation = i[q].generation
    BY <1>1 DEF History!NoList
  <2> HIDE DEF new
  <2>3. HistoryLists'
    BY <1>3, <2>1, <2>2, SetListsKeep DEF HistoryInv
  <2> QED
    BY <2>1, <2>3, OpKeeps DEF HistoryInv, HistoryOp
<1>6. ASSUME NEW q \in Lists, History!ListHears(q) PROVE HistoryLists' /\ HistoryOp'
  <2> DEFINE new == [i[q] EXCEPT !.at = "checking", !.found = History!Listed]
  <2>1. (History!SetList(q, new) \/ History!Over(q)) /\ UNCHANGED <<b, c, e, f, g, h, j, k>> /\ Numbered(q)
    BY <1>6 DEF History!ListHears, History!Kept, History!listOthers, Numbered
  <2>2. DOMAIN new = DOMAIN History!NoList /\ new.generation = i[q].generation
    BY <1>1 DEF History!NoList
  <2> HIDE DEF new
  <2>3. HistoryLists'
    BY <1>3, <2>1, <2>2, SetListsKeep DEF HistoryInv
  <2> QED
    BY <2>1, <2>3, OpKeeps DEF HistoryInv, HistoryOp
<1> QED
  BY <1>4, <1>5, <1>6, BeginsKeeps, FinishKeeps DEF History!Listing

\* A step of the open or the delete: the lists are as they were, or of an older revision.
LEMMA MutatingKeeps ==
  ASSUME HistoryInv, History!Mutating
  PROVE  HistoryLists' /\ HistoryOp'
<1>1. HistoryOp /\ HistoryLists /\ DOMAIN j = DOMAIN History!NoOp
  BY DEF HistoryInv, HistoryOp
<1>2. \A step : DOMAIN [j EXCEPT !.at = step] = DOMAIN History!NoOp /\ [j EXCEPT !.at = step].at = step
                 /\ [j EXCEPT !.at = step].token = j.token /\ [j EXCEPT !.at = step].context = j.context
  BY <1>1 DEF History!NoOp
<1>3. ASSUME UNCHANGED i \/ i' = History!Revised(i), UNCHANGED <<f, h>> PROVE HistoryLists'
  BY <1>1, <1>3, RevisedKeeps, SameListsKeep
<1>4. ASSUME NEW kind, NEW token \in h, History!Acquires(kind, token) PROVE HistoryLists' /\ HistoryOp'
  <2> DEFINE new == [History!Pending(History!NoOp, e) EXCEPT !.at = "capturing", !.kind = kind, !.token = token]
  <2>1. /\ j.at = "idle" /\ ~k /\ j' = new /\ UNCHANGED <<b, c, e, f, g, h, i, k>>
    BY <1>4 DEF History!Acquires, History!LifecycleAvailable, History!Kept, History!opOthers
  <2>2. DOMAIN new = DOMAIN History!NoOp /\ new.at = "capturing" /\ new.token = token /\ new.context = e
    BY DEF History!NoOp, History!Pending
  <2> HIDE DEF new
  <2>3. c \subseteq b
    BY <1>1, <2>1 DEF HistoryOp
  <2> QED
    BY <1>3, <2>1, <2>2, <2>3 DEF HistoryOp
<1>5. ASSUME NEW step \in History!Steps, History!Refused(step) PROVE HistoryLists' /\ HistoryOp'
  <2>1. j' = History!NoOp /\ UNCHANGED <<b, c, e, f, g, h, i, k>> /\ j.at \notin {"starting", "inserting", "undoing"}
    BY <1>5 DEF History!Refused, History!Kept, History!opOthers, History!Steps
  <2>2. History!NoOp.at = "idle"
    BY DEF History!NoOp
  <2> QED
    BY <1>1, <1>3, <2>1, <2>2 DEF HistoryOp
<1>6. CASE History!Captured
  <2> DEFINE new == [j EXCEPT !.at = "resolving", !.stable = TRUE]
  <2>1. j' = new /\ j.at = "capturing" /\ UNCHANGED <<b, c, e, f, g, h, i, k>>
    BY <1>6 DEF History!Captured, History!Kept, History!opOthers
  <2>2. DOMAIN new = DOMAIN History!NoOp /\ new.at = "resolving" /\ new.token = j.token /\ new.context = j.context
    BY <1>1 DEF History!NoOp
  <2> HIDE DEF new
  <2> QED
    BY <1>1, <1>3, <2>1, <2>2 DEF HistoryOp
<1>7. ASSUME NEW step, History!Goes(step), step # "deleting", j.at # "idle",
             step \in {"starting", "inserting", "undoing"} \/ c' \subseteq b', c' \subseteq b' \union {j.token.remote},
             UNCHANGED i \/ i' = History!Revised(i), UNCHANGED <<e, f, g, h, k>>
      PROVE  HistoryLists' /\ HistoryOp'
  <2>1. DOMAIN j' = DOMAIN History!NoOp /\ j'.at = step /\ j'.token = j.token /\ j'.context = j.context
    BY <1>2, <1>7 DEF History!Goes
  <2> QED
    BY <1>1, <1>3, <1>7, <2>1 DEF HistoryOp
<1>8. CASE History!Resolved
  <2>1. j.at = "resolving" /\ UNCHANGED <<b, e, f, g, h, i, k>> /\ c \subseteq b
    BY <1>1, <1>8 DEF History!Resolved, History!Kept, History!opOthers, HistoryOp
  <2>2. \/ (History!Goes("selecting") \/ History!Goes("confirming")) /\ UNCHANGED c
        \/ History!Goes("starting") /\ c' = c \union {j.token.remote}
    BY <1>8 DEF History!Resolved, History!R
  <2> QED
    BY <1>7, <2>1, <2>2
<1>9. CASE History!Selects \/ History!Saved
  <2>1. /\ j' = History!NoOp /\ j.at \in {"selecting", "saving"} /\ UNCHANGED <<b, c, e, f, g, h, k>>
        /\ UNCHANGED i \/ i' = History!Revised(i)
    BY <1>9 DEF History!Selects, History!Saved, History!Kept, History!opOthers
  <2>2. History!NoOp.at = "idle"
    BY DEF History!NoOp
  <2> QED
    BY <1>1, <1>3, <2>1, <2>2 DEF HistoryOp
<1>10. CASE History!WorkerStarted
  <2>1. j.at = "starting" /\ History!Goes("inserting") /\ UNCHANGED <<b, c, e, f, g, h, i, k>>
    BY <1>10 DEF History!WorkerStarted, History!Kept, History!opOthers
  <2> QED
    BY <1>1, <1>7, <2>1 DEF HistoryOp
<1>11. CASE History!Inserts
  <2>1. j.at = "inserting" /\ History!Goes("saving") /\ UNCHANGED <<c, e, f, g, h, k>> /\ i' = History!Revised(i)
        /\ b' = b \union {j.token.remote}
    BY <1>11 DEF History!Inserts, History!R, History!Kept, History!opOthers
  <2>2. c' \subseteq b'
    BY <1>1, <2>1 DEF HistoryOp
  <2> QED
    BY <1>7, <2>1, <2>2
<1>12. CASE History!Fails
  <2>1. j.at \in {"starting", "inserting", "saving"} /\ History!Goes("undoing") /\ UNCHANGED <<c, e, f, g, h, k>>
        /\ (UNCHANGED i \/ i' = History!Revised(i)) /\ b \subseteq b' \union {j.token.remote}
    BY <1>12 DEF History!Fails, History!R, History!Kept, History!opOthers
  <2>2. c' \subseteq b' \union {j.token.remote}
    BY <1>1, <2>1 DEF HistoryOp
  <2> QED
    BY <1>7, <2>1, <2>2
<1>13. CASE History!Undone
  <2>1. j' = History!NoOp /\ c' = c \ {j.token.remote} /\ UNCHANGED <<b, e, f, g, h, i, k>>
    BY <1>13 DEF History!Undone, History!R, History!Kept, History!opOthers
  <2>2. c' \subseteq b' /\ History!NoOp.at = "idle"
    BY <1>1, <2>1 DEF HistoryOp, History!NoOp
  <2> QED
    BY <1>1, <1>3, <2>1, <2>2 DEF HistoryOp
<1>14. CASE History!Confirmed \/ History!Rechecked \/ History!CliDeletes
  <2>1. /\ j.at \in {"confirming", "confirmed", "deleting"} /\ UNCHANGED <<b, c, e, f, g, h, i, k>>
        /\ History!Goes("confirmed") \/ History!Goes("consuming") \/ History!Goes("deleted")
    BY <1>14 DEF History!Confirmed, History!Rechecked, History!CliDeletes, History!Kept, History!opOthers
  <2>2. c' \subseteq b'
    BY <1>1, <2>1 DEF HistoryOp
  <2> QED
    BY <1>7, <2>1, <2>2
<1>15. CASE History!Consumes
  <2>1. /\ j.at = "consuming" /\ History!Goes("deleting") /\ UNCHANGED <<b, c, e, f, h, i, k>> /\ j.token.remote \notin b
        /\ g' = {x \in g : x.token # j.token}
    BY <1>15 DEF History!Consumes, History!Forget, History!R, History!opOthers
  <2>2. DOMAIN j' = DOMAIN History!NoOp /\ j'.at = "deleting" /\ j'.token = j.token /\ j'.context = j.context
    BY <1>2, <2>1 DEF History!Goes
  <2> QED
    BY <1>1, <1>3, <2>1, <2>2 DEF HistoryOp
<1> QED
  BY <1>4, <1>5, <1>6, <1>8, <1>9, <1>10, <1>11, <1>12, <1>13, <1>14, <1>15 DEF History!Mutating

\* What happens meanwhile.
LEMMA MeanwhileKeeps ==
  ASSUME HistoryInv,
         \/ History!Changed \/ History!Selected \/ History!ConnectionBegins \/ History!Outside \/ History!Stop
         \/ \E r \in Remotes : History!ConnectionEnds(r) \/ History!Removed(r)
         \/ \E x \in g : History!Expires(x)
  PROVE  HistoryLists' /\ HistoryOp'
<1>1. HistoryOp /\ HistoryLists
  BY DEF HistoryInv
<1> DEFINE shaken == [j EXCEPT !.stable = FALSE]
<1>2. DOMAIN shaken = DOMAIN History!NoOp /\ shaken.at = j.at /\ shaken.token = j.token /\ shaken.context = j.context
  BY <1>1 DEF HistoryOp, History!NoOp
<1> HIDE DEF shaken
<1>3. CASE History!Changed
  <2>1. i' = History!Revised(i) /\ j' = shaken /\ UNCHANGED <<b, c, e, f, g, h, k>>
    BY <1>3 DEF History!Changed, History!Kept, History!changeOthers, shaken
  <2> QED
    BY <1>1, <1>2, <2>1, RevisedKeeps DEF HistoryOp
<1>4. CASE History!Selected
  <2>1. /\ j.at = "idle" /\ f' = f + 1 /\ g' = {} /\ i' = History!Revised(i) /\ UNCHANGED <<b, c, h, j, k>>
    BY <1>4 DEF History!Selected, History!NoStateTransaction, History!Cleared, History!changeOthers
  <2>2. DOMAIN i' = Lists /\ \A q \in Lists : i'[q] = [i[q] EXCEPT !.stable = FALSE]
    BY <2>1 DEF History!Revised
  <2>3. \A q \in Lists : DOMAIN i'[q] = DOMAIN i[q] /\ i'[q].at = i[q].at /\ i'[q].generation = i[q].generation
    BY <1>1, <2>2 DEF HistoryLists, History!NoList
  <2>4. HistoryLists'
    <3>1. f' \in Nat /\ f' >= f /\ UNCHANGED h
      BY <1>1, <2>1 DEF HistoryLists
    <3> QED
      BY <1>1, <2>2, <2>3, <3>1, ListsKeep DEF Numbered
  <2> QED
    BY <1>1, <2>1, <2>4 DEF HistoryOp
<1>5. CASE History!ConnectionBegins
  <2>1. j.at = "idle" /\ UNCHANGED <<b, c, e, f, g, h, i, j>>
    BY <1>5 DEF History!ConnectionBegins, History!NoStateTransaction, History!Kept, History!changeOthers
  <2> QED
    BY <1>1, <2>1, SameListsKeep DEF HistoryOp
<1>6. ASSUME NEW r \in Remotes, History!ConnectionEnds(r) PROVE HistoryLists' /\ HistoryOp'
  <2>1. k /\ i' = History!Revised(i) /\ j' = shaken /\ b' = b \union {r} /\ UNCHANGED <<c, e, f, g, h>>
    BY <1>6 DEF History!ConnectionEnds, History!Kept, History!changeOthers, shaken
  <2>2. j.at = "idle"
    BY <1>1, <2>1 DEF HistoryOp
  <2> QED
    BY <1>1, <1>2, <2>1, <2>2, RevisedKeeps DEF HistoryOp
<1>7. ASSUME NEW r \in Remotes, History!Removed(r) PROVE HistoryLists' /\ HistoryOp'
  <2>1. j.at = "idle" /\ i' = History!Revised(i) /\ b' = b \ {r} /\ c' = c \ {r} /\ UNCHANGED <<e, f, g, h, j, k>>
    BY <1>7 DEF History!Removed, History!NoStateTransaction, History!Kept, History!changeOthers
  <2> QED
    BY <1>1, <2>1, RevisedKeeps DEF HistoryOp
<1>8. CASE History!Outside
  <2>1. UNCHANGED <<b, c, e, f, g, h, i, j, k>>
    BY <1>8 DEF History!Outside, History!Kept
  <2> QED
    BY <1>1, <2>1, SameListsKeep DEF HistoryOp
<1>9. CASE History!Stop
  <2>1. f' = f + 1 /\ g' = {} /\ c' = {} /\ k' = FALSE /\ UNCHANGED <<b, e, h, i, j>>
    BY <1>9 DEF History!Stop, History!Cleared, History!changeOthers
  <2>2. f' \in Nat /\ f' >= f /\ DOMAIN i = Lists
    BY <1>1, <2>1 DEF HistoryLists
  <2>3. HistoryLists'
    BY <1>1, <2>1, <2>2, ListsKeep DEF Numbered
  <2> QED
    BY <1>1, <2>1, <2>3 DEF HistoryOp
<1>10. ASSUME NEW x \in g, History!Expires(x) PROVE HistoryLists' /\ HistoryOp'
  <2>1. g' \subseteq g /\ UNCHANGED <<b, c, e, f, h, i, j, k>>
    BY <1>10 DEF History!Expires
  <2> QED
    BY <1>1, <2>1, SameListsKeep, OpKeeps DEF HistoryOp
<1> QED
  BY <1>3, <1>4, <1>5, <1>6, <1>7, <1>8, <1>9, <1>10

LEMMA HistoryStep == HistoryInv /\ (History!Next \/ UNCHANGED <<b, c, e, f, g, h, i, j, k>>) => HistoryInv'
<1> SUFFICES ASSUME HistoryInv, History!Next \/ UNCHANGED <<b, c, e, f, g, h, i, j, k>> PROVE HistoryInv'
  OBVIOUS
<1>1. History!OneGeneration'
  BY HistoryTokens DEF HistoryInv
<1>2. CASE UNCHANGED <<b, c, e, f, g, h, i, j, k>>
  BY <1>1, <1>2, SameListsKeep DEF HistoryInv, HistoryOp
<1>3. CASE History!Next
  BY <1>1, <1>3, ListingKeeps, MutatingKeeps, MeanwhileKeeps DEF HistoryInv, History!Next
<1> QED
  BY <1>2, <1>3

LEMMA HistorySafe == HistoryInv => History!DeletesUnboundOnly /\ History!OpenIsWhole
BY DEF HistoryInv, HistoryOp, History!DeletesUnboundOnly, History!OpenIsWhole, History!R, History!Known

LEMMA HistoryDecides == HistoryInv /\ (History!Next \/ UNCHANGED j) => History!DeletesListed
<1> SUFFICES ASSUME HistoryInv, History!Next, j.at # "deleting", j'.at = "deleting"
             PROVE  \E x \in g : x.token = j.token /\ x.token \in h /\ x.context = e /\ x.world = d
  BY DEF History!DeletesListed
<1>1. DOMAIN j = DOMAIN History!NoOp /\ (j.at # "idle" => j.token \in h /\ j.context = e)
  BY DEF HistoryInv, HistoryOp
<1>2. \A step : History!Goes(step) => j'.at = step
  BY <1>1 DEF History!Goes, History!NoOp
<1>3. CASE History!Consumes
  BY <1>1, <1>3 DEF History!Consumes, History!Resolvable
<1>4. CASE History!Mutating /\ ~History!Consumes
  <2>2. \A kind, token : History!Acquires(kind, token) => j'.at = "capturing"
    BY DEF History!Acquires, History!Pending, History!NoOp
  <2>3. History!Captured => j'.at = "resolving"
    BY <1>1 DEF History!Captured, History!NoOp
  <2>4. History!NoOp.at = "idle"
    BY DEF History!NoOp
  <2> QED
    BY <1>2, <1>4, <2>2, <2>3, <2>4
       DEF History!Mutating, History!Refused, History!Resolved, History!Selects, History!WorkerStarted,
           History!Inserts, History!Saved, History!Fails, History!Undone, History!Confirmed, History!Rechecked, History!CliDeletes
<1>5. CASE ~History!Mutating
  <2>1. j' = j \/ j' = [j EXCEPT !.stable = FALSE]
    BY <1>5
       DEF History!Next, History!Listing, History!ListCaptures, History!ListBegins, History!ListBinds, History!ListHears, History!ListEnds,
           History!listOthers, History!Changed, History!Selected, History!ConnectionBegins, History!Outside, History!Stop,
           History!ConnectionEnds, History!Removed, History!Expires
  <2> QED
    BY <1>1, <2>1 DEF History!NoOp
<1> QED
  BY <1>3, <1>4, <1>5

-----------------------------------------------------------------------------
(* The catalog of agents: the tokens are those of what is cached.          *)

LEMMA SameSizes ==
  \A S : /\ Catalog!IsFiniteSet(S) <=> IsFiniteSet(S)
         /\ Catalog!Cardinality(S) = Cardinality(S)
BY DEF Catalog!IsFiniteSet, IsFiniteSet, Catalog!Cardinality, Cardinality

\* The calls of the catalog's list: one that is over stays over.
ListsKnown == DOMAIN g = Lists /\ \A q \in Lists : "at" \in DOMAIN g[q]
ListsGoOn == ListsKnown' /\ \A q \in Lists : g[q].at = "over" => g'[q].at = "over"

\* The catalogs that are cached were made by lists that are over, each by its own.
MadeByLists == \A x \in d : x.by \in Lists /\ g[x.by].at = "over" /\ \A y \in d : y.by = x.by => y = x

CatalogInv == Catalog!CacheIsSound /\ IsFiniteSet(e) /\ ListsKnown /\ MadeByLists

LEMMA CatalogInit == Catalog!Init => CatalogInv
<1> SUFFICES ASSUME Catalog!Init PROVE CatalogInv
  OBVIOUS
<1>1. d = {} /\ e = {} /\ g = [q \in Lists |-> Catalog!NoList]
  BY DEF Catalog!Init
<1>2. IsFiniteSet(e) /\ Cardinality(e) = 0
  BY <1>1, FS_EmptySet
<1>3. ListsKnown
  BY <1>1 DEF ListsKnown, Catalog!NoList
<1> QED
  BY <1>1, <1>2, <1>3, SameSizes, CatalogAssumption DEF CatalogInv, MadeByLists, Catalog!CacheIsSound

LEMMA SetListKeeps ==
  ASSUME NEW q \in Lists, NEW new, Catalog!SetList(q, new), ListsKnown, g[q].at # "over", "at" \in DOMAIN new
  PROVE  ListsGoOn
BY DEF Catalog!SetList, ListsKnown, ListsGoOn

LEMMA GoesKeeps ==
  ASSUME NEW q \in Lists, NEW step, Catalog!Goes(q, step), ListsKnown, g[q].at # "over"
  PROVE  ListsGoOn
BY SetListKeeps DEF Catalog!Goes, ListsKnown

\* The tokens of some of the cached catalogs.
LEMMA TokensOfSome ==
  ASSUME CatalogInv, NEW cs \in SUBSET d
  PROVE  /\ Catalog!TokensOf(cs) = {[by |-> x.by, agent |-> y] : x \in cs, y \in Agents}
         /\ e \ Catalog!TokensOf(cs) = {[by |-> x.by, agent |-> y] : x \in d \ cs, y \in Agents}
<1>1. e = {[by |-> x.by, agent |-> y] : x \in d, y \in Agents}
  BY DEF CatalogInv, Catalog!CacheIsSound
<1>2. \A x, y \in d : y.by = x.by => y = x
  BY DEF CatalogInv, MadeByLists
<1>3. ASSUME NEW t \in e PROVE t \in Catalog!TokensOf(cs) <=> t \in {[by |-> x.by, agent |-> y] : x \in cs, y \in Agents}
  <2>1. PICK x \in d, y \in Agents : t = [by |-> x.by, agent |-> y]
    BY <1>1
  <2>2. t \in Catalog!TokensOf(cs) <=> \E z \in cs : z.by = t.by
    BY DEF Catalog!TokensOf
  <2>3. t.by = x.by
    BY <2>1
  <2>4. \A z \in cs : z.by = t.by => z = x
    BY <1>2, <2>3
  <2>5. ASSUME t \in {[by |-> z.by, agent |-> v] : z \in cs, v \in Agents} PROVE \E z \in cs : z.by = t.by
    <3>1. PICK z \in cs, v \in Agents : t = [by |-> z.by, agent |-> v]
      BY <2>5
    <3> QED
      BY <3>1
  <2>6. ASSUME x \in cs PROVE t \in {[by |-> z.by, agent |-> v] : z \in cs, v \in Agents}
    BY <2>1, <2>6
  <2> QED
    BY <2>2, <2>3, <2>4, <2>5, <2>6
<1>4. Catalog!TokensOf(cs) \subseteq e
  BY DEF Catalog!TokensOf
<1>5. {[by |-> x.by, agent |-> y] : x \in cs, y \in Agents} \subseteq e
  BY <1>1
<1>6. Catalog!TokensOf(cs) = {[by |-> x.by, agent |-> y] : x \in cs, y \in Agents}
  BY <1>3, <1>4, <1>5
<1>7. ASSUME NEW t \in e \ Catalog!TokensOf(cs) PROVE t \in {[by |-> x.by, agent |-> y] : x \in d \ cs, y \in Agents}
  BY <1>1, <1>6, <1>7
<1>8. ASSUME NEW x \in d \ cs, NEW y \in Agents PROVE [by |-> x.by, agent |-> y] \in e \ Catalog!TokensOf(cs)
  BY <1>1, <1>2 DEF Catalog!TokensOf
<1>9. e \ Catalog!TokensOf(cs) = {[by |-> x.by, agent |-> y] : x \in d \ cs, y \in Agents}
  <2>1. e \ Catalog!TokensOf(cs) \subseteq {[by |-> x.by, agent |-> y] : x \in d \ cs, y \in Agents}
    BY <1>7
  <2>2. {[by |-> x.by, agent |-> y] : x \in d \ cs, y \in Agents} \subseteq e \ Catalog!TokensOf(cs)
    BY <1>8
  <2> QED
    BY <2>1, <2>2
<1> QED
  BY <1>6, <1>9

LEMMA WithoutKeeps ==
  ASSUME CatalogInv, ListsGoOn, NEW cs \in SUBSET d, Catalog!Without(cs), UNCHANGED c
  PROVE  CatalogInv'
<1>1. d' = d \ cs /\ e' = {[by |-> x.by, agent |-> y] : x \in d', y \in Agents} /\ e' \subseteq e
  BY TokensOfSome DEF Catalog!Without
<1>2. IsFiniteSet(e') /\ Cardinality(e') <= Cardinality(e)
  BY <1>1, FS_Subset DEF CatalogInv
<1>3. Cardinality(e) \in Nat /\ Cardinality(e') \in Nat /\ Cardinality(e) <= CatalogLimit
  BY <1>2, FS_CardinalityType, SameSizes DEF CatalogInv, Catalog!CacheIsSound
<1>4. Cardinality(e') <= CatalogLimit
  BY <1>2, <1>3, CatalogAssumption
<1>5. \A x \in d' : x.generation = c' /\ \A y \in d' : y.key = x.key => y = x
  BY <1>1 DEF CatalogInv, Catalog!CacheIsSound
<1>6. MadeByLists'
  BY <1>1 DEF CatalogInv, MadeByLists, ListsGoOn
<1> QED
  BY <1>1, <1>2, <1>4, <1>5, <1>6, SameSizes DEF CatalogInv, Catalog!CacheIsSound, ListsGoOn

LEMMA SameCacheKeeps ==
  ASSUME CatalogInv, ListsGoOn, UNCHANGED <<c, d, e>>
  PROVE  CatalogInv'
BY SameSizes DEF CatalogInv, Catalog!CacheIsSound, MadeByLists, ListsGoOn

\* makeCapacity: what is kept and the new entries together are within the limit.
LEMMA CommitKeeps ==
  ASSUME CatalogInv, NEW q \in Lists, Catalog!Commits(q)
  PROVE  CatalogInv'
<1> DEFINE kept == d \ Catalog!CatalogOf(g[q].key)
           added == {[by |-> q, agent |-> y] : y \in Agents}
<1>1. PICK gone \in SUBSET kept :
        /\ Catalog!Evicted(gone, kept)
        /\ d' = (kept \ gone) \union {Catalog!New(q)}
        /\ e' = Catalog!TokensOf(kept \ gone) \union added
  BY DEF Catalog!Commits
<1> DEFINE stays == kept \ gone
           new == Catalog!New(q)
<1>2. g[q].at = "bound again" /\ Catalog!Goes(q, "over") /\ UNCHANGED c /\ g[q].generation = c
  BY DEF Catalog!Commits, Catalog!Current
<1>3. ListsGoOn
  BY <1>2, GoesKeeps DEF CatalogInv
<1>4. g'[q].at = "over"
  BY <1>2 DEF Catalog!Goes, Catalog!SetList, CatalogInv, ListsKnown
<1>5. new.by = q /\ new.generation = c /\ new.key = g[q].key
  BY <1>2 DEF Catalog!New
<1>6. stays \subseteq d /\ \A x \in stays : x.by # q /\ x.key # g[q].key
  BY <1>2 DEF Catalog!CatalogOf, CatalogInv, MadeByLists
<1>7. Catalog!TokensOf(stays) = {[by |-> x.by, agent |-> y] : x \in stays, y \in Agents}
  BY <1>6, TokensOfSome
<1>8. d' = stays \union {new} /\ e' = Catalog!TokensOf(stays) \union added
  BY <1>1
<1> HIDE DEF new, stays
<1>9. e' = {[by |-> x.by, agent |-> y] : x \in d', y \in Agents}
  BY <1>5, <1>7, <1>8
<1>10. IsFiniteSet(Catalog!TokensOf(stays))
  BY FS_Subset DEF CatalogInv, Catalog!TokensOf
<1>11. IsFiniteSet(added) /\ Cardinality(added) <= Cardinality(Agents)
  <2> DEFINE name == [y \in Agents |-> [by |-> q, agent |-> y]]
  <2>1. name \in Surjection(Agents, added)
    BY DEF Surjection
  <2> QED
    BY <2>1, FS_Surjection, CatalogAssumption
<1>12. IsFiniteSet(e') /\ Cardinality(e') <= CatalogLimit
  <2>1. Cardinality(Catalog!TokensOf(stays)) + Cardinality(Agents) <= CatalogLimit
    BY <1>1, SameSizes DEF Catalog!Evicted, stays
  <2>2. /\ IsFiniteSet(e')
        /\ Cardinality(e') = Cardinality(Catalog!TokensOf(stays)) + Cardinality(added) - Cardinality(Catalog!TokensOf(stays) \cap added)
    BY <1>8, <1>10, <1>11, FS_Union
  <2>3. Cardinality(Catalog!TokensOf(stays)) \in Nat /\ Cardinality(added) \in Nat /\ Cardinality(Agents) \in Nat
    BY <1>10, <1>11, FS_CardinalityType, CatalogAssumption
  <2>4. Cardinality(Catalog!TokensOf(stays) \cap added) \in Nat
    BY <1>10, FS_Intersection, FS_CardinalityType
  <2> QED
    BY <1>11, <2>1, <2>2, <2>3, <2>4, CatalogAssumption
<1>13. \A x \in d' : x.generation = c' /\ \A y \in d' : y.key = x.key => y = x
  BY <1>2, <1>5, <1>6, <1>8 DEF CatalogInv, Catalog!CacheIsSound
<1>14. MadeByLists'
  BY <1>3, <1>4, <1>5, <1>6, <1>8 DEF CatalogInv, MadeByLists, ListsGoOn
<1> QED
  BY <1>3, <1>9, <1>12, <1>13, <1>14, SameSizes DEF CatalogInv, Catalog!CacheIsSound, ListsGoOn

LEMMA CatalogStep == CatalogInv /\ (Catalog!Next \/ UNCHANGED <<c, d, e, g>>) => CatalogInv'
<1> SUFFICES ASSUME CatalogInv, Catalog!Next \/ UNCHANGED <<c, d, e, g>> PROVE CatalogInv'
  OBVIOUS
<1>1. ListsKnown
  BY DEF CatalogInv
<1>2. ASSUME UNCHANGED g PROVE ListsGoOn
  BY <1>1, <1>2 DEF ListsKnown, ListsGoOn
<1>3. ASSUME NEW q \in Lists, NEW key, g[q].at # "over", Catalog!Joins(q, key) PROVE ListsGoOn
  BY <1>1, <1>3, SetListKeeps DEF Catalog!Joins, ListsKnown
<1>4. ASSUME NEW q \in Lists, NEW w \in Workspaces, Catalog!ListBegins(q, w) PROVE CatalogInv'
  <2>1. ListsGoOn
    BY <1>1, <1>4, SetListKeeps DEF Catalog!ListBegins, Catalog!NoList
  <2> QED
    BY <1>4, <2>1, SameCacheKeeps DEF Catalog!ListBegins, Catalog!cacheVars
<1>5. ASSUME NEW q \in Lists, Catalog!ListBinds(q) PROVE CatalogInv'
  <2>1. ListsGoOn
    BY <1>1, <1>3, <1>5, SetListKeeps DEF Catalog!ListBinds, ListsKnown
  <2> QED
    BY <1>5, <2>1, SameCacheKeeps DEF Catalog!ListBinds, Catalog!cacheVars
<1>6. ASSUME NEW q \in Lists, Catalog!ListAnswersCached(q) PROVE CatalogInv'
  <2> DEFINE same == {x \in Catalog!CatalogOf(g[q].key) : x.by = g[q].cached}
  <2>1. ListsGoOn
    BY <1>1, <1>3, <1>6, GoesKeeps DEF Catalog!ListAnswersCached
  <2>2. UNCHANGED <<c, d, e>> \/ (Catalog!Without(same) /\ UNCHANGED c)
    BY <1>6 DEF Catalog!ListAnswersCached, Catalog!cacheVars
  <2>3. same \in SUBSET d
    BY DEF Catalog!CatalogOf
  <2> QED
    BY <2>1, <2>2, <2>3, SameCacheKeeps, WithoutKeeps
<1>7. ASSUME NEW q \in Lists, Catalog!JoinedEnds(q) \/ Catalog!FirstChecked(q) \/ Catalog!ListFails(q) PROVE CatalogInv'
  <2>1. ListsGoOn
    BY <1>1, <1>7, GoesKeeps DEF Catalog!JoinedEnds, Catalog!FirstChecked, Catalog!ListFails
  <2> QED
    BY <1>7, <2>1, SameCacheKeeps DEF Catalog!JoinedEnds, Catalog!FirstChecked, Catalog!ListFails, Catalog!cacheVars
<1>8. ASSUME NEW q \in Lists, NEW step, NEW which, NEW next, step # "over",
             Catalog!Inspects(q, step, which, next) \/ Catalog!BindsSources(q, step, which, next)
      PROVE  CatalogInv'
  <2>1. ListsGoOn
    BY <1>1, <1>8 DEF Catalog!Inspects, Catalog!BindsSources, ListsKnown, ListsGoOn
  <2> QED
    BY <1>8, <2>1, SameCacheKeeps DEF Catalog!Inspects, Catalog!BindsSources, Catalog!cacheVars
<1>9. ASSUME NEW r \in AgentResolves,
             \/ \E token \in e, w \in Workspaces : Catalog!ResolveBegins(r, token, w)
             \/ Catalog!ResolveBinds(r) \/ Catalog!ResolveCompares(r) \/ Catalog!ResolveInspects(r) \/ Catalog!ResolveRebinds(r)
             \/ Catalog!ResolveAnswers(r) \/ Catalog!ResolveFails(r)
      PROVE  CatalogInv'
  <2>1. UNCHANGED <<c, d, e, g>>
    BY <1>9 DEF Catalog!ResolveBegins, Catalog!ResolveBinds, Catalog!ResolveCompares, Catalog!ResolveInspects, Catalog!ResolveRebinds,
           Catalog!ResolveAnswers, Catalog!ResolveFails, Catalog!resolveOthers, Catalog!cacheVars
  <2> QED
    BY <1>2, <2>1, SameCacheKeeps
<1>10. CASE Catalog!Clear
  <2>1. d' = {} /\ e' = {} /\ UNCHANGED g
    BY <1>10 DEF Catalog!Clear
  <2>2. IsFiniteSet(e') /\ Cardinality(e') = 0
    BY <2>1, FS_EmptySet
  <2> QED
    BY <1>1, <2>1, <2>2, SameSizes, CatalogAssumption DEF CatalogInv, Catalog!CacheIsSound, MadeByLists, ListsKnown
<1>11. ASSUME NEW x \in d, Catalog!Expires(x) PROVE CatalogInv'
  <2>1. Catalog!Without({x}) /\ UNCHANGED <<c, g>>
    BY <1>11 DEF Catalog!Expires
  <2> QED
    BY <1>2, <2>1, WithoutKeeps
<1>12. CASE Catalog!Outside \/ UNCHANGED <<c, d, e, g>>
  BY <1>2, <1>12, SameCacheKeeps DEF Catalog!Outside, Catalog!cacheVars
<1> QED
  BY <1>4, <1>5, <1>6, <1>7, <1>8, <1>9, <1>10, <1>11, <1>12, CommitKeeps DEF Catalog!Next

-----------------------------------------------------------------------------
(* The catalog of agents: what the two inspections of a list have read.    *)

Revisions == [Agents -> Nat]
Definitions == [desc : Revisions, rev : Revisions]
Before(x, y) == \A v \in Agents : x[v] <= y[v]

\* A list reads the descriptions and the revisions in turn, twice, while the sources go on.
ReadInOrder(call, now) ==
  /\ DOMAIN call = DOMAIN Catalog!NoList /\ call.first \in Definitions /\ call.second \in Definitions
  /\ call.at = "inspected" => Before(call.first.desc, now)
  /\ call.at \in {"bound", "inspecting again"} => Before(call.first.desc, call.first.rev) /\ Before(call.first.rev, now)
  /\ call.at \in {"inspected again", "bound again"} =>
       Before(call.first.desc, call.first.rev) /\ Before(call.first.rev, call.second.desc)
  /\ call.at = "inspected again" => Before(call.second.desc, now)
  /\ call.at = "bound again" => Before(call.second.desc, call.second.rev)

\* What is cached is what its list has read last, and what is resolved is of what is cached.
OfItsList(x) == x.by \in Lists /\ g[x.by].at = "over" /\ x.defs = g[x.by].second /\ x.defs.desc = x.defs.rev
OfItsToken(call) ==
  /\ DOMAIN call = DOMAIN Catalog!NoResolve
  /\ call.at # "idle" => /\ call.token.by \in Lists /\ g[call.token.by].at = "over" /\ call.token.agent \in Agents
                         /\ call.rev = g[call.token.by].second.rev[call.token.agent]

DefinitionsInv ==
  /\ b \in Revisions /\ DOMAIN g = Lists /\ DOMAIN h = AgentResolves
  /\ \A q \in Lists : ReadInOrder(g[q], b)
  /\ \A x \in d : OfItsList(x)
  /\ \A r \in AgentResolves : OfItsToken(h[r])

LEMMA Ordered ==
  /\ \A x \in Revisions : Before(x, x)
  /\ \A x, y, z \in Revisions : Before(x, y) /\ Before(y, z) => Before(x, z)
  /\ \A x, y \in Revisions : Before(x, y) /\ Before(y, x) => x = y
<1>1. \A x \in Revisions, v \in Agents : x[v] \in Nat
  BY DEF Revisions
<1>2. \A x \in Revisions : Before(x, x)
  BY <1>1 DEF Before
<1>3. ASSUME NEW x \in Revisions, NEW y \in Revisions, NEW z \in Revisions, Before(x, y), Before(y, z) PROVE Before(x, z)
  <2>1. ASSUME NEW v \in Agents PROVE x[v] <= z[v]
    <3>1. x[v] \in Nat /\ y[v] \in Nat /\ z[v] \in Nat /\ x[v] <= y[v] /\ y[v] <= z[v]
      BY <1>1, <1>3 DEF Before
    <3> QED
      BY <3>1
  <2> QED
    BY <2>1 DEF Before
<1>4. ASSUME NEW x \in Revisions, NEW y \in Revisions, Before(x, y), Before(y, x) PROVE x = y
  <2>1. ASSUME NEW v \in Agents PROVE x[v] = y[v]
    <3>1. x[v] \in Nat /\ y[v] \in Nat /\ x[v] <= y[v] /\ y[v] <= x[v]
      BY <1>1, <1>4 DEF Before
    <3> QED
      BY <3>1
  <2> QED
    BY <2>1 DEF Revisions
<1> QED
  BY <1>2, <1>3, <1>4

LEMMA DefinitionsInit == Catalog!Init => DefinitionsInv
<1> SUFFICES ASSUME Catalog!Init PROVE DefinitionsInv
  OBVIOUS
<1>1. b \in Revisions /\ g = [q \in Lists |-> Catalog!NoList] /\ d = {} /\ h = [r \in AgentResolves |-> Catalog!NoResolve]
  BY DEF Catalog!Init, Revisions
<1>2. Catalog!NoDefs \in Definitions
  BY DEF Catalog!NoDefs, Definitions, Revisions
<1>3. Catalog!NoList.at = "idle" /\ Catalog!NoList.first = Catalog!NoDefs /\ Catalog!NoList.second = Catalog!NoDefs
  BY DEF Catalog!NoList
<1>4. Catalog!NoResolve.at = "idle"
  BY DEF Catalog!NoResolve
<1> QED
  BY <1>1, <1>2, <1>3, <1>4 DEF DefinitionsInv, ReadInOrder, OfItsToken

\* A step of one list that is not over.
LEMMA ListReads ==
  ASSUME DefinitionsInv, NEW q \in Lists, g[q].at # "over", NEW new, ReadInOrder(new, b), Catalog!SetList(q, new),
         d' \subseteq d, UNCHANGED <<b, h>>
  PROVE  DefinitionsInv'
<1>1. g' = [g EXCEPT ![q] = new] /\ DOMAIN g = Lists
  BY DEF Catalog!SetList, DefinitionsInv
<1>2. \A x \in Lists : g'[x] = IF x = q THEN new ELSE g[x]
  BY <1>1
<1>3. \A x \in Lists : g[x].at = "over" => g'[x] = g[x]
  BY <1>2
<1>4. \A x \in Lists : ReadInOrder(g'[x], b')
  BY <1>2 DEF DefinitionsInv
<1>5. \A x \in d' : OfItsList(x)'
  BY <1>3 DEF DefinitionsInv, OfItsList
<1>6. \A r \in AgentResolves : OfItsToken(h[r])'
  BY <1>3 DEF DefinitionsInv, OfItsToken
<1> QED
  BY <1>1, <1>4, <1>5, <1>6 DEF DefinitionsInv

LEMMA ListGoes ==
  ASSUME NEW call, NEW step, NEW now, ReadInOrder(call, now),
         step \in {"binding", "cached", "joined", "inspecting", "over"} \/ (call.at = "bound" /\ step = "inspecting again")
  PROVE  ReadInOrder([call EXCEPT !.at = step], now)
BY DEF ReadInOrder, Catalog!NoList

LEMMA JoinsReads ==
  ASSUME DefinitionsInv, NEW q \in Lists, NEW key, Catalog!Joins(q, key)
  PROVE  \E new : ReadInOrder(new, b) /\ Catalog!SetList(q, new)
<1>1. ReadInOrder(g[q], b)
  BY DEF DefinitionsInv
<1>2. ReadInOrder([g[q] EXCEPT !.at = "joined", !.key = key, !.cached = f[key]], b)
  BY <1>1 DEF ReadInOrder, Catalog!NoList
<1>3. ReadInOrder([g[q] EXCEPT !.at = "inspecting", !.key = key], b)
  BY <1>1 DEF ReadInOrder, Catalog!NoList
<1> QED
  BY <1>2, <1>3 DEF Catalog!Joins

LEMMA InspectsReads ==
  ASSUME DefinitionsInv, NEW q \in Lists,
         Catalog!Inspects(q, "inspecting", "first", "inspected") \/ Catalog!BindsSources(q, "inspected", "first", "bound")
         \/ Catalog!Inspects(q, "inspecting again", "second", "inspected again")
         \/ Catalog!BindsSources(q, "inspected again", "second", "bound again")
  PROVE  DefinitionsInv'
<1> DEFINE call == g[q]
<1>1. ReadInOrder(call, b) /\ b \in Revisions /\ DOMAIN g = Lists /\ UNCHANGED <<b, d, h>>
  BY DEF DefinitionsInv, Catalog!Inspects, Catalog!BindsSources, Catalog!cacheVars, Catalog!worldVars
<1>2. call.first \in Definitions /\ call.second \in Definitions /\ DOMAIN call = DOMAIN Catalog!NoList
  BY <1>1 DEF ReadInOrder
<1>3. \A defs \in Definitions : [defs EXCEPT !.desc = b] \in Definitions /\ [defs EXCEPT !.rev = b] \in Definitions
  BY <1>1 DEF Definitions
<1>4. \A defs \in Definitions : /\ [defs EXCEPT !.desc = b].desc = b /\ [defs EXCEPT !.desc = b].rev = defs.rev
                                /\ [defs EXCEPT !.rev = b].rev = b /\ [defs EXCEPT !.rev = b].desc = defs.desc
                                /\ defs.desc \in Revisions /\ defs.rev \in Revisions
  BY DEF Definitions
<1>7. CASE Catalog!Inspects(q, "inspecting", "first", "inspected")
  <2> DEFINE defs == [call.first EXCEPT !.desc = b]
             new == [call EXCEPT !.at = "inspected", !.first = defs]
  <2>5. defs \in Definitions /\ defs.desc = b
    BY <1>2, <1>3, <1>4
  <2>1. Catalog!SetList(q, new) /\ g[q].at # "over"
    BY <1>7, <1>1 DEF Catalog!Inspects, Catalog!SetList, Catalog!Described
  <2> HIDE DEF defs
  <2>3. /\ DOMAIN new = DOMAIN Catalog!NoList /\ new.at = "inspected" /\ new.first \in Definitions /\ new.second \in Definitions
        /\ new.first.desc = b
    BY <1>2, <2>5 DEF Catalog!NoList
  <2>4. ReadInOrder(call, b) /\ Before(b, b)
    BY <1>1, Ordered
  <2> HIDE DEF new
  <2>2. ReadInOrder(new, b)
    BY <2>3, <2>4 DEF ReadInOrder
  <2> QED
    BY <1>1, <2>1, <2>2, ListReads
<1>8. CASE Catalog!BindsSources(q, "inspected", "first", "bound")
  <2> DEFINE defs == [call.first EXCEPT !.rev = b]
             new == [call EXCEPT !.at = "bound", !.first = defs]
  <2>5. defs \in Definitions /\ defs.rev = b /\ defs.desc = call.first.desc
    BY <1>2, <1>3, <1>4
  <2>1. Catalog!SetList(q, new) /\ g[q].at # "over" /\ call.at = "inspected"
    BY <1>8, <1>1 DEF Catalog!BindsSources, Catalog!SetList
  <2> HIDE DEF defs
  <2>3. /\ DOMAIN new = DOMAIN Catalog!NoList /\ new.at = "bound" /\ new.first \in Definitions /\ new.second \in Definitions
        /\ new.first.rev = b /\ new.first.desc = call.first.desc
    BY <1>2, <2>5 DEF Catalog!NoList
  <2>4. ReadInOrder(call, b) /\ Before(b, b)
    BY <1>1, Ordered
  <2> HIDE DEF new
  <2>2. ReadInOrder(new, b)
    BY <2>1, <2>3, <2>4 DEF ReadInOrder
  <2> QED
    BY <1>1, <2>1, <2>2, ListReads
<1>9. CASE Catalog!Inspects(q, "inspecting again", "second", "inspected again")
  <2> DEFINE defs == [call.second EXCEPT !.desc = b]
             new == [call EXCEPT !.at = "inspected again", !.second = defs]
  <2>5. defs \in Definitions /\ defs.desc = b
    BY <1>2, <1>3, <1>4
  <2>1. Catalog!SetList(q, new) /\ g[q].at # "over" /\ call.at = "inspecting again"
    BY <1>9, <1>1 DEF Catalog!Inspects, Catalog!SetList, Catalog!Described
  <2> HIDE DEF defs
  <2>3. /\ DOMAIN new = DOMAIN Catalog!NoList /\ new.at = "inspected again" /\ new.first \in Definitions /\ new.second \in Definitions
        /\ new.first = call.first /\ new.second.desc = b
    BY <1>2, <2>5 DEF Catalog!NoList
  <2>4. ReadInOrder(call, b) /\ Before(b, b)
    BY <1>1, Ordered
  <2> HIDE DEF new
  <2>2. ReadInOrder(new, b)
    BY <2>1, <2>3, <2>4 DEF ReadInOrder
  <2> QED
    BY <1>1, <2>1, <2>2, ListReads
<1>10. CASE Catalog!BindsSources(q, "inspected again", "second", "bound again")
  <2> DEFINE defs == [call.second EXCEPT !.rev = b]
             new == [call EXCEPT !.at = "bound again", !.second = defs]
  <2>5. defs \in Definitions /\ defs.rev = b /\ defs.desc = call.second.desc
    BY <1>2, <1>3, <1>4
  <2>1. Catalog!SetList(q, new) /\ g[q].at # "over" /\ call.at = "inspected again"
    BY <1>10, <1>1 DEF Catalog!BindsSources, Catalog!SetList
  <2> HIDE DEF defs
  <2>3. /\ DOMAIN new = DOMAIN Catalog!NoList /\ new.at = "bound again" /\ new.first \in Definitions /\ new.second \in Definitions
        /\ new.first = call.first /\ new.second.rev = b /\ new.second.desc = call.second.desc
    BY <1>2, <2>5 DEF Catalog!NoList
  <2>4. ReadInOrder(call, b) /\ Before(b, b)
    BY <1>1, Ordered
  <2> HIDE DEF new
  <2>2. ReadInOrder(new, b)
    BY <2>1, <2>3, <2>4 DEF ReadInOrder
  <2> QED
    BY <1>1, <2>1, <2>2, ListReads
<1> QED
  BY <1>7, <1>8, <1>9, <1>10

\* Two inspections that agree have read one definition of every agent.
LEMMA CommitReads ==
  ASSUME DefinitionsInv, NEW q \in Lists, Catalog!Commits(q)
  PROVE  DefinitionsInv'
<1>1. ReadInOrder(g[q], b) /\ DOMAIN g = Lists /\ g[q].at = "bound again" /\ g[q].first = g[q].second
  BY DEF DefinitionsInv, Catalog!Commits, Catalog!SameDefinitions
<1>2. g[q].second.desc = g[q].second.rev
  <2>1. g[q].second.desc \in Revisions /\ g[q].second.rev \in Revisions
    BY <1>1 DEF ReadInOrder, Definitions
  <2>2. Before(g[q].second.desc, g[q].second.rev) /\ Before(g[q].second.rev, g[q].second.desc)
    BY <1>1 DEF ReadInOrder
  <2> QED
    BY <2>1, <2>2, Ordered
<1> DEFINE over == [g[q] EXCEPT !.at = "over"]
<1>3. g' = [g EXCEPT ![q] = over] /\ UNCHANGED <<b, h>> /\ d' \subseteq d \union {Catalog!New(q)}
  BY DEF Catalog!Commits, Catalog!Goes, Catalog!SetList, Catalog!worldVars
<1>4. ReadInOrder(over, b) /\ over.at = "over" /\ over.second = g[q].second
  BY <1>1, ListGoes DEF ReadInOrder, Catalog!NoList
<1> HIDE DEF over
<1>5. \A x \in Lists : g'[x] = IF x = q THEN over ELSE g[x]
  BY <1>1, <1>3
<1>6. \A x \in Lists : ReadInOrder(g'[x], b')
  BY <1>3, <1>4, <1>5 DEF DefinitionsInv
<1>7. \A x \in Lists : g[x].at = "over" => g'[x] = g[x]
  BY <1>1, <1>5
<1>8. ASSUME NEW x \in d' PROVE OfItsList(x)'
  <2>1. CASE x \in d
    BY <1>7, <2>1 DEF DefinitionsInv, OfItsList
  <2>2. CASE x = Catalog!New(q)
    <3>1. x.by = q /\ x.defs = g[q].second
      BY <2>2 DEF Catalog!New
    <3> QED
      BY <1>2, <1>4, <1>5, <3>1 DEF OfItsList
  <2> QED
    BY <1>3, <2>1, <2>2
<1>9. \A r \in AgentResolves : OfItsToken(h[r])'
  BY <1>3, <1>7 DEF DefinitionsInv, OfItsToken
<1> QED
  BY <1>1, <1>3, <1>6, <1>8, <1>9 DEF DefinitionsInv

LEMMA ResolveReads ==
  ASSUME DefinitionsInv, CatalogInv, NEW r \in AgentResolves,
         \/ \E token \in e, w \in Workspaces : Catalog!ResolveBegins(r, token, w)
         \/ Catalog!ResolveBinds(r) \/ Catalog!ResolveCompares(r) \/ Catalog!ResolveInspects(r) \/ Catalog!ResolveRebinds(r)
         \/ Catalog!ResolveAnswers(r) \/ Catalog!ResolveFails(r)
  PROVE  DefinitionsInv'
<1>1. UNCHANGED <<b, d, g>>
  BY DEF Catalog!ResolveBegins, Catalog!ResolveBinds, Catalog!ResolveCompares, Catalog!ResolveInspects, Catalog!ResolveRebinds,
         Catalog!ResolveAnswers, Catalog!ResolveFails, Catalog!resolveOthers, Catalog!cacheVars, Catalog!worldVars
<1>2. ASSUME NEW new, Catalog!SetResolve(r, new), OfItsToken(new) PROVE DefinitionsInv'
  BY <1>1, <1>2 DEF DefinitionsInv, OfItsToken, OfItsList, Catalog!SetResolve
<1>3. ASSUME NEW token \in e, NEW w \in Workspaces, Catalog!ResolveBegins(r, token, w) PROVE DefinitionsInv'
  <2>1. PICK x \in d : /\ x.by = token.by
                       /\ Catalog!SetResolve(r, [at |-> "binding", token |-> token, generation |-> c, key |-> [Catalog!NoKey EXCEPT !.workspace = w],
                            desc |-> x.defs.desc[token.agent], rev |-> x.defs.rev[token.agent]])
    BY <1>3 DEF Catalog!ResolveBegins
  <2>2. token.agent \in Agents
    BY DEF CatalogInv, Catalog!CacheIsSound
  <2>3. OfItsList(x)
    BY DEF DefinitionsInv
  <2> QED
    BY <1>2, <2>1, <2>2, <2>3 DEF OfItsList, OfItsToken, Catalog!NoResolve
<1>4. ASSUME NEW step, h[r].at # "idle", Catalog!SetResolve(r, [h[r] EXCEPT !.at = step]) PROVE DefinitionsInv'
  <2>1. OfItsToken(h[r])
    BY DEF DefinitionsInv
  <2>2. OfItsToken([h[r] EXCEPT !.at = step])
    BY <1>4, <2>1 DEF OfItsToken, Catalog!NoResolve
  <2> QED
    BY <1>2, <1>4, <2>2
<1>5. CASE Catalog!ResolveBinds(r)
  <2> DEFINE key == Catalog!Key(h[r].key.workspace)
  <2>1. h[r].at # "idle" /\ Catalog!SetResolve(r, [h[r] EXCEPT !.at = "comparing", !.key = key])
    BY <1>5 DEF Catalog!ResolveBinds
  <2>2. OfItsToken(h[r])
    BY DEF DefinitionsInv
  <2> HIDE DEF key
  <2>3. OfItsToken([h[r] EXCEPT !.at = "comparing", !.key = key])
    BY <2>1, <2>2 DEF OfItsToken, Catalog!NoResolve
  <2> QED
    BY <1>2, <2>1, <2>3
<1> QED
  BY <1>3, <1>4, <1>5 DEF Catalog!ResolveCompares, Catalog!ResolveInspects, Catalog!ResolveRebinds, Catalog!ResolveAnswers, Catalog!ResolveFails

LEMMA DefinitionsStep == DefinitionsInv /\ CatalogInv /\ (Catalog!Next \/ UNCHANGED <<b, d, g, h>>) => DefinitionsInv'
<1> SUFFICES ASSUME DefinitionsInv, CatalogInv, Catalog!Next \/ UNCHANGED <<b, d, g, h>> PROVE DefinitionsInv'
  OBVIOUS
<1>1. ASSUME d' \subseteq d, UNCHANGED <<b, g, h>> PROVE DefinitionsInv'
  BY <1>1 DEF DefinitionsInv, OfItsList, OfItsToken
<1>2. ASSUME NEW q \in Lists PROVE ReadInOrder(g[q], b)
  BY DEF DefinitionsInv
<1>3. ASSUME NEW q \in Lists, NEW step, Catalog!Goes(q, step), g[q].at # "over", d' \subseteq d, UNCHANGED <<b, h>>,
             step \in {"binding", "cached", "joined", "inspecting", "over"} \/ (g[q].at = "bound" /\ step = "inspecting again")
      PROVE  DefinitionsInv'
  BY <1>2, <1>3, ListReads, ListGoes DEF Catalog!Goes
<1>4. ASSUME NEW q \in Lists, NEW w \in Workspaces, Catalog!ListBegins(q, w) PROVE DefinitionsInv'
  <2> DEFINE new == [Catalog!NoList EXCEPT !.at = "binding", !.key.workspace = w, !.generation = c]
  <2>1. Catalog!NoDefs \in Definitions
    BY DEF Catalog!NoDefs, Definitions, Revisions
  <2>2. DOMAIN new = DOMAIN Catalog!NoList /\ new.at = "binding" /\ new.first = Catalog!NoDefs /\ new.second = Catalog!NoDefs
    BY DEF Catalog!NoList
  <2>3. ReadInOrder(new, b)
    BY <2>1, <2>2 DEF ReadInOrder
  <2>4. Catalog!SetList(q, new) /\ g[q].at # "over" /\ UNCHANGED <<b, d, h>>
    BY <1>4 DEF Catalog!ListBegins, Catalog!cacheVars, Catalog!worldVars
  <2> QED
    BY <2>3, <2>4, ListReads
<1>5. ASSUME NEW q \in Lists, Catalog!ListBinds(q) PROVE DefinitionsInv'
  <2> DEFINE key == Catalog!Key(g[q].key.workspace)
  <2>1. UNCHANGED <<b, d, h>> /\ g[q].at # "over"
    BY <1>5 DEF Catalog!ListBinds, Catalog!cacheVars, Catalog!worldVars
  <2>2. Catalog!Joins(q, key) \/ \E by : Catalog!SetList(q, [g[q] EXCEPT !.at = "cached", !.key = key, !.cached = by])
    BY <1>5 DEF Catalog!ListBinds
  <2>3. ASSUME NEW by PROVE ReadInOrder([g[q] EXCEPT !.at = "cached", !.key = key, !.cached = by], b)
    BY <1>2 DEF ReadInOrder, Catalog!NoList
  <2> QED
    BY <2>1, <2>2, <2>3, ListReads, JoinsReads
<1>6. ASSUME NEW q \in Lists, Catalog!ListAnswersCached(q) PROVE DefinitionsInv'
  <2>1. UNCHANGED <<b, h>> /\ d' \subseteq d /\ g[q].at # "over" /\ (Catalog!Goes(q, "over") \/ Catalog!Joins(q, g[q].key))
    BY <1>6 DEF Catalog!ListAnswersCached, Catalog!cacheVars, Catalog!worldVars, Catalog!Without
  <2> QED
    BY <1>3, <2>1, ListReads, JoinsReads
<1>7. ASSUME NEW q \in Lists, Catalog!JoinedEnds(q) \/ Catalog!FirstChecked(q) \/ Catalog!ListFails(q) PROVE DefinitionsInv'
  BY <1>3, <1>7 DEF Catalog!JoinedEnds, Catalog!FirstChecked, Catalog!ListFails, Catalog!cacheVars, Catalog!worldVars
<1>8. CASE Catalog!Clear
  BY <1>1, <1>8 DEF Catalog!Clear, Catalog!worldVars
<1>9. ASSUME NEW x \in d, Catalog!Expires(x) PROVE DefinitionsInv'
  BY <1>1, <1>9 DEF Catalog!Expires, Catalog!Without, Catalog!worldVars
<1>10. CASE Catalog!Outside
  <2>1. UNCHANGED <<d, g, h>> /\ b' \in Revisions /\ Before(b, b')
    BY <1>10 DEF Catalog!Outside, Catalog!cacheVars, DefinitionsInv, Revisions, Before
  <2>2. ASSUME NEW q \in Lists PROVE ReadInOrder(g[q], b')
    <3>1. ReadInOrder(g[q], b) /\ b \in Revisions
      BY DEF DefinitionsInv
    <3>2. \A x \in Revisions : Before(x, b) => Before(x, b')
      BY <2>1, <3>1, Ordered
    <3>3. /\ g[q].first.desc \in Revisions /\ g[q].first.rev \in Revisions /\ g[q].second.desc \in Revisions
      BY <3>1 DEF ReadInOrder, Definitions
    <3> QED
      BY <3>1, <3>2, <3>3 DEF ReadInOrder
  <2> QED
    BY <2>1, <2>2 DEF DefinitionsInv, OfItsList, OfItsToken
<1> QED
  BY <1>1, <1>4, <1>5, <1>6, <1>7, <1>8, <1>9, <1>10, InspectsReads, CommitReads, ResolveReads DEF Catalog!Next

LEMMA DefinitionsSafe == DefinitionsInv => Catalog!DefinitionsAreWhole
BY DEF DefinitionsInv, OfItsList, Catalog!DefinitionsAreWhole

LEMMA CatalogDecides == DefinitionsInv /\ (Catalog!Next \/ UNCHANGED h) => Catalog!AnswersShown
<1> SUFFICES ASSUME DefinitionsInv, Catalog!Next \/ UNCHANGED h, NEW r \in AgentResolves, h[r].at # "answered", h'[r].at = "answered"
             PROVE  /\ h[r].token \in e
                    /\ \E x \in d : x.by = h[r].token.by /\ x.defs.desc[h[r].token.agent] = b[h[r].token.agent]
  BY DEF Catalog!AnswersShown
<1>1. h # h' /\ DOMAIN h = AgentResolves /\ \A x \in AgentResolves : OfItsToken(h[x])
  BY DEF DefinitionsInv
<1>2. ASSUME NEW x \in AgentResolves, NEW new, Catalog!SetResolve(x, new), new.at # "answered" PROVE FALSE
  BY <1>1, <1>2 DEF Catalog!SetResolve
<1>3. ASSUME NEW x \in AgentResolves, NEW step PROVE [h[x] EXCEPT !.at = step].at = step
  BY <1>1 DEF OfItsToken, Catalog!NoResolve
<1>4. ASSUME NEW x \in AgentResolves, NEW step, NEW key PROVE [h[x] EXCEPT !.at = step, !.key = key].at = step
  BY <1>1 DEF OfItsToken, Catalog!NoResolve
<1>5. \E x \in AgentResolves : Catalog!ResolveAnswers(x)
  <2>1. ASSUME NEW x \in AgentResolves, NEW token \in e, NEW w \in Workspaces, Catalog!ResolveBegins(x, token, w) PROVE FALSE
    BY <1>2, <2>1 DEF Catalog!ResolveBegins
  <2>2. ASSUME NEW x \in AgentResolves,
               Catalog!ResolveBinds(x) \/ Catalog!ResolveCompares(x) \/ Catalog!ResolveInspects(x) \/ Catalog!ResolveRebinds(x)
               \/ Catalog!ResolveFails(x)
        PROVE  FALSE
    <3>1. \E new : Catalog!SetResolve(x, new) /\ new.at # "answered"
      <4>1. CASE Catalog!ResolveBinds(x)
        <5>1. \E key : Catalog!SetResolve(x, [h[x] EXCEPT !.at = "comparing", !.key = key])
          BY <4>1 DEF Catalog!ResolveBinds
        <5>2. PICK key : Catalog!SetResolve(x, [h[x] EXCEPT !.at = "comparing", !.key = key])
          BY <5>1
        <5>3. [h[x] EXCEPT !.at = "comparing", !.key = key].at = "comparing"
          BY <1>4
        <5> QED
          BY <5>2, <5>3
      <4>2. CASE ~Catalog!ResolveBinds(x)
        <5>1. \E step : step # "answered" /\ Catalog!SetResolve(x, [h[x] EXCEPT !.at = step])
          BY <2>2, <4>2 DEF Catalog!ResolveCompares, Catalog!ResolveInspects, Catalog!ResolveRebinds, Catalog!ResolveFails
        <5>2. PICK step : step # "answered" /\ Catalog!SetResolve(x, [h[x] EXCEPT !.at = step])
          BY <5>1
        <5>3. [h[x] EXCEPT !.at = step].at = step
          BY <1>3
        <5> QED
          BY <5>2, <5>3
      <4> QED
        BY <4>1, <4>2
    <3> QED
      BY <1>2, <3>1
  <2>3. ASSUME NEW q \in Lists, ~UNCHANGED h,
               \/ \E w \in Workspaces : Catalog!ListBegins(q, w)
               \/ Catalog!ListBinds(q) \/ Catalog!ListAnswersCached(q) \/ Catalog!JoinedEnds(q) \/ Catalog!FirstChecked(q)
               \/ Catalog!Commits(q) \/ Catalog!ListFails(q)
        PROVE  FALSE
    BY <2>3 DEF Catalog!ListBegins, Catalog!ListBinds, Catalog!ListAnswersCached, Catalog!JoinedEnds, Catalog!FirstChecked,
                Catalog!Commits, Catalog!ListFails
  <2>4. ASSUME NEW q \in Lists, NEW step, NEW which, NEW next,
               Catalog!Inspects(q, step, which, next) \/ Catalog!BindsSources(q, step, which, next)
        PROVE  FALSE
    BY <1>1, <2>4 DEF Catalog!Inspects, Catalog!BindsSources
  <2>5. CASE Catalog!Clear \/ Catalog!Outside \/ \E x \in d : Catalog!Expires(x)
    BY <1>1, <2>5 DEF Catalog!Clear, Catalog!Outside, Catalog!Expires
  <2> QED
    BY <1>1, <2>1, <2>2, <2>3, <2>4, <2>5 DEF Catalog!Next
<1>6. PICK x \in AgentResolves : Catalog!ResolveAnswers(x)
  BY <1>5
<1>7. x = r
  BY <1>1, <1>6 DEF Catalog!ResolveAnswers, Catalog!SetResolve
<1>8. /\ h[r].at = "rebound" /\ h[r].token \in e /\ h[r].rev = b[h[r].token.agent]
      /\ \E y \in d : y.by = h[r].token.by
  BY <1>6, <1>7 DEF Catalog!ResolveAnswers, Catalog!Held, Catalog!Unchanged, Catalog!Catalog
<1>9. PICK y \in d : y.by = h[r].token.by
  BY <1>8
<1>10. OfItsList(y) /\ OfItsToken(h[r])
  BY DEF DefinitionsInv
<1> QED
  BY <1>8, <1>9, <1>10 DEF OfItsList, OfItsToken

-----------------------------------------------------------------------------
(* config.toml: its lock, and what is written under it.                    *)

\* A store has a helper only while it waits for the lock, and the lock from then on until it closes.
LockInv ==
  /\ DOMAIN c = Stores /\ DOMAIN e = Stores
  /\ \A s \in Stores : e[s] # "none" => c[s] = "locking"
  /\ \A s \in Stores : b = s => c[s] \in {"locking", "locked", "writing", "checked", "renamed", "closing"}

LEMMA LockInit == Config!Init => LockInv
BY NamesAssumption DEF Config!Init, Config!None, LockInv

LEMMA LockStep == LockInv /\ (Config!Next \/ UNCHANGED <<b, c, e>>) => LockInv'
<1> SUFFICES ASSUME LockInv, Config!Next \/ UNCHANGED <<b, c, e>> PROVE LockInv'
  OBVIOUS
<1>1. CASE Config!Outside \/ UNCHANGED <<b, c, e>>
  BY <1>1 DEF LockInv, Config!Outside
<1>2. ASSUME NEW s \in Stores, Config!Begin(s) \/ Config!OpenLock(s) \/ Config!Stop(s) \/ Config!Stopped(s) PROVE LockInv'
  BY <1>2 DEF LockInv, Config!Begin, Config!OpenLock, Config!Stop, Config!Stopped, Config!Goes
<1>3. ASSUME NEW s \in Stores, Config!LockfTakes(s) \/ Config!LockfEnds(s) \/ Config!Acquired(s) PROVE LockInv'
  BY <1>3 DEF LockInv, Config!LockfTakes, Config!LockfEnds, Config!Acquired, Config!Goes
<1>4. ASSUME NEW s \in Stores, Config!ReadConfig(s) \/ Config!CheckPath(s) \/ Config!Replace(s) \/ Config!Verify(s) \/ Config!Fails(s)
      PROVE  LockInv'
  BY <1>4 DEF LockInv, Config!ReadConfig, Config!CheckPath, Config!Replace, Config!Verify, Config!Fails, Config!Goes
<1>5. ASSUME NEW s \in Stores, Config!Close(s) \/ Config!Crash(s) PROVE LockInv'
  BY <1>5, NamesAssumption DEF LockInv, Config!Close, Config!Ended, Config!Crash, Config!Goes, Config!None, Config!diskVars, Config!callVars
<1> QED
  BY <1>1, <1>2, <1>3, <1>4, <1>5 DEF Config!Next

LEMMA LockSafe == LockInv => Config!LockFreed
BY DEF LockInv, Config!LockFreed

\* The store that reads and writes config.toml has its lock; what it writes is an edit that is allowed, of what it has read,
\* and from the comparison to the rename that is what the file has.
Working == {"locked", "writing", "checked", "renamed"}
ConfigTyped ==
  /\ DOMAIN a = DOMAIN Config!NoFile /\ DOMAIN a.catalog = DOMAIN Config!NoCatalog /\ DOMAIN a.catalog.models = Models
  /\ DOMAIN d = Stores /\ DOMAIN f = Stores /\ \A s \in Stores : d[s] \in Config!Edits \union {Config!Load}
WritesAllowed ==
  \A s \in Stores :
    /\ c[s] \in Working => b = s
    /\ c[s] \in {"writing", "checked"} => d[s] \in Config!Edits /\ Config!Allowed(f[s].catalog, f[s].refers, d[s])
    /\ c[s] = "checked" => f[s] = a
ConfigInv == LockInv /\ ConfigTyped /\ WritesAllowed /\ Config!NothingOverwritten

LEMMA ConfigInit == Config!Init => ConfigInv
<1> SUFFICES ASSUME Config!Init PROVE ConfigInv
  OBVIOUS
<1>1. LockInv
  BY NamesAssumption DEF Config!Init, Config!None, LockInv
<1>2. ConfigTyped /\ WritesAllowed
  BY DEF Config!Init, Config!NoFile, Config!NoCatalog, ConfigTyped, WritesAllowed, Working
<1>3. Config!NothingOverwritten
  BY DEF Config!Init, Config!NoFile, Config!NoCatalog, Config!NothingOverwritten, Config!ValidCatalog
<1> QED
  BY <1>1, <1>2, <1>3 DEF ConfigInv

\* An edit that is allowed leaves each model its provider, and takes away no provider that something refers to.
LEMMA EditKeeps ==
  ASSUME NEW catalog, DOMAIN catalog = DOMAIN Config!NoCatalog, DOMAIN catalog.models = Models, Config!ValidCatalog(catalog), NEW refers,
         NEW u \in Config!Edits, Config!Allowed(catalog, refers, u)
  PROVE  /\ DOMAIN Config!Applied(catalog, u) = DOMAIN Config!NoCatalog /\ DOMAIN Config!Applied(catalog, u).models = Models
         /\ Config!ValidCatalog(Config!Applied(catalog, u))
         /\ \A q \in catalog.providers \ Config!Applied(catalog, u).providers :
              q \notin refers /\ \A x \in Models : catalog.models[x] # q
<1> USE DEF Config!NoCatalog
<1>1. CASE u.type = "upsert-provider"
  <2>1. Config!Applied(catalog, u) = [catalog EXCEPT !.providers = @ \union {u.provider}]
    BY <1>1 DEF Config!Applied
  <2> QED
    BY <2>1 DEF Config!ValidCatalog
<1>2. CASE u.type = "delete-provider"
  <2>1. Config!Applied(catalog, u) = [catalog EXCEPT !.providers = @ \ {u.provider}]
    BY <1>2 DEF Config!Applied
  <2>2. u.provider \in catalog.providers => u.provider \notin refers /\ \A x \in Models : catalog.models[x] # u.provider
    BY <1>2 DEF Config!Allowed
  <2> QED
    BY <2>1, <2>2 DEF Config!ValidCatalog
<1>3. CASE u.type = "upsert-model"
  <2>1. Config!Applied(catalog, u) = [catalog EXCEPT !.models[u.model] = u.provider]
    BY <1>3 DEF Config!Applied
  <2>2. u.provider \in catalog.providers
    BY <1>3 DEF Config!Allowed
  <2> QED
    BY <2>1, <2>2 DEF Config!ValidCatalog
<1>4. CASE u.type = "delete-model"
  <2>1. Config!Applied(catalog, u) = [catalog EXCEPT !.models[u.model] = Config!None]
    BY <1>4 DEF Config!Applied
  <2> QED
    BY <2>1 DEF Config!ValidCatalog
<1> QED
  BY <1>1, <1>2, <1>3, <1>4 DEF Config!Edits

\* The store that renames has the file as it is.
LEMMA ReplaceKeeps ==
  ASSUME ConfigInv, NEW s \in Stores, Config!Replace(s)
  PROVE  ConfigTyped' /\ WritesAllowed' /\ Config!NothingOverwritten' /\ Config!KeepsReferences
<1> USE DEF Config!callVars, Config!Goes
<1>1. c[s] = "checked" /\ c' = [c EXCEPT ![s] = "renamed"] /\ UNCHANGED <<b, d, e, f, j>>
  BY DEF Config!Replace
<1>2. f[s] = a /\ d[s] \in Config!Edits /\ Config!Allowed(a.catalog, a.refers, d[s]) /\ b = s /\ DOMAIN c = Stores
  BY <1>1 DEF ConfigInv, WritesAllowed, Working, LockInv
<1>3. a' = [[a EXCEPT !.catalog = Config!Applied(@, d[s])] EXCEPT !.id = n + 1] /\ i' = Config!Applied(i, d[s])
  BY <1>2 DEF Config!Replace, Config!Rewritten
<1>4. /\ DOMAIN a' = DOMAIN Config!NoFile /\ a'.catalog = Config!Applied(a.catalog, d[s]) /\ a'.text = a.text
  BY <1>3 DEF ConfigInv, ConfigTyped, Config!NoFile
<1>5. /\ DOMAIN a'.catalog = DOMAIN Config!NoCatalog /\ DOMAIN a'.catalog.models = Models /\ Config!ValidCatalog(a'.catalog)
      /\ \A q \in a.catalog.providers \ a'.catalog.providers :
           q \notin a.refers /\ \A x \in Models : a.catalog.models[x] # q
  BY <1>2, <1>4, EditKeeps DEF ConfigInv, ConfigTyped, Config!NothingOverwritten
<1>6. ConfigTyped'
  BY <1>1, <1>4, <1>5 DEF ConfigInv, ConfigTyped
<1>7. WritesAllowed'
  BY <1>1, <1>2 DEF ConfigInv, WritesAllowed, Working
<1>8. Config!NothingOverwritten'
  BY <1>1, <1>3, <1>4, <1>5 DEF ConfigInv, Config!NothingOverwritten, Config!ValidCatalog, Config!None
<1>9. Config!KeepsReferences
  BY <1>5 DEF Config!KeepsReferences
<1> QED
  BY <1>6, <1>7, <1>8, <1>9

\* Another step of a store leaves the file as it is.
LEMMA CallsKeep ==
  ASSUME ConfigInv, NEW s \in Stores, NEW step, c' = [c EXCEPT ![s] = step], UNCHANGED <<a, i, j>>,
         \A t \in Stores : t # s => d'[t] = d[t] /\ f'[t] = f[t], DOMAIN d' = Stores, DOMAIN f' = Stores,
         d'[s] \in Config!Edits \union {Config!Load}, \A t \in Stores : t # s /\ b = t => b' = t,
         /\ step \in Working => b' = s
         /\ step \in {"writing", "checked"} => d'[s] \in Config!Edits /\ Config!Allowed(f'[s].catalog, f'[s].refers, d'[s])
         /\ step = "checked" => f'[s] = a
  PROVE  ConfigTyped' /\ WritesAllowed' /\ Config!NothingOverwritten' /\ Config!KeepsReferences
<1>1. DOMAIN c = Stores
  BY DEF ConfigInv, LockInv
<1>2. WritesAllowed'
  BY <1>1 DEF ConfigInv, WritesAllowed
<1> QED
  BY <1>2 DEF ConfigInv, ConfigTyped, Config!NothingOverwritten, Config!KeepsReferences, Config!ValidCatalog, Config!None

LEMMA ConfigStep ==
  ASSUME ConfigInv, Config!Next \/ UNCHANGED <<a, b, c, d, e, f, i, j>>
  PROVE  ConfigTyped' /\ WritesAllowed' /\ Config!NothingOverwritten' /\ Config!KeepsReferences
<1> USE DEF Config!callVars, Config!diskVars, Config!Goes
<1>0. DOMAIN c = Stores /\ DOMAIN d = Stores /\ DOMAIN f = Stores /\ \A s \in Stores : d[s] \in Config!Edits \union {Config!Load}
  BY DEF ConfigInv, ConfigTyped, LockInv
<1>1. CASE UNCHANGED <<a, b, c, d, e, f, i, j>>
  BY <1>1 DEF ConfigInv, ConfigTyped, WritesAllowed, Config!NothingOverwritten, Config!KeepsReferences, Config!ValidCatalog, Config!None
<1>2. CASE Config!Outside
  <2>1. /\ UNCHANGED <<b, c, d, f, i>> /\ \A s \in Stores : c[s] # "checked"
        /\ DOMAIN a' = DOMAIN a /\ a'.catalog = a.catalog /\ a'.text = j + 1 /\ j' = j + 1
    BY <1>2 DEF Config!Outside, ConfigInv, ConfigTyped, Config!NoFile, Config!NothingOverwritten
  <2> QED
    BY <2>1 DEF ConfigInv, ConfigTyped, WritesAllowed, Config!NothingOverwritten, Config!KeepsReferences, Config!ValidCatalog, Config!None
<1>3. ASSUME NEW s \in Stores, Config!Begin(s) PROVE ConfigTyped' /\ WritesAllowed' /\ Config!NothingOverwritten' /\ Config!KeepsReferences
  <2>1. c' = [c EXCEPT ![s] = "opening"] /\ UNCHANGED <<a, b, f, i, j>> /\ (d' = d \/ \E u \in Config!Edits : d' = [d EXCEPT ![s] = u])
    BY <1>3 DEF Config!Begin
  <2>2. DOMAIN d' = Stores /\ d'[s] \in Config!Edits \union {Config!Load} /\ \A t \in Stores : t # s => d'[t] = d[t]
    BY <1>0, <2>1
  <2> QED
    BY <1>0, <2>1, <2>2, CallsKeep DEF Working
<1>4. ASSUME NEW s \in Stores, Config!OpenLock(s) \/ Config!Fails(s) \/ Config!Acquired(s) \/ Config!Verify(s)
      PROVE  ConfigTyped' /\ WritesAllowed' /\ Config!NothingOverwritten' /\ Config!KeepsReferences
  <2>1. PICK step \in {"locking", "closing", "locked"} :
          c' = [c EXCEPT ![s] = step] /\ UNCHANGED <<a, b, d, f, i, j>> /\ (step = "locked" => b = s)
    BY <1>4 DEF Config!OpenLock, Config!Fails, Config!Acquired, Config!Verify
  <2> QED
    BY <1>0, <2>1, CallsKeep DEF Working
<1>5. ASSUME NEW s \in Stores, Config!LockfTakes(s) \/ Config!LockfEnds(s) \/ Config!Stop(s) \/ Config!Stopped(s)
      PROVE  ConfigTyped' /\ WritesAllowed' /\ Config!NothingOverwritten' /\ Config!KeepsReferences
  <2>1. UNCHANGED <<a, c, d, f, i, j>> /\ (b' = b \/ b = "none")
    BY <1>5 DEF Config!LockfTakes, Config!LockfEnds, Config!Stop, Config!Stopped, Config!None
  <2>2. WritesAllowed'
    BY <2>1, NamesAssumption DEF ConfigInv, WritesAllowed
  <2> QED
    BY <2>1, <2>2 DEF ConfigInv, ConfigTyped, Config!NothingOverwritten, Config!KeepsReferences, Config!ValidCatalog, Config!None
<1>6. ASSUME NEW s \in Stores, Config!ReadConfig(s) PROVE ConfigTyped' /\ WritesAllowed' /\ Config!NothingOverwritten' /\ Config!KeepsReferences
  <2>1. PICK step \in {"writing", "closing"} :
          /\ c' = [c EXCEPT ![s] = step] /\ UNCHANGED <<a, b, d, i, j>> /\ f' = [f EXCEPT ![s] = a]
          /\ step = "writing" => d[s] # Config!Load /\ Config!Allowed(a.catalog, a.refers, d[s])
    BY <1>6 DEF Config!ReadConfig, Config!Writes, Config!Referred
  <2>2. b = s
    BY <1>6 DEF ConfigInv, WritesAllowed, Working, Config!ReadConfig
  <2>3. step = "writing" => d'[s] \in Config!Edits /\ Config!Allowed(f'[s].catalog, f'[s].refers, d'[s])
    BY <1>0, <2>1
  <2>4. DOMAIN f' = Stores /\ \A t \in Stores : t # s => f'[t] = f[t]
    BY <1>0, <2>1
  <2> QED
    BY <1>0, <2>1, <2>2, <2>3, <2>4, CallsKeep
<1>7. ASSUME NEW s \in Stores, Config!CheckPath(s) PROVE ConfigTyped' /\ WritesAllowed' /\ Config!NothingOverwritten' /\ Config!KeepsReferences
  <2>1. PICK step \in {"checked", "closing"} :
          /\ c[s] = "writing" /\ c' = [c EXCEPT ![s] = step] /\ UNCHANGED <<a, b, d, f, i, j>> /\ (step = "checked" => f[s] = a)
    BY <1>7 DEF Config!CheckPath, Config!Unchanged
  <2>2. b = s /\ d[s] \in Config!Edits /\ Config!Allowed(f[s].catalog, f[s].refers, d[s])
    BY <2>1 DEF ConfigInv, WritesAllowed, Working
  <2> QED
    BY <1>0, <2>1, <2>2, CallsKeep
<1>8. ASSUME NEW s \in Stores, Config!Close(s) \/ Config!Crash(s) PROVE ConfigTyped' /\ WritesAllowed' /\ Config!NothingOverwritten' /\ Config!KeepsReferences
  <2>1. PICK step \in {"idle", "gone"} :
          /\ c' = [c EXCEPT ![s] = step] /\ UNCHANGED <<a, i, j>> /\ d' = [d EXCEPT ![s] = Config!Load] /\ f' = [f EXCEPT ![s] = Config!NoFile]
          /\ b # s => b' = b
    BY <1>8 DEF Config!Close, Config!Ended, Config!Crash
  <2>2. /\ DOMAIN d' = Stores /\ DOMAIN f' = Stores /\ d'[s] = Config!Load
        /\ \A t \in Stores : t # s => d'[t] = d[t] /\ f'[t] = f[t]
    BY <1>0, <2>1
  <2> QED
    BY <1>0, <2>1, <2>2, CallsKeep DEF Working
<1> QED
  BY <1>1, <1>2, <1>3, <1>4, <1>5, <1>6, <1>7, <1>8, ReplaceKeeps DEF Config!Next

-----------------------------------------------------------------------------
(* The workers of the workspaces, and the dashboard.                       *)

\* A worker runs only in a workspace that was last found to be ready, with the setting there is, except while the setting
\* changes; a session works in another workspace only until its workers are stopped, or is shown as running because its prompt
\* was refused; an import looks at the workspaces when no worker runs, no session works and no prompt waits.
WorkersTyped ==
  /\ i \in [Workspaces -> {"none", "starting", "live", "stopping"}] /\ DOMAIN j = Workspaces /\ DOMAIN k = Workspaces
  /\ DOMAIN e = Workspaces /\ DOMAIN l = Workspaces /\ DOMAIN m = {"on", "step", "left"}
RunsReady == \A w \in Workspaces : i[w] \in {"starting", "live"} => e[w] = "ready" /\ m.step # "stop" /\ k[w] = m.on
WorksReady == \A w \in Workspaces : e[w] # "ready" /\ j[w] = "working" => \E x \in f : x.of = w /\ x.step = "stopping"
ImportRests == g # <<>> => m.step = "" /\ DOMAIN g[1] = Workspaces /\ \A w \in Workspaces : i[w] = "none" /\ j[w] = "idle" /\ l[w] = ""
SaveCounts == m.step = "save" => \A w \in Workspaces : i[w] # "none" => w \in m.left

WorkersInv == WorkersTyped /\ RunsReady /\ WorksReady /\ ImportRests /\ SaveCounts

ChecksShaped == \A x \in f : DOMAIN x = {"of", "object", "step", "result"}

LEMMA ChecksKeep == ChecksShaped /\ (Usable!Next \/ UNCHANGED f) => ChecksShaped'
<1> SUFFICES ASSUME ChecksShaped, Usable!Next \/ UNCHANGED f PROVE ChecksShaped'
  OBVIOUS
<1>1. ASSUME f' \subseteq f PROVE ChecksShaped'
  BY <1>1 DEF ChecksShaped
<1>2. ASSUME NEW w, f' = Usable!Joined(w) PROVE ChecksShaped'
  BY <1>2 DEF ChecksShaped, Usable!Joined, Usable!CheckOf
<1>3. ASSUME NEW x \in f, Usable!CheckLstats(x) \/ Usable!CheckAccesses(x) \/ Usable!CheckEnds(x) PROVE ChecksShaped'
  BY <1>3 DEF ChecksShaped, Usable!CheckLstats, Usable!CheckAccesses, Usable!CheckEnds
<1>4. ASSUME NEW x \in f, Usable!CheckStopped(x) PROVE ChecksShaped'
  BY <1>1, <1>4 DEF Usable!CheckStopped
<1>5. ASSUME NEW w \in Workspaces,
             \/ Usable!Replaced(w) \/ Usable!Selects(w) \/ Usable!RemovalUndone(w) \/ Usable!WorkerStopped(w) \/ Usable!StartsPrompt(w)
             \/ Usable!WorkerStarted(w) \/ Usable!TurnEnds(w) \/ Usable!Imported(w) \/ Usable!SweepLooks(w) \/ Usable!RestartFails(w)
             \/ Usable!CancelsTurn(w) \/ \E kind \in Usable!Kinds : Usable!Outside(w, kind)
      PROVE  ChecksShaped'
  BY <1>1, <1>5 DEF Usable!Outside, Usable!Replaced, Usable!Selects, Usable!RemovalUndone, Usable!WorkerStopped, Usable!StartsPrompt,
                    Usable!WorkerStarted, Usable!TurnEnds, Usable!Imported, Usable!SweepLooks, Usable!RestartFails, Usable!CancelsTurn
<1>6. ASSUME NEW w \in Workspaces, Usable!Asks(w) \/ Usable!AddsAgain(w) PROVE ChecksShaped'
  BY <1>2, <1>6 DEF Usable!Asks, Usable!AddsAgain
<1>7. CASE Usable!DashBegins
  BY <1>2, <1>7 DEF Usable!DashBegins
<1>8. CASE \/ Usable!SweepEnds \/ Usable!MemoryBegins \/ (\E good \in BOOLEAN : Usable!MemorySaved(good)) \/ Usable!MemoryRestarts
           \/ Usable!MemoryEnds \/ Usable!DashHealthy \/ Usable!DashIdentifies \/ Usable!DashToGit \/ Usable!DashGit
           \/ Usable!DashIdentifiesAgain \/ Usable!DashAnswers \/ Usable!DashTaken
  BY <1>1, <1>8 DEF Usable!SweepEnds, Usable!MemoryBegins, Usable!MemorySaved, Usable!MemoryRestarts, Usable!MemoryEnds, Usable!DashHealthy,
                    Usable!DashIdentifies, Usable!DashToGit, Usable!DashGit, Usable!DashIdentifiesAgain, Usable!DashAnswers,
                    Usable!DashTaken, Usable!DashGoesOn, Usable!DashReads
<1> QED
  BY <1>1, <1>3, <1>4, <1>5, <1>6, <1>7, <1>8 DEF Usable!Next

LEMMA WorkersSafe == WorkersInv => Usable!OnlyUsableWorkspaces
<1> SUFFICES ASSUME WorkersInv PROVE Usable!OnlyUsableWorkspaces
  OBVIOUS
<1>1. ASSUME NEW w \in Workspaces, e[w] # "ready", \A x \in f : x.of = w => x.step # "stopping"
      PROVE  i[w] \notin {"starting", "live"} /\ j[w] # "working"
  BY <1>1 DEF WorkersInv, RunsReady, WorksReady
<1>2. m.step = "" => \A w \in Workspaces : i[w] \in {"starting", "live"} => k[w] = m.on
  BY DEF WorkersInv, RunsReady
<1> QED
  BY <1>1, <1>2 DEF Usable!OnlyUsableWorkspaces

LEMMA WorkersInit == Usable!Init => WorkersInv
BY DEF Usable!Init, WorkersInv, WorkersTyped, RunsReady, WorksReady, ImportRests, SaveCounts

LEMMA WorkersStep == WorkersInv /\ ChecksShaped /\ (Usable!Next \/ UNCHANGED <<e, f, g, i, j, k, l, m>>) => WorkersInv'
<1> SUFFICES ASSUME WorkersInv, ChecksShaped, Usable!Next \/ UNCHANGED <<e, f, g, i, j, k, l, m>> PROVE WorkersInv'
  OBVIOUS
<1>0. CASE UNCHANGED <<e, f, g, i, j, k, l, m>>
  BY <1>0 DEF WorkersInv, WorkersTyped, RunsReady, WorksReady, ImportRests, SaveCounts
<1>1. ASSUME NEW w \in Workspaces, \/ Usable!Replaced(w) \/ Usable!Selects(w) \/ (\E kind \in Usable!Kinds : Usable!Outside(w, kind))
      PROVE  WorkersInv'
  BY <1>0, <1>1 DEF Usable!Outside, Usable!Replaced, Usable!Selects, Usable!sessions
<1>2. ASSUME NEW w \in Workspaces, Usable!RemovalUndone(w) \/ Usable!WorkerStopped(w) \/ Usable!WorkerStarted(w) \/ Usable!RestartFails(w)
      PROVE  WorkersInv'
  <2>1. UNCHANGED <<e, f, g, k, l, m>> /\ (j' = j \/ j' = [j EXCEPT ![w] = "idle"]) /\ \E to \in {"none", "stopping", "live"} :
          /\ i' = [i EXCEPT ![w] = to]
          /\ to = "live" => i[w] = "starting"
          /\ to = "stopping" => i[w] # "none"
    BY <1>2 DEF WorkersInv, WorkersTyped, RunsReady, WorksReady, ImportRests, SaveCounts, Usable!RemovalUndone, Usable!WorkerStopped, Usable!WorkerStarted, Usable!RestartFails
  <2>11. WorkersTyped'
    BY <2>1 DEF WorkersInv, WorkersTyped
  <2>12. RunsReady'
    BY <2>1 DEF WorkersInv, WorkersTyped, RunsReady
  <2>13. WorksReady'
    BY <2>1 DEF WorkersInv, WorkersTyped, WorksReady
  <2>14. ImportRests'
    BY <2>1 DEF WorkersInv, WorkersTyped, ImportRests
  <2>15. SaveCounts'
    BY <2>1 DEF WorkersInv, WorkersTyped, SaveCounts
  <2> QED
    BY <2>11, <2>12, <2>13, <2>14, <2>15 DEF WorkersInv
<1>3. ASSUME NEW w \in Workspaces, Usable!Asks(w) \/ Usable!TurnEnds(w) \/ Usable!CancelsTurn(w) \/ Usable!SweepLooks(w) PROVE WorkersInv'
  <2>1. UNCHANGED <<e, i, k, m>> /\ (l' = l \/ (g = <<>> /\ l' = [l EXCEPT ![w] = "waits"])) /\ (j' = j \/ j' = [j EXCEPT ![w] = "idle"])
         /\ (g' = g \/ (g # <<>> /\ DOMAIN g'[1] = DOMAIN g[1]))
    <3>1. CASE Usable!SweepLooks(w)
      <4>1. g # <<>> /\ g' = <<[g[1] EXCEPT ![w] = Usable!Inspected(a[w].kind)]>> /\ UNCHANGED <<e, i, j, k, l, m>>
        BY <3>1 DEF Usable!SweepLooks, Usable!sessions
      <4>2. g'[1] = [g[1] EXCEPT ![w] = Usable!Inspected(a[w].kind)]
        BY <4>1
      <4> QED
        BY <4>1, <4>2
    <3> QED
      BY <1>3, <3>1 DEF Usable!Asks, Usable!TurnEnds, Usable!CancelsTurn, Usable!NoStateTransaction, Usable!sessions
  <2>2. \A x \in f : x.step = "stopping" => x \in f'
    BY <1>3 DEF Usable!Asks, Usable!TurnEnds, Usable!CancelsTurn, Usable!SweepLooks, Usable!sessions, Usable!Joined
  <2>11. WorkersTyped'
    BY <2>1, <2>2 DEF WorkersInv, WorkersTyped
  <2>12. RunsReady'
    BY <2>1, <2>2 DEF WorkersInv, WorkersTyped, RunsReady
  <2>13. WorksReady'
    BY <2>1, <2>2 DEF WorkersInv, WorkersTyped, WorksReady
  <2>14. ImportRests'
    BY <2>1, <2>2 DEF WorkersInv, WorkersTyped, ImportRests
  <2>15. SaveCounts'
    BY <2>1, <2>2 DEF WorkersInv, WorkersTyped, SaveCounts
  <2> QED
    BY <2>11, <2>12, <2>13, <2>14, <2>15 DEF WorkersInv
<1>4. ASSUME NEW w \in Workspaces, Usable!StartsPrompt(w) PROVE WorkersInv'
  <2>11. WorkersTyped'
    BY <1>4 DEF WorkersInv, WorkersTyped, Usable!StartsPrompt, Usable!NoStateTransaction
  <2>12. RunsReady'
    BY <1>4 DEF WorkersInv, WorkersTyped, RunsReady, Usable!StartsPrompt, Usable!NoStateTransaction
  <2>13. WorksReady'
    <3>1. UNCHANGED <<e, f>> /\ \E to : j' = [j EXCEPT ![w] = to] /\ (to = "unserved" \/ to = j[w] \/ e[w] = "ready")
      BY <1>4 DEF Usable!StartsPrompt
    <3>2. \A v \in Workspaces : e[v] # "ready" => j'[v] \in {j[v], "unserved"}
      BY <3>1 DEF WorkersInv, WorkersTyped
    <3> QED
      BY <3>1, <3>2 DEF WorkersInv, WorksReady
  <2>14. ImportRests'
    BY <1>4 DEF WorkersInv, WorkersTyped, ImportRests, Usable!StartsPrompt, Usable!NoStateTransaction
  <2>15. SaveCounts'
    BY <1>4 DEF WorkersInv, WorkersTyped, SaveCounts, Usable!StartsPrompt, Usable!NoStateTransaction
  <2> QED
    BY <2>11, <2>12, <2>13, <2>14, <2>15 DEF WorkersInv
<1>13. ASSUME NEW w \in Workspaces, Usable!AddsAgain(w) PROVE WorkersInv'
  <2>1. e' = [e EXCEPT ![w] = "ready"] /\ UNCHANGED <<g, i, j, k, l, m>> /\ \A x \in f : x \in f'
    BY <1>13 DEF Usable!AddsAgain, Usable!sessions, Usable!Joined
  <2>2. WorkersTyped' /\ RunsReady' /\ ImportRests' /\ SaveCounts'
    BY <2>1 DEF WorkersInv, WorkersTyped, RunsReady, ImportRests, SaveCounts
  <2>3. \A v \in Workspaces : e'[v] # "ready" => e[v] # "ready"
    BY <2>1 DEF WorkersInv, WorkersTyped
  <2>4. WorksReady'
    BY <2>1, <2>3 DEF WorkersInv, WorksReady
  <2> QED
    BY <2>2, <2>4 DEF WorkersInv
<1>5. ASSUME NEW w \in Workspaces, Usable!Imported(w) PROVE WorkersInv'
  BY <1>5 DEF WorkersInv, WorkersTyped, RunsReady, WorksReady, ImportRests, SaveCounts, Usable!Imported, Usable!NoStateTransaction, Usable!Quiet
<1>6. ASSUME NEW x \in f, Usable!CheckLstats(x) \/ Usable!CheckAccesses(x) PROVE WorkersInv'
  <2>1. UNCHANGED <<e, g, i, j, k, l, m>> /\ \A y \in f : y.step = "stopping" => y \in f'
    BY <1>6 DEF Usable!CheckLstats, Usable!CheckAccesses, Usable!sessions
  <2>2. WorksReady'
    BY <2>1 DEF WorkersInv, WorksReady
  <2> QED
    BY <2>1, <2>2 DEF WorkersInv, WorkersTyped, RunsReady, ImportRests, SaveCounts
<1>7. ASSUME NEW x \in f, Usable!CheckEnds(x) PROVE WorkersInv'
  <2>1. UNCHANGED <<g, j, k, m>> /\ \A y \in f : y.step = "stopping" => y \in f'
    BY <1>7 DEF Usable!CheckEnds
  <2>4. l' = l \/ \E to : l[x.of] = "waits" /\ l' = [l EXCEPT ![x.of] = to]
    BY <1>7 DEF Usable!CheckEnds, Usable!Answered
  <2>5. DOMAIN l' = Workspaces /\ \A w \in Workspaces : l[w] = "" => l'[w] = ""
    BY <2>4 DEF WorkersInv, WorkersTyped
  <2>6. \A w \in Workspaces : i[w] = "none" => i'[w] = "none"
    BY <1>7 DEF WorkersInv, WorkersTyped, Usable!CheckEnds
  <2>7. ImportRests'
    BY <2>1, <2>5, <2>6 DEF WorkersInv, ImportRests
  <2>2. CASE Usable!Current(x) /\ x.result # "ready"
    <3>11. WorkersTyped'
      BY <1>7, <2>1, <2>2, <2>5 DEF WorkersInv, WorkersTyped, Usable!CheckEnds
    <3>12. RunsReady'
      BY <1>7, <2>1, <2>2 DEF WorkersInv, WorkersTyped, RunsReady, Usable!CheckEnds
    <3>13. WorksReady'
      <4>1. DOMAIN x = {"of", "object", "step", "result"}
        BY DEF ChecksShaped
      <4>5. [x EXCEPT !.step = "stopping"] \in f'
        BY <1>7, <2>2 DEF Usable!CheckEnds
      <4>2. PICK y \in f' : y.of = x.of /\ y.step = "stopping"
        BY <4>1, <4>5
      <4>3. \A w \in Workspaces : e'[w] = e[w] \/ w = x.of
        BY <1>7, <2>2 DEF WorkersInv, WorkersTyped, Usable!CheckEnds
      <4> QED
        BY <2>1, <4>2, <4>3 DEF WorkersInv, WorksReady
    <3>15. SaveCounts'
      BY <1>7, <2>1, <2>2 DEF WorkersInv, WorkersTyped, SaveCounts, Usable!CheckEnds
    <3> QED
      BY <2>7, <3>11, <3>12, <3>13, <3>15 DEF WorkersInv
  <2>3. CASE ~(Usable!Current(x) /\ x.result # "ready")
    <3>11. WorkersTyped'
      BY <1>7, <2>1, <2>3, <2>5 DEF WorkersInv, WorkersTyped, Usable!CheckEnds
    <3>12. RunsReady'
      BY <1>7, <2>1, <2>3 DEF WorkersInv, WorkersTyped, RunsReady, Usable!CheckEnds
    <3>13. WorksReady'
      BY <1>7, <2>1, <2>3 DEF WorkersInv, WorkersTyped, WorksReady, Usable!CheckEnds
    <3>15. SaveCounts'
      BY <1>7, <2>1, <2>3 DEF WorkersInv, WorkersTyped, SaveCounts, Usable!CheckEnds
    <3> QED
      BY <2>7, <3>11, <3>12, <3>13, <3>15 DEF WorkersInv
  <2> QED
    BY <2>2, <2>3
<1>8. ASSUME NEW x \in f, Usable!CheckStopped(x) PROVE WorkersInv'
  <2>1. UNCHANGED <<e, g, i, k, m>> /\ f' = f \ {x} /\ j' = [j EXCEPT ![x.of] = "idle"]
    BY <1>8 DEF Usable!CheckStopped
  <2>6. l' = l \/ \E to : l[x.of] = "waits" /\ l' = [l EXCEPT ![x.of] = to]
    BY <1>8 DEF Usable!CheckStopped, Usable!Answered
  <2>7. DOMAIN l' = Workspaces /\ \A w \in Workspaces : l[w] = "" => l'[w] = ""
    BY <2>6 DEF WorkersInv, WorkersTyped
  <2>2. WorkersTyped' /\ RunsReady' /\ SaveCounts'
    BY <2>1, <2>7 DEF WorkersInv, WorkersTyped, RunsReady, SaveCounts
  <2>3. ASSUME NEW w \in Workspaces PROVE j'[w] = "idle" \/ (j'[w] = j[w] /\ x.of # w)
    BY <2>1 DEF WorkersInv, WorkersTyped
  <2>4. WorksReady'
    BY <2>1, <2>3 DEF WorkersInv, WorksReady
  <2>5. ImportRests'
    BY <2>1, <2>3, <2>7 DEF WorkersInv, ImportRests
  <2> QED
    BY <2>2, <2>4, <2>5 DEF WorkersInv
<1>9. CASE Usable!SweepEnds \/ Usable!MemoryBegins
  <2>11. WorkersTyped'
    BY <1>9 DEF WorkersInv, WorkersTyped, ImportRests, Usable!SweepEnds, Usable!MemoryBegins, Usable!NoStateTransaction, Usable!Quiet, Usable!sessions
  <2>12. RunsReady'
    BY <1>9 DEF WorkersInv, WorkersTyped, RunsReady, ImportRests, Usable!SweepEnds, Usable!MemoryBegins, Usable!NoStateTransaction, Usable!Quiet, Usable!sessions
  <2>13. WorksReady'
    BY <1>9 DEF WorkersInv, WorkersTyped, WorksReady, ImportRests, Usable!SweepEnds, Usable!MemoryBegins, Usable!NoStateTransaction, Usable!Quiet, Usable!sessions
  <2>14. ImportRests'
    BY <1>9 DEF WorkersInv, WorkersTyped, ImportRests, Usable!SweepEnds, Usable!MemoryBegins, Usable!NoStateTransaction, Usable!Quiet, Usable!sessions
  <2>15. SaveCounts'
    BY <1>9 DEF WorkersInv, WorkersTyped, SaveCounts, Usable!SweepEnds, Usable!MemoryBegins, Usable!NoStateTransaction, Usable!Quiet, Usable!sessions
  <2> QED
    BY <2>11, <2>12, <2>13, <2>14, <2>15 DEF WorkersInv
<1>10. ASSUME NEW good \in BOOLEAN, Usable!MemorySaved(good) PROVE WorkersInv'
  <2>1. UNCHANGED <<e, f, g, j, k, l>> /\ m.step = "save"
    BY <1>10 DEF Usable!MemorySaved
  <2>2. WorksReady' /\ ImportRests'
    BY <2>1 DEF WorkersInv, WorksReady, ImportRests
  <2>3. CASE good
    <3>1. /\ m' = [m EXCEPT !.on = ~@, !.step = "stop"]
          /\ i' = [w \in Workspaces |-> IF w \in m.left /\ i[w] # "none" THEN "stopping" ELSE i[w]]
      BY <1>10, <2>3 DEF Usable!MemorySaved
    <3>2. DOMAIN m' = {"on", "step", "left"} /\ m'.step = "stop"
      BY <3>1 DEF WorkersInv, WorkersTyped
    <3>3. i' \in [Workspaces -> {"none", "starting", "live", "stopping"}] /\ \A w \in Workspaces : i'[w] \in {"none", "stopping"}
      BY <2>1, <3>1 DEF WorkersInv, WorkersTyped, SaveCounts
    <3> QED
      BY <2>1, <2>2, <3>2, <3>3 DEF WorkersInv, WorkersTyped, RunsReady, SaveCounts
  <2>4. CASE ~good
    <3>1. m' = [m EXCEPT !.step = "", !.left = {}] /\ i' = i
      BY <1>10, <2>4 DEF Usable!MemorySaved
    <3>2. DOMAIN m' = {"on", "step", "left"} /\ m'.step = "" /\ m'.on = m.on
      BY <3>1 DEF WorkersInv, WorkersTyped
    <3> QED
      BY <2>1, <2>2, <3>1, <3>2 DEF WorkersInv, WorkersTyped, RunsReady, SaveCounts
  <2> QED
    BY <2>3, <2>4
<1>11. CASE Usable!MemoryRestarts \/ Usable!MemoryEnds
  <2>11. WorkersTyped'
    BY <1>11 DEF WorkersInv, WorkersTyped, Usable!MemoryRestarts, Usable!MemoryEnds, Usable!sessions
  <2>12. RunsReady'
    BY <1>11 DEF WorkersInv, WorkersTyped, RunsReady, Usable!MemoryRestarts, Usable!MemoryEnds, Usable!sessions
  <2>13. WorksReady'
    BY <1>11 DEF WorkersInv, WorkersTyped, WorksReady, Usable!MemoryRestarts, Usable!MemoryEnds, Usable!sessions
  <2>14. ImportRests'
    BY <1>11 DEF WorkersInv, WorkersTyped, ImportRests, Usable!MemoryRestarts, Usable!MemoryEnds, Usable!sessions
  <2>15. SaveCounts'
    BY <1>11 DEF WorkersInv, WorkersTyped, SaveCounts, Usable!MemoryRestarts, Usable!MemoryEnds, Usable!sessions
  <2> QED
    BY <2>11, <2>12, <2>13, <2>14, <2>15 DEF WorkersInv
<1>12. CASE Usable!DashBegins \/ Usable!DashHealthy \/ Usable!DashIdentifies \/ Usable!DashToGit \/ Usable!DashGit
            \/ Usable!DashIdentifiesAgain \/ Usable!DashAnswers \/ Usable!DashTaken
  <2>1. UNCHANGED <<e, g, i, j, k, l, m>> /\ \A y \in f : y \in f'
    BY <1>12 DEF Usable!DashBegins, Usable!DashHealthy, Usable!DashIdentifies, Usable!DashToGit, Usable!DashGit, Usable!Joined,
                 Usable!DashIdentifiesAgain, Usable!DashAnswers, Usable!DashTaken, Usable!DashGoesOn, Usable!DashReads, Usable!sessions
  <2>2. WorksReady'
    BY <2>1 DEF WorkersInv, WorksReady
  <2> QED
    BY <2>1, <2>2 DEF WorkersInv, WorkersTyped, RunsReady, ImportRests, SaveCounts
<1> QED
  BY <1>0, <1>1, <1>2, <1>3, <1>4, <1>5, <1>6, <1>7, <1>8, <1>9, <1>10, <1>11, <1>12, <1>13 DEF Usable!Next

\* What the dashboard has read: the directory that it first identified is there when git ran, if it is there afterwards.
DashInv ==
  /\ a \in [Workspaces -> [kind : Usable!Kinds, inode : Nat \ {0}]] /\ c \in Workspaces
  /\ DOMAIN h = DOMAIN Usable!NoDash
  /\ h.step # "" => h.of \in Workspaces
  /\ h.step = "identified" => h.first \in Nat /\ h.first <= a[h.of].inode
  /\ h.step \in {"git", "inspected"} => h.first \in Nat \ {0} /\ h.first <= a[h.of].inode
  /\ h.step = "inspected" /\ h.read # h.first => h.first < a[h.of].inode \/ ~Usable!Directory(a[h.of].kind)
  /\ h.step = "again" /\ h.first = h.second => h.read = h.first

LEMMA DashInit == Usable!Init => DashInv
<1> SUFFICES ASSUME Usable!Init PROVE DashInv
  OBVIOUS
<1>1. ASSUME NEW w \in Workspaces PROVE a[w] \in [kind : Usable!Kinds, inode : Nat \ {0}]
  <2>1. a[w] \in [kind : {"directory", "missing"}, inode : {1}]
    BY DEF Usable!Init
  <2> QED
    BY <2>1 DEF Usable!Kinds
<1>2. a \in [Workspaces -> [kind : Usable!Kinds, inode : Nat \ {0}]]
  BY <1>1 DEF Usable!Init
<1>3. c \in Workspaces /\ DOMAIN h = DOMAIN Usable!NoDash /\ h.step = ""
  BY DEF Usable!Init, Usable!NoDash
<1> QED
  BY <1>2, <1>3 DEF DashInv

\* A directory that comes back is another one.
LEMMA DisksGoOn ==
  ASSUME DashInv, NEW w \in Workspaces, UNCHANGED <<c, h>>,
         Usable!Replaced(w) \/ \E kind \in Usable!Kinds : Usable!Outside(w, kind)
  PROVE  DashInv'
<1>0. a \in [Workspaces -> [kind : Usable!Kinds, inode : Nat \ {0}]]
  BY DEF DashInv
<1>1. PICK new \in [kind : Usable!Kinds, inode : Nat \ {0}] :
        /\ a' = [a EXCEPT ![w] = new] /\ new.inode >= a[w].inode
        /\ ~Usable!Directory(a[w].kind) => ~Usable!Directory(new.kind) \/ new.inode > a[w].inode
  <2>1. a[w] \in [kind : Usable!Kinds, inode : Nat \ {0}]
    BY <1>0
  <2>2. CASE Usable!Replaced(w)
    <3> DEFINE new == [a[w] EXCEPT !.inode = @ + 1]
    <3>1. new \in [kind : Usable!Kinds, inode : Nat \ {0}] /\ new.inode = a[w].inode + 1 /\ new.kind = a[w].kind
      BY <2>1
    <3>2. a' = [a EXCEPT ![w] = new]
      BY <2>2 DEF Usable!Replaced
    <3>3. a[w].inode \in Nat
      BY <2>1
    <3> HIDE DEF new
    <3>4. new.inode >= a[w].inode
      BY <3>1, <3>3
    <3>5. ~Usable!Directory(a[w].kind) => ~Usable!Directory(new.kind)
      BY <3>1
    <3> QED
      BY <3>1, <3>2, <3>4, <3>5
  <2>3. ASSUME NEW kind \in Usable!Kinds, Usable!Outside(w, kind) PROVE \E new \in [kind : Usable!Kinds, inode : Nat \ {0}] :
        /\ a' = [a EXCEPT ![w] = new] /\ new.inode >= a[w].inode
        /\ ~Usable!Directory(a[w].kind) => ~Usable!Directory(new.kind) \/ new.inode > a[w].inode
    <3> DEFINE number == IF Usable!Directory(kind) /\ ~Usable!Directory(a[w].kind) THEN a[w].inode + 1 ELSE a[w].inode
               new == [kind |-> kind, inode |-> number]
    <3>1. new \in [kind : Usable!Kinds, inode : Nat \ {0}] /\ new.inode = number /\ new.kind = kind
      BY <2>1
    <3>2. a' = [a EXCEPT ![w] = new]
      BY <2>3 DEF Usable!Outside
    <3>3. number >= a[w].inode /\ (~Usable!Directory(a[w].kind) => ~Usable!Directory(kind) \/ number > a[w].inode)
      BY <2>1
    <3> QED
      BY <3>1, <3>2, <3>3
  <2> QED
    BY <2>2, <2>3
<1>2. a' \in [Workspaces -> [kind : Usable!Kinds, inode : Nat \ {0}]]
  BY <1>0, <1>1
<1>3. ASSUME NEW v \in Workspaces
      PROVE  /\ a[v].inode \in Nat /\ a'[v].inode \in Nat /\ a'[v].inode >= a[v].inode
             /\ ~Usable!Directory(a[v].kind) => ~Usable!Directory(a'[v].kind) \/ a'[v].inode > a[v].inode
  BY <1>0, <1>1, <1>2
<1>4. CASE h.step = ""
  BY <1>2, <1>4 DEF DashInv
<1>5. CASE h.step # ""
  <2>1. h.of \in Workspaces
    BY <1>5 DEF DashInv
  <2>2. /\ a[h.of].inode \in Nat /\ a'[h.of].inode \in Nat /\ a'[h.of].inode >= a[h.of].inode
        /\ ~Usable!Directory(a[h.of].kind) => ~Usable!Directory(a'[h.of].kind) \/ a'[h.of].inode > a[h.of].inode
    BY <1>3, <2>1
  <2> QED
    <3>1. h' = h /\ c' = c
      OBVIOUS
    <3>4. h.step \in {"identified", "git", "inspected"} => h.first \in Nat /\ h.first <= a[h.of].inode
      BY DEF DashInv
    <3>2. h.step \in {"identified", "git", "inspected"} => h.first \in Nat /\ h.first <= a'[h.of].inode
      BY <2>2, <3>4
    <3>3. h.step = "inspected" /\ h.read # h.first => h.first < a'[h.of].inode \/ ~Usable!Directory(a'[h.of].kind)
      BY <2>2, <3>2 DEF DashInv
    <3> QED
      BY <1>2, <2>1, <3>1, <3>2, <3>3 DEF DashInv
<1> QED
  BY <1>4, <1>5

LEMMA DashStep == DashInv /\ (Usable!Next \/ UNCHANGED <<a, c, h>>) => DashInv'
<1> SUFFICES ASSUME DashInv, Usable!Next \/ UNCHANGED <<a, c, h>> PROVE DashInv'
  OBVIOUS
<1>0. CASE UNCHANGED <<a, c, h>>
  BY <1>0 DEF DashInv
<1>1. ASSUME NEW w \in Workspaces, Usable!Replaced(w) \/ \E kind \in Usable!Kinds : Usable!Outside(w, kind) PROVE DashInv'
  BY <1>1, DisksGoOn DEF Usable!Outside, Usable!Replaced
<1>2. ASSUME NEW w \in Workspaces, Usable!Selects(w) \/ Usable!Imported(w) PROVE DashInv'
  BY <1>2 DEF DashInv, Usable!Selects, Usable!Imported
<1>3. ASSUME NEW w \in Workspaces, Usable!RemovalUndone(w) \/ Usable!WorkerStopped(w) \/ Usable!Asks(w) \/ Usable!StartsPrompt(w)
                 \/ Usable!WorkerStarted(w) \/ Usable!TurnEnds(w) \/ Usable!SweepLooks(w) \/ Usable!RestartFails(w)
                 \/ Usable!AddsAgain(w) \/ Usable!CancelsTurn(w)
      PROVE  DashInv'
  BY <1>0, <1>3 DEF Usable!RemovalUndone, Usable!WorkerStopped, Usable!Asks, Usable!StartsPrompt, Usable!WorkerStarted, Usable!TurnEnds,
                    Usable!SweepLooks, Usable!RestartFails, Usable!AddsAgain, Usable!CancelsTurn
<1>4. CASE Usable!SweepEnds \/ Usable!MemoryBegins \/ (\E good \in BOOLEAN : Usable!MemorySaved(good)) \/ Usable!MemoryRestarts
           \/ Usable!MemoryEnds
  BY <1>0, <1>4 DEF Usable!SweepEnds, Usable!MemoryBegins, Usable!MemorySaved, Usable!MemoryRestarts, Usable!MemoryEnds
<1>5. ASSUME NEW x \in f, Usable!CheckLstats(x) \/ Usable!CheckAccesses(x) \/ Usable!CheckEnds(x) \/ Usable!CheckStopped(x)
      PROVE  DashInv'
  <2>1. UNCHANGED <<a, c>> /\ (h' = h \/ \E result : h.step = "health" /\ h' = [h EXCEPT !.health = result])
    BY <1>5 DEF Usable!CheckLstats, Usable!CheckAccesses, Usable!CheckEnds, Usable!CheckStopped, Usable!Answered
  <2> QED
    BY <2>1 DEF DashInv, Usable!NoDash
<1>6. CASE Usable!DashBegins
  BY <1>6 DEF DashInv, Usable!DashBegins, Usable!NoDash
<1>7. ASSUME UNCHANGED <<a, c>>, h' = Usable!NoDash PROVE DashInv'
  <2>1. DOMAIN h' = DOMAIN Usable!NoDash /\ h'.step = ""
    BY <1>7 DEF Usable!NoDash
  <2> QED
    BY <1>7, <2>1 DEF DashInv
<1>8. CASE Usable!DashHealthy \/ Usable!DashToGit \/ Usable!DashAnswers
  BY <1>7, <1>8 DEF DashInv, Usable!DashHealthy, Usable!DashToGit, Usable!DashAnswers, Usable!DashGoesOn, Usable!NoDash
<1>9. CASE Usable!DashIdentifies
  <2>1. /\ UNCHANGED <<a, c>> /\ h.step = "lstat"
        /\ h' = [h EXCEPT !.step = "identified", !["first"] = Usable!Identity(h.of)]
    BY <1>9 DEF Usable!DashIdentifies, Usable!DashReads
  <2>2. /\ DOMAIN h' = DOMAIN Usable!NoDash /\ h'.step = "identified" /\ h'.of = h.of /\ h'.first = Usable!Identity(h.of)
        /\ h'.read = h.read /\ h'.second = h.second
    BY <2>1 DEF DashInv, Usable!NoDash
  <2>3. h.of \in Workspaces /\ a[h.of].inode \in Nat \ {0}
    BY <2>1 DEF DashInv
  <2>4. IF Usable!Directory(a[h.of].kind) THEN Usable!Identity(h.of) = a[h.of].inode ELSE Usable!Identity(h.of) = 0
    BY DEF Usable!Identity
  <2>5. UNCHANGED <<a, c>>
    BY <2>1
  <2>6. h.step = "lstat"
    BY <2>1
  <2> QED
    BY <2>2, <2>3, <2>4, <2>5, <2>6 DEF DashInv
<1>10. CASE Usable!DashGit
  <2>1. /\ UNCHANGED <<a, c>> /\ h.step = "git"
        /\ h' = [h EXCEPT !.step = "inspected", !["read"] = Usable!Identity(h.of)]
    BY <1>10 DEF Usable!DashGit, Usable!DashReads
  <2>2. /\ DOMAIN h' = DOMAIN Usable!NoDash /\ h'.step = "inspected" /\ h'.of = h.of /\ h'.read = Usable!Identity(h.of)
        /\ h'.first = h.first /\ h'.second = h.second
    BY <2>1 DEF DashInv, Usable!NoDash
  <2>3. h.of \in Workspaces /\ a[h.of].inode \in Nat \ {0}
    BY <2>1 DEF DashInv
  <2>4. IF Usable!Directory(a[h.of].kind) THEN Usable!Identity(h.of) = a[h.of].inode ELSE Usable!Identity(h.of) = 0
    BY DEF Usable!Identity
  <2>5. UNCHANGED <<a, c>>
    BY <2>1
  <2>6. h.step = "git"
    BY <2>1
  <2> QED
    BY <2>2, <2>3, <2>4, <2>5, <2>6 DEF DashInv
<1>11. CASE Usable!DashIdentifiesAgain
  <2>1. /\ UNCHANGED <<a, c>> /\ h.step = "inspected"
        /\ h' = [h EXCEPT !.step = "again", !["second"] = Usable!Identity(h.of)]
    BY <1>11 DEF Usable!DashIdentifiesAgain, Usable!DashReads
  <2>2. /\ DOMAIN h' = DOMAIN Usable!NoDash /\ h'.step = "again" /\ h'.of = h.of /\ h'.second = Usable!Identity(h.of)
        /\ h'.first = h.first /\ h'.read = h.read
    BY <2>1 DEF DashInv, Usable!NoDash
  <2>3. h.of \in Workspaces /\ a[h.of].inode \in Nat \ {0}
    BY <2>1 DEF DashInv
  <2>4. IF Usable!Directory(a[h.of].kind) THEN Usable!Identity(h.of) = a[h.of].inode ELSE Usable!Identity(h.of) = 0
    BY DEF Usable!Identity
  <2>5. UNCHANGED <<a, c>>
    BY <2>1
  <2>6. h.step = "inspected"
    BY <2>1
  <2> QED
    BY <2>2, <2>3, <2>4, <2>5, <2>6 DEF DashInv
<1>12. CASE Usable!DashTaken
  BY <1>7, <1>12 DEF Usable!DashTaken
<1> QED
  BY <1>0, <1>1, <1>2, <1>3, <1>4, <1>5, <1>6, <1>8, <1>9, <1>10, <1>11, <1>12 DEF Usable!Next

LEMMA DashDecides == DashInv /\ (Usable!Next \/ UNCHANGED h) => Usable!AnswersOfSelected
<1> SUFFICES ASSUME DashInv, Usable!Next, h.step # "answered", h'.step = "answered"
             PROVE  c = h.of /\ b[c] = h.object /\ h.read = h.first
  BY DEF Usable!AnswersOfSelected
<1>1. DOMAIN h = DOMAIN Usable!NoDash
  BY DEF DashInv
<1>2. CASE Usable!DashAnswers
  BY <1>1, <1>2 DEF DashInv, Usable!DashAnswers, Usable!DashGoesOn, Usable!Stable, Usable!NoDash
<1>3. ASSUME UNCHANGED h PROVE FALSE
  BY <1>3
<1>4. ASSUME NEW w \in Workspaces,
             \/ Usable!Replaced(w) \/ Usable!Selects(w) \/ Usable!RemovalUndone(w) \/ Usable!WorkerStopped(w) \/ Usable!StartsPrompt(w)
             \/ Usable!WorkerStarted(w) \/ Usable!TurnEnds(w) \/ Usable!Imported(w) \/ Usable!SweepLooks(w) \/ Usable!RestartFails(w)
             \/ Usable!Asks(w) \/ Usable!AddsAgain(w) \/ Usable!CancelsTurn(w)
             \/ \E kind \in Usable!Kinds : Usable!Outside(w, kind)
      PROVE  FALSE
  BY <1>3, <1>4 DEF Usable!Outside, Usable!Replaced, Usable!Selects, Usable!RemovalUndone, Usable!WorkerStopped, Usable!StartsPrompt,
                    Usable!WorkerStarted, Usable!TurnEnds, Usable!Imported, Usable!SweepLooks, Usable!RestartFails, Usable!Asks,
                    Usable!AddsAgain, Usable!CancelsTurn
<1>5. CASE \/ Usable!SweepEnds \/ Usable!MemoryBegins \/ (\E good \in BOOLEAN : Usable!MemorySaved(good)) \/ Usable!MemoryRestarts
           \/ Usable!MemoryEnds
  BY <1>3, <1>5 DEF Usable!SweepEnds, Usable!MemoryBegins, Usable!MemorySaved, Usable!MemoryRestarts, Usable!MemoryEnds
<1>6. ASSUME NEW x \in f, Usable!CheckLstats(x) \/ Usable!CheckAccesses(x) \/ Usable!CheckEnds(x) \/ Usable!CheckStopped(x)
      PROVE  FALSE
  <2>1. h' = h \/ \E result : h' = [h EXCEPT !.health = result]
    BY <1>6 DEF Usable!CheckLstats, Usable!CheckAccesses, Usable!CheckEnds, Usable!CheckStopped, Usable!Answered
  <2> QED
    BY <1>1, <2>1 DEF Usable!NoDash
<1>7. CASE Usable!DashBegins \/ Usable!DashHealthy \/ Usable!DashToGit \/ Usable!DashTaken
  <2>1. Usable!NoDash.step = ""
    BY DEF Usable!NoDash
  <2>2. \A step : step # "answered" => [h EXCEPT !.step = step].step # "answered"
    BY <1>1 DEF Usable!NoDash
  <2>3. CASE Usable!DashBegins
    BY <2>3 DEF Usable!DashBegins, Usable!NoDash
  <2> QED
    BY <1>7, <2>1, <2>2, <2>3 DEF Usable!DashHealthy, Usable!DashToGit, Usable!DashTaken, Usable!DashGoesOn
<1>8. CASE Usable!DashIdentifies \/ Usable!DashGit \/ Usable!DashIdentifiesAgain
  BY <1>1, <1>8 DEF Usable!DashIdentifies, Usable!DashGit, Usable!DashIdentifiesAgain, Usable!DashReads, Usable!NoDash
<1> QED
  BY <1>2, <1>3, <1>4, <1>5, <1>6, <1>7, <1>8 DEF Usable!Next

-----------------------------------------------------------------------------
(* Attachments: who holds the open images.                                 *)

\* A stage under way, with its paths, and the attachments so far as a sequence.
Stage(s) ==
  /\ DOMAIN c[s] = DOMAIN Uploads!Resting
  /\ c[s].todo \in Seq(ImagePaths)
  /\ Len(c[s].items) \in Nat /\ DOMAIN c[s].items = 1 .. Len(c[s].items)
  /\ c[s].at \in {"idle", "resolving", "opening", "opened", "over"}
  /\ c[s].at = "idle" => c[s].items = <<>>
  /\ c[s].at \in {"opening", "opened"} => c[s].todo # <<>>

StagesShaped == DOMAIN c = Stages /\ \A s \in Stages : Stage(s)
LeasesShaped ==
  /\ DOMAIN d = Stages /\ \A s \in Stages : DOMAIN d[s] = DOMAIN Uploads!NoLease
  /\ \A s \in Stages : c[s].at # "over" => d[s].state = "none"
UsesShaped ==
  /\ DOMAIN f = ImageConsumes
  /\ \A x \in ImageConsumes : DOMAIN f[x] = DOMAIN Uploads!Unused
\* A prompt that is under way took its token, and no other has it.
Reading(x) == f[x].at \in {"looking", "reading"}
TokensTaken ==
  \A x \in ImageConsumes : Reading(x) =>
    /\ f[x].token \in Stages /\ d[f[x].token].state = "gone"
    /\ \A y \in ImageConsumes : Reading(y) /\ f[y].token = f[x].token => y = x

\* The handles of a stage are numbered by the paths that were left, that of the path at hand being the lowest.
HandlesNumbered ==
  \A s \in Stages :
    /\ \A x \in e : x.stage = s /\ c[s].at \in {"resolving", "opening"} => x.n \in Nat /\ x.n > Len(c[s].todo)
    /\ \A x \in e : x.stage = s /\ c[s].at = "opened" => x.n \in Nat /\ x.n >= Len(c[s].todo)
    /\ c[s].at = "opened" => \E x \in e : x.stage = s /\ x.n = Len(c[s].todo)

\* Each image has its handle.
Held(s, items, n0) == \A t \in DOMAIN items : items[t].image => \E x \in e : x.stage = s /\ x.file = items[t].file /\ x.n > n0
StagedHeld == \A s \in Stages : c[s].at \in {"resolving", "opening", "opened"} => Held(s, c[s].items, Len(c[s].todo))
Wanted(s) == d[s].state = "valid" \/ \E x \in ImageConsumes : Reading(x) /\ f[x].token = s
LeasedHeld ==
  \A s \in Stages : Wanted(s) => \A t \in DOMAIN d[s].items : d[s].items[t].image => \E x \in e : x.stage = s /\ x.file = d[s].items[t].file
Owned ==
  \A x \in e : x.stage \in Stages /\ (c[x.stage].at \in {"resolving", "opening", "opened"} \/ Wanted(x.stage))

UploadsInv == StagesShaped /\ LeasesShaped /\ UsesShaped /\ TokensTaken /\ HandlesNumbered /\ StagedHeld /\ LeasedHeld /\ Owned

LEMMA UploadsSafe == UploadsInv => Uploads!HandlesAreOwned
BY DEF UploadsInv, Owned, LeasedHeld, Wanted, Reading, Uploads!HandlesAreOwned, Uploads!Underway, Uploads!Valid, Uploads!HandlesOf, Uploads!Images

LEMMA UploadsInit == Uploads!Init => UploadsInv
<1> SUFFICES ASSUME Uploads!Init PROVE UploadsInv
  OBVIOUS
<1>1. c = [s \in Stages |-> Uploads!Resting] /\ d = [s \in Stages |-> Uploads!NoLease] /\ e = {} /\ f = [x \in ImageConsumes |-> Uploads!Unused]
  BY DEF Uploads!Init
<1>2. StagesShaped
  <2>1. /\ Uploads!Resting.todo = <<>> /\ Uploads!Resting.items = <<>> /\ Uploads!Resting.at = "idle"
    BY DEF Uploads!Resting
  <2>2. <<>> \in Seq(ImagePaths) /\ Len(<<>>) \in Nat /\ DOMAIN <<>> = 1 .. Len(<<>>)
    OBVIOUS
  <2>3. ASSUME NEW s \in Stages PROVE Stage(s)
    <3>1. c[s] = Uploads!Resting
      BY <1>1
    <3> QED
      BY <2>1, <2>2, <3>1 DEF Stage
  <2> QED
    BY <1>1, <2>3 DEF StagesShaped
<1>3. LeasesShaped /\ UsesShaped /\ TokensTaken /\ HandlesNumbered /\ StagedHeld /\ LeasedHeld /\ Owned
  BY <1>1 DEF LeasesShaped, UsesShaped, TokensTaken, Reading, HandlesNumbered, StagedHeld, Wanted, LeasedHeld, Owned, Uploads!Resting, Uploads!NoLease, Uploads!Unused
<1> QED
  BY <1>2, <1>3 DEF UploadsInv

LEMMA AppendShape ==
  ASSUME NEW q, NEW v, Len(q) \in Nat, DOMAIN q = 1 .. Len(q)
  PROVE  /\ Len(Append(q, v)) \in Nat /\ DOMAIN Append(q, v) = 1 .. Len(Append(q, v))
         /\ Append(q, v)[Len(q) + 1] = v /\ \A t \in DOMAIN q : Append(q, v)[t] = q[t]
         /\ \A t \in DOMAIN Append(q, v) : t \in DOMAIN q \/ t = Len(q) + 1
OBVIOUS

\* A step of a prompt which does not end it.
LEMMA UsesGo ==
  ASSUME UploadsInv, UNCHANGED <<c, d, e>>, UsesShaped',
         \A x \in ImageConsumes : /\ f'[x].at \in {"looking", "reading"} <=> f[x].at \in {"looking", "reading"}
                                /\ f'[x].token = f[x].token
  PROVE  UploadsInv'
<1>1. \A s : Wanted(s)' <=> Wanted(s)
  BY DEF Wanted, Reading
<1>2. TokensTaken' /\ LeasedHeld' /\ Owned'
  BY <1>1 DEF UploadsInv, TokensTaken, Reading, LeasedHeld, Owned
<1> QED
  BY <1>2 DEF UploadsInv, StagesShaped, Stage, LeasesShaped, HandlesNumbered, StagedHeld, Held

\* A step of a stage, which has no token yet.
LEMMA StageGoes ==
  ASSUME UploadsInv, NEW s \in Stages, c[s].at # "over", UNCHANGED <<d, f>>,
         DOMAIN c' = Stages, \A r \in Stages : r # s => c'[r] = c[r], Stage(s)',
         \A x : x.stage # s => (x \in e' <=> x \in e),
         \A x \in e' : x.stage = s /\ c'[s].at \in {"resolving", "opening"} => x.n \in Nat /\ x.n > Len(c'[s].todo),
         \A x \in e' : x.stage = s /\ c'[s].at = "opened" => x.n \in Nat /\ x.n >= Len(c'[s].todo),
         c'[s].at = "opened" => \E x \in e' : x.stage = s /\ x.n = Len(c'[s].todo),
         c'[s].at \in {"resolving", "opening", "opened"} =>
           \A t \in DOMAIN c'[s].items : c'[s].items[t].image => \E x \in e' : x.stage = s /\ x.file = c'[s].items[t].file /\ x.n > Len(c'[s].todo),
         c'[s].at \notin {"resolving", "opening", "opened"} => \A x \in e' : x.stage # s
  PROVE  UploadsInv'
<1>1. \A r : Wanted(r)' <=> Wanted(r)
  BY DEF Wanted, Reading
<1>2. d[s].state = "none" /\ ~Wanted(s)
  BY DEF UploadsInv, LeasesShaped, TokensTaken, Wanted
<1>3. StagesShaped'
  BY DEF UploadsInv, StagesShaped, Stage
<1>4. LeasesShaped' /\ UsesShaped' /\ TokensTaken'
  BY <1>2 DEF UploadsInv, LeasesShaped, UsesShaped, TokensTaken, Reading
<1>5. HandlesNumbered'
  BY DEF UploadsInv, HandlesNumbered
<1>6. StagedHeld'
  BY DEF UploadsInv, StagedHeld, Held
<1>7. LeasedHeld'
  BY <1>1, <1>2 DEF UploadsInv, LeasedHeld
<1>8. Owned'
  BY <1>1, <1>2 DEF UploadsInv, Owned
<1> QED
  BY <1>3, <1>4, <1>5, <1>6, <1>7, <1>8 DEF UploadsInv

\* A step which takes tokens and closes the handles that no longer have one.
LEMMA LetsGo ==
  ASSUME UploadsInv, UNCHANGED c, LeasesShaped', UsesShaped', TokensTaken', e' \subseteq e,
         \A s \in Stages : d'[s].items = d[s].items,
         \A s \in Stages : Wanted(s)' => Wanted(s),
         \A x \in e : x \in e' \/ (x.stage \in Stages => c[x.stage].at = "over" /\ ~Wanted(x.stage)'),
         \A x \in e' : x.stage \in Stages /\ Wanted(x.stage) => Wanted(x.stage)'
  PROVE  UploadsInv'
<1>1. StagesShaped'
  BY DEF UploadsInv, StagesShaped, Stage
<1>2. HandlesNumbered'
  BY DEF UploadsInv, HandlesNumbered
<1>3. StagedHeld'
  BY DEF UploadsInv, StagedHeld, Held
<1>4. LeasedHeld'
  BY DEF UploadsInv, LeasedHeld
<1>5. Owned'
  BY DEF UploadsInv, Owned
<1> QED
  BY <1>1, <1>2, <1>3, <1>4, <1>5 DEF UploadsInv

LEMMA RestingShape ==
  /\ Uploads!Resting.todo = <<>> /\ Uploads!Resting.items = <<>> /\ Uploads!Resting.at = "idle"
  /\ <<>> \in Seq(ImagePaths) /\ Len(<<>>) \in Nat /\ DOMAIN <<>> = 1 .. Len(<<>>)
BY DEF Uploads!Resting

LEMMA UploadsStep == UploadsInv /\ (Uploads!Next \/ UNCHANGED <<c, d, e, f>>) => UploadsInv'
<1> SUFFICES ASSUME UploadsInv, Uploads!Next \/ UNCHANGED <<c, d, e, f>> PROVE UploadsInv'
  OBVIOUS
<1>1. CASE UNCHANGED <<c, d, e, f>>
  BY <1>1, UsesGo DEF UploadsInv, UsesShaped
<1>2. ASSUME NEW s \in Stages, NEW session \in Tasks, NEW selection \in Uploads!Selections, Uploads!StageBegins(s, session, selection) PROVE UploadsInv'
  <2> DEFINE st == [Uploads!Resting EXCEPT !.at = "resolving", !.session = session, !.todo = selection]
  <2>1. c[s].at = "idle" /\ c' = [c EXCEPT ![s] = st] /\ UNCHANGED <<d, e, f>>
    BY <1>2 DEF Uploads!StageBegins
  <2>2. DOMAIN st = DOMAIN Uploads!Resting /\ st.at = "resolving" /\ st.todo = selection /\ st.items = <<>>
    BY DEF Uploads!Resting
  <2>3. selection \in Seq(ImagePaths)
    <3>1. \A p0, q0 \in ImagePaths : <<p0>> \in Seq(ImagePaths) /\ <<p0, q0>> \in Seq(ImagePaths)
      OBVIOUS
    <3>2. \/ \E p0 \in ImagePaths : selection = <<p0>>
          \/ \E p0, q0 \in ImagePaths : selection = <<p0, q0>>
      BY DEF Uploads!Selections
    <3> QED
      BY <3>1, <3>2
  <2> HIDE DEF st
  <2>4. c'[s] = st /\ DOMAIN c' = Stages /\ \A r \in Stages : r # s => c'[r] = c[r]
    BY <2>1 DEF UploadsInv, StagesShaped
  <2>5. Stage(s)'
    BY <2>2, <2>3, <2>4, RestingShape DEF Stage
  <2>6. \A x \in e : x.stage # s
    BY <2>1 DEF UploadsInv, Owned, LeasesShaped, Wanted, TokensTaken
  <2>7. DOMAIN c'[s].items = {}
    BY <2>2, <2>4
  <2> QED
    BY <2>1, <2>2, <2>4, <2>5, <2>6, <2>7, StageGoes
<1>3. ASSUME NEW s \in Stages, Uploads!Resolves(s) PROVE UploadsInv'
  <2> DEFINE st == c[s]
             p0 == Head(st.todo)
  <2>1. st.at = "resolving" /\ st.todo # <<>> /\ UNCHANGED <<d, e, f>>
    BY <1>3 DEF Uploads!Resolves
  <2>2. st.todo \in Seq(ImagePaths) /\ Tail(st.todo) \in Seq(ImagePaths) /\ Len(st.todo) \in Nat /\ Len(Tail(st.todo)) = Len(st.todo) - 1
    BY <2>1 DEF UploadsInv, StagesShaped, Stage
  <2>3. Len(st.items) \in Nat /\ DOMAIN st.items = 1 .. Len(st.items) /\ DOMAIN st = DOMAIN Uploads!Resting
    BY DEF UploadsInv, StagesShaped, Stage
  <2>4. \A x \in e : x.stage = s => x.n \in Nat /\ x.n > Len(st.todo)
    BY <2>1 DEF UploadsInv, HandlesNumbered
  <2>5. Held(s, st.items, Len(st.todo))
    BY <2>1 DEF UploadsInv, StagedHeld
  <2>6. ASSUME NEW new, c' = [c EXCEPT ![s] = new], DOMAIN new = DOMAIN Uploads!Resting,
               \/ new.at = "resolving" /\ new.todo = Tail(st.todo)
               \/ new.at = "opening" /\ new.todo = st.todo,
               Len(new.items) \in Nat, DOMAIN new.items = 1 .. Len(new.items),
               \A t \in DOMAIN new.items : new.items[t].image => t \in DOMAIN st.items /\ new.items[t] = st.items[t]
        PROVE  UploadsInv'
    <3>1. c'[s] = new /\ DOMAIN c' = Stages /\ \A r \in Stages : r # s => c'[r] = c[r]
      BY <2>6 DEF UploadsInv, StagesShaped
    <3>2. Stage(s)'
      BY <2>1, <2>2, <2>6, <3>1 DEF Stage
    <3>3. \A x \in e : x.stage = s => x.n \in Nat /\ x.n > Len(new.todo)
      <4>1. Len(new.todo) \in Nat /\ Len(new.todo) <= Len(st.todo)
        <5>1. Len(Tail(st.todo)) \in Nat /\ Len(Tail(st.todo)) <= Len(st.todo)
          BY <2>2
        <5>2. CASE new.todo = Tail(st.todo)
          BY <5>1, <5>2
        <5>3. CASE new.todo = st.todo
          BY <2>2, <5>3
        <5> QED
          BY <2>6, <5>2, <5>3
      <4> QED
        BY <2>2, <2>4, <4>1
    <3>4. Held(s, new.items, Len(new.todo))
      BY <2>2, <2>4, <2>5, <2>6, <3>3 DEF Held
    <3> QED
      BY <2>1, <2>6, <3>1, <3>2, <3>3, <3>4, StageGoes DEF Held
  <2>7. CASE p0 \in st.seen
    <3> DEFINE new == [st EXCEPT !.todo = Tail(@)]
    <3>1. c' = [c EXCEPT ![s] = new]
      BY <1>3, <2>7 DEF Uploads!Resolves
    <3>2. DOMAIN new = DOMAIN st /\ new.at = st.at /\ new.todo = Tail(st.todo) /\ new.items = st.items
      BY <2>3 DEF Uploads!Resting
    <3> HIDE DEF new
    <3> QED
      BY <2>1, <2>3, <2>6, <3>1, <3>2
  <2>8. CASE p0 \notin st.seen /\ p0 \in Plain
    <3> DEFINE item == [image |-> FALSE, file |-> a[p0], version |-> 0]
               new == [st EXCEPT !.todo = Tail(@), !.seen = @ \union {p0}, !.items = Append(@, item)]
    <3>1. c' = [c EXCEPT ![s] = new]
      BY <1>3, <2>8 DEF Uploads!Resolves
    <3>2. DOMAIN new = DOMAIN st /\ new.at = st.at /\ new.todo = Tail(st.todo) /\ new.items = Append(st.items, item)
      BY <2>3 DEF Uploads!Resting
    <3>3. ~item.image
      OBVIOUS
    <3> HIDE DEF new, item
    <3>4. /\ Len(new.items) \in Nat /\ DOMAIN new.items = 1 .. Len(new.items)
          /\ \A t \in DOMAIN new.items : t \in DOMAIN st.items \/ t = Len(st.items) + 1
          /\ new.items[Len(st.items) + 1] = item /\ \A t \in DOMAIN st.items : new.items[t] = st.items[t]
      BY <2>3, <3>2, AppendShape
    <3>5. \A t \in DOMAIN new.items : new.items[t].image => t \in DOMAIN st.items /\ new.items[t] = st.items[t]
      BY <3>3, <3>4
    <3> QED
      BY <2>1, <2>3, <2>6, <3>1, <3>2, <3>4, <3>5
  <2>9. CASE p0 \notin st.seen /\ p0 \notin Plain
    <3> DEFINE new == [st EXCEPT !.at = "opening", !.seen = @ \union {p0}, !.file = a[p0]]
    <3>1. c' = [c EXCEPT ![s] = new]
      BY <1>3, <2>9 DEF Uploads!Resolves
    <3>2. DOMAIN new = DOMAIN st /\ new.at = "opening" /\ new.todo = st.todo /\ new.items = st.items
      BY <2>3 DEF Uploads!Resting
    <3> HIDE DEF new
    <3> QED
      BY <2>1, <2>3, <2>6, <3>1, <3>2
  <2> QED
    BY <2>7, <2>8, <2>9
<1>4. ASSUME NEW s \in Stages, Uploads!Opens(s) PROVE UploadsInv'
  <2> DEFINE st == c[s]
             new == [st EXCEPT !.at = "opened"]
             y == [stage |-> s, file |-> a[Head(st.todo)], n |-> Len(st.todo)]
  <2>1. st.at = "opening" /\ e' = e \union {y} /\ c' = [c EXCEPT ![s] = new] /\ UNCHANGED <<d, f>>
    BY <1>4 DEF Uploads!Opens
  <2>2. st.todo \in Seq(ImagePaths) /\ Len(st.todo) \in Nat /\ st.todo # <<>> /\ Len(st.items) \in Nat /\ DOMAIN st.items = 1 .. Len(st.items)
        /\ DOMAIN st = DOMAIN Uploads!Resting
    BY <2>1 DEF UploadsInv, StagesShaped, Stage
  <2>3. DOMAIN new = DOMAIN st /\ new.at = "opened" /\ new.todo = st.todo /\ new.items = st.items
    BY <2>2 DEF Uploads!Resting
  <2>4. y.stage = s /\ y.n = Len(st.todo)
    OBVIOUS
  <2> HIDE DEF new, y
  <2>5. c'[s] = new /\ DOMAIN c' = Stages /\ \A r \in Stages : r # s => c'[r] = c[r]
    BY <2>1 DEF UploadsInv, StagesShaped
  <2>6. Stage(s)'
    BY <2>2, <2>3, <2>5 DEF Stage
  <2>7. \A x \in e' : x.stage = s => x.n \in Nat /\ x.n >= Len(st.todo)
    <3>1. \A x \in e : x.stage = s => x.n \in Nat /\ x.n > Len(st.todo)
      BY <2>1 DEF UploadsInv, HandlesNumbered
    <3> QED
      BY <2>1, <2>2, <2>4, <3>1
  <2>8. Held(s, st.items, Len(st.todo))
    BY <2>1 DEF UploadsInv, StagedHeld
  <2>9. \A t \in DOMAIN new.items : new.items[t].image => \E x \in e' : x.stage = s /\ x.file = new.items[t].file /\ x.n > Len(new.todo)
    BY <2>1, <2>3, <2>8 DEF Held
  <2>10. y \in e' /\ \A x : x.stage # s => (x \in e' <=> x \in e)
    BY <2>1, <2>4
  <2> QED
    BY <2>1, <2>3, <2>4, <2>5, <2>6, <2>7, <2>9, <2>10, StageGoes
<1>5. ASSUME NEW s \in Stages, Uploads!Checked(s) PROVE UploadsInv'
  <2> DEFINE st == c[s]
             y == Uploads!Newest(s)
  <2>1. st.at = "opened" /\ UNCHANGED <<d, f>>
    BY <1>5 DEF Uploads!Checked
  <2>2. st.todo \in Seq(ImagePaths) /\ Len(st.todo) \in Nat /\ st.todo # <<>> /\ Len(st.items) \in Nat /\ DOMAIN st.items = 1 .. Len(st.items)
        /\ DOMAIN st = DOMAIN Uploads!Resting /\ Tail(st.todo) \in Seq(ImagePaths) /\ Len(Tail(st.todo)) = Len(st.todo) - 1
    BY <2>1 DEF UploadsInv, StagesShaped, Stage
  <2>3. \A x \in e : x.stage = s => x.n \in Nat /\ x.n >= Len(st.todo)
    BY <2>1 DEF UploadsInv, HandlesNumbered
  <2>4. y \in e /\ y.stage = s /\ y.n = Len(st.todo)
    <3>1. \E x \in Uploads!HandlesOf(s) : x.n = Len(st.todo)
      BY <2>1 DEF UploadsInv, HandlesNumbered, Uploads!HandlesOf
    <3>2. y \in Uploads!HandlesOf(s) /\ y.n = Len(st.todo)
      BY <3>1 DEF Uploads!Newest
    <3> QED
      BY <3>2 DEF Uploads!HandlesOf
  <2>5. Held(s, st.items, Len(st.todo))
    BY <2>1 DEF UploadsInv, StagedHeld
  <2>6. ASSUME NEW new, c' = [c EXCEPT ![s] = new], DOMAIN new = DOMAIN Uploads!Resting, new.at = "resolving", new.todo = Tail(st.todo),
               Len(new.items) \in Nat, DOMAIN new.items = 1 .. Len(new.items), e' \subseteq e, e \ {y} \subseteq e',
               \A t \in DOMAIN new.items : new.items[t].image =>
                  \/ t \in DOMAIN st.items /\ new.items[t] = st.items[t]
                  \/ y \in e' /\ new.items[t].file = y.file
        PROVE  UploadsInv'
    <3>1. c'[s] = new /\ DOMAIN c' = Stages /\ \A r \in Stages : r # s => c'[r] = c[r]
      BY <2>6 DEF UploadsInv, StagesShaped
    <3>2. Stage(s)'
      BY <2>2, <2>6, <3>1 DEF Stage
    <3>3. \A x \in e' : x.stage = s => x.n \in Nat /\ x.n > Len(new.todo)
      BY <2>2, <2>3, <2>6
    <3>4. \A t \in DOMAIN new.items : new.items[t].image => \E x \in e' : x.stage = s /\ x.file = new.items[t].file
      <4> SUFFICES ASSUME NEW t \in DOMAIN new.items, new.items[t].image
                   PROVE  \E x \in e' : x.stage = s /\ x.file = new.items[t].file
        OBVIOUS
      <4>1. CASE y \in e' /\ new.items[t].file = y.file
        BY <2>4, <4>1
      <4>2. CASE t \in DOMAIN st.items /\ new.items[t] = st.items[t]
        <5>1. PICK x \in e : x.stage = s /\ x.file = st.items[t].file /\ x.n > Len(st.todo)
          BY <2>5, <4>2 DEF Held
        <5>2. x # y
          BY <2>2, <2>4, <5>1
        <5> QED
          BY <2>6, <4>2, <5>1, <5>2
      <4> QED
        BY <2>6, <4>1, <4>2
    <3>5. \A x : x.stage # s => (x \in e' <=> x \in e)
      BY <2>4, <2>6
    <3>6. \A t \in DOMAIN c'[s].items : c'[s].items[t].image =>
            \E x \in e' : x.stage = s /\ x.file = c'[s].items[t].file /\ x.n > Len(c'[s].todo)
      BY <3>1, <3>3, <3>4
    <3>7. c'[s].at = "resolving" /\ c[s].at = "opened" /\ \A x \in e' : x.stage = s => x.n \in Nat /\ x.n > Len(c'[s].todo)
      BY <2>1, <2>6, <3>1, <3>3
    <3> HIDE DEF y
    <3> QED
      BY <2>1, <3>1, <3>2, <3>5, <3>6, <3>7, StageGoes
  <2>7. CASE \E t \in Uploads!Images(st.items) : st.items[t].file = y.file
    <3> DEFINE new == [st EXCEPT !.at = "resolving", !.todo = Tail(@)]
    <3>1. c' = [c EXCEPT ![s] = new] /\ e' = e \ {y}
      BY <1>5, <2>7 DEF Uploads!Checked
    <3>2. DOMAIN new = DOMAIN st /\ new.at = "resolving" /\ new.todo = Tail(st.todo) /\ new.items = st.items
      BY <2>2 DEF Uploads!Resting
    <3> HIDE DEF new
    <3>3. e' \subseteq e /\ e \ {y} \subseteq e'
      BY <3>1
    <3> HIDE DEF y
    <3> QED
      BY <2>2, <2>6, <3>1, <3>2, <3>3
  <2>8. CASE ~\E t \in Uploads!Images(st.items) : st.items[t].file = y.file
    <3> DEFINE item == [image |-> TRUE, file |-> y.file, version |-> b[y.file]]
               new == [st EXCEPT !.at = "resolving", !.todo = Tail(@), !.items = Append(@, item)]
    <3>1. c' = [c EXCEPT ![s] = new] /\ UNCHANGED e
      BY <1>5, <2>8 DEF Uploads!Checked
    <3>2. DOMAIN new = DOMAIN st /\ new.at = "resolving" /\ new.todo = Tail(st.todo) /\ new.items = Append(st.items, item)
      BY <2>2 DEF Uploads!Resting
    <3>3. item.file = y.file
      OBVIOUS
    <3> HIDE DEF new, item, y
    <3>4. /\ Len(new.items) \in Nat /\ DOMAIN new.items = 1 .. Len(new.items)
          /\ \A t \in DOMAIN new.items : t \in DOMAIN st.items \/ t = Len(st.items) + 1
          /\ new.items[Len(st.items) + 1] = item /\ \A t \in DOMAIN st.items : new.items[t] = st.items[t]
      BY <2>2, <3>2, AppendShape
    <3>5. e' \subseteq e /\ e \ {y} \subseteq e' /\ y \in e'
      BY <2>4, <3>1
    <3> QED
      BY <2>2, <2>6, <3>1, <3>2, <3>3, <3>4, <3>5
  <2> QED
    BY <2>7, <2>8
<1>6. ASSUME NEW s \in Stages, Uploads!StageFails(s) PROVE UploadsInv'
  <2> DEFINE new == [Uploads!Resting EXCEPT !.at = "over"]
  <2>1. c[s].at # "over" /\ e' = {x \in e : x.stage # s} /\ c' = [c EXCEPT ![s] = new] /\ UNCHANGED <<d, f>>
    BY <1>6 DEF Uploads!StageFails, Uploads!HandlesOf
  <2>2. DOMAIN new = DOMAIN Uploads!Resting /\ new.at = "over" /\ new.todo = <<>> /\ new.items = <<>>
    BY DEF Uploads!Resting
  <2> HIDE DEF new
  <2>3. c'[s] = new /\ DOMAIN c' = Stages /\ \A r \in Stages : r # s => c'[r] = c[r]
    BY <2>1 DEF UploadsInv, StagesShaped
  <2>4. Stage(s)'
    BY <2>2, <2>3, RestingShape DEF Stage
  <2> QED
    BY <2>1, <2>2, <2>3, <2>4, StageGoes
<1>7. ASSUME NEW s \in Stages, Uploads!Issues(s) PROVE UploadsInv'
  <2> DEFINE st == c[s]
             new == [Uploads!Resting EXCEPT !.at = "over"]
             issued == [Uploads!NoLease EXCEPT !.state = "valid", !.session = st.session, !.items = st.items]
  <2>1. st.at = "resolving" /\ c' = [c EXCEPT ![s] = new] /\ d' = [d EXCEPT ![s] = issued] /\ UNCHANGED <<e, f>>
    BY <1>7 DEF Uploads!Issues
  <2>2. DOMAIN new = DOMAIN Uploads!Resting /\ new.at = "over" /\ new.todo = <<>> /\ new.items = <<>>
    BY DEF Uploads!Resting
  <2>3. DOMAIN issued = DOMAIN Uploads!NoLease /\ issued.state = "valid" /\ issued.items = st.items
    BY DEF Uploads!NoLease
  <2> HIDE DEF new, issued
  <2>4. c'[s] = new /\ DOMAIN c' = Stages /\ \A r \in Stages : r # s => c'[r] = c[r]
    BY <2>1 DEF UploadsInv, StagesShaped
  <2>5. d'[s] = issued /\ DOMAIN d' = Stages /\ \A r \in Stages : r # s => d'[r] = d[r]
    BY <2>1 DEF UploadsInv, LeasesShaped
  <2>6. d[s].state = "none"
    BY <2>1 DEF UploadsInv, LeasesShaped
  <2>7. StagesShaped'
    BY <2>2, <2>4, RestingShape DEF UploadsInv, StagesShaped, Stage
  <2>8. LeasesShaped' /\ UsesShaped'
    BY <2>1, <2>2, <2>3, <2>4, <2>5 DEF UploadsInv, LeasesShaped, UsesShaped
  <2>9. TokensTaken'
    BY <2>1, <2>5, <2>6 DEF UploadsInv, TokensTaken, Reading
  <2>10. HandlesNumbered' /\ StagedHeld'
    BY <2>1, <2>2, <2>4 DEF UploadsInv, HandlesNumbered, StagedHeld, Held
  <2>11. Wanted(s)' /\ \A r \in Stages : r # s => (Wanted(r)' <=> Wanted(r))
    BY <2>1, <2>3, <2>5 DEF Wanted, Reading
  <2>12. LeasedHeld'
    BY <2>1, <2>3, <2>5, <2>11 DEF UploadsInv, LeasedHeld, StagedHeld, Held
  <2>13. Owned'
    BY <2>1, <2>4, <2>11 DEF UploadsInv, Owned
  <2> QED
    BY <2>7, <2>8, <2>9, <2>10, <2>12, <2>13 DEF UploadsInv
<1>8. ASSUME NEW s \in Stages, d[s].state = "valid", d' = [d EXCEPT ![s].state = "gone"], UNCHANGED <<c, f>>, e' = {x \in e : x.stage # s}
      PROVE  UploadsInv'
  <2>1. /\ DOMAIN d' = Stages /\ DOMAIN d'[s] = DOMAIN d[s] /\ d'[s].state = "gone" /\ d'[s].items = d[s].items
        /\ \A r \in Stages : r # s => d'[r] = d[r]
    BY <1>8 DEF UploadsInv, LeasesShaped, Uploads!NoLease
  <2>2. c[s].at = "over"
    BY <1>8 DEF UploadsInv, LeasesShaped
  <2>3. LeasesShaped' /\ UsesShaped' /\ TokensTaken'
    BY <1>8, <2>1, <2>2 DEF UploadsInv, LeasesShaped, UsesShaped, TokensTaken, Reading
  <2>4. ~Wanted(s)' /\ \A r \in Stages : r # s => (Wanted(r)' <=> Wanted(r))
    BY <1>8, <2>1 DEF UploadsInv, TokensTaken, Wanted, Reading
  <2>5. \A r \in Stages : d'[r].items = d[r].items
    BY <2>1
  <2> QED
    BY <1>8, <2>2, <2>3, <2>4, <2>5, LetsGo
<1>9. ASSUME NEW s \in Stages, NEW session, Uploads!Cancel(s, session) \/ Uploads!Expires(s) PROVE UploadsInv'
  BY <1>8, <1>9 DEF Uploads!Cancel, Uploads!Expires, Uploads!Taken, Uploads!Valid, Uploads!Closed, Uploads!HandlesOf
<1>10. ASSUME NEW s \in Stages, Uploads!TimeIsUp(s) PROVE UploadsInv'
  <2>1. d' = [d EXCEPT ![s].late = TRUE] /\ UNCHANGED <<c, e, f>>
    BY <1>10 DEF Uploads!TimeIsUp
  <2>2. /\ DOMAIN d' = Stages
        /\ \A r \in Stages : DOMAIN d'[r] = DOMAIN d[r] /\ d'[r].state = d[r].state /\ d'[r].items = d[r].items
    BY <2>1 DEF UploadsInv, LeasesShaped, Uploads!NoLease
  <2>3. LeasesShaped' /\ UsesShaped' /\ TokensTaken'
    BY <2>1, <2>2 DEF UploadsInv, LeasesShaped, UsesShaped, TokensTaken, Reading
  <2>4. \A r \in Stages : Wanted(r)' <=> Wanted(r)
    BY <2>1, <2>2 DEF Wanted, Reading
  <2> QED
    BY <2>1, <2>2, <2>3, <2>4, LetsGo
<1>11. ASSUME NEW x \in ImageConsumes, NEW s \in Stages, NEW session, Uploads!Consume(x, s, session) PROVE UploadsInv'
  <2>1. /\ f[x].at = "idle" /\ d[s].state = "valid" /\ d' = [d EXCEPT ![s].state = "gone"] /\ UNCHANGED c
        /\ \/ e' = {y \in e : y.stage # s} /\ f' = [f EXCEPT ![x].at = "over"]
           \/ UNCHANGED e /\ f' = [f EXCEPT ![x] = [Uploads!Unused EXCEPT !.at = "looking", !.token = s]]
    BY <1>11 DEF Uploads!Consume, Uploads!Valid, Uploads!Taken, Uploads!Closed, Uploads!HandlesOf
  <2>2. /\ DOMAIN d' = Stages /\ DOMAIN d'[s] = DOMAIN d[s] /\ d'[s].state = "gone" /\ d'[s].items = d[s].items
        /\ \A r \in Stages : r # s => d'[r] = d[r]
    BY <2>1 DEF UploadsInv, LeasesShaped, Uploads!NoLease
  <2>3. c[s].at = "over"
    BY <2>1 DEF UploadsInv, LeasesShaped
  <2>4. LeasesShaped'
    BY <2>1, <2>2, <2>3 DEF UploadsInv, LeasesShaped
  <2>5. \A r \in Stages : d'[r].items = d[r].items
    BY <2>2
  <2>6. ~Reading(x) /\ \A y \in ImageConsumes : Reading(y) => f[y].token # s
    BY <2>1 DEF UploadsInv, TokensTaken, Reading
  <2>7. CASE e' = {y \in e : y.stage # s} /\ f' = [f EXCEPT ![x].at = "over"]
    <3>1. /\ DOMAIN f' = ImageConsumes /\ DOMAIN f'[x] = DOMAIN f[x] /\ f'[x].at = "over"
          /\ \A y \in ImageConsumes : y # x => f'[y] = f[y]
      BY <2>7 DEF UploadsInv, UsesShaped, Uploads!Unused
    <3>2. \A y \in ImageConsumes : (Reading(y)' <=> Reading(y)) /\ (Reading(y) => f'[y].token = f[y].token)
      BY <2>6, <3>1 DEF Reading
    <3>3. UsesShaped' /\ TokensTaken'
      BY <2>2, <2>6, <3>1, <3>2 DEF UploadsInv, UsesShaped, TokensTaken
    <3>4. ~Wanted(s)' /\ \A r \in Stages : r # s => (Wanted(r)' <=> Wanted(r))
      BY <2>2, <2>6, <3>2 DEF Wanted
    <3> QED
      BY <2>1, <2>3, <2>4, <2>5, <2>7, <3>3, <3>4, LetsGo
  <2>8. CASE UNCHANGED e /\ f' = [f EXCEPT ![x] = [Uploads!Unused EXCEPT !.at = "looking", !.token = s]]
    <3>1. /\ DOMAIN f' = ImageConsumes /\ DOMAIN f'[x] = DOMAIN Uploads!Unused /\ f'[x].at = "looking" /\ f'[x].token = s
          /\ \A y \in ImageConsumes : y # x => f'[y] = f[y]
      BY <2>8 DEF UploadsInv, UsesShaped, Uploads!Unused
    <3>2. Reading(x)' /\ \A y \in ImageConsumes : y # x => (Reading(y)' <=> Reading(y)) /\ f'[y].token = f[y].token
      BY <3>1 DEF Reading
    <3>3. UsesShaped' /\ TokensTaken'
      BY <2>2, <2>6, <3>1, <3>2 DEF UploadsInv, UsesShaped, TokensTaken
    <3>4. Wanted(s) /\ \A r \in Stages : Wanted(r)' <=> Wanted(r)
      BY <2>1, <2>2, <2>6, <3>1, <3>2 DEF Wanted
    <3> QED
      BY <2>1, <2>3, <2>4, <2>5, <2>8, <3>3, <3>4, LetsGo
  <2> QED
    BY <2>1, <2>7, <2>8
<1>12. ASSUME NEW x \in ImageConsumes, Uploads!Looks(x) \/ Uploads!Reads(x) \/ Uploads!ReadEnds(x) PROVE UploadsInv'
  <2>1. /\ UNCHANGED <<c, d, e>> /\ Reading(x)
        /\ \/ f' = [f EXCEPT ![x].n = @ + 1]
           \/ f' = [f EXCEPT ![x].at = "reading", ![x].data = <<>>]
           \/ \E y : f' = [f EXCEPT ![x].data = y]
           \/ \E y : f' = [f EXCEPT ![x].at = "looking", ![x].n = @ + 1, ![x].read = y]
    BY <1>12 DEF Uploads!Looks, Uploads!Reads, Uploads!ReadEnds, Uploads!NextImage, Reading
  <2>2. /\ DOMAIN f' = ImageConsumes /\ DOMAIN f'[x] = DOMAIN f[x] /\ f'[x].token = f[x].token
        /\ f'[x].at \in {f[x].at, "looking", "reading"} /\ \A y \in ImageConsumes : y # x => f'[y] = f[y]
    BY <2>1 DEF UploadsInv, UsesShaped, Uploads!Unused
  <2> QED
    BY <2>1, <2>2, UsesGo DEF UploadsInv, UsesShaped, Reading
<1>13. ASSUME NEW x \in ImageConsumes, Uploads!Delivers(x) \/ Uploads!ConsumeFails(x) PROVE UploadsInv'
  <2>0. PICK s : s = f[x].token
    OBVIOUS
  <2>1. Reading(x) /\ f' = [f EXCEPT ![x].at = "over"] /\ e' = {y \in e : y.stage # s} /\ UNCHANGED <<c, d>>
    BY <1>13, <2>0 DEF Uploads!Delivers, Uploads!ConsumeFails, Uploads!Closed, Uploads!HandlesOf, Reading
  <2>2. /\ DOMAIN f' = ImageConsumes /\ DOMAIN f'[x] = DOMAIN f[x] /\ f'[x].at = "over"
        /\ \A y \in ImageConsumes : y # x => f'[y] = f[y]
    BY <2>1 DEF UploadsInv, UsesShaped, Uploads!Unused
  <2>3. s \in Stages /\ d[s].state = "gone" /\ \A y \in ImageConsumes : Reading(y) /\ f[y].token = s => y = x
    BY <2>0, <2>1 DEF UploadsInv, TokensTaken
  <2>4. c[s].at = "over"
    BY <2>3 DEF UploadsInv, LeasesShaped
  <2>5. ~Reading(x)' /\ \A y \in ImageConsumes : y # x => (Reading(y)' <=> Reading(y)) /\ f'[y].token = f[y].token
    BY <2>2 DEF Reading
  <2>6. LeasesShaped' /\ UsesShaped' /\ TokensTaken'
    BY <2>1, <2>2, <2>5 DEF UploadsInv, LeasesShaped, UsesShaped, TokensTaken
  <2>7. ~Wanted(s)' /\ \A r \in Stages : r # s => (Wanted(r)' <=> Wanted(r))
    BY <2>0, <2>1, <2>2, <2>3, <2>5 DEF Wanted
  <2>8. e' \subseteq e /\ \A y \in e : y \in e' \/ (y.stage \in Stages => c[y.stage].at = "over" /\ ~Wanted(y.stage)')
    BY <2>1, <2>4, <2>7
  <2>9. \A y \in e' : y.stage \in Stages /\ Wanted(y.stage) => Wanted(y.stage)'
    BY <2>1, <2>7
  <2>10. \A r \in Stages : d'[r].items = d[r].items /\ (Wanted(r)' => Wanted(r))
    BY <2>1, <2>7
  <2> QED
    BY <2>1, <2>6, <2>8, <2>9, <2>10, LetsGo
<1>14. ASSUME NEW sessions, Uploads!Clear(sessions) PROVE UploadsInv'
  <2> DEFINE cleared == {s \in Stages : d[s].state = "valid" /\ d[s].session \in sessions}
  <2>1. /\ d' = [s \in Stages |-> IF s \in cleared THEN [d[s] EXCEPT !.state = "gone"] ELSE d[s]]
        /\ e' = {y \in e : y.stage \notin cleared} /\ UNCHANGED <<c, f>>
    BY <1>14 DEF Uploads!Clear, Uploads!Valid
  <2>2. /\ DOMAIN d' = Stages /\ \A s \in Stages : DOMAIN d'[s] = DOMAIN d[s] /\ d'[s].items = d[s].items
        /\ \A s \in cleared : d'[s].state = "gone" /\ d[s].state = "valid" /\ s \in Stages
        /\ \A s \in Stages \ cleared : d'[s] = d[s]
    BY <2>1 DEF UploadsInv, LeasesShaped, Uploads!NoLease
  <2> HIDE DEF cleared
  <2>3. \A s \in cleared : c[s].at = "over"
    BY <2>2 DEF UploadsInv, LeasesShaped
  <2>4. LeasesShaped' /\ UsesShaped' /\ TokensTaken'
    BY <2>1, <2>2, <2>3 DEF UploadsInv, LeasesShaped, UsesShaped, TokensTaken, Reading
  <2>5. /\ \A s \in cleared : ~Wanted(s)' /\ Wanted(s)
        /\ \A s \in Stages \ cleared : Wanted(s)' <=> Wanted(s)
    BY <2>1, <2>2 DEF UploadsInv, TokensTaken, Wanted, Reading
  <2> QED
    BY <2>1, <2>2, <2>3, <2>4, <2>5, LetsGo
<1>15. ASSUME NEW p0 \in ImagePaths, Uploads!Outside(p0) PROVE UploadsInv'
  BY <1>1, <1>15 DEF Uploads!Outside
<1> QED
  BY <1>1, <1>2, <1>3, <1>4, <1>5, <1>6, <1>7, <1>9, <1>10, <1>11, <1>12, <1>13, <1>14, <1>15 DEF Uploads!Next

\* The files that the attachments and the handles are of.
ItemsOK(q) ==
  /\ Len(q) \in Nat /\ DOMAIN q = 1 .. Len(q)
  /\ \A t \in DOMAIN q : q[t].file \in Uploads!FileIds /\ q[t].version \in Nat
FilesTyped ==
  /\ a \in [ImagePaths -> Uploads!FileIds] /\ b \in [Uploads!FileIds -> Nat] /\ h \in Nat /\ h <= MaxOutside
  /\ \A x \in e : x.file \in Uploads!FileIds
ItemsTyped == \A s \in Stages : ItemsOK(c[s].items) /\ ItemsOK(d[s].items)

\* What a prompt has read: every image before its position, each in the version in which it was staged.
ReadSoFar(u, items) ==
  /\ u.n \in Nat \ {0} /\ Len(u.read) \in Nat /\ DOMAIN u.read = 1 .. Len(u.read)
  /\ \A t \in DOMAIN u.read :
       /\ u.read[t].n \in DOMAIN items /\ items[u.read[t].n].image /\ u.read[t].n < u.n
       /\ u.read[t].version = items[u.read[t].n].version
  /\ \A t \in DOMAIN items : items[t].image /\ t < u.n => \E x \in DOMAIN u.read : u.read[x].n = t
\* The chunks of the image at hand: their versions lie between that of the staging and that of the file now.
ChunksBetween(u, items, now) ==
  u.at = "reading" =>
    /\ u.n \in DOMAIN items /\ items[u.n].image /\ items[u.n].version <= now[items[u.n].file]
    /\ Len(u.data) \in Nat /\ DOMAIN u.data = 1 .. Len(u.data)
    /\ \A t \in DOMAIN u.data :
         /\ u.data[t].n = u.n /\ u.data[t].version \in Nat
         /\ items[u.n].version <= u.data[t].version /\ u.data[t].version <= now[items[u.n].file]
UsesRead ==
  \A x \in ImageConsumes : Reading(x) =>
    ReadSoFar(f[x], d[f[x].token].items) /\ ChunksBetween(f[x], d[f[x].token].items, b)

GivenOnce ==
  \A x \in g :
    /\ x.token \in Stages /\ d[x.token].state = "gone"
    /\ \A y \in ImageConsumes : Reading(y) => f[y].token # x.token
    /\ \A y \in g : y.token = x.token => y = x
GivenWhole ==
  \A x \in g :
    /\ {r.n : r \in x.read} = {t \in DOMAIN d[x.token].items : d[x.token].items[t].image}
    /\ \A r \in x.read : r.version = d[x.token].items[r.n].version

GivenInv == FilesTyped /\ ItemsTyped /\ UsesRead /\ GivenOnce /\ GivenWhole

LEMMA GivenSafe == GivenInv => Uploads!GivenAsStaged
BY DEF GivenInv, GivenOnce, GivenWhole, Uploads!GivenAsStaged, Uploads!Images

LEMMA GivenInit == Uploads!Init => GivenInv
<1> SUFFICES ASSUME Uploads!Init PROVE GivenInv
  OBVIOUS
<1>1. c = [s \in Stages |-> Uploads!Resting] /\ d = [s \in Stages |-> Uploads!NoLease] /\ e = {} /\ g = {} /\ h = 0
      /\ f = [x \in ImageConsumes |-> Uploads!Unused] /\ b = [x \in Uploads!FileIds |-> 0] /\ a \in [ImagePaths -> 0 .. 1]
  BY DEF Uploads!Init
<1>2. 0 .. 1 \subseteq Uploads!FileIds
  BY NamesAssumption DEF Uploads!FileIds
<1>3. FilesTyped
  BY <1>1, <1>2, NamesAssumption DEF FilesTyped
<1>4. ItemsOK(<<>>)
  BY DEF ItemsOK
<1>5. Uploads!NoLease.items = <<>> /\ Uploads!Resting.items = <<>> /\ Uploads!Unused.at = "idle"
  BY DEF Uploads!NoLease, Uploads!Resting, Uploads!Unused
<1>6. ItemsTyped
  BY <1>1, <1>4, <1>5 DEF ItemsTyped
<1> QED
  BY <1>1, <1>3, <1>5, <1>6 DEF GivenInv, UsesRead, Reading, GivenOnce, GivenWhole

LEMMA ConcatShape ==
  ASSUME NEW q, NEW r, Len(q) \in Nat, DOMAIN q = 1 .. Len(q), Len(r) \in Nat, DOMAIN r = 1 .. Len(r)
  PROVE  /\ Len(q \o r) \in Nat /\ DOMAIN (q \o r) = 1 .. Len(q \o r) /\ Len(q \o r) = Len(q) + Len(r)
         /\ \A t \in DOMAIN q : (q \o r)[t] = q[t]
         /\ \A t \in DOMAIN r : (q \o r)[Len(q) + t] = r[t]
OBVIOUS

LEMMA AppendItems ==
  ASSUME NEW q, ItemsOK(q), NEW v, v.file \in Uploads!FileIds, v.version \in Nat
  PROVE  ItemsOK(Append(q, v))
BY AppendShape DEF ItemsOK

\* A step of a stage: what prompts have and were given stays as it is.
LEMMA StagingKeeps ==
  ASSUME GivenInv, UNCHANGED <<a, b, d, f, g, h>>, \A x \in e' : x.file \in Uploads!FileIds, \A s \in Stages : ItemsOK(c'[s].items)
  PROVE  GivenInv'
<1>1. FilesTyped' /\ ItemsTyped'
  BY DEF GivenInv, FilesTyped, ItemsTyped
<1>2. UsesRead'
  BY DEF GivenInv, UsesRead, Reading
<1> QED
  BY <1>1, <1>2 DEF GivenInv, GivenOnce, GivenWhole, Reading

\* A step of tokens and prompts: what a token stands for stays, one that was taken is not given back, and what has moved
\* on has read on.
Moved(u, items) == ReadSoFar(u, items) /\ ChunksBetween(u, items, b) /\ \A x \in g : x.token # u.token
LEMMA UsesKeep ==
  ASSUME GivenInv, TokensTaken, UNCHANGED <<a, b, c, h>>, e' \subseteq e,
         \A s \in Stages : d'[s].items = d[s].items /\ (d[s].state = "gone" => d'[s].state = "gone"),
         \A x \in ImageConsumes : f'[x] = f[x] \/ (Reading(x)' => f'[x].token \in Stages /\ Moved(f'[x], d[f'[x].token].items))
  PROVE  FilesTyped' /\ ItemsTyped' /\ UsesRead' /\ (UNCHANGED g => GivenInv')
<1>1. FilesTyped' /\ ItemsTyped'
  BY DEF GivenInv, FilesTyped, ItemsTyped
<1>2. \A x \in ImageConsumes : Reading(x)' => f'[x].token \in Stages /\ Moved(f'[x], d[f'[x].token].items)
  <2> SUFFICES ASSUME NEW x \in ImageConsumes, Reading(x)', f'[x] = f[x] PROVE f'[x].token \in Stages /\ Moved(f'[x], d[f'[x].token].items)
    OBVIOUS
  <2>1. Reading(x)
    BY DEF Reading
  <2> QED
    BY <2>1 DEF GivenInv, UsesRead, GivenOnce, TokensTaken, Moved
<1>3. UsesRead'
  <2>1. \A x \in ImageConsumes : Reading(x)' => d'[f'[x].token].items = d[f'[x].token].items
    BY <1>2
  <2> QED
    BY <1>2, <2>1 DEF UsesRead, Moved
<1>4. ASSUME UNCHANGED g PROVE GivenOnce' /\ GivenWhole'
  <2>1. GivenOnce'
    BY <1>2, <1>4 DEF GivenInv, GivenOnce, Moved
  <2>2. \A x \in g : d'[x.token].items = d[x.token].items
    BY DEF GivenInv, GivenOnce
  <2> QED
    BY <1>4, <2>1, <2>2 DEF GivenInv, GivenWhole
<1> QED
  BY <1>1, <1>3, <1>4 DEF GivenInv

LEMMA StagingGiven ==
  ASSUME UploadsInv, GivenInv, NEW s \in Stages,
         \/ \E session \in Tasks, selection \in Uploads!Selections : Uploads!StageBegins(s, session, selection)
         \/ Uploads!Resolves(s) \/ Uploads!Opens(s) \/ Uploads!Checked(s) \/ Uploads!StageFails(s)
  PROVE  GivenInv'
<1> USE DEF UploadsInv, StagesShaped
<1>1. \A r \in Stages : ItemsOK(c[r].items)
  BY DEF GivenInv, ItemsTyped
<1>2. ItemsOK(<<>>)
  BY DEF ItemsOK
<1>3. ASSUME NEW new, c' = [c EXCEPT ![s] = new], ItemsOK(new.items), UNCHANGED <<a, b, d, f, g, h>>, \A x \in e' : x.file \in Uploads!FileIds
      PROVE  GivenInv'
  BY <1>1, <1>3, StagingKeeps
<1>4. \A x \in e : x.file \in Uploads!FileIds
  BY DEF GivenInv, FilesTyped
<1>5. ASSUME NEW session, NEW selection, Uploads!StageBegins(s, session, selection) PROVE GivenInv'
  <2>1. [Uploads!Resting EXCEPT !.at = "resolving", !.session = session, !.todo = selection].items = <<>>
    BY DEF Uploads!Resting
  <2> QED
    BY <1>2, <1>3, <1>4, <1>5, <2>1 DEF Uploads!StageBegins
<1>6. DOMAIN c[s] = DOMAIN Uploads!Resting
  BY DEF Stage
<1>7. CASE Uploads!Resolves(s)
  <2> DEFINE st == c[s]
             p0 == Head(st.todo)
             item == [image |-> FALSE, file |-> a[p0], version |-> 0]
  <2>1. p0 \in ImagePaths
    BY <1>7 DEF Stage, Uploads!Resolves
  <2>2. a[p0] \in Uploads!FileIds
    BY <2>1 DEF GivenInv, FilesTyped
  <2>3. ItemsOK(Append(st.items, item))
    BY <1>1, <2>2, AppendItems
  <2>4. UNCHANGED <<a, b, d, e, f, g, h>>
    BY <1>7 DEF Uploads!Resolves
  <2>5. CASE p0 \in st.seen
    <3>1. c' = [c EXCEPT ![s] = [st EXCEPT !.todo = Tail(@)]] /\ [st EXCEPT !.todo = Tail(@)].items = st.items
      BY <1>6, <1>7, <2>5 DEF Uploads!Resolves, Uploads!Resting
    <3> QED
      BY <1>1, <1>3, <1>4, <2>4, <3>1
  <2>6. CASE p0 \notin st.seen /\ p0 \in Plain
    <3> DEFINE new == [st EXCEPT !.todo = Tail(@), !.seen = @ \union {p0}, !.items = Append(@, item)]
    <3>1. c' = [c EXCEPT ![s] = new] /\ new.items = Append(st.items, item)
      BY <1>6, <1>7, <2>6 DEF Uploads!Resolves, Uploads!Resting
    <3> HIDE DEF new
    <3> QED
      BY <1>3, <1>4, <2>3, <2>4, <3>1
  <2>7. CASE p0 \notin st.seen /\ p0 \notin Plain
    <3> DEFINE new == [st EXCEPT !.at = "opening", !.seen = @ \union {p0}, !.file = a[p0]]
    <3>1. c' = [c EXCEPT ![s] = new] /\ new.items = st.items
      BY <1>6, <1>7, <2>7 DEF Uploads!Resolves, Uploads!Resting
    <3> HIDE DEF new
    <3> QED
      BY <1>1, <1>3, <1>4, <2>4, <3>1
  <2> QED
    BY <2>5, <2>6, <2>7
<1>8. CASE Uploads!Opens(s)
  <2> DEFINE file == a[Head(c[s].todo)]
  <2>1. file \in Uploads!FileIds
    <3>1. Head(c[s].todo) \in ImagePaths
      BY <1>8 DEF Stage, Uploads!Opens
    <3> QED
      BY <3>1 DEF GivenInv, FilesTyped
  <2>2. /\ c' = [c EXCEPT ![s] = [c[s] EXCEPT !.at = "opened"]] /\ [c[s] EXCEPT !.at = "opened"].items = c[s].items
        /\ e' = e \union {[stage |-> s, file |-> file, n |-> Len(c[s].todo)]} /\ UNCHANGED <<a, b, d, f, g, h>>
    BY <1>6, <1>8 DEF Uploads!Opens, Uploads!Resting
  <2>3. \A x \in e' : x.file \in Uploads!FileIds
    BY <1>4, <2>1, <2>2
  <2> QED
    BY <1>1, <1>3, <2>2, <2>3
<1>9. CASE Uploads!Checked(s)
  <2> DEFINE y == Uploads!Newest(s)
             item == [image |-> TRUE, file |-> y.file, version |-> b[y.file]]
  <2>1. y \in e
    <3>1. \E x \in e : x.stage = s /\ x.n = Len(c[s].todo)
      BY <1>9 DEF HandlesNumbered, Uploads!Checked
    <3> QED
      BY <3>1 DEF Uploads!Newest, Uploads!HandlesOf
  <2>2. y.file \in Uploads!FileIds /\ b[y.file] \in Nat
    BY <2>1 DEF GivenInv, FilesTyped
  <2>3. ItemsOK(Append(c[s].items, item))
    BY <1>1, <2>2, AppendItems
  <2>4. UNCHANGED <<a, b, d, f, g, h>> /\ e' \subseteq e
    BY <1>9 DEF Uploads!Checked
  <2>5. CASE \E t \in Uploads!Images(c[s].items) : c[s].items[t].file = y.file
    <3> DEFINE new == [c[s] EXCEPT !.at = "resolving", !.todo = Tail(@)]
    <3>1. c' = [c EXCEPT ![s] = new] /\ new.items = c[s].items
      BY <1>6, <1>9, <2>5 DEF Uploads!Checked, Uploads!Resting
    <3> HIDE DEF new
    <3> QED
      BY <1>1, <1>3, <1>4, <2>4, <3>1
  <2>6. CASE ~\E t \in Uploads!Images(c[s].items) : c[s].items[t].file = y.file
    <3> DEFINE new == [c[s] EXCEPT !.at = "resolving", !.todo = Tail(@), !.items = Append(@, item)]
    <3>1. c' = [c EXCEPT ![s] = new] /\ new.items = Append(c[s].items, item)
      BY <1>6, <1>9, <2>6 DEF Uploads!Checked, Uploads!Resting
    <3> HIDE DEF new
    <3> QED
      BY <1>3, <1>4, <2>3, <2>4, <3>1
  <2> QED
    BY <2>5, <2>6
<1>10. CASE Uploads!StageFails(s)
  <2>1. [Uploads!Resting EXCEPT !.at = "over"].items = <<>>
    BY DEF Uploads!Resting
  <2> QED
    BY <1>2, <1>3, <1>4, <1>10, <2>1 DEF Uploads!StageFails
<1> QED
  BY <1>5, <1>7, <1>8, <1>9, <1>10

LEMMA TokensGiven ==
  ASSUME UploadsInv, GivenInv, NEW s \in Stages,
         \/ Uploads!TimeIsUp(s) \/ Uploads!Expires(s) \/ \E session \in Tasks : Uploads!Cancel(s, session)
         \/ \E sessions : Uploads!Clear(sessions)
  PROVE  GivenInv'
<1>1. UNCHANGED <<a, b, c, f, g, h>> /\ e' \subseteq e
  BY DEF Uploads!TimeIsUp, Uploads!Expires, Uploads!Cancel, Uploads!Clear, Uploads!Closed
<1>2. \A r \in Stages : d'[r].items = d[r].items /\ (d[r].state = "gone" => d'[r].state = "gone")
  <2> USE DEF UploadsInv, LeasesShaped, Uploads!NoLease
  <2>1. CASE Uploads!TimeIsUp(s)
    BY <2>1 DEF Uploads!TimeIsUp
  <2>2. CASE Uploads!Expires(s) \/ \E session \in Tasks : Uploads!Cancel(s, session)
    BY <2>2 DEF Uploads!Expires, Uploads!Cancel, Uploads!Taken
  <2>3. ASSUME NEW sessions, Uploads!Clear(sessions) PROVE \A r \in Stages : d'[r].items = d[r].items /\ (d[r].state = "gone" => d'[r].state = "gone")
    BY <2>3 DEF Uploads!Clear
  <2> QED
    BY <2>1, <2>2, <2>3
<1> QED
  BY <1>1, <1>2, UsesKeep DEF UploadsInv

LEMMA IssuesGiven ==
  ASSUME UploadsInv, GivenInv, NEW s \in Stages, Uploads!Issues(s)
  PROVE  GivenInv'
<1> DEFINE new == [Uploads!NoLease EXCEPT !.state = "valid", !.session = c[s].session, !.items = c[s].items]
<1>1. /\ d' = [d EXCEPT ![s] = new] /\ c' = [c EXCEPT ![s] = [Uploads!Resting EXCEPT !.at = "over"]]
      /\ UNCHANGED <<a, b, e, f, g, h>> /\ c[s].at = "resolving"
  BY DEF Uploads!Issues
<1>2. new.items = c[s].items /\ [Uploads!Resting EXCEPT !.at = "over"].items = <<>>
  BY DEF Uploads!NoLease, Uploads!Resting
<1> HIDE DEF new
<1>3. ItemsOK(<<>>)
  BY DEF ItemsOK
<1>4. DOMAIN c = Stages /\ DOMAIN d = Stages /\ d[s].state = "none"
  BY <1>1 DEF UploadsInv, StagesShaped, LeasesShaped
<1>5. c'[s].items = <<>> /\ d'[s].items = c[s].items /\ \A r \in Stages \ {s} : c'[r] = c[r] /\ d'[r] = d[r]
  BY <1>1, <1>2, <1>4
<1>6. ItemsTyped'
  BY <1>3, <1>5 DEF GivenInv, ItemsTyped
<1>7. \A x \in ImageConsumes : Reading(x) => f[x].token \in Stages \ {s}
  BY <1>4 DEF UploadsInv, TokensTaken
<1>8. \A x \in g : x.token \in Stages \ {s}
  BY <1>4 DEF GivenInv, GivenOnce
<1>9. FilesTyped' /\ UsesRead'
  BY <1>1, <1>5, <1>7 DEF GivenInv, FilesTyped, UsesRead, Reading
<1>10. GivenOnce'
  BY <1>1, <1>5, <1>8 DEF GivenInv, GivenOnce, Reading
<1>11. GivenWhole'
  <2>1. g' = g /\ \A x \in g : d'[x.token].items = d[x.token].items
    BY <1>1, <1>5, <1>8
  <2> QED
    BY <2>1 DEF GivenInv, GivenWhole
<1> QED
  BY <1>6, <1>9, <1>10, <1>11 DEF GivenInv

\* What a prompt that goes on has read, and what its chunks are.
LEMMA SameRead ==
  ASSUME NEW v, NEW u, NEW items, ReadSoFar(v, items), u.n = v.n, u.read = v.read
  PROVE  ReadSoFar(u, items)
BY DEF ReadSoFar

LEMMA PassedOver ==
  ASSUME NEW v, NEW u, NEW items, ReadSoFar(v, items), ItemsOK(items), u.n = v.n + 1, u.read = v.read, ~items[v.n].image
  PROVE  ReadSoFar(u, items)
<1>1. v.n \in Nat \ {0} /\ \A t \in DOMAIN items : t \in Nat
  BY DEF ReadSoFar, ItemsOK
<1>2. \A t \in DOMAIN items : items[t].image /\ t < u.n => t < v.n
  BY <1>1
<1>3. \A t \in DOMAIN v.read : v.read[t].n \in DOMAIN items /\ v.read[t].n < u.n
  BY <1>1 DEF ReadSoFar
<1>4. u.n \in Nat \ {0}
  BY <1>1
<1> QED
  BY <1>2, <1>3, <1>4 DEF ReadSoFar

\* A sequence and what it was made of.
Whole(q) == Len(q) \in Nat /\ DOMAIN q = 1 .. Len(q)
Joins(q, r, s) ==
  /\ Whole(s)
  /\ \A t \in DOMAIN q : t \in DOMAIN s /\ s[t] = q[t]
  /\ \E t \in DOMAIN s, z \in DOMAIN r : s[t] = r[z]
  /\ \A t \in DOMAIN s : t \in DOMAIN q \/ \E z \in DOMAIN r : s[t] = r[z]

LEMMA Joined ==
  ASSUME NEW q, NEW r, Whole(q), Whole(r), r # <<>>
  PROVE  Joins(q, r, q \o r)
<1> USE DEF Whole
<1>1. 1 \in DOMAIN r /\ Len(q) + 1 \in DOMAIN (q \o r)
  BY ConcatShape
<1>2. \A t \in DOMAIN (q \o r) : t \in DOMAIN q \/ (t - Len(q) \in DOMAIN r /\ Len(q) + (t - Len(q)) = t)
  BY ConcatShape
<1> QED
  <2> PICK s : s = q \o r
    OBVIOUS
  <2>1. Whole(s) /\ \A t \in DOMAIN q : t \in DOMAIN s /\ s[t] = q[t]
    BY ConcatShape
  <2>2. \A z \in DOMAIN r : s[Len(q) + z] = r[z]
    BY ConcatShape
  <2>3. \E t \in DOMAIN s, z \in DOMAIN r : s[t] = r[z]
    BY <1>1, <2>2
  <2>4. \A t \in DOMAIN s : t \in DOMAIN q \/ \E z \in DOMAIN r : s[t] = r[z]
    <3> SUFFICES ASSUME NEW t \in DOMAIN s, t \notin DOMAIN q PROVE \E z \in DOMAIN r : s[t] = r[z]
      OBVIOUS
    <3>1. t - Len(q) \in DOMAIN r /\ Len(q) + (t - Len(q)) = t
      BY <1>2
    <3> QED
      BY <2>2, <3>1
  <2> QED
    BY <2>1, <2>3, <2>4 DEF Joins

LEMMA ImageRead ==
  ASSUME NEW v, NEW u, NEW items, NEW now, ReadSoFar(v, items), ItemsOK(items), ChunksBetween(v, items, now), v.at = "reading", Len(v.data) = 2,
         now[items[v.n].file] = items[v.n].version, u.n = v.n + 1, u.read = v.read \o v.data
  PROVE  ReadSoFar(u, items)
<1>1. v.n \in Nat \ {0} /\ Len(v.read) \in Nat /\ DOMAIN v.read = 1 .. Len(v.read)
  BY DEF ReadSoFar
<1>2. v.n \in DOMAIN items /\ items[v.n].image /\ items[v.n].version \in Nat
  BY DEF ChunksBetween, ItemsOK
<1>3. \A t \in DOMAIN v.data : v.data[t].n = v.n /\ v.data[t].version = items[v.n].version
  BY <1>2 DEF ChunksBetween
<1>4. Joins(v.read, v.data, u.read)
  <2>1. Whole(v.read)
    BY DEF ReadSoFar, Whole
  <2>2. Whole(v.data)
    BY DEF ChunksBetween, Whole
  <2>3. v.data # <<>>
    OBVIOUS
  <2> QED
    BY <2>1, <2>2, <2>3, Joined
<1>5. ASSUME NEW t \in DOMAIN u.read
      PROVE  /\ u.read[t].n \in DOMAIN items /\ items[u.read[t].n].image /\ u.read[t].n < u.n
             /\ u.read[t].version = items[u.read[t].n].version
  <2>1. CASE t \notin DOMAIN v.read
    <3>1. u.read[t].n = v.n /\ u.read[t].version = items[v.n].version
      BY <1>3, <1>4, <2>1 DEF Joins
    <3>2. v.n < u.n
      BY <1>1
    <3> QED
      BY <1>2, <3>1, <3>2, Zenon
  <2>2. CASE t \in DOMAIN v.read
    <3>1. u.read[t] = v.read[t] /\ v.read[t].n \in Nat
      <4>1. u.read[t] = v.read[t] /\ v.read[t].n \in DOMAIN items
        BY <1>4, <2>2 DEF ReadSoFar, Joins
      <4> QED
        BY <4>1 DEF ItemsOK
    <3> QED
      BY <1>1, <2>2, <3>1 DEF ReadSoFar
  <2> QED
    BY <2>1, <2>2
<1>6. ASSUME NEW t \in DOMAIN items, items[t].image, t < u.n PROVE \E r \in DOMAIN u.read : u.read[r].n = t
  <2>1. t \in Nat
    BY DEF ItemsOK
  <2>2. CASE t = v.n
    BY <1>3, <1>4, <2>2 DEF Joins
  <2>3. CASE t < v.n
    <3>1. PICK r \in DOMAIN v.read : v.read[r].n = t
      BY <1>6, <2>3 DEF ReadSoFar
    <3> QED
      BY <1>4, <3>1 DEF Joins
  <2>4. t = v.n \/ t < v.n
    BY <1>1, <1>6, <2>1
  <2> QED
    BY <2>2, <2>3, <2>4
<1>7. u.n \in Nat \ {0}
  BY <1>1
<1> QED
  BY <1>4, <1>5, <1>6, <1>7 DEF ReadSoFar, Joins, Whole

LEMMA NoChunk ==
  ASSUME NEW u, NEW items, NEW now, ItemsOK(items), u.n \in DOMAIN items, items[u.n].image, now[items[u.n].file] = items[u.n].version,
         u.data = <<>>
  PROVE  ChunksBetween(u, items, now)
<1>1. items[u.n].version \in Nat
  BY DEF ItemsOK
<1> QED
  BY <1>1 DEF ChunksBetween

LEMMA NextChunk ==
  ASSUME NEW v, NEW u, NEW items, NEW now, ChunksBetween(v, items, now), v.at = "reading", u.n = v.n, NEW chunk, u.data = Append(v.data, chunk),
         chunk.n = v.n, chunk.version = now[items[v.n].file], chunk.version \in Nat
  PROVE  ChunksBetween(u, items, now)
<1>1. v.n \in DOMAIN items /\ items[v.n].image /\ items[v.n].version <= now[items[v.n].file] /\ Len(v.data) \in Nat /\ DOMAIN v.data = 1 .. Len(v.data)
  BY DEF ChunksBetween
<1>2. /\ Len(u.data) \in Nat /\ DOMAIN u.data = 1 .. Len(u.data)
      /\ \A t \in DOMAIN u.data : u.data[t] = chunk \/ (t \in DOMAIN v.data /\ u.data[t] = v.data[t])
  BY <1>1, AppendShape
<1>3. chunk.version <= now[items[v.n].file]
  OBVIOUS
<1>4. \A t \in DOMAIN u.data :
        /\ u.data[t].n = v.n /\ u.data[t].version \in Nat
        /\ items[v.n].version <= u.data[t].version /\ u.data[t].version <= now[items[v.n].file]
  BY <1>1, <1>2, <1>3 DEF ChunksBetween
<1> QED
  BY <1>1, <1>2, <1>4 DEF ChunksBetween

LEMMA LaterChunks ==
  ASSUME NEW u, NEW items, NEW now, NEW later, ItemsOK(items), ChunksBetween(u, items, now),
         \A x \in Uploads!FileIds : now[x] \in Nat /\ later[x] \in Nat /\ now[x] <= later[x]
  PROVE  ChunksBetween(u, items, later)
<1> SUFFICES ASSUME u.at = "reading" PROVE ChunksBetween(u, items, later)
  BY DEF ChunksBetween
<1>1. u.n \in DOMAIN items /\ items[u.n].image /\ items[u.n].version <= now[items[u.n].file]
      /\ Len(u.data) \in Nat /\ DOMAIN u.data = 1 .. Len(u.data)
  BY DEF ChunksBetween
<1>2. items[u.n].version \in Nat /\ items[u.n].file \in Uploads!FileIds
  BY <1>1 DEF ItemsOK
<1>3. now[items[u.n].file] \in Nat /\ later[items[u.n].file] \in Nat /\ now[items[u.n].file] <= later[items[u.n].file]
  BY <1>2
<1>4. \A t \in DOMAIN u.data :
         /\ u.data[t].n = u.n /\ u.data[t].version \in Nat
         /\ items[u.n].version <= u.data[t].version /\ u.data[t].version <= later[items[u.n].file]
  BY <1>3 DEF ChunksBetween
<1> QED
  BY <1>1, <1>2, <1>3, <1>4 DEF ChunksBetween

LEMMA ConsumeGiven ==
  ASSUME UploadsInv, GivenInv, NEW s \in Stages, NEW x \in ImageConsumes, NEW session, Uploads!Consume(x, s, session)
  PROVE  GivenInv'
<1>1. UNCHANGED <<a, b, c, g, h>> /\ e' \subseteq e /\ d[s].state = "valid" /\ DOMAIN f = ImageConsumes
  BY DEF Uploads!Consume, Uploads!Valid, Uploads!Closed, UploadsInv, UsesShaped
<1>2. \A r \in Stages : d'[r].items = d[r].items /\ (d[r].state = "gone" => d'[r].state = "gone")
  BY DEF Uploads!Consume, Uploads!Taken, UploadsInv, LeasesShaped, Uploads!NoLease
<1>3. CASE d[s].late
  <2>1. f' = [f EXCEPT ![x].at = "over"]
    BY <1>3 DEF Uploads!Consume
  <2>2. \A y \in ImageConsumes : f'[y] = f[y] \/ ~Reading(y)'
    BY <1>1, <2>1 DEF Reading, UploadsInv, UsesShaped, Uploads!Unused
  <2> QED
    BY <1>1, <1>2, <2>2, UsesKeep DEF UploadsInv
<1>4. CASE ~d[s].late
  <2> DEFINE u == [Uploads!Unused EXCEPT !.at = "looking", !.token = s]
  <2>1. f' = [f EXCEPT ![x] = u]
    BY <1>4 DEF Uploads!Consume
  <2>2. u.at = "looking" /\ u.token = s /\ u.n = 1 /\ u.read = <<>>
    BY DEF Uploads!Unused
  <2> HIDE DEF u
  <2>3. ItemsOK(d[s].items)
    BY DEF GivenInv, ItemsTyped
  <2>4. ReadSoFar(u, d[s].items) /\ ChunksBetween(u, d[s].items, b)
    BY <2>2, <2>3 DEF ReadSoFar, ChunksBetween, ItemsOK
  <2>5. \A y \in g : y.token # s
    BY <1>1 DEF GivenInv, GivenOnce
  <2>6. Moved(u, d[s].items)
    BY <2>2, <2>4, <2>5 DEF Moved
  <2>7. \A y \in ImageConsumes : f'[y] = IF y = x THEN u ELSE f[y]
    BY <1>1, <2>1
  <2>8. \A y \in ImageConsumes : f'[y] = f[y] \/ (f'[y].token \in Stages /\ Moved(f'[y], d[f'[y].token].items))
    BY <2>2, <2>6, <2>7
  <2> QED
    BY <1>1, <1>2, <2>8, UsesKeep DEF UploadsInv
<1> QED
  BY <1>3, <1>4

\* A prompt that goes on with its token.
LEMMA ReadsOn ==
  ASSUME UploadsInv, GivenInv, NEW x \in ImageConsumes, Reading(x), NEW u, f' = [f EXCEPT ![x] = u], UNCHANGED <<a, b, c, d, h>>, e' \subseteq e,
         u.at = "over" \/ (u.token = f[x].token /\ ReadSoFar(u, d[f[x].token].items) /\ ChunksBetween(u, d[f[x].token].items, b))
  PROVE  FilesTyped' /\ ItemsTyped' /\ UsesRead' /\ (UNCHANGED g => GivenInv')
<1>1. f[x].token \in Stages /\ DOMAIN f = ImageConsumes
  BY DEF UploadsInv, TokensTaken, UsesShaped
<1>2. \A y \in ImageConsumes : f'[y] = IF y = x THEN u ELSE f[y]
  BY <1>1
<1>3. \A y \in g : y.token # f[x].token
  BY DEF GivenInv, GivenOnce
<1>4. u.at = "over" \/ (u.token \in Stages /\ Moved(u, d[u.token].items))
  BY <1>1, <1>3 DEF Moved
<1>5. \A y \in ImageConsumes : f'[y] = f[y] \/ (Reading(y)' => f'[y].token \in Stages /\ Moved(f'[y], d[f'[y].token].items))
  BY <1>2, <1>4 DEF Reading
<1> QED
  BY <1>5, UsesKeep DEF UploadsInv

LEMMA PromptGiven ==
  ASSUME UploadsInv, GivenInv, NEW x \in ImageConsumes,
         Uploads!Looks(x) \/ Uploads!Reads(x) \/ Uploads!ReadEnds(x) \/ Uploads!ConsumeFails(x) \/ Uploads!Delivers(x)
  PROVE  GivenInv'
<1> DEFINE v == f[x]
           items == d[f[x].token].items
<1>1. Reading(x) /\ UNCHANGED <<a, b, c, d, h>> /\ e' \subseteq e
  BY DEF Reading, Uploads!Looks, Uploads!Reads, Uploads!ReadEnds, Uploads!ConsumeFails, Uploads!Delivers, Uploads!Closed
<1>2. DOMAIN v = DOMAIN Uploads!Unused /\ v.token \in Stages /\ DOMAIN f = ImageConsumes
  BY <1>1 DEF UploadsInv, UsesShaped, TokensTaken
<1>3. ItemsOK(items) /\ ReadSoFar(v, items) /\ ChunksBetween(v, items, b)
  BY <1>1, <1>2 DEF GivenInv, ItemsTyped, UsesRead
<1>4. ASSUME NEW u, f' = [f EXCEPT ![x] = u], u.at = "over" \/ (u.token = v.token /\ ReadSoFar(u, items) /\ ChunksBetween(u, items, b))
      PROVE  FilesTyped' /\ ItemsTyped' /\ UsesRead' /\ (UNCHANGED g => GivenInv')
  BY <1>1, <1>4, ReadsOn
<1>5. v.n \in Nat \ {0} /\ DOMAIN items = 1 .. Len(items) /\ Len(items) \in Nat
  BY <1>3 DEF ReadSoFar, ItemsOK
<1>6. CASE Uploads!Looks(x)
  <2>1. v.n \in DOMAIN items /\ v.at = "looking" /\ UNCHANGED g
    BY <1>5, <1>6 DEF Uploads!Looks
  <2>2. CASE ~items[v.n].image
    <3> DEFINE u == [v EXCEPT !.n = @ + 1]
    <3>1. f' = [f EXCEPT ![x] = u]
      BY <1>6, <2>2 DEF Uploads!Looks, Uploads!Item
    <3>2. u.at = v.at /\ u.token = v.token /\ u.n = v.n + 1 /\ u.read = v.read
      BY <1>2 DEF Uploads!Unused
    <3> HIDE DEF u, v, items
    <3>3. ReadSoFar(u, items)
      BY <1>3, <2>2, <3>2, PassedOver
    <3>4. ChunksBetween(u, items, b)
      BY <2>1, <3>2 DEF ChunksBetween
    <3> QED
      BY <1>4, <2>1, <3>1, <3>2, <3>3, <3>4
  <2>3. CASE items[v.n].image
    <3> DEFINE u == [v EXCEPT !.at = "reading", !.data = <<>>]
    <3>1. f' = [f EXCEPT ![x] = u] /\ b[items[v.n].file] = items[v.n].version
      BY <1>6, <2>3 DEF Uploads!Looks, Uploads!Item
    <3>2. u.token = v.token /\ u.n = v.n /\ u.read = v.read /\ u.data = <<>>
      BY <1>2 DEF Uploads!Unused
    <3> HIDE DEF u, v, items
    <3>3. ReadSoFar(u, items)
      BY <1>3, <3>2, SameRead
    <3>4. ChunksBetween(u, items, b)
      BY <1>3, <2>1, <2>3, <3>1, <3>2, NoChunk
    <3> QED
      BY <1>4, <2>1, <3>1, <3>2, <3>3, <3>4
  <2> QED
    BY <2>2, <2>3
<1>7. CASE Uploads!Reads(x)
  <2> DEFINE chunk == [n |-> v.n, version |-> b[items[v.n].file]]
             u == [v EXCEPT !.data = Append(@, chunk)]
  <2>1. v.at = "reading" /\ f' = [f EXCEPT ![x] = u] /\ UNCHANGED g
    BY <1>7 DEF Uploads!Reads, Uploads!Item
  <2>2. u.at = v.at /\ u.token = v.token /\ u.n = v.n /\ u.read = v.read /\ u.data = Append(v.data, chunk)
    BY <1>2 DEF Uploads!Unused
  <2>3. chunk.n = v.n /\ chunk.version = b[items[v.n].file]
    OBVIOUS
  <2> HIDE DEF u, v, items, chunk
  <2>4. ReadSoFar(u, items)
    BY <1>3, <2>2, SameRead
  <2>5. chunk.version \in Nat
    <3>1. v.n \in DOMAIN items
      BY <1>3, <2>1 DEF ChunksBetween
    <3>2. items[v.n].file \in Uploads!FileIds
      BY <1>3, <3>1 DEF ItemsOK
    <3> QED
      BY <2>3, <3>2 DEF GivenInv, FilesTyped
  <2>6. ChunksBetween(u, items, b)
    BY <1>3, <2>1, <2>2, <2>3, <2>5, NextChunk
  <2> QED
    BY <1>4, <2>1, <2>2, <2>4, <2>6
<1>8. CASE Uploads!ReadEnds(x)
  <2> DEFINE u == [v EXCEPT !.at = "looking", !.n = @ + 1, !.read = @ \o v.data]
  <2>1. v.at = "reading" /\ Len(v.data) = 2 /\ b[items[v.n].file] = items[v.n].version /\ f' = [f EXCEPT ![x] = u] /\ UNCHANGED g
    BY <1>8 DEF Uploads!ReadEnds, Uploads!NextImage, Uploads!Item
  <2>2. u.at = "looking" /\ u.token = v.token /\ u.n = v.n + 1 /\ u.read = v.read \o v.data
    BY <1>2 DEF Uploads!Unused
  <2> HIDE DEF u, v, items
  <2>3. ReadSoFar(u, items)
    BY <1>3, <2>1, <2>2, ImageRead
  <2>4. ChunksBetween(u, items, b)
    BY <2>2 DEF ChunksBetween
  <2> QED
    BY <1>4, <2>1, <2>2, <2>3, <2>4
<1>9. CASE Uploads!ConsumeFails(x) \/ Uploads!Delivers(x)
  <2> DEFINE u == [v EXCEPT !.at = "over"]
  <2>1. f' = [f EXCEPT ![x] = u]
    BY <1>9 DEF Uploads!ConsumeFails, Uploads!Delivers
  <2>2. u.at = "over"
    BY <1>2 DEF Uploads!Unused
  <2> HIDE DEF u
  <2>3. FilesTyped' /\ ItemsTyped' /\ UsesRead' /\ (UNCHANGED g => GivenInv')
    BY <1>4, <2>1, <2>2
  <2>4. CASE Uploads!ConsumeFails(x)
    BY <2>3, <2>4 DEF Uploads!ConsumeFails
  <2>5. CASE Uploads!Delivers(x)
    <3> DEFINE new == [by |-> x, token |-> v.token, read |-> {v.read[t] : t \in DOMAIN v.read}]
    <3>1. g' = g \union {new} /\ v.n > Len(items)
      BY <2>5 DEF Uploads!Delivers
    <3>2. new.token = v.token /\ new.read = {v.read[t] : t \in DOMAIN v.read}
      OBVIOUS
    <3> HIDE DEF new
    <3>3. \A y \in ImageConsumes : Reading(y)' => y # x /\ Reading(y) /\ f'[y].token = f[y].token
      BY <1>2, <2>1, <2>2 DEF Reading
    <3>4. \A y \in ImageConsumes : Reading(y)' => f'[y].token # v.token
      BY <1>1, <3>3 DEF UploadsInv, TokensTaken
    <3>5. \A y \in g : y.token # v.token
      BY <1>1 DEF GivenInv, GivenOnce
    <3>6. d[v.token].state = "gone"
      BY <1>1 DEF UploadsInv, TokensTaken
    <3>7. /\ {r.n : r \in new.read} = {t \in DOMAIN items : items[t].image}
          /\ \A r \in new.read : r.version = items[r.n].version
      <4> HIDE DEF v, items
      <4>1. \A t \in DOMAIN items : items[t].image => \E r \in DOMAIN v.read : v.read[r].n = t
        <5>1. \A t \in DOMAIN items : t < v.n
          BY <1>5, <3>1
        <5> QED
          BY <1>3, <5>1 DEF ReadSoFar
      <4>2. \A t \in DOMAIN v.read : /\ v.read[t].n \in DOMAIN items /\ items[v.read[t].n].image
                                    /\ v.read[t].version = items[v.read[t].n].version
        BY <1>3 DEF ReadSoFar
      <4>3. \A t \in DOMAIN items : items[t].image => \E r \in new.read : r.n = t
        BY <3>2, <4>1
      <4>4. \A r \in new.read : r.n \in DOMAIN items /\ items[r.n].image /\ r.version = items[r.n].version
        BY <3>2, <4>2
      <4> QED
        BY <4>3, <4>4
    <3>8. GivenOnce'
      BY <1>1, <1>2, <3>1, <3>2, <3>3, <3>4, <3>5, <3>6 DEF GivenInv, GivenOnce
    <3>9. GivenWhole'
      BY <1>1, <3>1, <3>2, <3>7 DEF GivenInv, GivenWhole
    <3> QED
      BY <2>3, <3>8, <3>9 DEF GivenInv
  <2> QED
    BY <1>9, <2>4, <2>5
<1> QED
  BY <1>6, <1>7, <1>8, <1>9

LEMMA OutsideGiven ==
  ASSUME UploadsInv, GivenInv, NEW p0 \in ImagePaths, Uploads!Outside(p0)
  PROVE  GivenInv'
<1>1. UNCHANGED <<c, d, e, f, g>> /\ h' = h + 1 /\ h < MaxOutside
  BY DEF Uploads!Outside
<1>2. FilesTyped' /\ \A x \in Uploads!FileIds : b[x] \in Nat /\ b'[x] \in Nat /\ b[x] <= b'[x]
  <2>1. CASE b' = [b EXCEPT ![a[p0]] = @ + 1] /\ UNCHANGED a
    BY <1>1, <2>1, NamesAssumption DEF GivenInv, FilesTyped
  <2>2. CASE a' = [a EXCEPT ![p0] = h + 2] /\ UNCHANGED b
    <3>1. h + 2 \in Uploads!FileIds
      BY <1>1, NamesAssumption DEF GivenInv, FilesTyped, Uploads!FileIds
    <3> QED
      BY <1>1, <2>2, <3>1, NamesAssumption DEF GivenInv, FilesTyped
  <2> QED
    BY <2>1, <2>2 DEF Uploads!Outside
<1>3. ItemsTyped'
  BY <1>1 DEF GivenInv, ItemsTyped
<1>4. UsesRead'
  <2> SUFFICES ASSUME NEW x \in ImageConsumes, Reading(x)
               PROVE  ReadSoFar(f[x], d[f[x].token].items) /\ ChunksBetween(f[x], d[f[x].token].items, b')
    BY <1>1 DEF UsesRead, Reading
  <2> PICK u : u = f[x]
    OBVIOUS
  <2> PICK items : items = d[u.token].items
    OBVIOUS
  <2>1. ReadSoFar(u, items) /\ ChunksBetween(u, items, b)
    BY DEF GivenInv, UsesRead
  <2>2. ItemsOK(items)
    BY DEF GivenInv, ItemsTyped, UploadsInv, TokensTaken
  <2>3. ChunksBetween(u, items, b')
    BY <1>2, <2>1, <2>2, LaterChunks
  <2> QED
    BY <2>1, <2>3
<1> QED
  BY <1>1, <1>2, <1>3, <1>4 DEF GivenInv, GivenOnce, GivenWhole, Reading

LEMMA GivenStep == UploadsInv /\ GivenInv /\ (Uploads!Next \/ UNCHANGED <<a, b, c, d, e, f, g, h>>) => GivenInv'
<1> SUFFICES ASSUME UploadsInv, GivenInv, Uploads!Next \/ UNCHANGED <<a, b, c, d, e, f, g, h>> PROVE GivenInv'
  OBVIOUS
<1>1. CASE UNCHANGED <<a, b, c, d, e, f, g, h>>
  BY <1>1, StagingKeeps DEF GivenInv, FilesTyped, ItemsTyped
<1>2. ASSUME NEW sessions, Uploads!Clear(sessions) PROVE GivenInv'
  <2>1. PICK s \in Stages : TRUE
    BY <1>2 DEF Uploads!Clear
  <2> QED
    BY <1>2, TokensGiven
<1> QED
  BY <1>1, <1>2, StagingGiven, TokensGiven, IssuesGiven, ConsumeGiven, PromptGiven, OutsideGiven DEF Uploads!Next

-----------------------------------------------------------------------------
(* An app update: what a run has on the disk is what its cleanup removes.  *)

StagesTyped ==
  /\ m \in Nat \ {0} /\ DOMAIN f = Downloads
  /\ \A s \in Downloads : DOMAIN f[s] = DOMAIN Update!Absent /\ f[s].owner \in Nat /\ f[s].owner <= m

\* A directory of this process is owned, and that of the run or one whose removal failed.
StagesOwned == b > 0 => \A s \in Downloads : f[s].owner = m => s \in g /\ (s \in n \/ s = e.stage)
NothingRuns == b = 0 => e = Update!Idle /\ h = "none"
RunShaped ==
  /\ b \in Nat /\ DOMAIN e = DOMAIN Update!Idle
  /\ e.at \in {"idle", "inspecting", "staging", "sweeping"} => e.stage = "none"

\* The extracted app is that of the run on its way to be discarded, or its removal failed.
BundleOwned == h # "none" => "bundle" \in n \/ e.at \in {"extracting", "trusting", "discarding", "cleaning"}

ReclaimInv == StagesTyped /\ StagesOwned /\ NothingRuns /\ RunShaped /\ BundleOwned

LEMMA ReclaimSafe == ReclaimInv => Update!StageReclaimed
BY NamesAssumption DEF ReclaimInv, StagesOwned, RunShaped, BundleOwned, Update!StageReclaimed, Update!At, Update!None

LEMMA ReclaimInit == Update!Init => ReclaimInv
BY DEF Update!Init, Update!Absent, Update!Idle, Update!None, ReclaimInv, StagesTyped, StagesOwned, NothingRuns, RunShaped, BundleOwned

\* What another program or the sweep changes in a directory is not whose it is.
SameOwners ==
  /\ DOMAIN f' = Downloads
  /\ \A s \in Downloads : DOMAIN f'[s] = DOMAIN Update!Absent /\ f'[s].owner \in {f[s].owner, 0}

\* A step of the run which neither makes a directory nor lets go of one.
LEMMA RunGoes ==
  ASSUME ReclaimInv, SameOwners, UNCHANGED <<b, g, m>>, b > 0, n \subseteq n', DOMAIN e' = DOMAIN Update!Idle, e'.stage = e.stage,
         e'.at \in {"idle", "inspecting", "staging", "sweeping"} => e.at \in {"idle", "inspecting", "staging", "sweeping"} \/ e.stage = "none",
         h' # "none" => "bundle" \in n' \/ e'.at \in {"extracting", "trusting", "discarding", "cleaning"}
  PROVE  ReclaimInv'
<1>1. StagesTyped'
  BY DEF ReclaimInv, StagesTyped, SameOwners
<1>2. StagesOwned'
  BY DEF ReclaimInv, StagesTyped, StagesOwned, SameOwners
<1> QED
  BY <1>1, <1>2 DEF ReclaimInv, NothingRuns, RunShaped, BundleOwned

LEMMA SameFilesOwners == ReclaimInv /\ UNCHANGED f => SameOwners
BY DEF ReclaimInv, StagesTyped, SameOwners

LEMMA Shapes ==
  ASSUME ReclaimInv
  PROVE  /\ \A step : [e EXCEPT !.at = step].at = step /\ [e EXCEPT !.at = step].stage = e.stage
         /\ \A step : DOMAIN [e EXCEPT !.at = step] = DOMAIN Update!Idle
         /\ Update!Absent.owner = 0 /\ Update!Idle.at = "idle" /\ Update!Idle.stage = "none"
BY DEF ReclaimInv, RunShaped, Update!Idle, Update!Absent, Update!None

\* An app is installed, in some version.
Installed == a \in Nat \ {0}

LEMMA InstalledStep == Installed /\ (Update!Next \/ UNCHANGED a) => Installed'
<1> SUFFICES ASSUME Installed, Update!Next \/ UNCHANGED a PROVE Installed'
  OBVIOUS
<1>1. CASE Update!Launch
  BY <1>1 DEF Update!Launch, Update!VersionOf, Update!Release, Installed
<1>2. CASE Update!Outside
  BY <1>2 DEF Update!Outside, Installed
<1>3. CASE Update!Exit
  BY <1>3 DEF Update!Exit, Installed
<1>4. ASSUME Update!outer' = Update!outer PROVE Installed'
  BY <1>4 DEF Update!outer, Installed
<1>5. CASE \/ Update!Check \/ Update!Install \/ Update!Inspected \/ Update!StageMade \/ Update!StageRefused \/ Update!Downloaded
           \/ Update!DownloadFails \/ Update!Listed \/ Update!Extracted \/ Update!Verified \/ Update!VerifyFails
           \/ Update!BundleDiscarded \/ Update!Quiesced \/ Update!Reinspected \/ Update!CleanedUp \/ Update!Prepares
  BY <1>4, <1>5 DEF Update!Check, Update!Install, Update!Inspected, Update!StageMade, Update!StageRefused, Update!Downloaded,
     Update!DownloadFails, Update!Listed, Update!Extracted, Update!Verified, Update!VerifyFails, Update!BundleDiscarded, Update!Quiesced,
     Update!Reinspected, Update!CleanedUp, Update!Prepares
<1>6. CASE \/ Update!PreparesNot \/ Update!FeedWritten \/ Update!FeedNamed \/ Update!FeedFails \/ Update!ArchiveOpened
           \/ Update!ArchiveRefused \/ Update!Asks \/ Update!FeedRefused \/ Update!AskFails \/ Update!SquirrelTakes
           \/ Update!HearsDownloaded \/ Update!HearsFailure \/ Update!Ready \/ Update!NotBound \/ Update!Reclaimed
  BY <1>4, <1>6 DEF Update!PreparesNot, Update!FeedWritten, Update!FeedNamed, Update!FeedFails, Update!ArchiveOpened,
     Update!ArchiveRefused, Update!Asks, Update!FeedRefused, Update!AskFails, Update!SquirrelTakes, Update!HearsDownloaded,
     Update!HearsFailure, Update!Ready, Update!NotBound, Update!Reclaimed, Update!PrepareFails, Update!FailsClosed
<1>7. CASE \/ Update!QuitAndInstall \/ Update!SweepLooks \/ Update!SweepConfirms \/ Update!SweepUnlinks \/ Update!SweepRemoves
           \/ Update!SweepFails \/ Update!SweepEnds \/ UNCHANGED a
  BY <1>4, <1>7 DEF Update!QuitAndInstall, Update!SweepLooks, Update!SweepConfirms, Update!SweepUnlinks, Update!SweepRemoves,
     Update!SweepFails, Update!SweepEnds, Update!swept, Installed
<1> QED
  BY <1>1, <1>2, <1>3, <1>5, <1>6, <1>7 DEF Update!Next

LEMMA ReclaimStep == Installed /\ ReclaimInv /\ (Update!Next \/ UNCHANGED <<b, e, f, g, h, m, n>>) => ReclaimInv'
<1> SUFFICES ASSUME Installed, ReclaimInv, Update!Next \/ UNCHANGED <<b, e, f, g, h, m, n>> PROVE ReclaimInv'
  OBVIOUS
<1>1. ASSUME SameOwners, UNCHANGED <<b, e, g, h, m, n>> PROVE ReclaimInv'
  BY <1>1 DEF ReclaimInv, StagesTyped, StagesOwned, NothingRuns, RunShaped, BundleOwned, SameOwners
<1>2. CASE Update!Check \/ UNCHANGED <<b, e, f, g, h, m, n>> \/ Update!SquirrelTakes
  BY <1>1, <1>2, SameFilesOwners DEF Update!Check, Update!SquirrelTakes, Update!outer
<1> DEFINE early == {"idle", "inspecting", "staging", "sweeping"}
           holds == {"extracting", "trusting", "discarding", "cleaning"}
<1>3. ASSUME NEW step, Update!Goes(step), e.at # step, SameOwners, UNCHANGED <<b, g, h, m, n>>, b > 0,
             step \notin early \/ e.at \in early, e.at \in holds => step \in holds
      PROVE  ReclaimInv'
  BY <1>3, RunGoes, Shapes DEF Update!Goes, ReclaimInv, BundleOwned
<1>4. CASE Update!Install \/ Update!StageRefused \/ Update!Verified \/ Update!Quiesced \/ Update!Reinspected
  BY <1>1, <1>3, <1>4, SameFilesOwners
     DEF Update!Install, Update!StageRefused, Update!Verified, Update!Quiesced, Update!Reinspected, Update!At, Update!Fails,
         Update!Ineligible, Update!outer
<1>5. ASSUME NEW s, NEW x, NEW y, NEW z,
             \/ f' = [f EXCEPT ![s].archive = x] \/ f' = [f EXCEPT ![s].feed = x] \/ f' = [f EXCEPT ![s].tmp = x]
             \/ f' = [f EXCEPT ![s].foreign = x] \/ f' = [f EXCEPT ![s].archive = x, ![s].stamp = y]
             \/ f' = [f EXCEPT ![s].tmp = x, ![s].feed = y] \/ f' = [f EXCEPT ![s].archive = x, ![s].feed = y, ![s].tmp = z]
             \/ f' = [f EXCEPT ![s] = Update!Absent]
      PROVE  SameOwners
  BY <1>5 DEF ReclaimInv, StagesTyped, SameOwners, Update!Absent
<1>6. CASE Update!Downloaded \/ Update!FeedWritten \/ Update!FeedNamed \/ Update!FeedFails
  <2>1. SameOwners
    BY <1>5, <1>6, SameFilesOwners DEF Update!Downloaded, Update!FeedWritten, Update!FeedNamed, Update!FeedFails
  <2> QED
    BY <1>3, <1>6, <2>1 DEF Update!Downloaded, Update!FeedWritten, Update!FeedNamed, Update!FeedFails, Update!At, Update!Fails, Update!outer
<1>7. CASE Update!PreparesNot \/ Update!ArchiveRefused \/ Update!FeedRefused
  <2>1. SameOwners
    BY <1>5, <1>7, SameFilesOwners DEF Update!PreparesNot, Update!ArchiveRefused, Update!FeedRefused, Update!PrepareFails
  <2> QED
    BY <1>3, <1>7, <2>1
       DEF Update!PreparesNot, Update!ArchiveRefused, Update!FeedRefused, Update!PrepareFails, Update!At, Update!Fails, Update!outer
<1>8. CASE Update!ArchiveOpened \/ Update!Asks \/ Update!AskFails \/ Update!HearsDownloaded \/ Update!HearsFailure \/ Update!Ready
           \/ Update!NotBound \/ Update!QuitAndInstall
  BY <1>3, <1>8, SameFilesOwners
     DEF Update!ArchiveOpened, Update!Asks, Update!AskFails, Update!HearsDownloaded, Update!HearsFailure, Update!Ready,
         Update!NotBound, Update!QuitAndInstall, Update!FailsClosed, Update!At, Update!outer
<1>9. ASSUME NEW step, Update!Goes(step), UNCHANGED <<b, f, g, m>>, b > 0, n \subseteq n', step \notin early \/ e.at \in early,
             h' # "none" => "bundle" \in n' \/ step \in holds
      PROVE  ReclaimInv'
  BY <1>9, RunGoes, Shapes, SameFilesOwners DEF Update!Goes
<1>10. CASE Update!Listed \/ Update!Extracted
  BY <1>9, <1>10 DEF Update!Listed, Update!Extracted, Update!At, Update!Fails, Update!outer, ReclaimInv, BundleOwned
<1>11. CASE Update!VerifyFails \/ Update!BundleDiscarded
  BY <1>9, <1>11 DEF Update!VerifyFails, Update!BundleDiscarded, Update!BundleRemoved, Update!BundleStays, Update!At, Update!Fails, Update!outer,
                     Update!None
<1>12. CASE Update!Inspected
  <2>1. UNCHANGED <<b, f, g, h, m, n>> /\ b > 0 /\ e.at = "inspecting"
    BY <1>12 DEF Update!Inspected, Update!At, Update!outer
  <2>2. DOMAIN e' = DOMAIN Update!Idle /\ e'.stage = e.stage /\ e'.at \in {"staging", "cleaning"}
    BY <1>12 DEF Update!Inspected, Update!Ineligible, Update!Fails, Update!Goes, ReclaimInv, RunShaped, Update!Idle
  <2> QED
    BY <2>1, <2>2, RunGoes, SameFilesOwners DEF ReclaimInv, BundleOwned
<1>13. CASE Update!Prepares
  <2>1. UNCHANGED <<b, f, g, h, m, n>> /\ b > 0 /\ e.at = "preparing"
    BY <1>13 DEF Update!Prepares, Update!At, Update!outer
  <2>2. DOMAIN e' = DOMAIN Update!Idle /\ e'.stage = e.stage /\ e'.at = "feeding"
    BY <1>13 DEF Update!Prepares, ReclaimInv, RunShaped, Update!Idle
  <2> QED
    BY <2>1, <2>2, RunGoes, SameFilesOwners DEF ReclaimInv, BundleOwned
<1>14. CASE Update!StageMade
  <2>1. PICK s \in Downloads : f[s] = Update!Absent /\ f' = [f EXCEPT ![s].owner = m] /\ g' = g \union {s}
                              /\ e' = [e EXCEPT !.at = "downloading", !.stage = s]
    BY <1>14 DEF Update!StageMade
  <2>2. UNCHANGED <<b, h, m, n>> /\ b > 0 /\ e.at = "staging"
    BY <1>14 DEF Update!StageMade, Update!At, Update!outer
  <2>3. DOMAIN e' = DOMAIN Update!Idle /\ e'.at = "downloading" /\ e'.stage = s
    BY <2>1 DEF ReclaimInv, RunShaped, Update!Idle
  <2>4. StagesTyped' /\ f'[s].owner = m /\ \A x \in Downloads : x # s => f'[x] = f[x]
    BY <2>1, <2>2 DEF ReclaimInv, StagesTyped, Update!Absent
  <2>5. e.stage = "none"
    BY <2>2 DEF ReclaimInv, RunShaped
  <2>6. StagesOwned'
    BY <2>1, <2>2, <2>3, <2>4, <2>5, NamesAssumption DEF ReclaimInv, StagesOwned
  <2> QED
    BY <2>2, <2>3, <2>4, <2>6 DEF ReclaimInv, NothingRuns, RunShaped, BundleOwned
<1>15. ASSUME NEW s, Update!Removed(s), UNCHANGED m
       PROVE  /\ SameOwners /\ n \subseteq n' /\ g \ {s} \subseteq g'
              /\ b > 0 => \A x \in Downloads : f'[x].owner = m' => x \in g' /\ (x \in n' \/ (x = e.stage /\ x # s))
  <2>1. CASE s \notin g
    BY <1>15, <2>1, SameFilesOwners DEF Update!Removed, ReclaimInv, StagesOwned
  <2>2. CASE s \in g /\ f' = [f EXCEPT ![s] = Update!Absent] /\ g' = g \ {s} /\ UNCHANGED n
    <3>1. (s \in Downloads => f'[s].owner = 0) /\ m # 0 /\ \A x \in Downloads : x # s => f'[x] = f[x]
      BY <2>2, Shapes DEF ReclaimInv, StagesTyped
    <3> QED
      BY <1>5, <1>15, <2>2, <3>1 DEF ReclaimInv, StagesOwned
  <2>3. CASE s \in g /\ n' = n \union {s} /\ UNCHANGED <<f, g>>
    BY <1>15, <2>3, SameFilesOwners DEF ReclaimInv, StagesOwned
  <2> QED
    BY <1>15, <2>1, <2>2, <2>3 DEF Update!Removed
<1>16. CASE Update!DownloadFails \/ Update!Reclaimed
  <2>1. Update!Removed(e.stage) /\ UNCHANGED <<b, h, m>> /\ b > 0 /\ e.at \in {"downloading", "reclaiming"}
    BY <1>16 DEF Update!DownloadFails, Update!Reclaimed, Update!At, Update!outer
  <2>2. /\ DOMAIN e' = DOMAIN Update!Idle /\ e'.at \in {"cleaning", "quitting"} /\ e'.stage \in {"none", e.stage}
    BY <1>16 DEF Update!DownloadFails, Update!Reclaimed, Update!Goes, ReclaimInv, RunShaped, Update!Idle, Update!None
  <2>3. /\ SameOwners /\ n \subseteq n'
        /\ \A x \in Downloads : f'[x].owner = m' => x \in g' /\ x \in n'
    BY <1>15, <2>1
  <2>4. StagesTyped' /\ StagesOwned'
    BY <2>1, <2>3 DEF ReclaimInv, StagesTyped, StagesOwned, SameOwners
  <2> QED
    BY <2>1, <2>2, <2>3, <2>4 DEF ReclaimInv, NothingRuns, RunShaped, BundleOwned
<1>17. CASE Update!CleanedUp
  <2>1. UNCHANGED <<b, m>> /\ b > 0 /\ e.at = "cleaning"
    BY <1>17 DEF Update!CleanedUp, Update!At, Update!outer
  <2>2. CASE h # "none" /\ "bundle" \notin n
    <3>1. UNCHANGED <<e, f, g>> /\ n \subseteq n'
      BY <1>17, <2>2 DEF Update!CleanedUp, Update!None, Update!BundleRemoved, Update!BundleStays
    <3>2. SameOwners
      BY <3>1, SameFilesOwners
    <3>3. DOMAIN e = DOMAIN Update!Idle
      BY DEF ReclaimInv, RunShaped
    <3> QED
      BY <2>1, <3>1, <3>2, <3>3, RunGoes
  <2>3. CASE ~(h # "none" /\ "bundle" \notin n)
    <3>1. e' = Update!Idle /\ UNCHANGED h /\ (Update!Removed(e.stage) \/ (e.stage = "none" /\ UNCHANGED <<f, g, n>>))
      BY <1>17, <2>3 DEF Update!CleanedUp, Update!None
    <3>2. /\ SameOwners /\ n \subseteq n'
          /\ \A x \in Downloads : f'[x].owner = m' => x \in g' /\ x \in n'
      BY <1>15, <2>1, <3>1, SameFilesOwners, NamesAssumption DEF ReclaimInv, StagesOwned
    <3>3. StagesTyped' /\ StagesOwned'
      BY <2>1, <3>2 DEF ReclaimInv, StagesTyped, StagesOwned, SameOwners
    <3>4. DOMAIN e' = DOMAIN Update!Idle /\ e'.stage = "none"
      BY <3>1, Shapes
    <3> QED
      BY <2>1, <2>3, <3>1, <3>2, <3>3, <3>4 DEF ReclaimInv, NothingRuns, RunShaped, BundleOwned
  <2> QED
    BY <2>2, <2>3
<1>18. CASE Update!Exit
  <2>1. b' = 0 /\ e' = Update!Idle /\ h' = "none" /\ UNCHANGED <<f, m>>
    BY <1>18 DEF Update!Exit, Update!None
  <2> QED
    BY <2>1, Shapes DEF ReclaimInv, StagesTyped, StagesOwned, NothingRuns, RunShaped, BundleOwned
<1>19. CASE Update!Launch
  <2>1. b = 0 /\ m' = m + 1 /\ UNCHANGED <<f, g, h, n>> /\ e' = [e EXCEPT !.at = "sweeping"] /\ e = Update!Idle /\ h = "none"
    BY <1>19 DEF Update!Launch, ReclaimInv, NothingRuns
  <2>2. DOMAIN e' = DOMAIN Update!Idle /\ e'.stage = "none"
    BY <2>1, Shapes
  <2>3. StagesTyped' /\ StagesOwned'
    BY <2>1 DEF ReclaimInv, StagesTyped, StagesOwned
  <2>4. b' \in Nat /\ b' # 0
    BY <1>19 DEF Update!Launch, Update!VersionOf, Update!Release, Installed
  <2> QED
    BY <2>1, <2>2, <2>3, <2>4 DEF ReclaimInv, NothingRuns, RunShaped, BundleOwned
<1>20. CASE Update!SweepLooks \/ Update!SweepConfirms \/ Update!SweepUnlinks \/ Update!SweepRemoves \/ Update!SweepFails
  <2>1. UNCHANGED <<b, e, g, h, m, n>>
    BY <1>20 DEF Update!SweepLooks, Update!SweepConfirms, Update!SweepUnlinks, Update!SweepRemoves, Update!SweepFails, Update!swept, Update!outer
  <2>2. \/ UNCHANGED f
        \/ f' = [f EXCEPT ![k.stage].archive = "none", ![k.stage].feed = FALSE, ![k.stage].tmp = FALSE]
        \/ f' = [f EXCEPT ![k.stage] = Update!Absent]
    BY <1>20 DEF Update!SweepLooks, Update!SweepConfirms, Update!SweepUnlinks, Update!SweepRemoves, Update!SweepFails, Update!None
  <2>3. SameOwners
    <3>1. CASE UNCHANGED f
      BY <3>1, SameFilesOwners
    <3>2. CASE f' = [f EXCEPT ![k.stage].archive = "none", ![k.stage].feed = FALSE, ![k.stage].tmp = FALSE]
      BY <1>5, <3>2
    <3>3. CASE f' = [f EXCEPT ![k.stage] = Update!Absent]
      BY <1>5, <3>3
    <3> QED
      BY <2>2, <3>1, <3>2, <3>3
  <2> QED
    BY <1>1, <2>1, <2>3
<1>21. CASE Update!SweepEnds
  <2>1. UNCHANGED <<b, f, g, h, m, n>> /\ b > 0 /\ e.at = "sweeping" /\ e' = Update!Idle
    BY <1>21 DEF Update!SweepEnds, Update!At, Update!outer
  <2>2. e.stage = "none" /\ (h # "none" => "bundle" \in n)
    BY <2>1 DEF ReclaimInv, RunShaped, BundleOwned
  <2> QED
    BY <2>1, <2>2, Shapes, RunGoes, SameFilesOwners
<1>22. CASE Update!Outside
  <2>1. UNCHANGED <<b, e, g, h, m, n>>
    BY <1>22 DEF Update!Outside
  <2>2. CASE UNCHANGED f
    BY <1>1, <2>1, <2>2, SameFilesOwners
  <2>3. CASE \E s \in Downloads : \/ \E x : f' = [f EXCEPT ![s].archive = x, ![s].stamp = @ + 1]
                                \/ f' = [f EXCEPT ![s].foreign = TRUE]
    <3>1. PICK s \in Downloads : \/ \E x : f' = [f EXCEPT ![s].archive = x, ![s].stamp = @ + 1]
                                \/ f' = [f EXCEPT ![s].foreign = TRUE]
      BY <2>3
    <3>2. CASE f' = [f EXCEPT ![s].foreign = TRUE]
      BY <1>1, <1>5, <2>1, <3>2
    <3>3. ASSUME NEW x, f' = [f EXCEPT ![s].archive = x, ![s].stamp = @ + 1] PROVE SameOwners
      BY <3>3 DEF ReclaimInv, StagesTyped, SameOwners, Update!Absent
    <3> QED
      BY <1>1, <2>1, <3>1, <3>2, <3>3
  <2> QED
    BY <1>22, <2>2, <2>3 DEF Update!Outside
<1> QED
  BY <1>2, <1>4, <1>6, <1>7, <1>8, <1>10, <1>11, <1>12, <1>13, <1>14, <1>16, <1>17, <1>18, <1>19, <1>20, <1>21, <1>22 DEF Update!Next

-----------------------------------------------------------------------------
(* An app update: what Squirrel prepared is the release that was verified. *)

\* From the stage on the run is of the app that was inspected; from the verification to the hand-off its stage has an archive.
Verifying == {"verifying", "extracting", "trusting"}
Vetted == {"discarding", "quiescing", "reinspecting", "preparing", "feeding", "renaming", "binding"}
Handed == {"handing", "waiting", "rebinding"}
Ending == {"reclaiming", "quitting", "leaving"}
Staging == {"staging", "downloading"} \union Verifying \union Vetted \union Handed \union Ending

ReleaseTyped ==
  /\ b \in Nat /\ l \in Nat /\ DOMAIN e = DOMAIN Update!Idle /\ DOMAIN e.bound = DOMAIN Update!NoBound
  /\ DOMAIN j = DOMAIN Update!NoSquirrel /\ DOMAIN f = Downloads
  /\ \A s \in Downloads : DOMAIN f[s] = DOMAIN Update!Absent /\ f[s].stamp \in Nat
  /\ e.at \in {"downloading"} \union Verifying \union Vetted \union Handed => e.stage \in Downloads
  /\ b = 0 => e = Update!Idle /\ ~d /\ i = "idle" /\ ~j.asked

\* What is installed next is newer than what runs.
NewerOffered ==
  /\ d \/ e.at \in {"inspecting"} \union Staging => 2 > b
  /\ e.at \in Staging => e.known = b

\* Content that is not what is offered was put there by another program, and it takes a second change to put that back.
ArchiveOffered == e.at \in Verifying \union Vetted => f[e.stage].archive = c \/ l >= 1
BundleOffered == e.at = "trusting" => h = c \/ (l >= 1 /\ (f[e.stage].archive = c => l >= 2))
OfferVetted ==
  /\ e.at \in Vetted => c = "good" \/ (l >= 1 /\ (f[e.stage].archive = c => l >= 2))
  /\ e.at \in Handed \/ i \in {"ready", "installing"} => c = "good" \/ l >= 2

\* Whoever writes an archive leaves a stamp: the archive is what prepare bound as long as its stamp is.
BoundByStamp ==
  /\ e.at \in {"feeding", "renaming", "binding"} \union Handed =>
       /\ e.bound.stamp \in Nat /\ f[e.stage].stamp >= e.bound.stamp
       /\ f[e.stage].stamp = e.bound.stamp => f[e.stage].archive = e.bound.archive
  /\ e.at \in Handed => e.bound.archive = c

\* Squirrel is asked once, for the stage of the run, and what it copied while the stamp was the bound one is what is offered.
SquirrelHolds ==
  /\ j.asked => e.at \in {"waiting", "rebinding"} \union Ending
  /\ ~j.asked => j.event = "none"
  /\ e.at \in {"waiting", "rebinding"} =>
       /\ j.feed = e.stage
       /\ j.event = "downloaded" /\ f[e.stage].stamp = e.bound.stamp => j.holds = c
  /\ e.at = "rebinding" => j.event = "downloaded"
  /\ i \in {"ready", "installing"} => e.at \in Ending /\ j.event = "downloaded" /\ j.holds = c

ReleaseInv == ReleaseTyped /\ NewerOffered /\ ArchiveOffered /\ BundleOffered /\ OfferVetted /\ BoundByStamp /\ SquirrelHolds

LEMMA ReleaseSafe == ReleaseInv => Update!ReadyIsRelease
BY DEF ReleaseInv, ReleaseTyped, NewerOffered, OfferVetted, SquirrelHolds, Staging, Ending, Update!ReadyIsRelease, Update!Release

LEMMA ReleaseInit == Update!Init => ReleaseInv
BY DEF Update!Init, Update!Idle, Update!NoBound, Update!NoSquirrel, Update!Absent, Update!None, ReleaseInv, ReleaseTyped, NewerOffered,
   ArchiveOffered, BundleOffered, OfferVetted, BoundByStamp, SquirrelHolds, Verifying, Vetted, Handed, Ending, Staging

LEMMA UpdateShapes ==
  ASSUME ReleaseTyped
  PROVE  /\ \A step : LET next == [e EXCEPT !.at = step] IN
              /\ next.at = step /\ next.stage = e.stage /\ next.known = e.known /\ next.bound = e.bound
              /\ DOMAIN next = DOMAIN Update!Idle
         /\ Update!Idle.at = "idle" /\ Update!Idle.stage = "none" /\ Update!Idle.bound = Update!NoBound
         /\ Update!NoSquirrel.asked = FALSE /\ Update!NoSquirrel.event = "none" /\ Update!Absent.stamp = 0
BY DEF ReleaseTyped, Update!Idle, Update!NoSquirrel, Update!Absent, Update!NoBound, Update!None

\* What happens to the directories: the shape stays, or also what each has as its archive.
FilesShaped == DOMAIN f' = Downloads /\ \A s \in Downloads : DOMAIN f'[s] = DOMAIN Update!Absent /\ f'[s].stamp \in Nat
SameArchives == FilesShaped /\ \A s \in Downloads : f'[s].archive = f[s].archive /\ f'[s].stamp = f[s].stamp

LEMMA SameFiles == ReleaseTyped /\ UNCHANGED f => SameArchives
BY DEF ReleaseTyped, FilesShaped, SameArchives

LEMMA FeedsKeepArchives ==
  ASSUME ReleaseTyped, NEW s, NEW x, NEW y,
         \/ f' = [f EXCEPT ![s].feed = x] \/ f' = [f EXCEPT ![s].tmp = x] \/ f' = [f EXCEPT ![s].foreign = x]
         \/ f' = [f EXCEPT ![s].owner = x] \/ f' = [f EXCEPT ![s].tmp = x, ![s].feed = y]
  PROVE  SameArchives
BY DEF ReleaseTyped, FilesShaped, SameArchives, Update!Absent

LEMMA FilesKeepShape ==
  ASSUME ReleaseTyped, NEW s, NEW x, NEW y, NEW z,
         \/ UNCHANGED f
         \/ f' = [f EXCEPT ![s].archive = x] \/ f' = [f EXCEPT ![s].archive = x, ![s].feed = y, ![s].tmp = z]
         \/ f' = [f EXCEPT ![s] = Update!Absent]
  PROVE  FilesShaped
BY DEF ReleaseTyped, FilesShaped, Update!Absent

\* A run that ends, or has not begun, before Squirrel was asked.
LEMMA RunEnds ==
  ASSUME ReleaseInv, FilesShaped, UNCHANGED <<b, c, j, l>>, b > 0, e.at \notin {"waiting", "rebinding"} \union Ending,
         DOMAIN e' = DOMAIN Update!Idle, DOMAIN e'.bound = DOMAIN Update!NoBound, e'.at \in {"idle", "cleaning", "sweeping"},
         d' => 2 > b, i' \in {"idle", i}
  PROVE  ReleaseInv'
<1>1. ReleaseTyped' /\ NewerOffered'
  BY DEF ReleaseInv, ReleaseTyped, NewerOffered, FilesShaped, Staging, Verifying, Vetted, Handed, Ending
<1>2. i' \notin {"ready", "installing"}
  BY DEF ReleaseInv, SquirrelHolds
<1>3. ArchiveOffered' /\ BundleOffered' /\ OfferVetted' /\ BoundByStamp'
  BY <1>2 DEF ArchiveOffered, BundleOffered, OfferVetted, BoundByStamp, Verifying, Vetted, Handed
<1>4. SquirrelHolds'
  BY <1>2 DEF ReleaseInv, SquirrelHolds
<1> QED
  BY <1>1, <1>3, <1>4 DEF ReleaseInv

\* A run that goes on without a change of the archive.
LEMMA RunGoesOn ==
  ASSUME ReleaseInv, SameArchives, UNCHANGED <<b, c, l>>, b > 0, e.at \in Staging \ {"staging", "downloading"},
         DOMAIN e' = DOMAIN Update!Idle, e'.stage = e.stage, e'.known = e.known, e'.bound = e.bound,
         e'.at \in Verifying \union Vetted \union Handed => e.at \in Verifying \union Vetted \union Handed,
         e'.at \in Verifying \union Vetted => e.at \in Verifying \union Vetted, e'.at \in Staging \ {"staging", "downloading"},
         BundleOffered', OfferVetted', SquirrelHolds', DOMAIN j' = DOMAIN Update!NoSquirrel,
         e'.at \in {"feeding", "renaming", "binding"} \union Handed => e.at \in {"feeding", "renaming", "binding"} \union Handed,
         e'.at \in Handed => e.at \in Handed \/ e.bound.archive = c
  PROVE  ReleaseInv'
<1>1. ReleaseTyped'
  BY DEF ReleaseInv, ReleaseTyped, SameArchives, FilesShaped
<1>2. NewerOffered'
  BY DEF ReleaseInv, NewerOffered, Staging, Verifying, Vetted, Handed, Ending
<1>3. e'.at \in Verifying \union Vetted \union Handed => f'[e'.stage].archive = f[e.stage].archive /\ f'[e'.stage].stamp = f[e.stage].stamp
  BY DEF ReleaseInv, ReleaseTyped, SameArchives
<1>4. ArchiveOffered'
  BY <1>3 DEF ReleaseInv, ArchiveOffered
<1>5. BoundByStamp'
  BY <1>3 DEF ReleaseInv, BoundByStamp, Vetted
<1> QED
  BY <1>1, <1>2, <1>4, <1>5 DEF ReleaseInv

LEMMA RunGoesTo ==
  ASSUME ReleaseInv, NEW step, Update!Goes(step)
  PROVE  e'.at = step /\ e'.stage = e.stage /\ e'.known = e.known /\ e'.bound = e.bound /\ DOMAIN e' = DOMAIN Update!Idle
BY UpdateShapes DEF ReleaseInv, Update!Goes

\* A step of a run before the hand-off that lets the run end.
LEMMA RunFails ==
  ASSUME ReleaseInv, FilesShaped, UNCHANGED <<b, c, d, j, l>>, b > 0, i' \in {"idle", i}, Update!Fails,
         e.at \notin {"idle", "sweeping", "waiting", "rebinding", "cleaning"} \union Ending
  PROVE  ReleaseInv'
<1>1. d' => 2 > b
  BY DEF ReleaseInv, NewerOffered
<1>2. DOMAIN e' = DOMAIN Update!Idle /\ e'.at = "cleaning" /\ e'.bound = e.bound
  BY UpdateShapes DEF ReleaseInv, Update!Fails, Update!Goes
<1>3. DOMAIN e'.bound = DOMAIN Update!NoBound
  BY <1>2 DEF ReleaseInv, ReleaseTyped
<1> QED
  BY <1>1, <1>2, <1>3, RunEnds

LEMMA EndsKeep ==
  ASSUME Installed, ReleaseInv,
         \/ Update!StageRefused \/ Update!DownloadFails \/ Update!VerifyFails \/ Update!PreparesNot \/ Update!FeedFails
         \/ Update!ArchiveRefused \/ Update!FeedRefused
  PROVE  ReleaseInv'
<1>1. CASE Update!StageRefused \/ Update!VerifyFails
  BY <1>1, RunFails, SameFiles
     DEF Update!StageRefused, Update!VerifyFails, Update!outer, Update!At, ReleaseInv, SameArchives, Ending
<1>2. CASE Update!PreparesNot \/ Update!FeedFails \/ Update!ArchiveRefused \/ Update!FeedRefused
  <2>1. FilesShaped
    BY <1>2, SameFiles, FeedsKeepArchives DEF Update!PreparesNot, Update!FeedFails, Update!ArchiveRefused, Update!FeedRefused,
       Update!PrepareFails, ReleaseInv, SameArchives
  <2> QED
    BY <1>2, <2>1, RunFails DEF Update!PreparesNot, Update!FeedFails, Update!ArchiveRefused, Update!FeedRefused, Update!PrepareFails,
       Update!outer, Update!At, Ending
<1>3. CASE Update!DownloadFails
  <2>1. FilesShaped
    BY <1>3, SameFiles, FilesKeepShape DEF Update!DownloadFails, Update!Removed, ReleaseInv, SameArchives
  <2>2. UNCHANGED <<b, c, d, i, j, l>> /\ b > 0 /\ e.at = "downloading" /\ e' = [e EXCEPT !.at = "cleaning", !.stage = "none"]
    BY <1>3 DEF Update!DownloadFails, Update!outer, Update!At, Update!None
  <2>3. DOMAIN e' = DOMAIN Update!Idle /\ e'.at = "cleaning" /\ e'.bound = e.bound
    BY <2>2 DEF ReleaseInv, ReleaseTyped, Update!Idle
  <2> QED
    BY <2>1, <2>2, <2>3, RunEnds DEF ReleaseInv, ReleaseTyped, NewerOffered, Ending
<1> QED
  BY <1>1, <1>2, <1>3

\* The run begins, or is over.
LEMMA BeginsKeep ==
  ASSUME Installed, ReleaseInv, Update!Check \/ Update!Install \/ Update!Inspected \/ Update!CleanedUp \/ Update!SweepEnds
  PROVE  ReleaseInv'
<1>1. DOMAIN e = DOMAIN Update!Idle /\ DOMAIN e.bound = DOMAIN Update!NoBound /\ Update!Idle.bound = Update!NoBound
  BY UpdateShapes DEF ReleaseInv, ReleaseTyped
<1>2. d => 2 > b
  BY DEF ReleaseInv, NewerOffered
<1>3. CASE Update!Check
  BY <1>1, <1>3, RunEnds, SameFiles DEF Update!Check, Update!outer, Update!At, Update!Release, ReleaseInv, SameArchives, Ending
<1>4. CASE Update!SweepEnds
  BY <1>1, <1>2, <1>4, RunEnds, SameFiles, UpdateShapes DEF Update!SweepEnds, Update!outer, Update!At, ReleaseInv, SameArchives, Ending
<1>5. CASE Update!CleanedUp
  <2>1. FilesShaped
    BY <1>5, SameFiles, FilesKeepShape DEF Update!CleanedUp, Update!Removed, ReleaseInv, SameArchives
  <2>2. e' \in {e, Update!Idle} /\ UNCHANGED <<b, c, d, i, j, l>> /\ b > 0 /\ e.at = "cleaning"
    BY <1>5 DEF Update!CleanedUp, Update!outer, Update!At
  <2> QED
    BY <1>1, <1>2, <2>1, <2>2, RunEnds, UpdateShapes DEF ReleaseInv, Ending
<1>6. CASE Update!Install
  <2>1. UNCHANGED <<b, c, f, i, j, l>> /\ b > 0 /\ e.at = "idle" /\ d /\ ~d' /\ (UNCHANGED e \/ e' = [e EXCEPT !.at = "inspecting"])
    BY <1>6 DEF Update!Install, Update!outer, Update!At, Update!Goes
  <2>2. CASE UNCHANGED e
    BY <1>1, <1>2, <2>1, <2>2, RunEnds, SameFiles DEF ReleaseInv, SameArchives, Ending
  <2>3. CASE e' = [e EXCEPT !.at = "inspecting"]
    <3>1. DOMAIN e' = DOMAIN Update!Idle /\ e'.at = "inspecting" /\ e'.bound = e.bound
      BY <2>3, UpdateShapes DEF ReleaseInv
    <3> QED
      BY <1>1, <1>2, <2>1, <3>1 DEF ReleaseInv, ReleaseTyped, NewerOffered, ArchiveOffered, BundleOffered, OfferVetted, BoundByStamp,
         SquirrelHolds, Staging, Verifying, Vetted, Handed, Ending
  <2> QED
    BY <2>1, <2>2, <2>3
<1>7. CASE Update!Inspected
  <2>1. UNCHANGED <<b, c, d, f, i, j, l>> /\ b > 0 /\ e.at = "inspecting"
    BY <1>7 DEF Update!Inspected, Update!outer, Update!At
  <2>2. CASE Update!Fails
    BY <2>1, <2>2, RunFails, SameFiles DEF ReleaseInv, SameArchives, Ending
  <2>3. CASE a = b /\ e' = [e EXCEPT !.at = "staging", !.known = a]
    <3>1. DOMAIN e' = DOMAIN Update!Idle /\ e'.at = "staging" /\ e'.bound = e.bound /\ e'.known = b
      BY <1>1, <2>3 DEF Update!Idle
    <3> QED
      BY <1>1, <1>2, <2>1, <3>1 DEF ReleaseInv, ReleaseTyped, NewerOffered, ArchiveOffered, BundleOffered, OfferVetted, BoundByStamp,
         SquirrelHolds, Staging, Verifying, Vetted, Handed, Ending
  <2> QED
    BY <1>7, <2>2, <2>3 DEF Update!Inspected, Update!Inspects, Update!Ineligible
<1> QED
  BY <1>3, <1>4, <1>5, <1>6, <1>7

\* Up to the hand-off.
LEMMA VettingKeeps ==
  ASSUME Installed, ReleaseInv,
         \/ Update!StageMade \/ Update!Downloaded \/ Update!Listed \/ Update!Extracted \/ Update!Verified \/ Update!BundleDiscarded
         \/ Update!Quiesced \/ Update!Reinspected
  PROVE  ReleaseInv'
<1>1. DOMAIN e = DOMAIN Update!Idle /\ DOMAIN e.bound = DOMAIN Update!NoBound /\ Update!Idle.bound = Update!NoBound
  BY UpdateShapes DEF ReleaseInv, ReleaseTyped
<1>2. ASSUME Update!Fails, UNCHANGED <<b, c, d, f, i, j, l>>, b > 0,
             e.at \in {"verifying", "discarding", "quiescing", "reinspecting"}
      PROVE  ReleaseInv'
  BY <1>2, RunFails, SameFiles DEF ReleaseInv, SameArchives, Ending
<1>3. ASSUME NEW step \in {"extracting", "trusting"} \union (Vetted \ {"feeding", "renaming", "binding"}), Update!Goes(step),
             UNCHANGED <<b, c, d, f, i, j, l>>, b > 0, e.at \in Verifying \union (Vetted \ {"feeding", "renaming", "binding"}),
             step = "trusting" => h' = f[e.stage].archive, step \in Vetted => e.at \in Vetted \/ (e.at = "trusting" /\ h = "good")
      PROVE  ReleaseInv'
  <2>1. e'.at = step /\ e'.stage = e.stage /\ e'.known = e.known /\ e'.bound = e.bound /\ DOMAIN e' = DOMAIN Update!Idle
    BY <1>3, RunGoesTo
  <2>2. i' \notin {"ready", "installing"} /\ ~j'.asked
    BY <1>3 DEF ReleaseInv, SquirrelHolds, Verifying, Vetted, Ending
  <2>3. BundleOffered'
    BY <1>3, <2>1 DEF ReleaseInv, BundleOffered, ArchiveOffered, Verifying, Vetted
  <2>4. OfferVetted'
    BY <1>3, <2>1, <2>2 DEF ReleaseInv, BundleOffered, OfferVetted, Verifying, Vetted, Handed
  <2>5. SquirrelHolds'
    BY <1>3, <2>1, <2>2 DEF ReleaseInv, SquirrelHolds, Verifying, Vetted
  <2>6. SameArchives
    BY <1>3, SameFiles DEF ReleaseInv
  <2> QED
    BY <1>3, <2>1, <2>3, <2>4, <2>5, <2>6, RunGoesOn DEF ReleaseInv, ReleaseTyped, Verifying, Vetted, Handed, Staging
<1>4. CASE Update!Listed \/ Update!Extracted
  BY <1>2, <1>3, <1>4 DEF Update!Listed, Update!Extracted, Update!At, Update!outer, Update!Stage, Verifying, Vetted
<1>5. CASE Update!Verified
  BY <1>3, <1>5 DEF Update!Verified, Update!Trusted, Update!Signed, Update!VersionOf, Update!Release, Update!At, Update!outer, Verifying, Vetted
<1>6. CASE Update!BundleDiscarded \/ Update!Quiesced \/ Update!Reinspected
  BY <1>2, <1>3, <1>6 DEF Update!BundleDiscarded, Update!Quiesced, Update!Reinspected, Update!Ineligible, Update!At, Update!outer, Verifying, Vetted
<1>7. CASE Update!StageMade
  <2>1. PICK s \in Downloads : f' = [f EXCEPT ![s].owner = m] /\ e' = [e EXCEPT !.at = "downloading", !.stage = s]
    BY <1>7 DEF Update!StageMade
  <2>2. UNCHANGED <<b, c, d, i, j, l>> /\ b > 0 /\ e.at = "staging"
    BY <1>7 DEF Update!StageMade, Update!outer, Update!At
  <2>3. DOMAIN e' = DOMAIN Update!Idle /\ e'.at = "downloading" /\ e'.stage \in Downloads /\ e'.bound = e.bound /\ e'.known = e.known
    BY <1>1, <2>1 DEF Update!Idle
  <2>4. FilesShaped
    BY <2>1, FeedsKeepArchives DEF ReleaseInv, SameArchives
  <2>5. 2 > b /\ e.known = b
    BY <2>2 DEF ReleaseInv, NewerOffered, Staging
  <2>6. i' \notin {"ready", "installing"} /\ ~j'.asked
    BY <2>2 DEF ReleaseInv, SquirrelHolds, Ending
  <2> QED
    BY <1>1, <2>2, <2>3, <2>4, <2>5, <2>6 DEF ReleaseInv, ReleaseTyped, FilesShaped, NewerOffered, ArchiveOffered, BundleOffered, OfferVetted,
       BoundByStamp, SquirrelHolds, Staging, Verifying, Vetted, Handed, Ending
<1>8. CASE Update!Downloaded
  <2>1. f' = [f EXCEPT ![e.stage].archive = c] /\ UNCHANGED <<b, c, d, i, j, l>> /\ b > 0 /\ e.at = "downloading" /\ Update!Goes("verifying")
    BY <1>8 DEF Update!Downloaded, Update!outer, Update!At
  <2>2. DOMAIN e' = DOMAIN Update!Idle /\ e'.at = "verifying" /\ e'.stage = e.stage /\ e'.bound = e.bound /\ e'.known = e.known
    BY <2>1, RunGoesTo
  <2>3. FilesShaped
    BY <2>1, FilesKeepShape DEF ReleaseInv
  <2>4. e.stage \in Downloads => f'[e.stage].archive = c
    BY <2>1 DEF ReleaseInv, ReleaseTyped, Update!Absent
  <2>5. e.stage \in Downloads
    BY <2>1 DEF ReleaseInv, ReleaseTyped
  <2>6. 2 > b /\ e.known = b
    BY <2>1 DEF ReleaseInv, NewerOffered, Staging
  <2>7. i' \notin {"ready", "installing"} /\ ~j'.asked
    BY <2>1 DEF ReleaseInv, SquirrelHolds, Ending
  <2> QED
    BY <1>1, <2>1, <2>2, <2>3, <2>4, <2>5, <2>6, <2>7 DEF ReleaseInv, ReleaseTyped, FilesShaped, NewerOffered, ArchiveOffered, BundleOffered,
       OfferVetted, BoundByStamp, SquirrelHolds, Staging, Verifying, Vetted, Handed, Ending
<1> QED
  BY <1>4, <1>5, <1>6, <1>7, <1>8

\* prepare, up to the hand-off.
LEMMA PrepareKeeps ==
  ASSUME Installed, ReleaseInv, Update!Prepares \/ Update!FeedWritten \/ Update!FeedNamed \/ Update!ArchiveOpened
  PROVE  ReleaseInv'
<1>1. DOMAIN e = DOMAIN Update!Idle /\ DOMAIN e.bound = DOMAIN Update!NoBound
  BY DEF ReleaseInv, ReleaseTyped
<1>2. CASE Update!FeedWritten \/ Update!FeedNamed
  <2>1. /\ UNCHANGED <<b, c, d, i, j, l>> /\ b > 0 /\ e.at \in {"feeding", "renaming"}
        /\ Update!Goes("renaming") \/ Update!Goes("binding")
    BY <1>2 DEF Update!FeedWritten, Update!FeedNamed, Update!outer, Update!At
  <2>2. SameArchives
    BY <1>2, FeedsKeepArchives DEF Update!FeedWritten, Update!FeedNamed, ReleaseInv
  <2>3. /\ e'.at \in {"renaming", "binding"} /\ e'.stage = e.stage /\ e'.known = e.known /\ e'.bound = e.bound
        /\ DOMAIN e' = DOMAIN Update!Idle
    BY <2>1, RunGoesTo
  <2>4. i' \notin {"ready", "installing"} /\ ~j'.asked
    BY <2>1 DEF ReleaseInv, SquirrelHolds, Ending
  <2>5. f'[e'.stage].archive = f[e.stage].archive
    BY <2>1, <2>2, <2>3 DEF ReleaseInv, ReleaseTyped, SameArchives, Vetted
  <2>6. BundleOffered' /\ OfferVetted' /\ SquirrelHolds'
    BY <2>1, <2>3, <2>4, <2>5 DEF ReleaseInv, BundleOffered, OfferVetted, SquirrelHolds, Vetted, Handed
  <2> QED
    BY <2>1, <2>2, <2>3, <2>6, RunGoesOn DEF ReleaseInv, ReleaseTyped, Verifying, Vetted, Handed, Staging
<1>3. CASE Update!ArchiveOpened
  <2>1. /\ UNCHANGED <<b, c, d, f, i, j, l>> /\ b > 0 /\ e.at = "binding" /\ Update!Goes("handing")
        /\ f[e.stage].archive = e.bound.archive /\ f[e.stage].archive = c
    BY <1>3 DEF Update!ArchiveOpened, Update!outer, Update!At, Update!Bound, Update!Digested, Update!Stage
  <2>2. e'.at = "handing" /\ e'.stage = e.stage /\ e'.known = e.known /\ e'.bound = e.bound /\ DOMAIN e' = DOMAIN Update!Idle
    BY <2>1, RunGoesTo
  <2>3. i' \notin {"ready", "installing"} /\ ~j'.asked
    BY <2>1 DEF ReleaseInv, SquirrelHolds, Ending
  <2>4. c = "good" \/ l >= 2
    BY <2>1 DEF ReleaseInv, ReleaseTyped, OfferVetted, Vetted
  <2>5. BundleOffered' /\ OfferVetted' /\ SquirrelHolds'
    BY <2>1, <2>2, <2>3, <2>4 DEF ReleaseInv, BundleOffered, OfferVetted, SquirrelHolds, Vetted, Handed
  <2>6. SameArchives
    BY <2>1, SameFiles DEF ReleaseInv
  <2> QED
    BY <2>1, <2>2, <2>5, <2>6, RunGoesOn DEF ReleaseInv, ReleaseTyped, Verifying, Vetted, Handed, Staging
<1>4. CASE Update!Prepares
  <2>1. /\ UNCHANGED <<b, c, d, f, j, l>> /\ b > 0 /\ e.at = "preparing" /\ i' = "preparing"
        /\ e' = [e EXCEPT !.at = "feeding", !.bound = [archive |-> f[e.stage].archive, stamp |-> f[e.stage].stamp]]
    BY <1>4 DEF Update!Prepares, Update!outer, Update!At, Update!Stage
  <2>2. /\ e'.at = "feeding" /\ e'.stage = e.stage /\ e'.known = e.known /\ DOMAIN e' = DOMAIN Update!Idle
        /\ e'.bound = [archive |-> f[e.stage].archive, stamp |-> f[e.stage].stamp]
    BY <1>1, <2>1 DEF Update!Idle
  <2>3. /\ DOMAIN e'.bound = DOMAIN Update!NoBound /\ e'.bound.archive = f[e.stage].archive /\ e'.bound.stamp = f[e.stage].stamp
    BY <2>2 DEF Update!NoBound
  <2>4. ~j'.asked /\ e.stage \in Downloads /\ f[e.stage].stamp \in Nat
    BY <2>1 DEF ReleaseInv, ReleaseTyped, SquirrelHolds, Ending, Vetted
  <2>5. 2 > b /\ e.known = b
    BY <2>1 DEF ReleaseInv, NewerOffered, Staging, Vetted
  <2>6. ReleaseTyped'
    BY <2>1, <2>2, <2>3, <2>4 DEF ReleaseInv, ReleaseTyped
  <2>7. NewerOffered' /\ BundleOffered' /\ SquirrelHolds'
    BY <2>1, <2>2, <2>4, <2>5 DEF ReleaseInv, NewerOffered, BundleOffered, SquirrelHolds, Ending
  <2>8. ArchiveOffered' /\ OfferVetted'
    BY <2>1, <2>2 DEF ReleaseInv, ArchiveOffered, OfferVetted, Vetted, Handed
  <2>9. BoundByStamp'
    BY <2>1, <2>2, <2>3, <2>4 DEF BoundByStamp, Handed
  <2> QED
    BY <2>6, <2>7, <2>8, <2>9 DEF ReleaseInv
<1> QED
  BY <1>2, <1>3, <1>4

\* From the hand-off on.
LEMMA HandOffKeeps ==
  ASSUME Installed, ReleaseInv,
         Update!Asks \/ Update!AskFails \/ Update!SquirrelTakes \/ Update!HearsDownloaded \/ Update!HearsFailure \/ Update!Ready \/ Update!NotBound
  PROVE  ReleaseInv'
<1>1. ASSUME NEW step \in {"waiting", "rebinding"} \union Ending, Update!Goes(step), UNCHANGED <<b, c, d, f, l>>, b > 0, e.at \in Handed,
             SquirrelHolds', DOMAIN j' = DOMAIN Update!NoSquirrel
      PROVE  ReleaseInv'
  <2>1. e'.at = step /\ e'.stage = e.stage /\ e'.known = e.known /\ e'.bound = e.bound /\ DOMAIN e' = DOMAIN Update!Idle
    BY <1>1, RunGoesTo
  <2>2. SameArchives
    BY <1>1, SameFiles DEF ReleaseInv
  <2>3. BundleOffered' /\ OfferVetted'
    BY <1>1, <2>1 DEF ReleaseInv, BundleOffered, OfferVetted, Vetted, Handed, Ending
  <2> QED
    BY <1>1, <2>1, <2>2, <2>3, RunGoesOn DEF ReleaseInv, ReleaseTyped, Verifying, Vetted, Handed, Ending, Staging
<1>2. CASE Update!Asks \/ Update!AskFails
  <2>1. /\ UNCHANGED <<b, c, d, f, l>> /\ b > 0 /\ e.at = "handing" /\ ~j.asked /\ j.event = "none" /\ i \notin {"ready", "installing"}
        /\ DOMAIN j = DOMAIN Update!NoSquirrel
    BY <1>2 DEF Update!Asks, Update!AskFails, Update!FailsClosed, Update!outer, Update!At, ReleaseInv, ReleaseTyped, SquirrelHolds, Ending
  <2>2. PICK asked \in BOOLEAN : j' = [j EXCEPT !.feed = e.stage, !.asked = asked]
    BY <1>2 DEF Update!Asks, Update!AskFails, Update!FailsClosed
  <2>3. DOMAIN j' = DOMAIN Update!NoSquirrel /\ j'.event = "none" /\ j'.feed = e.stage
    BY <2>1, <2>2 DEF Update!NoSquirrel
  <2>4. /\ i' \in {i, "failed-closed"}
        /\ Update!Goes("waiting") \/ Update!Goes("leaving")
    BY <1>2 DEF Update!Asks, Update!AskFails, Update!FailsClosed
  <2>5. /\ e'.at \in {"waiting", "leaving"} /\ e'.stage = e.stage
    BY <2>4, RunGoesTo
  <2>6. SquirrelHolds'
    BY <2>1, <2>3, <2>4, <2>5 DEF SquirrelHolds, Ending
  <2> QED
    BY <1>1, <2>1, <2>3, <2>4, <2>6 DEF Handed, Ending
<1>3. CASE Update!HearsDownloaded
  <2>1. UNCHANGED <<b, c, d, f, i, j, l>> /\ b > 0 /\ e.at = "waiting" /\ Update!Goes("rebinding") /\ j.event = "downloaded"
    BY <1>3 DEF Update!HearsDownloaded, Update!Accepts, Update!outer, Update!At
  <2>2. e'.at = "rebinding" /\ e'.stage = e.stage /\ e'.bound = e.bound
    BY <2>1, RunGoesTo
  <2>3. SquirrelHolds'
    BY <2>1, <2>2 DEF ReleaseInv, SquirrelHolds, Ending
  <2> QED
    BY <1>1, <2>1, <2>3 DEF ReleaseInv, ReleaseTyped, Handed
<1>4. CASE Update!HearsFailure \/ Update!NotBound
  <2>1. UNCHANGED <<b, c, d, f, j, l>> /\ b > 0 /\ e.at \in {"waiting", "rebinding"} /\ Update!Goes("leaving") /\ i' = "failed-closed"
    BY <1>4 DEF Update!HearsFailure, Update!NotBound, Update!FailsClosed, Update!outer, Update!At
  <2>2. e'.at = "leaving"
    BY <2>1, RunGoesTo
  <2>3. SquirrelHolds'
    BY <2>1, <2>2 DEF ReleaseInv, SquirrelHolds, Ending
  <2> QED
    BY <1>1, <2>1, <2>3 DEF ReleaseInv, ReleaseTyped, Handed, Ending
<1>5. CASE Update!Ready
  <2>1. /\ UNCHANGED <<b, c, d, f, j, l>> /\ b > 0 /\ e.at = "rebinding" /\ Update!Goes("reclaiming") /\ f[e.stage].stamp = e.bound.stamp
    BY <1>5 DEF Update!Ready, Update!outer, Update!At, Update!Bound, Update!Stage
  <2>2. e'.at = "reclaiming"
    BY <2>1, RunGoesTo
  <2>3. SquirrelHolds'
    BY <2>1, <2>2 DEF ReleaseInv, SquirrelHolds, Ending
  <2> QED
    BY <1>1, <2>1, <2>3 DEF ReleaseInv, ReleaseTyped, Handed, Ending
<1>6. CASE Update!SquirrelTakes
  <2>1. UNCHANGED <<b, c, d, e, f, h, i, l>> /\ b > 0 /\ j.asked /\ j.event = "none"
    BY <1>6 DEF Update!SquirrelTakes, Update!outer, Update!None
  <2>2. \/ j' = [j EXCEPT !.event = "failed"]
        \/ j' = [j EXCEPT !.event = "other", !.holds = "other"]
        \/ j' = [j EXCEPT !.event = "downloaded", !.holds = f[j.feed].archive]
    BY <1>6 DEF Update!SquirrelTakes
  <2>3. /\ DOMAIN j' = DOMAIN Update!NoSquirrel /\ j'.asked /\ j'.feed = j.feed
        /\ j'.event = "downloaded" => j'.holds = f[j.feed].archive
    BY <2>1, <2>2 DEF ReleaseInv, ReleaseTyped, Update!NoSquirrel
  <2>4. SquirrelHolds'
    BY <2>1, <2>3 DEF ReleaseInv, SquirrelHolds, BoundByStamp, Handed
  <2>5. NewerOffered' /\ ArchiveOffered' /\ BundleOffered' /\ OfferVetted' /\ BoundByStamp'
    BY <2>1 DEF ReleaseInv, NewerOffered, ArchiveOffered, BundleOffered, OfferVetted, BoundByStamp
  <2> QED
    BY <2>1, <2>3, <2>4, <2>5 DEF ReleaseInv, ReleaseTyped
<1> QED
  BY <1>2, <1>3, <1>4, <1>5, <1>6

\* From the stage that is reclaimed to the next launch, and what another program does.
LEMMA LaunchesKeep ==
  ASSUME Installed, ReleaseInv, Update!Reclaimed \/ Update!QuitAndInstall \/ Update!Exit \/ Update!Launch
  PROVE  ReleaseInv'
<1>1. CASE Update!Reclaimed \/ Update!QuitAndInstall
  <2>1. FilesShaped
    BY <1>1, SameFiles, FilesKeepShape DEF Update!Reclaimed, Update!QuitAndInstall, Update!Removed, ReleaseInv, SameArchives
  <2>2. /\ UNCHANGED <<b, c, d, j, l>> /\ b > 0 /\ e.at \in {"reclaiming", "quitting"}
        /\ Update!Goes("quitting") \/ Update!Goes("leaving")
        /\ UNCHANGED i \/ (i = "ready" /\ i' = "installing")
    BY <1>1 DEF Update!Reclaimed, Update!QuitAndInstall, Update!outer, Update!At
  <2>3. /\ e'.at \in {"quitting", "leaving"} /\ e'.known = e.known /\ e'.bound = e.bound /\ DOMAIN e' = DOMAIN Update!Idle
    BY <2>2, RunGoesTo
  <2>4. ReleaseTyped'
    BY <2>1, <2>2, <2>3 DEF ReleaseInv, ReleaseTyped, FilesShaped, Verifying, Vetted, Handed
  <2>5. NewerOffered' /\ ArchiveOffered' /\ BundleOffered' /\ OfferVetted' /\ BoundByStamp'
    BY <2>2, <2>3 DEF ReleaseInv, NewerOffered, ArchiveOffered, BundleOffered, OfferVetted, BoundByStamp, Staging, Verifying, Vetted, Handed, Ending
  <2>6. SquirrelHolds'
    BY <2>2, <2>3 DEF ReleaseInv, SquirrelHolds, Ending
  <2> QED
    BY <2>4, <2>5, <2>6 DEF ReleaseInv
<1>2. CASE Update!Exit
  <2>1. b' = 0 /\ ~d' /\ e' = Update!Idle /\ i' = "idle" /\ j' = [j EXCEPT !.asked = FALSE, !.event = "none"] /\ UNCHANGED <<c, f, l>>
    BY <1>2 DEF Update!Exit, Update!None
  <2>2. ~j'.asked /\ j'.event = "none" /\ DOMAIN j' = DOMAIN Update!NoSquirrel
    BY <2>1 DEF ReleaseInv, ReleaseTyped, Update!NoSquirrel
  <2>3. e'.at = "idle" /\ DOMAIN e' = DOMAIN Update!Idle /\ DOMAIN e'.bound = DOMAIN Update!NoBound
    BY <2>1, UpdateShapes DEF ReleaseInv
  <2> QED
    BY <2>1, <2>2, <2>3 DEF ReleaseInv, ReleaseTyped, NewerOffered, ArchiveOffered, BundleOffered, OfferVetted, BoundByStamp, SquirrelHolds,
       Staging, Verifying, Vetted, Handed, Ending
<1>3. CASE Update!Launch
  <2>1. /\ b = 0 /\ b' = a' /\ e' = [e EXCEPT !.at = "sweeping"] /\ j' = Update!NoSquirrel /\ UNCHANGED <<c, d, f, i, l>>
    BY <1>3 DEF Update!Launch
  <2>2. b' \in Nat /\ b' # 0
    BY <1>3 DEF Update!Launch, Update!VersionOf, Update!Release, Installed
  <2>3. ~d' /\ i' = "idle" /\ e'.at = "sweeping" /\ DOMAIN e' = DOMAIN Update!Idle /\ DOMAIN e'.bound = DOMAIN Update!NoBound
    BY <2>1, UpdateShapes DEF ReleaseInv, ReleaseTyped
  <2>4. ~j'.asked /\ j'.event = "none" /\ DOMAIN j' = DOMAIN Update!NoSquirrel
    BY <2>1, UpdateShapes DEF ReleaseInv
  <2> QED
    BY <2>1, <2>2, <2>3, <2>4 DEF ReleaseInv, ReleaseTyped, NewerOffered, ArchiveOffered, BundleOffered, OfferVetted, BoundByStamp, SquirrelHolds,
       Staging, Verifying, Vetted, Handed, Ending
<1> QED
  BY <1>1, <1>2, <1>3

LEMMA OthersKeep ==
  ASSUME Installed, ReleaseInv,
         \/ Update!SweepLooks \/ Update!SweepConfirms \/ Update!SweepUnlinks \/ Update!SweepRemoves \/ Update!SweepFails \/ Update!Outside
         \/ UNCHANGED <<b, c, d, e, f, h, i, j, l>>
  PROVE  ReleaseInv'
<1>1. CASE Update!SweepLooks \/ Update!SweepConfirms \/ Update!SweepUnlinks \/ Update!SweepRemoves \/ Update!SweepFails
  <2>1. UNCHANGED <<b, c, d, e, i, j, l>> /\ b > 0 /\ e.at = "sweeping"
    BY <1>1 DEF Update!SweepLooks, Update!SweepConfirms, Update!SweepUnlinks, Update!SweepRemoves, Update!SweepFails, Update!SweepsAt,
       Update!At, Update!swept, Update!outer
  <2>2. \/ UNCHANGED f
        \/ f' = [f EXCEPT ![k.stage].archive = "none", ![k.stage].feed = FALSE, ![k.stage].tmp = FALSE]
        \/ f' = [f EXCEPT ![k.stage] = Update!Absent]
    BY <1>1 DEF Update!SweepLooks, Update!SweepConfirms, Update!SweepUnlinks, Update!SweepRemoves, Update!SweepFails, Update!None
  <2>3. FilesShaped
    BY <2>2, FilesKeepShape DEF ReleaseInv
  <2> QED
    BY <2>1, <2>3, RunEnds DEF ReleaseInv, ReleaseTyped, NewerOffered, Ending
<1>2. ASSUME SameArchives, UNCHANGED <<b, c, d, e, h, i, j>>, l' \in {l, l + 1} PROVE ReleaseInv'
  <2>1. e.stage \in Downloads => f'[e.stage].archive = f[e.stage].archive /\ f'[e.stage].stamp = f[e.stage].stamp
    BY <1>2 DEF SameArchives
  <2>2. l' \in Nat /\ l' >= l
    BY <1>2 DEF ReleaseInv, ReleaseTyped
  <2>3. ReleaseTyped' /\ NewerOffered'
    BY <1>2, <2>2 DEF ReleaseInv, ReleaseTyped, NewerOffered, SameArchives, FilesShaped
  <2>4. ArchiveOffered' /\ BundleOffered' /\ OfferVetted'
    BY <1>2, <2>1, <2>2 DEF ReleaseInv, ReleaseTyped, ArchiveOffered, BundleOffered, OfferVetted, Verifying
  <2>5. BoundByStamp' /\ SquirrelHolds'
    BY <1>2, <2>1 DEF ReleaseInv, ReleaseTyped, BoundByStamp, SquirrelHolds, Vetted, Handed
  <2> QED
    BY <2>3, <2>4, <2>5 DEF ReleaseInv
<1>3. CASE UNCHANGED <<b, c, d, e, f, h, i, j, l>>
  BY <1>2, <1>3, SameFiles DEF ReleaseInv
<1>4. CASE Update!Outside
  <2>1. UNCHANGED <<b, c, d, e, h, i, j>> /\ l' = l + 1
    BY <1>4 DEF Update!Outside
  <2>2. CASE UNCHANGED f
    BY <1>2, <2>1, <2>2, SameFiles DEF ReleaseInv
  <2>3. ASSUME NEW s \in Downloads, f' = [f EXCEPT ![s].foreign = TRUE] PROVE ReleaseInv'
    BY <1>2, <2>1, <2>3, FeedsKeepArchives DEF ReleaseInv
  <2>4. ASSUME NEW s \in Downloads, NEW x, f' = [f EXCEPT ![s].archive = x, ![s].stamp = @ + 1] PROVE ReleaseInv'
    <3>1. /\ f'[s].stamp = f[s].stamp + 1 /\ f[s].stamp \in Nat /\ l \in Nat
          /\ \A y \in Downloads : y # s => f'[y] = f[y]
      BY <2>4 DEF ReleaseInv, ReleaseTyped, Update!Absent
    <3>2. FilesShaped
      BY <2>4 DEF ReleaseInv, ReleaseTyped, FilesShaped, Update!Absent
    <3>3. ReleaseTyped' /\ NewerOffered'
      BY <2>1, <3>1, <3>2 DEF ReleaseInv, ReleaseTyped, NewerOffered, FilesShaped
    <3>4. ArchiveOffered' /\ BundleOffered' /\ OfferVetted'
      BY <2>1, <3>1 DEF ReleaseInv, ArchiveOffered, BundleOffered, OfferVetted
    <3>5. e.stage \in Downloads => f[e.stage].stamp <= f'[e.stage].stamp /\ (f'[e.stage].stamp = f[e.stage].stamp => f'[e.stage] = f[e.stage])
                                  /\ f[e.stage].stamp \in Nat /\ f'[e.stage].stamp \in Nat
      BY <3>1, <3>2 DEF ReleaseInv, ReleaseTyped, FilesShaped
    <3>6. BoundByStamp'
      BY <2>1, <3>5 DEF ReleaseInv, ReleaseTyped, BoundByStamp, Vetted, Handed
    <3>7. SquirrelHolds'
      BY <2>1, <3>5 DEF ReleaseInv, ReleaseTyped, BoundByStamp, SquirrelHolds, Handed
    <3> QED
      BY <3>3, <3>4, <3>6, <3>7 DEF ReleaseInv
  <2> QED
    BY <1>4, <2>2, <2>3, <2>4 DEF Update!Outside
<1> QED
  BY <1>1, <1>3, <1>4

LEMMA ReleaseStep == Installed /\ ReleaseInv /\ (Update!Next \/ UNCHANGED <<b, c, d, e, f, h, i, j, l>>) => ReleaseInv'
BY BeginsKeep, EndsKeep, VettingKeeps, PrepareKeeps, HandOffKeeps, LaunchesKeep, OthersKeep DEF Update!Next

\* prepare has the updater from its first step to its last, and the archive and, from its renaming on, the feed of the run
\* are there; Squirrel has a feed only from the hand-off on, and keeps it with the archive when prepare failed closed.
PhaseOfRun ==
  /\ e.at \in {"feeding", "renaming", "binding"} \union Handed => i = "preparing" /\ f[e.stage].archive # "none"
  /\ e.at \in {"binding"} \union Handed => f[e.stage].feed
  /\ e.at \in {"reclaiming", "quitting"} => i = "ready"
  /\ e.at = "leaving" => i \in {"installing", "failed-closed"}
  /\ b > 0 /\ j.feed # "none" => e.at \in {"waiting", "rebinding"} \union Ending
  /\ i = "failed-closed" =>
       /\ e.at = "leaving" /\ j.feed = e.stage /\ e.stage \in Downloads
       /\ f[e.stage].archive # "none" /\ f[e.stage].feed

LEMMA PhaseSafe == ReleaseInv /\ PhaseOfRun => Update!AskedOnce
BY DEF ReleaseInv, SquirrelHolds, PhaseOfRun, Ending, Handed, Update!AskedOnce, Update!None

LEMMA PhaseInit == Update!Init => PhaseOfRun
BY DEF Update!Init, Update!Idle, Update!NoSquirrel, Update!None, PhaseOfRun, Handed, Ending

\* Before Squirrel was asked a run may end; until prepare it may go on.
LEMMA PhaseEnds ==
  ASSUME PhaseOfRun, UNCHANGED <<b, j>>, b > 0, i' \in {"idle", i}, e.at \notin {"waiting", "rebinding"} \union Ending,
         e'.at \notin {"feeding", "renaming", "binding"} \union Handed \union Ending
  PROVE  PhaseOfRun'
BY DEF PhaseOfRun, Ending

LEMMA PhaseOfBegins ==
  ASSUME ReleaseInv, PhaseOfRun,
         \/ Update!Check \/ Update!Install \/ Update!Inspected \/ Update!StageMade \/ Update!StageRefused \/ Update!Downloaded
         \/ Update!DownloadFails \/ Update!Listed \/ Update!Extracted \/ Update!Verified \/ Update!VerifyFails
         \/ Update!BundleDiscarded \/ Update!Quiesced \/ Update!Reinspected \/ Update!CleanedUp \/ Update!PreparesNot
         \/ Update!FeedFails \/ Update!ArchiveRefused \/ Update!FeedRefused \/ Update!SweepEnds
  PROVE  PhaseOfRun'
<1>1. DOMAIN e = DOMAIN Update!Idle /\ Update!Idle.at = "idle"
  BY UpdateShapes DEF ReleaseInv, ReleaseTyped
<1>2. ASSUME NEW step, Update!Goes(step) PROVE e'.at = step
  BY <1>1, <1>2 DEF Update!Goes, Update!Idle
<1>3. CASE Update!Check \/ Update!Install \/ Update!Inspected \/ Update!StageRefused \/ Update!Quiesced \/ Update!Reinspected
  <2>1. e'.at \in {"idle", "inspecting", "staging", "reinspecting", "preparing", "cleaning"}
    BY <1>1, <1>2, <1>3 DEF Update!Check, Update!Install, Update!Inspected, Update!StageRefused, Update!Quiesced, Update!Reinspected,
       Update!Ineligible, Update!Fails, Update!At, Update!Idle
  <2> QED
    BY <1>3, <2>1, PhaseEnds DEF Update!Check, Update!Install, Update!Inspected, Update!StageRefused, Update!Quiesced, Update!Reinspected,
       Update!At, Update!outer, Handed, Ending
<1>4. CASE Update!StageMade \/ Update!Downloaded \/ Update!DownloadFails
  <2>1. e'.at \in {"downloading", "verifying", "cleaning"}
    BY <1>1, <1>2, <1>4 DEF Update!StageMade, Update!Downloaded, Update!DownloadFails, Update!Idle
  <2> QED
    BY <1>4, <2>1, PhaseEnds DEF Update!StageMade, Update!Downloaded, Update!DownloadFails, Update!At, Update!outer, Handed, Ending
<1>5. CASE Update!Listed \/ Update!Extracted \/ Update!Verified \/ Update!VerifyFails \/ Update!BundleDiscarded
  <2>1. e'.at \in {"extracting", "trusting", "discarding", "quiescing", "cleaning"}
    BY <1>2, <1>5 DEF Update!Listed, Update!Extracted, Update!Verified, Update!VerifyFails, Update!BundleDiscarded, Update!Fails
  <2> QED
    BY <1>5, <2>1, PhaseEnds DEF Update!Listed, Update!Extracted, Update!Verified, Update!VerifyFails, Update!BundleDiscarded,
       Update!At, Update!outer, Handed, Ending
<1>6. CASE Update!CleanedUp \/ Update!SweepEnds
  <2>1. e' \in {e, Update!Idle} /\ e.at \in {"cleaning", "sweeping"}
    BY <1>6 DEF Update!CleanedUp, Update!SweepEnds, Update!At
  <2> QED
    BY <1>1, <1>6, <2>1, PhaseEnds DEF Update!CleanedUp, Update!SweepEnds, Update!At, Update!outer, Handed, Ending
<1>7. CASE Update!PreparesNot \/ Update!FeedFails \/ Update!ArchiveRefused \/ Update!FeedRefused
  <2>1. e'.at = "cleaning"
    BY <1>2, <1>7 DEF Update!PreparesNot, Update!FeedFails, Update!ArchiveRefused, Update!FeedRefused, Update!PrepareFails, Update!Fails
  <2> QED
    BY <1>7, <2>1, PhaseEnds DEF Update!PreparesNot, Update!FeedFails, Update!ArchiveRefused, Update!FeedRefused, Update!PrepareFails,
       Update!At, Update!outer, Handed, Ending
<1> QED
  BY <1>3, <1>4, <1>5, <1>6, <1>7

LEMMA PhaseOfPrepare ==
  ASSUME ReleaseInv, PhaseOfRun,
         \/ Update!Prepares \/ Update!FeedWritten \/ Update!FeedNamed \/ Update!ArchiveOpened \/ Update!Asks \/ Update!AskFails
         \/ Update!SquirrelTakes \/ Update!HearsDownloaded \/ Update!HearsFailure \/ Update!Ready \/ Update!NotBound
         \/ Update!Reclaimed \/ Update!QuitAndInstall
  PROVE  PhaseOfRun'
<1>1. ASSUME NEW step, Update!Goes(step) PROVE e'.at = step /\ e'.stage = e.stage
  BY <1>1, RunGoesTo
<1>2. /\ DOMAIN j = DOMAIN Update!NoSquirrel
      /\ e.at \in {"feeding", "renaming", "binding", "preparing"} \union Handed =>
           e.stage \in Downloads /\ DOMAIN f = Downloads /\ DOMAIN f[e.stage] = DOMAIN Update!Absent
  BY DEF ReleaseInv, ReleaseTyped, Vetted
<1>3. CASE Update!Prepares
  <2>1. DOMAIN e = DOMAIN Update!Idle
    BY DEF ReleaseInv, ReleaseTyped
  <2>2. e'.at = "feeding" /\ e'.stage = e.stage
    BY <1>3, <2>1 DEF Update!Prepares, Update!Idle
  <2> QED
    BY <1>3, <2>2 DEF PhaseOfRun, Update!Prepares, Update!At, Update!Staged, Update!Stage, Update!None, Update!outer, Handed, Ending
<1>4. CASE Update!FeedWritten
  <2>1. e'.at = "renaming" /\ e'.stage = e.stage /\ e.at = "feeding" /\ b > 0 /\ UNCHANGED <<b, i, j>>
    BY <1>1, <1>4 DEF Update!FeedWritten, Update!At, Update!outer
  <2>2. f'[e.stage].archive = f[e.stage].archive
    BY <1>2, <1>4, <2>1 DEF Update!FeedWritten, Update!Absent
  <2> QED
    BY <2>1, <2>2 DEF PhaseOfRun, Handed, Ending
<1>5. CASE Update!FeedNamed
  <2>1. e'.at = "binding" /\ e'.stage = e.stage /\ e.at = "renaming" /\ b > 0 /\ UNCHANGED <<b, i, j>>
    BY <1>1, <1>5 DEF Update!FeedNamed, Update!At, Update!outer
  <2>2. f'[e.stage].archive = f[e.stage].archive /\ f'[e.stage].feed
    BY <1>2, <1>5, <2>1 DEF Update!FeedNamed, Update!Absent
  <2> QED
    BY <2>1, <2>2 DEF PhaseOfRun, Handed, Ending
<1>6. CASE Update!ArchiveOpened \/ Update!HearsDownloaded
  <2>1. /\ (e.at = "binding" /\ e'.at = "handing") \/ (e.at = "waiting" /\ e'.at = "rebinding")
        /\ e'.stage = e.stage /\ b > 0 /\ UNCHANGED <<b, f, i, j>>
    BY <1>1, <1>6 DEF Update!ArchiveOpened, Update!HearsDownloaded, Update!At, Update!outer
  <2> QED
    BY <2>1 DEF PhaseOfRun, Handed, Ending
<1>7. CASE Update!Asks
  <2>1. e'.at = "waiting" /\ e'.stage = e.stage /\ e.at = "handing" /\ UNCHANGED <<b, f, i>>
    BY <1>1, <1>7 DEF Update!Asks, Update!At, Update!outer
  <2> QED
    BY <2>1 DEF PhaseOfRun, Handed, Ending
<1>8. ASSUME NEW sq, Update!FailsClosed(sq), sq.feed = e.stage, e.at \in Handed PROVE PhaseOfRun'
  <2>1. e'.at = "leaving" /\ e'.stage = e.stage /\ i' = "failed-closed" /\ j' = sq /\ UNCHANGED f
    BY <1>1, <1>8 DEF Update!FailsClosed
  <2> QED
    BY <1>2, <1>8, <2>1 DEF PhaseOfRun, Handed, Ending
<1>9. CASE Update!AskFails
  <2>1. PICK asked \in BOOLEAN : Update!FailsClosed([j EXCEPT !.feed = e.stage, !.asked = asked])
    BY <1>9 DEF Update!AskFails
  <2>2. [j EXCEPT !.feed = e.stage, !.asked = asked].feed = e.stage
    BY <1>2 DEF Update!NoSquirrel
  <2> QED
    BY <1>8, <1>9, <2>1, <2>2 DEF Update!AskFails, Update!At, Handed
<1>10. CASE Update!HearsFailure \/ Update!NotBound
  <2>1. j.feed = e.stage
    BY <1>10 DEF Update!HearsFailure, Update!NotBound, Update!At, ReleaseInv, SquirrelHolds
  <2> QED
    BY <1>8, <1>10, <2>1 DEF Update!HearsFailure, Update!NotBound, Update!At, Handed
<1>11. CASE Update!SquirrelTakes
  <2>1. UNCHANGED <<b, e, f, i>>
    BY <1>11 DEF Update!SquirrelTakes, Update!outer
  <2>2. j'.feed = j.feed
    BY <1>2, <1>11 DEF Update!SquirrelTakes, Update!NoSquirrel
  <2> QED
    BY <2>1, <2>2 DEF PhaseOfRun
<1>12. CASE Update!Ready
  <2>1. e'.at = "reclaiming" /\ i' = "ready"
    BY <1>1, <1>12 DEF Update!Ready
  <2> QED
    BY <2>1 DEF PhaseOfRun, Handed, Ending
<1>13. CASE Update!Reclaimed \/ Update!QuitAndInstall
  <2>1. (e'.at = "quitting" /\ i' = i /\ e.at = "reclaiming") \/ (e'.at = "leaving" /\ i' = "installing")
    BY <1>1, <1>13 DEF Update!Reclaimed, Update!QuitAndInstall, Update!At
  <2> QED
    BY <2>1 DEF PhaseOfRun, Handed, Ending
<1> QED
  BY <1>3, <1>4, <1>5, <1>6, <1>7, <1>9, <1>10, <1>11, <1>12, <1>13

\* What another program or the sweep does to a directory.
LEMMA PhaseOfOthers ==
  ASSUME ReleaseInv, PhaseOfRun,
         \/ Update!Exit \/ Update!Launch \/ Update!Outside \/ Update!SweepLooks \/ Update!SweepConfirms \/ Update!SweepUnlinks
         \/ Update!SweepRemoves \/ Update!SweepFails
  PROVE  PhaseOfRun'
<1>1. CASE Update!Exit
  BY <1>1, UpdateShapes DEF Update!Exit, PhaseOfRun, ReleaseInv, Handed, Ending
<1>2. CASE Update!Launch
  <2>1. e = Update!Idle /\ i' = "idle" /\ j' = Update!NoSquirrel /\ e' = [e EXCEPT !.at = "sweeping"]
    BY <1>2 DEF Update!Launch, ReleaseInv, ReleaseTyped
  <2> QED
    BY <2>1 DEF PhaseOfRun, Update!Idle, Update!NoSquirrel, Update!None, Handed, Ending
<1>3. CASE \/ Update!SweepLooks \/ Update!SweepConfirms \/ Update!SweepUnlinks \/ Update!SweepRemoves \/ Update!SweepFails
  <2>1. e.at = "sweeping" /\ b > 0 /\ UNCHANGED <<b, e, i, j>>
    BY <1>3 DEF Update!SweepLooks, Update!SweepConfirms, Update!SweepUnlinks, Update!SweepRemoves, Update!SweepFails, Update!SweepsAt,
       Update!At, Update!swept, Update!outer
  <2> QED
    BY <2>1 DEF PhaseOfRun, Handed, Ending
<1>4. CASE Update!Outside
  <2>1. UNCHANGED <<b, e, i, j>>
    BY <1>4 DEF Update!Outside
  <2>2. ASSUME NEW s \in Downloads PROVE f'[s].feed = f[s].feed /\ (f[s].archive # "none" => f'[s].archive # "none")
    <3>1. DOMAIN f = Downloads /\ \A t \in Downloads : DOMAIN f[t] = DOMAIN Update!Absent
      BY DEF ReleaseInv, ReleaseTyped
    <3>2. CASE UNCHANGED f
      BY <3>2
    <3>3. ASSUME NEW t \in Downloads, NEW x \in {"good", "other"}, f' = [f EXCEPT ![t].archive = x, ![t].stamp = @ + 1]
          PROVE  f'[s].feed = f[s].feed /\ (f[s].archive # "none" => f'[s].archive # "none")
      BY <3>1, <3>3 DEF Update!Absent
    <3>4. ASSUME NEW t \in Downloads, f' = [f EXCEPT ![t].foreign = TRUE]
          PROVE  f'[s].feed = f[s].feed /\ (f[s].archive # "none" => f'[s].archive # "none")
      BY <3>1, <3>4 DEF Update!Absent
    <3> QED
      BY <1>4, <3>2, <3>3, <3>4 DEF Update!Outside
  <2>3. e.at \in {"feeding", "renaming", "binding"} \union Handed => e.stage \in Downloads
    BY DEF ReleaseInv, ReleaseTyped, Vetted
  <2> QED
    BY <2>1, <2>2, <2>3 DEF PhaseOfRun
<1> QED
  BY <1>1, <1>2, <1>3, <1>4

LEMMA PhaseStep == ReleaseInv /\ PhaseOfRun /\ (Update!Next \/ UNCHANGED <<b, e, f, i, j>>) => PhaseOfRun'
<1>1. PhaseOfRun /\ UNCHANGED <<b, e, f, i, j>> => PhaseOfRun'
  BY DEF PhaseOfRun
<1> QED
  BY <1>1, PhaseOfBegins, PhaseOfPrepare, PhaseOfOthers DEF Update!Next

\* The sweep unlinks the files of a stage, and removes a directory with nothing else in it.
LEMMA SweepSpares == ReleaseInv /\ (Update!Next \/ UNCHANGED <<b, e, f>>) => Update!SweepsStagesOnly
<1> SUFFICES ASSUME ReleaseInv, Update!Next \/ UNCHANGED <<b, e, f>>, b > 0, e.at = "sweeping", NEW s \in Downloads, f[s].foreign
             PROVE  f'[s].foreign
  BY DEF Update!SweepsStagesOnly, Update!At
<1>1. DOMAIN f = Downloads /\ \A t \in Downloads : DOMAIN f[t] = DOMAIN Update!Absent
  BY DEF ReleaseInv, ReleaseTyped
<1>2. CASE UNCHANGED f
  BY <1>2
<1>3. CASE Update!SweepUnlinks \/ Update!SweepRemoves
  BY <1>1, <1>3 DEF Update!SweepUnlinks, Update!SweepRemoves, Update!Absent
<1>4. CASE Update!Outside
  <2>1. ASSUME NEW t \in Downloads, NEW x, f' = [f EXCEPT ![t].archive = x, ![t].stamp = @ + 1] PROVE f'[s].foreign
    BY <1>1, <2>1 DEF Update!Absent
  <2>2. ASSUME NEW t \in Downloads, f' = [f EXCEPT ![t].foreign = TRUE] PROVE f'[s].foreign
    BY <1>1, <2>2 DEF Update!Absent
  <2> QED
    BY <1>2, <1>4, <2>1, <2>2 DEF Update!Outside
<1>5. CASE Update!Exit \/ Update!SquirrelTakes \/ Update!SweepLooks \/ Update!SweepConfirms \/ Update!SweepFails \/ Update!SweepEnds
  BY <1>2, <1>5 DEF Update!Exit, Update!SquirrelTakes, Update!SweepLooks, Update!SweepConfirms, Update!SweepFails, Update!SweepEnds
<1>6. CASE \/ Update!Check \/ Update!Install \/ Update!Inspected \/ Update!StageMade \/ Update!StageRefused \/ Update!Downloaded
           \/ Update!DownloadFails \/ Update!Listed \/ Update!Extracted \/ Update!Verified \/ Update!VerifyFails
           \/ Update!BundleDiscarded \/ Update!Quiesced \/ Update!Reinspected \/ Update!CleanedUp \/ Update!Launch
  BY <1>6 DEF Update!Check, Update!Install, Update!Inspected, Update!StageMade, Update!StageRefused, Update!Downloaded,
     Update!DownloadFails, Update!Listed, Update!Extracted, Update!Verified, Update!VerifyFails, Update!BundleDiscarded, Update!Quiesced,
     Update!Reinspected, Update!CleanedUp, Update!Launch, Update!At
<1>7. CASE \/ Update!Prepares \/ Update!PreparesNot \/ Update!FeedWritten \/ Update!FeedNamed \/ Update!FeedFails \/ Update!ArchiveOpened
           \/ Update!ArchiveRefused \/ Update!Asks \/ Update!FeedRefused \/ Update!AskFails \/ Update!HearsDownloaded
           \/ Update!HearsFailure \/ Update!Ready \/ Update!NotBound \/ Update!Reclaimed \/ Update!QuitAndInstall
  BY <1>7 DEF Update!Prepares, Update!PreparesNot, Update!FeedWritten, Update!FeedNamed, Update!FeedFails, Update!ArchiveOpened,
     Update!ArchiveRefused, Update!Asks, Update!FeedRefused, Update!AskFails, Update!HearsDownloaded, Update!HearsFailure, Update!Ready,
     Update!NotBound, Update!Reclaimed, Update!QuitAndInstall, Update!At
<1> QED
  BY <1>2, <1>3, <1>4, <1>5, <1>6, <1>7 DEF Update!Next
=============================================================================
