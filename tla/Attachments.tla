---------------------------- MODULE Attachments ----------------------------
(***************************************************************************)
(* AttachmentBroker: the files that the user attaches are staged under a   *)
(* token of one session, images as open handles with the identity that     *)
(* they had, and consumed once by a prompt, unless the token is cancelled, *)
(* expires, or its session is cleared; other programs change the files.    *)
(***************************************************************************)
EXTENDS Naturals, Sequences, FiniteSets

CONSTANTS Paths, Plain, Stages, Consumes, Sessions, TotalLimit, MaxOutside

None == "none"

VARIABLES
  path,      \* the file that each path names
  version,   \* of each file: its contents, with which size and times change
  stage,     \* of each call of stage: the step, session, paths to do, attachments so far, the file looked at
  lease,     \* of each call of stage: its token
  handles,   \* the open images: the call of stage and the file
  use,       \* of each call of consume: the step, token, position, the contents read of the image
  given,     \* what prompts received: token, session, contents
  outside

vars == <<path, version, stage, lease, handles, use, given, outside>>

FileIds == 0 .. MaxOutside + 1
NoLease == [state |-> "none", session |-> None, items |-> <<>>, late |-> FALSE]
Resting == [at |-> "idle", session |-> None, todo |-> <<>>, items |-> <<>>, seen |-> {}, file |-> 0]
Unused == [at |-> "idle", token |-> None, n |-> 1, read |-> <<>>, data |-> <<>>]

Selections == {<<p>> : p \in Paths} \union {<<p, q>> : p, q \in Paths}

\* Two paths may be links to one file.
Init ==
  /\ \E ps \in [Paths -> 0 .. 1] : path = ps
  /\ version = [f \in FileIds |-> 0]
  /\ stage = [s \in Stages |-> Resting] /\ lease = [s \in Stages |-> NoLease]
  /\ handles = {} /\ use = [c \in Consumes |-> Unused] /\ given = {} /\ outside = 0

HandlesOf(s) == {h \in handles : h.stage = s}

-----------------------------------------------------------------------------
(* stage                                                                   *)

Images(items) == {i \in DOMAIN items : items[i].image}

StageBegins(s, session, selection) ==
  /\ stage[s].at = "idle"
  /\ stage' = [stage EXCEPT ![s] = [Resting EXCEPT !.at = "resolving", !.session = session, !.todo = selection]]
  /\ UNCHANGED <<path, version, lease, handles, use, given, outside>>

\* The next path. A path that was given before is passed over, a plain file is only looked at.
Resolves(s) ==
  LET st == stage[s] p == Head(st.todo) IN
  /\ st.at = "resolving" /\ st.todo # <<>>
  /\ stage' = [stage EXCEPT ![s] =
       IF p \in st.seen THEN [st EXCEPT !.todo = Tail(@)]
       ELSE IF p \in Plain
       THEN [st EXCEPT !.todo = Tail(@), !.seen = @ \union {p}, !.items = Append(@, [image |-> FALSE, file |-> path[p], version |-> 0])]
       ELSE [st EXCEPT !.at = "opening", !.seen = @ \union {p}, !.file = path[p]]]
  /\ UNCHANGED <<path, version, lease, handles, use, given, outside>>

Opens(s) ==
  LET f == path[Head(stage[s].todo)] IN
  /\ stage[s].at = "opening"
  /\ handles' = handles \union {[stage |-> s, file |-> f, n |-> Len(stage[s].todo)]}
  /\ stage' = [stage EXCEPT ![s].at = "opened"]
  /\ UNCHANGED <<path, version, lease, use, given, outside>>

Newest(s) == CHOOSE h \in HandlesOf(s) : h.n = Len(stage[s].todo)

\* The opened file must be the one that was looked at. One that is staged already is closed again, and so is one that
\* is too large; the latter ends the call.
Checked(s) ==
  LET st == stage[s] h == Newest(s) IN
  /\ st.at = "opened" /\ h.file = st.file
  /\ IF \E i \in Images(st.items) : st.items[i].file = h.file
     THEN /\ handles' = handles \ {h}
          /\ stage' = [stage EXCEPT ![s] = [st EXCEPT !.at = "resolving", !.todo = Tail(@)]]
     ELSE /\ Cardinality(Images(st.items)) < TotalLimit
          /\ stage' = [stage EXCEPT ![s] = [st EXCEPT !.at = "resolving", !.todo = Tail(@),
               !.items = Append(@, [image |-> TRUE, file |-> h.file, version |-> version[h.file]])]]
          /\ UNCHANGED handles
  /\ UNCHANGED <<path, version, lease, use, given, outside>>

\* Mutant: only the images that are staged are closed.
StageFailsKeeping(s) ==
  /\ stage[s].at \in {"resolving", "opening", "opened"}
  /\ handles' = {h \in handles : h.stage # s \/ \A i \in Images(stage[s].items) : stage[s].items[i].file # h.file}
  /\ stage' = [stage EXCEPT ![s] = [Resting EXCEPT !.at = "over"]]
  /\ UNCHANGED <<path, version, lease, use, given, outside>>

\* A path, its file, the size of the images or the token is refused: what was opened is closed.
StageFails(s) ==
  /\ stage[s].at \in {"resolving", "opening", "opened"}
  /\ handles' = handles \ HandlesOf(s)
  /\ stage' = [stage EXCEPT ![s] = [Resting EXCEPT !.at = "over"]]
  /\ UNCHANGED <<path, version, lease, use, given, outside>>

Issues(s) ==
  LET st == stage[s] IN
  /\ st.at = "resolving" /\ st.todo = <<>>
  /\ lease' = [lease EXCEPT ![s] = [NoLease EXCEPT !.state = "valid", !.session = st.session, !.items = st.items]]
  /\ stage' = [stage EXCEPT ![s] = [Resting EXCEPT !.at = "over"]]
  /\ UNCHANGED <<path, version, handles, use, given, outside>>

-----------------------------------------------------------------------------
(* consume, cancel, clearSession, dispose, and the timer of a token.       *)

Valid(s) == lease[s].state = "valid"
Taken(s) == lease' = [lease EXCEPT ![s].state = "gone"]
Closed(s) == handles' = handles \ HandlesOf(s)

\* The token is taken before anything is awaited. An expired one is refused although its timer has not run.
Consume(c, s, session) ==
  /\ use[c].at = "idle" /\ Valid(s) /\ lease[s].session = session
  /\ Taken(s)
  /\ IF lease[s].late
     THEN Closed(s) /\ use' = [use EXCEPT ![c].at = "over"]
     ELSE UNCHANGED handles /\ use' = [use EXCEPT ![c] = [Unused EXCEPT !.at = "looking", !.token = s]]
  /\ UNCHANGED <<path, version, stage, given, outside>>

Item(c) == lease[use[c].token].items[use[c].n]

\* The next image must be as it was staged.
Looks(c) ==
  LET u == use[c] IN
  /\ u.at = "looking" /\ u.n <= Len(lease[u.token].items)
  /\ IF ~Item(c).image THEN use' = [use EXCEPT ![c].n = @ + 1]
     ELSE version[Item(c).file] = Item(c).version /\ use' = [use EXCEPT ![c].at = "reading", ![c].data = <<>>]
  /\ UNCHANGED <<path, version, stage, lease, handles, given, outside>>

\* An image is read in two chunks.
Reads(c) ==
  /\ use[c].at = "reading" /\ Len(use[c].data) < 2
  /\ use' = [use EXCEPT ![c].data = Append(@, [n |-> use[c].n, version |-> version[Item(c).file]])]
  /\ UNCHANGED <<path, version, stage, lease, handles, given, outside>>

NextImage(c) == use' = [use EXCEPT ![c].at = "looking", ![c].n = @ + 1, ![c].read = @ \o use[c].data]

\* Mutant: the image is not looked at again after it was read.
ReadEndsTrusting(c) ==
  /\ use[c].at = "reading" /\ Len(use[c].data) = 2
  /\ NextImage(c) /\ UNCHANGED <<path, version, stage, lease, handles, given, outside>>

\* After the read it must still be as it was.
ReadEnds(c) ==
  /\ use[c].at = "reading" /\ Len(use[c].data) = 2 /\ version[Item(c).file] = Item(c).version
  /\ NextImage(c) /\ UNCHANGED <<path, version, stage, lease, handles, given, outside>>

Delivers(c) ==
  LET u == use[c] IN
  /\ u.at = "looking" /\ u.n > Len(lease[u.token].items)
  /\ given' = given \union {[by |-> c, token |-> u.token, read |-> {u.read[i] : i \in DOMAIN u.read}]}
  /\ use' = [use EXCEPT ![c].at = "over"] /\ Closed(u.token)
  /\ UNCHANGED <<path, version, stage, lease, outside>>

\* An image is not what was staged, or no image at all.
ConsumeFails(c) ==
  /\ use[c].at \in {"looking", "reading"}
  /\ use' = [use EXCEPT ![c].at = "over"] /\ Closed(use[c].token)
  /\ UNCHANGED <<path, version, stage, lease, given, outside>>

Cancel(s, session) ==
  /\ Valid(s) /\ lease[s].session = session /\ Taken(s) /\ Closed(s)
  /\ UNCHANGED <<path, version, stage, use, given, outside>>

TimeIsUp(s) ==
  /\ Valid(s) /\ ~lease[s].late /\ lease' = [lease EXCEPT ![s].late = TRUE]
  /\ UNCHANGED <<path, version, stage, handles, use, given, outside>>

Expires(s) ==
  /\ Valid(s) /\ lease[s].late /\ Taken(s) /\ Closed(s)
  /\ UNCHANGED <<path, version, stage, use, given, outside>>

\* clearSession, and dispose for all sessions: the tokens that are there; a stage under way issues its own afterwards.
Clear(sessions) ==
  LET cleared == {s \in Stages : Valid(s) /\ lease[s].session \in sessions} IN
  /\ cleared # {}
  /\ lease' = [s \in Stages |-> IF s \in cleared THEN [lease[s] EXCEPT !.state = "gone"] ELSE lease[s]]
  /\ handles' = {h \in handles : h.stage \notin cleared}
  /\ UNCHANGED <<path, version, stage, use, given, outside>>

-----------------------------------------------------------------------------
\* Another program writes into the file of a path, or puts another file there.
Outside(p) ==
  /\ outside < MaxOutside /\ outside' = outside + 1
  /\ \/ version' = [version EXCEPT ![path[p]] = @ + 1] /\ UNCHANGED path
     \/ path' = [path EXCEPT ![p] = outside + 2] /\ UNCHANGED version
  /\ UNCHANGED <<stage, lease, handles, use, given>>

Next ==
  \/ \E s \in Stages :
       \/ \E session \in Sessions, selection \in Selections : StageBegins(s, session, selection)
       \/ Resolves(s) \/ Opens(s) \/ Checked(s) \/ StageFails(s) \/ Issues(s)
       \/ TimeIsUp(s) \/ Expires(s)
       \/ \E session \in Sessions : Cancel(s, session) \/ \E c \in Consumes : Consume(c, s, session)
  \/ \E c \in Consumes : Looks(c) \/ Reads(c) \/ ReadEnds(c) \/ Delivers(c) \/ ConsumeFails(c)
  \/ \E sessions \in {{x} : x \in Sessions} \union {Sessions} : Clear(sessions)
  \/ \E p \in Paths : Outside(p)

Spec == Init /\ [][Next]_vars

-----------------------------------------------------------------------------
Items == [image : BOOLEAN, file : FileIds, version : 0 .. MaxOutside]

TypeOK ==
  /\ path \in [Paths -> FileIds] /\ version \in [FileIds -> 0 .. MaxOutside] /\ outside \in 0 .. MaxOutside
  /\ \A s \in Stages : \A i \in DOMAIN stage[s].items : stage[s].items[i] \in Items
  /\ \A s \in Stages : lease[s].state \in {"none", "valid", "gone"} /\ lease[s].late \in BOOLEAN
  /\ handles \subseteq [stage : Stages, file : FileIds, n : 1 .. 2]

Underway(s) == stage[s].at \in {"opened", "resolving", "opening"} \/ \E c \in Consumes : use[c].token = s /\ use[c].at \in {"looking", "reading"}

\* No image stays open without an operation under way or a token that will close it, and none is closed while it is
\* still needed.
HandlesAreOwned ==
  /\ \A h \in handles : Underway(h.stage) \/ Valid(h.stage)
  /\ \A s \in Stages : Valid(s) \/ (\E c \in Consumes : use[c].token = s /\ use[c].at \in {"looking", "reading"}) =>
       \A i \in Images(lease[s].items) : \E h \in HandlesOf(s) : h.file = lease[s].items[i].file

\* A token is good for one prompt, and that prompt gets the images in the version in which they were staged.
GivenAsStaged ==
  \A g \in given :
    /\ \A other \in given : other.token = g.token => other = g
    /\ {r.n : r \in g.read} = Images(lease[g.token].items)
    /\ \A r \in g.read : r.version = lease[g.token].items[r.n].version
=============================================================================
