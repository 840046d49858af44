----------------------------- MODULE MemoryFiles -----------------------------
(***************************************************************************)
(* MemoryBroker.list, read and deleteSession: files are named to the       *)
(* renderer by tokens of the newest list only, and every later step works  *)
(* on paths that other programs may change meanwhile.  The version of a    *)
(* file stands for its identity: device, inode, size, times and links.     *)
(***************************************************************************)
EXTENDS Naturals, FiniteSets

CONSTANTS Sessions,       \* session files
          Global,         \* MEMORY.md, which has tokens too
          Lists, Deletes, \* calls of list and of deleteSession
          MaxOutside      \* changes by other programs

Paths == Sessions \union {Global}

VARIABLES
  file,       \* the version at each path, 0 for none
  versions,   \* versions so far
  tombs,      \* versions in a quarantine directory
  destroyed,  \* versions that a delete has unlinked
  removed,    \* versions that other programs removed or replaced
  generation, \* the newest list's
  entries,    \* the tokens that are valid
  issued,     \* the tokens that the renderer was given
  op,         \* of each call: its step, its generation or entry, and what a list has found
  outside

vars == <<file, versions, tombs, destroyed, removed, generation, entries, issued, op, outside>>
diskVars == <<file, versions, tombs, destroyed, removed, outside>>

Idle == [step |-> "idle"]

Init ==
  /\ versions = Cardinality(Paths) /\ file \in {f \in [Paths -> 1 .. versions] : \A v \in 1 .. versions : \E p \in Paths : f[p] = v}
  /\ tombs = {} /\ destroyed = {} /\ removed = {}
  /\ generation = 0 /\ entries = {} /\ issued = {} /\ op = [o \in Lists \union Deletes |-> Idle] /\ outside = 0

Goes(o, step) == op' = [op EXCEPT ![o].step = step]
BeginGeneration == entries' = {} /\ generation' = generation + 1

-----------------------------------------------------------------------------
ListBegins(o) ==
  /\ op[o] = Idle /\ BeginGeneration
  /\ op' = [op EXCEPT ![o] = [step |-> "listing", generation |-> generation + 1, found |-> {}, left |-> Paths]]
  /\ UNCHANGED <<diskVars, issued>>

\* discover: one file after the other is opened, and its identity kept.
Discovers(o) ==
  /\ op[o].step = "listing"
  /\ \E p \in op[o].left :
       op' = [op EXCEPT ![o].left = @ \ {p},
                        ![o].found = IF file[p] = 0 THEN @ ELSE @ \union {[path |-> p, version |-> file[p]]}]
  /\ UNCHANGED <<diskVars, generation, entries, issued>>

IssueTokens(o) ==
  LET tokens == {[path |-> f.path, version |-> f.version, list |-> op[o].generation] : f \in op[o].found} IN
  entries' = entries \union tokens /\ issued' = issued \union tokens /\ Goes(o, "ok")

\* Mutant: a list that a newer one has overtaken issues its tokens too.
ListEndsOvertaken(o) ==
  /\ op[o].step = "listing" /\ op[o].left = {} /\ IssueTokens(o)
  /\ UNCHANGED <<diskVars, generation>>

\* The list is still the newest: its tokens are issued.
ListEnds(o) ==
  /\ op[o].step = "listing" /\ op[o].left = {}
  /\ IF op[o].generation = generation
     THEN IssueTokens(o) ELSE Goes(o, "failed") /\ UNCHANGED <<entries, issued>>
  /\ UNCHANGED <<diskVars, generation>>

\* Tokens expire after five minutes, and are all forgotten when a note is saved, the selection changes, or main stops.
Forgotten ==
  /\ entries # {} /\ \/ \E e \in entries : entries' = entries \ {e} /\ UNCHANGED generation
                     \/ BeginGeneration
  /\ UNCHANGED <<diskVars, issued, op>>

-----------------------------------------------------------------------------
\* resolve: any token that the renderer holds, looked at before and after the root is bound again.
Resolves(o) ==
  /\ op[o] = Idle
  /\ \E t \in issued :
       op' = [op EXCEPT ![o] = [step |-> IF t \in entries /\ t.path # Global THEN "resolved" ELSE "failed", entry |-> t]]
  /\ UNCHANGED <<diskVars, generation, entries, issued>>

\* The file is opened and is the one of the entry; the quarantine directory is made.
Opens(o) ==
  /\ op[o].step = "resolved" /\ Goes(o, IF file[op[o].entry.path] = op[o].entry.version THEN "opened" ELSE "failed")
  /\ UNCHANGED <<diskVars, generation, entries, issued>>

\* read, in place of a delete: the file is opened and read, and is the one of the entry before and after.
Reads(o) ==
  /\ op[o].step = "resolved" /\ Goes(o, IF file[op[o].entry.path] = op[o].entry.version THEN "ok" ELSE "failed")
  /\ UNCHANGED <<diskVars, generation, entries, issued>>

\* Mutant: the path is unlinked at once.
MovesAndUnlinks(o) ==
  /\ op[o].step = "opened" /\ file[op[o].entry.path] # 0
  /\ destroyed' = destroyed \union {file[op[o].entry.path]}
  /\ file' = [file EXCEPT ![op[o].entry.path] = 0] /\ Goes(o, "ok") /\ BeginGeneration
  /\ UNCHANGED <<versions, tombs, removed, outside, issued>>

\* rename takes whatever is at the path by now into the quarantine.
Moves(o) ==
  /\ op[o].step = "opened"
  /\ LET p == op[o].entry.path IN
     \/ file[p] = 0 /\ Goes(o, "failed") /\ UNCHANGED <<file, tombs>>
     \/ /\ file[p] # 0 /\ file' = [file EXCEPT ![p] = 0] /\ tombs' = tombs \union {file[p]}
        /\ op' = [op EXCEPT ![o] = [step |-> "moved", entry |-> @.entry, moved |-> file[p]]]
  /\ UNCHANGED <<versions, destroyed, removed, outside, generation, entries, issued>>

\* What was moved is unlinked if it is the file of the entry, and is left in the quarantine otherwise.
Verifies(o) ==
  /\ op[o].step = "moved"
  /\ \/ /\ op[o].moved = op[o].entry.version
        /\ destroyed' = destroyed \union {op[o].moved} /\ tombs' = tombs \ {op[o].moved}
        /\ \/ Goes(o, "ok") /\ BeginGeneration
           \/ Goes(o, "failed") /\ UNCHANGED <<entries, generation>>      \* the directory cannot be synced
     \/ op[o].moved # op[o].entry.version /\ Goes(o, "failed") /\ UNCHANGED <<destroyed, tombs, entries, generation>>
  /\ UNCHANGED <<file, versions, removed, outside, issued>>

\* A call of the file system fails, or a directory on the way is another one by now.
Fails(o) ==
  /\ op[o].step \in {"listing", "resolved", "opened", "moved"} /\ Goes(o, "failed")
  /\ UNCHANGED <<diskVars, generation, entries, issued>>

-----------------------------------------------------------------------------
\* Another program replaces, creates or removes a file.
Outside ==
  /\ outside < MaxOutside /\ outside' = outside + 1
  /\ \E p \in Paths :
       /\ removed' = removed \union ({file[p]} \ {0})
       /\ \/ file' = [file EXCEPT ![p] = versions + 1] /\ versions' = versions + 1
          \/ file[p] # 0 /\ file' = [file EXCEPT ![p] = 0] /\ UNCHANGED versions
  /\ UNCHANGED <<tombs, destroyed, generation, entries, issued, op>>

Next ==
  \/ Forgotten \/ Outside
  \/ \E o \in Lists : ListBegins(o) \/ Discovers(o) \/ ListEnds(o) \/ Fails(o)
  \/ \E o \in Deletes : Resolves(o) \/ Reads(o) \/ Opens(o) \/ Moves(o) \/ Verifies(o) \/ Fails(o)

Spec == Init /\ [][Next]_vars

-----------------------------------------------------------------------------
TypeOK ==
  /\ file \in [Paths -> 0 .. versions] /\ tombs \subseteq 1 .. versions /\ destroyed \subseteq 1 .. versions
  /\ removed \subseteq 1 .. versions /\ entries \subseteq issued /\ outside \in 0 .. MaxOutside
  /\ \A t \in issued : t.path \in Paths /\ t.version \in 1 .. versions /\ t.list \in 1 .. generation
  /\ \A o \in DOMAIN op : op[o].step \in {"idle", "listing", "resolved", "opened", "moved", "ok", "failed"}

\* The valid tokens are those of the newest list.
OneGeneration == \A t \in entries : t.list = generation

\* A delete destroys nothing but a session file that a list named to the renderer, in the very version that was listed;
\* every other version is at its path or in a quarantine unless another program removed it.
OnlyTheListedIsDestroyed ==
  /\ \A v \in destroyed : \E t \in issued : t.version = v /\ t.path \in Sessions
  /\ \A v \in 1 .. versions : v \in removed \union destroyed \union tombs \/ \E p \in Paths : file[p] = v
=============================================================================
