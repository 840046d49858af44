------------------------------- MODULE FsHost -------------------------------
(***************************************************************************)
(* FsHost: the agent reads and writes text files of the user's machine,    *)
(* where other programs work too.  One path is modelled: the file that is  *)
(* there is a version, a fresh number per write, and 0 is no file.  A      *)
(* write goes to a temporary file beside it, which rename or link makes    *)
(* the file.  A text is a sequence of characters, "n" standing for the     *)
(* newline.                                                                *)
(***************************************************************************)
EXTENDS Integers, FiniteSets, Sequences, SequencesExt

CONSTANTS Writes,        \* write requests of the agent
          MaxOutside,    \* changes by other programs
          MaxFaults,     \* file operations that fail
          Texts, MaxLine \* texts read, and the largest line and limit asked for

VARIABLES
  file,      \* the version at the path, 0 for none
  versions,  \* versions so far
  step,      \* of each write: "idle", "seen", "staged", "checked", "placed", "failed", "ok", "error"
  seen,      \* the version it found
  temporary, \* writes whose temporary file exists
  outside, faults,
  lost,      \* a version that was put in place of one that the writer had found absent
  read       \* the last read: the text, the request and the answer

vars == <<file, versions, step, seen, temporary, outside, faults, lost, read>>

NoRead == [text |-> <<>>, line |-> -1, limit |-> -1, answer |-> <<>>]

Init ==
  /\ file \in {0, 1} /\ versions = 1 /\ step = [w \in Writes |-> "idle"] /\ seen = [w \in Writes |-> 0]
  /\ temporary = {} /\ outside = 0 /\ faults = 0 /\ lost = {} /\ read = NoRead

Goes(w, to) == step' = [step EXCEPT ![w] = to]
Fault == faults < MaxFaults /\ faults' = faults + 1

-----------------------------------------------------------------------------
\* The path does not lie in the workspace, or leads out of it through a link, or its directory cannot be made.
Denied(w) ==
  /\ step[w] = "idle" /\ read = NoRead /\ Goes(w, "error") /\ Fault
  /\ UNCHANGED <<file, versions, seen, temporary, outside, lost, read>>

\* writeTextFile up to the look at what is there.
Begin(w) ==
  /\ step[w] = "idle" /\ read = NoRead /\ Goes(w, "seen") /\ seen' = [seen EXCEPT ![w] = file]
  /\ UNCHANGED <<file, versions, temporary, outside, faults, lost, read>>

\* The temporary file is written, its mode set, synced and closed; or one of these fails.
Stage(w) ==
  /\ step[w] = "seen"
  /\ \/ Goes(w, "staged") /\ temporary' = temporary \union {w} /\ UNCHANGED faults
     \/ Goes(w, "failed") /\ Fault /\ \E t \in {temporary, temporary \union {w}} : temporary' = t
  /\ UNCHANGED <<file, versions, seen, outside, lost, read>>

\* The directory and the target are looked at again.
Check(w) ==
  /\ step[w] = "staged"
  /\ Goes(w, IF file = seen[w] THEN "checked" ELSE "failed")
  /\ UNCHANGED <<file, versions, seen, temporary, outside, faults, lost, read>>

Placed(w) ==
  /\ file' = versions + 1 /\ versions' = versions + 1
  /\ lost' = (IF seen[w] = 0 /\ file # 0 THEN lost \union {file} ELSE lost)

\* Mutant: a new file is put in place with rename, as an existing one is.
PlaceByRename(w) ==
  /\ step[w] = "checked"
  /\ Placed(w) /\ Goes(w, "placed") /\ temporary' = temporary \ {w}
  /\ UNCHANGED <<seen, outside, faults, read>>

\* rename over the version that was found; link for a new file, which fails if one is there by now.
Place(w) ==
  /\ step[w] = "checked"
  /\ \/ seen[w] # 0 /\ Placed(w) /\ Goes(w, "placed") /\ temporary' = temporary \ {w} /\ UNCHANGED faults
     \/ seen[w] = 0 /\ file = 0 /\ Placed(w) /\ Goes(w, "placed") /\ UNCHANGED <<temporary, faults>>
     \/ seen[w] = 0 /\ file # 0 /\ Goes(w, "failed") /\ UNCHANGED <<file, versions, lost, temporary, faults>>
     \/ Fault /\ Goes(w, "failed") /\ UNCHANGED <<file, versions, lost, temporary>>
  /\ UNCHANGED <<seen, outside, read>>

\* The temporary name is removed, and the request answered; a removal that fails is itself an error.
Finish(w) ==
  /\ step[w] \in {"placed", "failed"}
  /\ \/ temporary' = temporary \ {w} /\ Goes(w, IF step[w] = "placed" THEN "ok" ELSE "error") /\ UNCHANGED faults
     \/ w \in temporary /\ Fault /\ Goes(w, "error") /\ UNCHANGED temporary
  /\ UNCHANGED <<file, versions, seen, outside, lost, read>>

\* Another program replaces, creates or removes the file.
Outside ==
  /\ read = NoRead /\ outside < MaxOutside /\ outside' = outside + 1
  /\ \/ file' = versions + 1 /\ versions' = versions + 1
     \/ file # 0 /\ file' = 0 /\ UNCHANGED versions
  /\ UNCHANGED <<step, seen, temporary, faults, lost, read>>

-----------------------------------------------------------------------------
(* readTextFile: the opened file, cut to the lines asked for.              *)

Newline(text, from) ==
  LET at == {i \in from .. Len(text) : text[i] = "n"} IN
  IF at = {} THEN 0 ELSE CHOOSE i \in at : \A j \in at : i <= j

\* Where line n begins, 0 if there is none.
LineStart(text, n) ==
  LET begin[k \in 1 .. n] ==
        IF k = 1 THEN 1
        ELSE IF begin[k - 1] = 0 \/ Newline(text, begin[k - 1]) = 0 THEN 0 ELSE Newline(text, begin[k - 1]) + 1
  IN begin[n]

\* Mutant: the last newline of the lines is kept.
SliceKeepingNewline(text, line, limit) ==
  LET start == LineStart(text, IF line < 1 THEN 1 ELSE line)
      stop == LineStart(text, (IF line < 1 THEN 1 ELSE line) + limit)
  IN CASE line = -1 /\ limit = -1 -> text
       [] limit = 0 \/ start = 0 -> <<>>
       [] limit = -1 \/ stop = 0 -> SubSeq(text, start, Len(text))
       [] OTHER -> SubSeq(text, start, stop - 1)

\* sliceTextByLines: from the line on, up to the newline that ends the last line asked for; -1 is an absent argument.
Slice(text, line, limit) ==
  LET start == LineStart(text, IF line < 1 THEN 1 ELSE line)
      stop == LineStart(text, (IF line < 1 THEN 1 ELSE line) + limit)
  IN CASE line = -1 /\ limit = -1                        -> text
       [] ~(line = -1 /\ limit = -1) /\ (limit = 0 \/ start = 0) -> <<>>
       [] start # 0 /\ limit # 0 /\ (limit = -1 \/ stop = 0)     -> SubSeq(text, start, Len(text))
       [] OTHER                                          -> SubSeq(text, start, stop - 2)

\* A read changes nothing that a write looks at: it is modelled before the writes.
Read(text, line, limit) ==
  /\ read = NoRead /\ outside = 0 /\ \A w \in Writes : step[w] = "idle"
  /\ read' = [text |-> text, line |-> line, limit |-> limit, answer |-> Slice(text, line, limit)]
  /\ UNCHANGED <<file, versions, step, seen, temporary, outside, faults, lost>>

Next ==
  \/ \E w \in Writes : Denied(w) \/ Begin(w) \/ Stage(w) \/ Check(w) \/ Place(w) \/ Finish(w)
  \/ Outside
  \/ \E text \in Texts, line, limit \in -1 .. MaxLine : Read(text, line, limit)

Spec == Init /\ [][Next]_vars

-----------------------------------------------------------------------------
TypeOK ==
  /\ file \in 0 .. versions /\ versions \in Nat
  /\ step \in [Writes -> {"idle", "seen", "staged", "checked", "placed", "failed", "ok", "error"}]
  /\ seen \in [Writes -> 0 .. versions] /\ temporary \subseteq Writes
  /\ outside \in 0 .. MaxOutside /\ faults \in 0 .. MaxFaults /\ lost \subseteq 1 .. versions

\* A write that found no file never takes the place of one that another program or another write made meanwhile, and
\* no temporary file stays behind unless its removal failed.
NewFileNeverClobbers ==
  /\ lost = {}
  /\ \A w \in temporary : step[w] \in {"ok", "error"} => step[w] = "error" /\ faults > 0

\* The lines of a text, without their newlines.
LinesOf(text) ==
  LET ends == SetToSortSeq({i \in 1 .. Len(text) : text[i] = "n"} \union {Len(text) + 1}, LAMBDA a, b : a < b) IN
  [k \in 1 .. Len(ends) |-> SubSeq(text, IF k = 1 THEN 1 ELSE ends[k - 1] + 1, ends[k] - 1)]

Joined(lines) ==
  FoldLeft(LAMBDA text, k : text \o (IF k = 1 THEN <<>> ELSE <<"n">>) \o lines[k], <<>>, [k \in 1 .. Len(lines) |-> k])

\* A read returns exactly the lines that were asked for, joined by newlines: none past the end, and the last line of a
\* text with and without its newline.
ReadIsTheLines ==
  LET lines == LinesOf(read.text)
      first == IF read.line < 1 THEN 1 ELSE read.line
      last == IF read.limit = -1 \/ first + read.limit - 1 > Len(lines) THEN Len(lines) ELSE first + read.limit - 1
  IN read.answer = Joined(SubSeq(lines, first, last))
=============================================================================
