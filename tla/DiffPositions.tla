---------------------------- MODULE DiffPositions ----------------------------
(* Where in a change a comment may go: the new-side lines a patch adds, as the *)
(* program reads them from the patch, and the repair of findings that name no  *)
(* line.                                                                       *)
(*   src/agent/pipeline/pipeline.go, src/agent/review/inline_positions.go      *)
(*                                                                             *)
(* A patch is the sequence of its lines.  A hunk header opens at a line of the *)
(* new side; the other lines are added, removed or kept, and "\ No newline at  *)
(* end of file" is a line of the patch and of neither side.  The reading goes  *)
(* by the first characters of a line, so an added line whose text begins with  *)
(* "++" looks like a file header: that is "add++".                             *)
EXTENDS Integers, Sequences, FiniteSets, SequencesExt, FiniteSetsExt

CONSTANT NOWHERE   \* a finding without a path

Hunk(n) == [is |-> "hunk", at |-> n]
Line(kind) == [is |-> kind, at |-> 0]

\* Patches as a host serves them.
IsPatch(patch) ==
  patch \in Seq({l \in Range(patch) : DOMAIN l = {"is", "at"} /\ l.at \in Nat})

(***************************************************************************)
(* The numbers, on the new side, of the lines of some kinds, when some kinds *)
(* take up a line there.  Nothing is numbered before the first hunk, nor in a *)
(* hunk at line 0: that of a deleted file.                                  *)
(***************************************************************************)
NewSide(patch, kinds, advancing) ==
  LET hunk(i) == Max({h \in 1..i : patch[h].is = "hunk"})
      number(i) == patch[hunk(i)].at
                   + Cardinality({j \in (hunk(i) + 1)..(i - 1) : patch[j].is \in advancing})
      numbered(i) == \E h \in 1..i : patch[h].is = "hunk"
  IN {number(i) : i \in {j \in DOMAIN patch :
                           patch[j].is \in kinds /\ numbered(j) /\ patch[hunk(j)].at > 0}}

\* Mutant of ChangedNewLines: lines of the old side are counted as well.
ChangedLinesBothSides(patch) == NewSide(patch, {"add"}, {"add", "keep", "remove", "no newline"})
ChangedNewLines(patch) == NewSide(patch, {"add"}, {"add", "keep", "no newline"})

\* The lines the patch adds, by the definition of the format.
AddedLines(patch) == NewSide(patch, {"add", "add++"}, {"add", "add++", "keep"})

\* The two kinds of line the reading takes for something else.
Readable(patch) == \A i \in DOMAIN patch :
  /\ patch[i].is # "add++"
  /\ patch[i].is = "no newline" =>
       \A j \in (i + 1)..Len(patch) : patch[j].is \in {"hunk", "no newline"}

(***************************************************************************)
(* The files of a change: [path, status, patch].                            *)
(***************************************************************************)
Paths(files) == {files[i].path : i \in DOMAIN files}
FileAt(files, path) == CHOOSE f \in Range(files) : f.path = path

\* Files whose patch adds nothing are not listed.
LinesByPath(files) ==
  [p \in {q \in Paths(files) : ChangedNewLines(FileAt(files, q).patch) # {}} |->
     ChangedNewLines(FileAt(files, p).patch)]

\* A line the patch adds, or any line of a new file.
FindingLineAddressable(files, path, line) ==
  LET lines == LinesByPath(files) IN
  /\ path # NOWHERE /\ line > 0
  /\ \/ path \in DOMAIN lines /\ line \in lines[path]
     \/ path \in Paths(files) /\ FileAt(files, path).status = "added"

\* A finding without a path goes to the first added line of the only changed
\* file, one without a line to the first added line of its file.
NormalizeFindingLocation(files, f) ==
  LET lines == LinesByPath(files)
      only == CHOOSE p \in DOMAIN lines : TRUE IN
  IF f.path = NOWHERE /\ Cardinality(DOMAIN lines) = 1
    THEN [f EXCEPT !.path = only, !.line = Min(lines[only])]
  ELSE IF f.path \in DOMAIN lines /\ f.line <= 0 THEN [f EXCEPT !.line = Min(lines[f.path])]
  ELSE f

NormalizeFindingLocations(files, findings) ==
  [i \in DOMAIN findings |-> NormalizeFindingLocation(files, findings[i])]
=============================================================================
