---------------------------- MODULE DiffCompressor ----------------------------
(***************************************************************************)
(* Diffs without unchanged context and generated churn (headroom-core:     *)
(* diff_compressor.rs).                                                    *)
(***************************************************************************)
EXTENDS Content

CONSTANTS
  ContextLines,
  Lockfiles       \* the paths is_lockfile recognises

DiffKind(line) ==
  CASE line.mark \in {"hunk", "openhunk"}                -> "hunk"
    [] line.mark \in {"git", "from", "file", "header"}   -> "header"
    [] line.mark \in {"plus", "minus"}                   -> "change"
    [] OTHER                                             -> "context"

(* file_path_of: only a +++ line names a path, and /dev/null is none. *)
NamesPath(line) == line.mark = "file" /\ line.path # "/dev/null"

(* hunks: the path of a hunk is the last one named before it. *)
OwnerOf(lines, i) ==
  LET named == {j \in 1..i : NamesPath(lines[j])}
  IN  IF named = {} THEN "" ELSE lines[Max(named)].path

(* One past the last line of the hunk that opens at i. *)
EndOfHunk(lines, i) ==
  Min({Len(lines) + 1} \cup
      {j \in i + 1 .. Len(lines) : DiffKind(lines[j]) \in {"hunk", "header"}})

(* is_whitespace_only: both sides are there, and equal as multisets. *)
WhitespaceOnly(lines, from, to) ==
  LET Side(mark) == {i \in from .. to - 1 : lines[i].mark = mark}
      Squeezed(S, t) == Cardinality({i \in S : lines[i].squeezed = t})
      all == {lines[i].squeezed : i \in Side("plus") \cup Side("minus")}
  IN  /\ Side("plus") # {} /\ Side("minus") # {}
      /\ \A t \in all : Squeezed(Side("plus"), t) = Squeezed(Side("minus"), t)

HunkNoise(lines, i) ==
  IF OwnerOf(lines, i) \in Lockfiles THEN "lockfile"
  ELSE IF WhitespaceOnly(lines, i, EndOfHunk(lines, i)) THEN "whitespace" ELSE "none"

(* Why line i goes with its whole hunk, for each line. *)
Noise(lines) ==
  [i \in DOMAIN lines |->
     LET opened == {j \in 1..i : DiffKind(lines[j]) = "hunk" /\ i < EndOfHunk(lines, j)}
     IN  IF opened = {} THEN "none" ELSE HunkNoise(lines, Max(opened))]

(* Every line that is not context, and the context around it. *)
DiffKept(lines, noise) ==
  LET quiet  == {i \in DOMAIN lines : noise[i] = "none"}
      solid  == {i \in quiet : DiffKind(lines[i]) # "context"}
  IN  solid \cup {i \in quiet : \E j \in solid :
                     i - j <= ContextLines /\ j - i <= ContextLines}

(* The run of one noise that ends before line i, and the unchanged lines   *)
(* since the last kept one.                                                *)
NoiseRun(noise, i) ==
  {j \in 1 .. i - 1 : /\ noise[j] # "none"
                      /\ \A m \in j .. i - 1 : noise[m] = noise[j]
                      /\ i \in DOMAIN noise => noise[i] # noise[j]}
QuietRun(noise, kept, i) == {j \in LeftOut(kept, i) : noise[j] = "none"}

(* The writing pass: runs of one noise are told when they end, runs of     *)
(* unchanged lines when the next kept line comes.                          *)
DiffParts(lines, noise, kept) ==
  LET end == Len(lines) + 1
  IN  FlattenSeq([i \in 1 .. end |->
        Told(noise[i - 1], i, NoiseRun(noise, i))
          \o CASE i \in kept -> Told("unchanged", i, QuietRun(noise, kept, i)) \o <<Show(i)>>
               [] i = end   -> Told("unchanged", i, QuietRun(noise, kept, i))
               [] OTHER     -> <<>>])

DiffOffer(c) ==
  LET noise == Noise(c.lines)
      kept  == DiffKept(c.lines, noise)
  IN  IF Unfit(c, "diff") # "none" THEN Declines(Unfit(c, "diff"))
      ELSE IF kept = DOMAIN c.lines THEN Declines("not_smaller")
      ELSE Offers(DiffParts(c.lines, noise, kept) \o <<Marker>>)
=============================================================================
