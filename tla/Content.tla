------------------------------- MODULE Content -------------------------------
(***************************************************************************)
(* What a block holds, as far as the pipeline can tell: detection, the     *)
(* size floors and the safety check (headroom-core: detection/router.rs,   *)
(* detection/adaptive_sizer.rs, pipeline/safety.rs).                       *)
(*                                                                         *)
(* Text is a sequence of lines and a line is a record of what the code     *)
(* asks of it: how it starts (mark), the path it names, its tokens, the    *)
(* terms, keywords and braces in it.  A JSON document is a value of its    *)
(* own, with the records and the prose leaves SmartCrusher looks at.       *)
(***************************************************************************)
EXTENDS Integers, Sequences, FiniteSetsExt, SequencesExt

CONSTANTS
  Floor,        \* content type -> bytes it must exceed (AdaptiveSizer)
  Limits,       \* record of max_bytes, max_line_bytes, max_lines, max_depth
  Placeholder   \* token that reads as a value -> what stands for it in a template

(* A line with nothing remarkable about it; the others are variations. *)
Plain == [mark |-> "plain", hit |-> "none", path |-> "", tokens |-> <<>>,
          squeezed |-> "", words |-> {}, opener |-> "", opens |-> 0,
          closes |-> 0, brackets |-> 0, indent |-> 0, anchor |-> "none",
          tags |-> <<>>, terms |-> {}, notable |-> FALSE,
          trailing |-> 0, size |-> 10]

Blank == [Plain EXCEPT !.mark = "blank", !.size = 1]

Line == [mark : STRING, hit : STRING, path : STRING, tokens : Seq(STRING),
         squeezed : STRING, words : SUBSET STRING, opener : STRING, opens : Nat,
         closes : Nat, brackets : Nat, indent : Nat, anchor : STRING,
         tags : Seq([name : STRING, closing : BOOLEAN]), terms : SUBSET STRING,
         notable : BOOLEAN, trailing : Nat, size : Nat]

Text(lines) == [form |-> "lines", lines |-> lines, records |-> <<>>,
                terms |-> <<>>, leaves |-> <<>>, padding |-> 0,
                depth |-> 0, size |-> 0]

Json(records, terms, leaves, padding, depth, size) ==
  [form |-> "json", lines |-> <<>>, records |-> records, leaves |-> leaves,
   terms |-> terms, padding |-> padding, depth |-> depth, size |-> size]

Total(s) ==
  LET sum[k \in 0 .. Len(s)] == IF k = 0 THEN 0 ELSE sum[k - 1] + s[k]
  IN  sum[Len(s)]
SizeOf(lines) == Total([i \in DOMAIN lines |-> lines[i].size])
Bytes(c) == IF c.form = "json" THEN c.size ELSE SizeOf(c.lines)

(* A set in an order: the k-th is the one that k - 1 others come before.   *)
Ordered(S, Before(_, _)) ==
  [k \in 1 .. Cardinality(S) |-> CHOOSE i \in S : Cardinality({j \in S : Before(j, i)}) = k - 1]
Ascending(S) == Ordered(S, LAMBDA i, j : i < j)

(* The first few of a sequence, and of a set by an order. *)
FirstOf(s, n) == SubSeq(s, 1, IF n < Len(s) THEN n ELSE Len(s))
Best(S, n, Before(_, _)) == {i \in S : Cardinality({j \in S : Before(j, i)}) < n}

NonBlank(lines) ==
  LET kept == Ascending({i \in DOMAIN lines : lines[i].mark # "blank"})
  IN  [k \in DOMAIN kept |-> lines[kept[k]]]
HowMany(lines, P(_)) == Len(SelectSeq(lines, P))

(***************************************************************************)
(* Detection: the first shape that fits.                                   *)
(***************************************************************************)
IsDiff(lines) ==
  LET markers == \E i \in DOMAIN lines :
                   \/ lines[i].mark = "git"
                   \/ /\ lines[i].mark = "from"
                      /\ i < Len(lines)
                      /\ lines[i + 1].mark = "file"
      hunks   == HowMany(lines, LAMBDA l : l.mark = "hunk")
      changes == HowMany(lines, LAMBDA l : l.mark \in {"plus", "minus", "file"})
  IN  \/ markers /\ hunks > 0
      \/ markers /\ changes > 0
      \/ hunks > 0 /\ changes > 0

(* path:42 is enough here; parse_match wants the second colon as well. *)
IsSearch(lines) ==
  /\ Len(lines) >= 2
  /\ 10 * HowMany(lines, LAMBDA l : l.hit # "none") >= 6 * Len(lines)

Levels == {"TRACE", "DEBUG", "INFO", "WARN", "WARNING", "ERROR", "FATAL"}

StartsWithTimestamp(line) ==
  /\ line.tokens # <<>>
  /\ Head(line.tokens) \in DOMAIN Placeholder
  /\ Placeholder[Head(line.tokens)] = "<ts>"
ContainsLogLevel(line) == ToSet(line.tokens) \cap Levels # {}

IsLog(lines) ==
  /\ Len(lines) >= 2
  /\ \/ 2 * HowMany(lines, StartsWithTimestamp) >= Len(lines)
     \/ 2 * HowMany(lines, ContainsLogLevel) >= Len(lines)

Keywords == {"fn ", "def ", "class ", "function ", "import ", "from ", "return ",
             "const ", "let ", "var ", "if (", "if(", "for (", "for(", "while (",
             "while(", "public ", "private ", "struct ", "impl ", "package ",
             "func ", "#include", "=>"}

Words(lines) == UNION {lines[i].words : i \in DOMAIN lines}

IsCode(lines) ==
  LET k          == Cardinality(Keywords \cap Words(lines))
      structural == Total([i \in DOMAIN lines |->
                       lines[i].opens + lines[i].closes + lines[i].brackets])
      indented   == HowMany(lines, LAMBDA l : l.indent >= 2)
  IN  \/ k >= 3
      \/ k >= 2 /\ 100 * structural >= 3 * SizeOf(lines)
      \/ /\ k >= 1
         /\ 100 * structural >= 5 * SizeOf(lines)
         /\ 10 * indented >= 3 * Len(lines)

Detect(c) ==
  LET lines == NonBlank(c.lines)
  IN  IF c.form = "json" THEN "json"
      ELSE IF lines = <<>> THEN "unknown"
      ELSE IF IsDiff(c.lines) THEN "diff"
      ELSE IF IsSearch(lines) THEN "search"
      ELSE IF IsLog(lines) THEN "log"
      ELSE IF IsCode(lines) THEN "code" ELSE "prose"

ContentTypes == {"json", "diff", "search", "log", "code", "prose", "unknown"}

(* AdaptiveSizer: strictly above the floor; unknown content has none. *)
ShouldAttempt(type, bytes) == type # "unknown" /\ bytes > Floor[type]

(***************************************************************************)
(* safety::check: the first limit exceeded, or "none".  Depth is measured  *)
(* for JSON and for whatever starts with a bracket.                        *)
(***************************************************************************)
BracketShaped(c) ==
  LET lines == NonBlank(c.lines)
  IN  lines # <<>> /\ Head(lines).opener \in {"[", "{"}

BracketDepth(c) ==
  IF c.form = "json" THEN c.depth
  ELSE LET Step(acc, l) ==
             LET d == acc[1] + l.opens
             IN  <<IF d < l.closes THEN 0 ELSE d - l.closes,
                   IF d > acc[2] THEN d ELSE acc[2]>>
       IN  FoldLeft(Step, <<0, 0>>, c.lines)[2]

LongestLine(c) ==
  IF c.form = "json" THEN (IF c.padding = 0 THEN c.size ELSE 0)
  ELSE Max({0} \cup {c.lines[i].size : i \in DOMAIN c.lines})

Hazard(c) ==
  IF Bytes(c) > Limits.max_bytes THEN "too_large"
  ELSE IF LongestLine(c) > Limits.max_line_bytes THEN "line_too_long"
  ELSE IF Len(c.lines) > Limits.max_lines THEN "too_many_lines"
  ELSE IF /\ Detect(c) = "json" \/ BracketShaped(c)
          /\ BracketDepth(c) > Limits.max_depth
       THEN "too_deep" ELSE "none"

(***************************************************************************)
(* What a compressor offers in place of a content: nothing and why, or a   *)
(* sequence of parts, to be used once the original is stored.  A part      *)
(* shows the source line "at", or says in a note what became of "count"    *)
(* lines.  Every offer ends in the note that carries the marker.           *)
(***************************************************************************)
NoteSize == 4

Declines(why) == [why |-> why, parts |-> <<>>]
Offers(parts) == [why |-> "none", parts |-> parts]

Show(i)             == [part |-> "line", at |-> i, count |-> 1]
Note(kind, i, n)    == [part |-> kind, at |-> i, count |-> n]
Marker              == Note("marker", 0, 0)

PartSize(lines, p) ==
  NoteSize + (IF p.part \in {"line", "example", "severe"} THEN lines[p.at].size ELSE 0)

(* Reasons a compressor gives before it looks any closer. *)
Unfit(c, type) ==
  IF Detect(c) # type THEN "wrong_content_type"
  ELSE IF ~ShouldAttempt(type, Bytes(c)) THEN "below_threshold" ELSE "none"

(***************************************************************************)
(* Lines kept and lines counted, in the order of the source: how the code, *)
(* diff and text compressors write what they keep.  The lines left out     *)
(* since the last that was kept are told when the next one comes.          *)
(***************************************************************************)
LeftOut(kept, i) == {j \in 1 .. i - 1 : kept \cap (j .. i - 1) = {}}
Told(kind, i, S) == IF S = {} THEN <<>> ELSE <<Note(kind, i, Cardinality(S))>>

Rendered(n, kept, gap) ==
  FlattenSeq([i \in 1 .. n + 1 |->
    CASE i \in kept -> Told(gap, i, LeftOut(kept, i)) \o <<Show(i)>>
      [] i = n + 1  -> Told(gap, i, LeftOut(kept, i))
      [] OTHER      -> <<>>])
=============================================================================
