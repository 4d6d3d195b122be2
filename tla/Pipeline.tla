------------------------------- MODULE Pipeline -------------------------------
(***************************************************************************)
(* One block on its way through the compression pipeline (headroom-core:   *)
(* pipeline/orchestrator.rs, pipeline/reformats.rs, transform.rs,          *)
(* validate.rs, error.rs, block.rs, auth_mode.rs, ccr/mod.rs).             *)
(*                                                                         *)
(* The block is routed, the compressor for its content decides what it     *)
(* would show, the original goes into the store, and the result is used    *)
(* only if it is smaller.  The store may refuse any put.                   *)
(***************************************************************************)
EXTENDS LogCompressor, SearchCompressor, DiffCompressor, CodeCompressor, SmartCrusher

CONSTANT Cases      \* a sequence of sets of [kind, content, query, mode, worth] to try

(* The lines and the records of a content are sequences, there are terms   *)
(* for each record, and its fields are in the order of fields.             *)
IsContent(c) ==
  /\ DOMAIN c = DOMAIN Text(<<>>) /\ c.lines \in Seq(Line)
  /\ c.records \in Seq(ToSet(c.records)) /\ DOMAIN c.terms = DOMAIN c.records
  /\ \A i \in DOMAIN c.records : Names(c.records[i]) \subseteq ToSet(FieldNames)

ASSUME CasesAreContents == \A k \in DOMAIN Cases : \A x \in Cases[k] : IsContent(x.content)

VARIABLES
  case,       \* the block, the policy of its request and what was measured of its shape
  stage,      \* "new", "routed", "leaves", "offered", "stored", "done"
  routing,    \* what the orchestrator decided, with the transform it chose
  todo,       \* prose leaves the summarizer has yet to look at
  changed,    \* prose leaves of the document replaced by their summary
  offer,      \* what the transform offers
  shows,      \* what the block holds
  originals,  \* those in the store: 0 for the block's, or the index of a leaf
  result      \* the outcome of validated_apply, or "none"

pipelineVars == <<case, stage, routing, todo, changed, offer, shows, originals,
                  result>>

Kinds == {"text", "tool_result", "function_call_output", "local_shell_call_output",
          "apply_patch_call_output", "tool_use", "thinking", "redacted_thinking",
          "reasoning", "compaction", "attachment"}

IsToolOutput(kind) ==
  kind \in {"tool_result", "function_call_output", "local_shell_call_output",
            "apply_patch_call_output"}
IsCompressible(kind) == kind = "text" \/ IsToolOutput(kind)
IsSacrosanct(kind) ==
  kind \in {"thinking", "redacted_thinking", "reasoning", "compaction", "attachment"}

(* CompressionPolicy::for_mode. *)
LossyTransforms(mode)    == mode = "payg"
LosslessTransforms(mode) == mode \in {"payg", "oauth"}

(* for_type: the table; only unknown content has no compressor. *)
ForType(type) ==
  CASE type = "json"   -> "smart_crusher"
    [] type = "log"    -> "log_compressor"
    [] type = "search" -> "search_compressor"
    [] type = "diff"   -> "diff_compressor"
    [] type = "code"   -> "code_compressor"
    [] type = "prose"  -> "text_summarizer"
    [] OTHER           -> "none"

Route(c, mode, worth) ==
  LET type == Detect(c)
  IN  IF Hazard(c) # "none" THEN "unsafe"
      ELSE IF ~LossyTransforms(mode)
           THEN IF LosslessTransforms(mode) THEN "lossless" ELSE "policy_forbids"
      ELSE IF ForType(type) = "none" THEN "no_compressor"
      ELSE IF ~worth THEN "measured_useless" ELSE "compress"

TransformFor(c, mode, worth) ==
  CASE Route(c, mode, worth) = "compress" -> ForType(Detect(c))
    [] Route(c, mode, worth) = "lossless" -> "reformatter"
    [] OTHER                              -> "none"

\* FAULT for TransformForBlock: the kind of the block is not asked.
TransformForAnyBlock(kind, c, mode, worth) == TransformFor(c, mode, worth)

(* Prose is shortened only where a tool wrote it. *)
TransformForBlock(kind, c, mode, worth) ==
  LET transform == TransformFor(c, mode, worth)
  IN  IF transform = "text_summarizer" /\ ~IsToolOutput(kind) THEN "none" ELSE transform

(***************************************************************************)
(* The reformatter: whitespace outside strings, or line ends and runs of   *)
(* blank lines; the first of the two that makes it smaller.                *)
(***************************************************************************)
Minified(c) == [c EXCEPT !.size = @ - c.padding, !.padding = 0]

TidyLines(lines) ==
  LET kept == SelectSeq([i \in DOMAIN lines |-> i],
                LAMBDA i : ~(lines[i].mark = "blank" /\ i > 1 /\ lines[i - 1].mark = "blank"))
  IN  [k \in DOMAIN kept |->
         [lines[kept[k]] EXCEPT !.trailing = 0, !.size = @ - lines[kept[k]].trailing]]

Reformatted(c) ==
  CASE c.form = "json" /\ Bytes(Minified(c)) < Bytes(c) -> Minified(c)
    [] c.form = "lines" /\ SizeOf(TidyLines(c.lines)) < SizeOf(c.lines)
         -> Text(TidyLines(c.lines))
    [] OTHER -> c

(***************************************************************************)
(* A document whose leaves were shortened: the leaf's field is what the    *)
(* leaf now shows, and the document is compact.                            *)
(***************************************************************************)
LeafSize(leaf) == Total([k \in DOMAIN LeafOffer(leaf).parts |->
                           PartSize(leaf.lines, LeafOffer(leaf).parts[k])])

Reduced(c, leaves) ==
  LET Saved(k) == SizeOf(c.leaves[k].lines) - LeafSize(c.leaves[k])
      At(i)    == {k \in leaves : c.leaves[k].at = i}
  IN  [c EXCEPT !.size = @ - c.padding - Total([k \in DOMAIN c.leaves |->
                                                  IF k \in leaves THEN Saved(k) ELSE 0]),
                !.padding = 0,
                !.records = [i \in DOMAIN @ |->
                   IF At(i) = {} THEN @[i]
                   ELSE [@[i] EXCEPT ![c.leaves[CHOOSE k \in At(i) : TRUE].field] =
                           <<"text", LeafSize(c.leaves[CHOOSE k \in At(i) : TRUE])>>]]]

(* What each transform offers for the content, without its store. *)
OfferOf(transform, c, query) ==
  CASE transform = "log_compressor"    -> LogOffer(c)
    [] transform = "search_compressor" -> SearchOffer(c)
    [] transform = "diff_compressor"   -> DiffOffer(c)
    [] transform = "code_compressor"   -> CodeOffer(c)
    [] transform = "text_summarizer"   -> TextOffer(c, query)

(* What a block can hold: its original, a content without the whitespace,  *)
(* a document with shorter leaves, or the parts of a summary.              *)
Original     == [form |-> "original", parts |-> <<>>]
Tidied       == [form |-> "tidied", parts |-> <<>>]
Shortened    == [form |-> "shortened", parts |-> <<>>]
Summary(parts) == [form |-> "summary", parts |-> parts]

RecordPartSize(c, p) == NoteSize + (IF p.part = "line" THEN RecordSize(c.records[p.at]) ELSE 0)

Tokens(c, leaves, shown) ==
  CASE shown.form = "original"  -> Bytes(c)
    [] shown.form = "tidied"    -> Bytes(Reformatted(c))
    [] shown.form = "shortened" -> Bytes(Reduced(c, leaves))
    [] shown.form = "summary"   ->
         Total([k \in DOMAIN shown.parts |->
                  IF c.form = "json" THEN RecordPartSize(Reduced(c, leaves), shown.parts[k])
                  ELSE PartSize(IF Detect(c) \in {"log", "search"}
                                THEN NonBlank(c.lines) ELSE c.lines, shown.parts[k])])

-----------------------------------------------------------------------------
PipelineInit ==
  /\ \E k \in DOMAIN Cases : case \in Cases[k]
  /\ stage = "new" /\ routing = "none" /\ todo = {} /\ changed = {}
  /\ offer = Declines("none") /\ shows = Original /\ originals = {} /\ result = "none"

c0 == case.content

Finish(outcome) == stage' = "done" /\ result' = outcome

(* transform_for_block. *)
RouteBlock ==
  /\ stage = "new"
  /\ routing' = TransformForBlock(case.kind, c0, case.mode, case.worth)
  /\ IF routing' = "none" THEN Finish("not_routed") ELSE stage' = "routed" /\ UNCHANGED result
  /\ UNCHANGED <<case, todo, changed, offer, shows, originals>>

(* apply_guarded: a signed block is refused, and what is not for shortening. *)
Refuse ==
  /\ stage = "routed" /\ ~IsCompressible(case.kind)
  /\ Finish("unchanged")
  /\ UNCHANGED <<case, routing, todo, changed, offer, shows, originals>>

Reformat ==
  /\ stage = "routed" /\ IsCompressible(case.kind) /\ routing = "reformatter"
  /\ IF Reformatted(c0) = c0
     THEN Finish("unchanged") /\ UNCHANGED shows
     ELSE shows' = Tidied /\ stage' = "stored" /\ UNCHANGED result
  /\ UNCHANGED <<case, routing, todo, changed, offer, originals>>

(* A compressor looks at the content; what it declines stays. *)
Offer ==
  /\ stage = "routed" /\ IsCompressible(case.kind)
  /\ routing \notin {"reformatter", "smart_crusher"}
  /\ offer' = OfferOf(routing, c0, case.query)
  /\ IF offer'.parts = <<>> THEN Finish("unchanged")
     ELSE stage' = "offered" /\ UNCHANGED result
  /\ UNCHANGED <<case, routing, todo, changed, shows, originals>>

(* SmartCrusher begins with the prose in tool output. *)
BeginCrush ==
  /\ stage = "routed" /\ IsCompressible(case.kind) /\ routing = "smart_crusher"
  /\ IF Unfit(c0, "json") # "none"
     THEN Finish("unchanged") /\ UNCHANGED todo
     ELSE /\ stage' = "leaves"
          /\ todo' = IF IsToolOutput(case.kind)
                     THEN {k \in DOMAIN c0.leaves : Shrinks(c0.leaves[k])} ELSE {}
          /\ UNCHANGED result
  /\ UNCHANGED <<case, routing, changed, offer, shows, originals>>

\* FAULT for ShrinkLeaf: a refused put is not noticed.
ShrinkLeafAnyway(stored) ==
  /\ stage = "leaves" /\ todo # {}
  /\ todo' = todo \ {Min(todo)}
  /\ changed' = changed \cup {Min(todo)}
  /\ originals' = IF stored THEN originals \cup {Min(todo)} ELSE originals
  /\ UNCHANGED <<case, stage, routing, offer, shows, result>>

(* Each leaf is a block of its own to the summarizer, in the order of the  *)
(* document: a put that fails leaves the leaf as it was.                   *)
ShrinkLeaf(stored) ==
  /\ stage = "leaves" /\ todo # {}
  /\ todo' = todo \ {Min(todo)}
  /\ IF stored THEN /\ originals' = originals \cup {Min(todo)}
                    /\ changed' = changed \cup {Min(todo)}
     ELSE UNCHANGED <<originals, changed>>
  /\ UNCHANGED <<case, stage, routing, offer, shows, result>>

(* The structural pass over what the leaves left; when it declines, the    *)
(* shorter leaves are still something.                                     *)
Crush ==
  /\ stage = "leaves" /\ todo = {}
  /\ offer' = Structural(Reduced(c0, changed), case.query)
  /\ CASE offer'.parts # <<>> -> stage' = "offered" /\ UNCHANGED <<shows, result>>
       [] offer'.parts = <<>> /\ changed # {}
            -> stage' = "stored" /\ shows' = Shortened /\ UNCHANGED result
       [] OTHER -> Finish("unchanged") /\ UNCHANGED shows
  /\ UNCHANGED <<case, routing, changed, todo, originals>>

(* store_and_mark, with the bytes that arrived: only a stored original is  *)
(* advertised.  A refused put is an error and not a decline.               *)
StoreAndMark ==
  /\ stage = "offered"
  /\ originals' = originals \cup {0} /\ shows' = Summary(offer.parts) /\ stage' = "stored"
  /\ UNCHANGED <<case, routing, changed, todo, offer, result>>

StoreFails ==
  /\ stage = "offered"
  /\ Finish("error")
  /\ UNCHANGED <<case, routing, changed, todo, offer, shows, originals>>

(* validated_apply: fewer tokens, or the original bytes. *)
Validate ==
  /\ stage = "stored"
  /\ IF Tokens(c0, changed, shows) < Tokens(c0, {}, Original)
     THEN Finish("compressed") /\ UNCHANGED shows
     ELSE Finish("unchanged") /\ shows' = Original
  /\ UNCHANGED <<case, routing, changed, todo, offer, originals>>

PipelineNext == \/ RouteBlock \/ Refuse \/ Reformat \/ Offer \/ BeginCrush
        \/ \E stored \in BOOLEAN : ShrinkLeaf(stored)
        \/ Crush \/ StoreAndMark \/ StoreFails \/ Validate

PipelineSpec == PipelineInit /\ [][PipelineNext]_pipelineVars
-----------------------------------------------------------------------------
(***************************************************************************)
(* Properties.                                                             *)
(***************************************************************************)
PipelineTypeOK ==
  /\ case.kind \in Kinds /\ case.mode \in {"payg", "oauth", "subscription"}
  /\ stage \in {"new", "routed", "leaves", "offered", "stored", "done"}
  /\ todo \subseteq DOMAIN c0.leaves /\ changed \subseteq DOMAIN c0.leaves
  /\ originals \subseteq {0} \cup DOMAIN c0.leaves
  /\ shows.form \in {"original", "tidied", "shortened", "summary"}
  /\ result \in {"none", "not_routed", "unchanged", "compressed", "error"}

(* Whatever a block tells the model it may ask for is in the store: the    *)
(* original of a summary, and that of every leaf a document shows shorter. *)
(* A block whose original was refused by the store is the original.        *)
Redeemable ==
  /\ shows.form = "summary" => 0 \in originals
  /\ shows.form \in {"summary", "shortened"} => changed \subseteq originals
  /\ result = "error" => shows = Original

(* What may change, and how far: signed blocks and tool calls never, a     *)
(* restricted request nothing but its whitespace (a subscription not even  *)
(* that), a payload over the limits not at all, and prose, in a document   *)
(* or out of it, only where a tool wrote it.                               *)
OnlyWhatIsAllowed ==
  /\ shows # Original => /\ case.mode # "subscription"
                         /\ IsCompressible(case.kind) /\ ~IsSacrosanct(case.kind)
                         /\ Hazard(c0) = "none"
  /\ shows.form \in {"summary", "shortened"} => case.mode = "payg" /\ case.worth
  /\ changed # {} \/ (shows.form = "summary" /\ Detect(c0) = "prose")
       => IsToolOutput(case.kind)

LinesSeen(c) == IF Detect(c) \in {"log", "search"} THEN NonBlank(c.lines) ELSE c.lines

ShownIn(parts) == {parts[k].at : k \in {j \in DOMAIN parts : parts[j].part = "line"}}

CountAbout(parts, kinds, about) ==
  Total([k \in DOMAIN parts |->
           IF parts[k].part \in kinds /\ parts[k].at \in about THEN parts[k].count ELSE 0])
CountIn(parts, kinds) == CountAbout(parts, kinds, Nat)

(* Every line, hit and record of the original is in the summary or in one  *)
(* of the numbers it gives, and nothing is there twice: the numbers are    *)
(* what tells the model how much it does not see.                          *)
Accounted ==
  shows.form = "summary" =>
    LET parts == shows.parts
        type  == Detect(c0)
        lines == LinesSeen(c0)
        shown == ShownIn(parts)
        hits  == Hits(lines)
    IN  /\ CountIn(parts, {"line"}) = Cardinality(shown)
        /\ type = "log" => CountIn(parts, {"group"}) = Len(lines)
        /\ type = "search" =>
             /\ shown \ hits = DOMAIN lines \ hits
             /\ Cardinality(shown \cap hits) + CountIn(parts, {"elided"}) = Cardinality(hits)
             /\ \A k \in DOMAIN parts : parts[k].part = "file" =>
                  LET file == {i \in hits : lines[i].path = lines[parts[k].at].path}
                  IN  Cardinality(shown \cap file) + CountAbout(parts, {"more"}, file)
                      = Cardinality(file)
        /\ type \in {"diff", "code", "prose"} =>
             CountIn(parts, {"line", "gap", "unchanged", "lockfile", "whitespace"}) = Len(lines)
        /\ type = "json" => CountIn(parts, {"line", "header"}) = Len(c0.records)

(* What the lines that go would have been, found without the walk's        *)
(* shortcut: the bodies after every definition the walk comes to.          *)
BodiesOneByOne(lines, language) ==
  LET from[i \in 1 .. Len(lines) + 1] ==
        IF i > Len(lines) THEN {}
        ELSE IF ~IsDefinition(lines[i], language) THEN from[i + 1]
        ELSE LET body == BodyAfter(lines, language, i)
             IN  Elidable(i, body) \cup from[Max({i + 1, body.end})]
  IN  from[1]

(* A log's failures are told, as long as they fit. *)
FailuresTold(parts, lines) ==
  LET severe == {i \in DOMAIN lines : HasSeverity(lines[i])}
      told   == {k \in DOMAIN parts : parts[k].part = "severe"}
  IN  IF Cardinality(severe) <= MaxVerbatimSeverity
      THEN severe = {parts[k].at : k \in told}
      ELSE Cardinality(told) = MaxVerbatimSeverity

(* A diff's changes are shown, but for churn. *)
ChangesShown(lines, gone) ==
  \A i \in gone : DiffKind(lines[i]) # "context" =>
    \/ OwnerOf(lines, i) \in Lockfiles
    \/ \E j \in 1..i : /\ DiffKind(lines[j]) = "hunk"
                       /\ WhitespaceOnly(lines, j, EndOfHunk(lines, j))

(* Of prose no tag goes, and no line that matters more than one kept for   *)
(* its weight.                                                             *)
TagsAndWeightKept(lines, gone, shown, query) ==
  /\ \A i \in gone : lines[i].tags = <<>>
  /\ \A i \in gone, j \in shown \ RequiredLines(lines, query) :
       Importance(lines[i]) <= Importance(lines[j])

(* A record with an error is shown if at least one in a thousand of the    *)
(* records lacks that error: weights are rounded to whole thousandths.     *)
ErrorsShown(records, shown) ==
  \A i \in DOMAIN records : \A f \in Names(records[i]) \cap ErrorNames :
    /\ PreserveErrorFields
    /\ Len(records) <= Scale * Cardinality(DOMAIN records \ With(records, f))
    => i \in shown

(* What is said of all records is so of each. *)
SaidOf(said, records) ==
  \A i \in DOMAIN records :
    /\ said.name \in Names(records[i])
    /\ records[i][said.name] \in said.values
    /\ said.all => said.values = {records[i][said.name]}
SaidOfEach(records) ==
  \A said \in ToSet(FieldPlans(records, Stats(records))) : SaidOf(said, records)

(* What a summary may not lose, by what it is of; of a program only bodies *)
(* go, whatever the walk skips.                                            *)
NothingThatMatters ==
  shows.form = "summary" =>
    LET parts   == shows.parts
        type    == Detect(c0)
        lines   == LinesSeen(c0)
        shown   == ShownIn(parts)
        gone    == DOMAIN lines \ shown
        records == Reduced(c0, changed).records
    IN  /\ type = "log"   => FailuresTold(parts, lines)
        /\ type = "diff"  => ChangesShown(lines, gone)
        /\ type = "code"  => gone = BodiesOneByOne(lines, DetectLanguage(lines))
        /\ type = "prose" => TagsAndWeightKept(lines, gone, shown, case.query)
        /\ type = "json"  => ErrorsShown(records, shown) /\ SaidOfEach(records)
=============================================================================
