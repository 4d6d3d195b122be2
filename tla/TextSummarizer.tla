---------------------------- MODULE TextSummarizer ----------------------------
(***************************************************************************)
(* Prose reduced to the lines that matter (headroom-core: text_crusher.rs, *)
(* signals/anchors.rs, signals/tags.rs, signals/tiered.rs,                 *)
(* signals/keywords.rs, relevance.rs).                                     *)
(***************************************************************************)
EXTENDS Content

CONSTANTS
  LineBudget,
  RelevanceThreshold,
  MaxRelevantLines

ASSUME TextCaps == LineBudget \in Nat /\ MaxRelevantLines \in Nat

(* select_anchors: what classify recognises, and both ends. *)
SelectAnchors(lines) ==
  {i \in DOMAIN lines : lines[i].anchor # "none"} \cup (DOMAIN lines \cap {1, Len(lines)})

(* find_tags: every tag, line by line. *)
FindTags(lines) ==
  FlattenSeq([i \in DOMAIN lines |->
    [k \in DOMAIN lines[i].tags |->
       [line |-> i, name |-> lines[i].tags[k].name, closing |-> lines[i].tags[k].closing]]])

(* protected_lines: a stack of open lines per tag name; a pair protects    *)
(* both its ends, and whatever has no partner stays too.                   *)
ProtectedLines(lines) ==
  LET tags  == FindTags(lines)
      names == {tags[k].name : k \in DOMAIN tags}
      Step(acc, tag) ==
        LET stack == acc.open[tag.name]
        IN  IF ~tag.closing THEN [acc EXCEPT !.open[tag.name] = Append(@, tag.line)]
            ELSE IF stack = <<>> THEN [acc EXCEPT !.protected = @ \cup {tag.line}]
            ELSE [acc EXCEPT !.protected = @ \cup {Last(stack), tag.line},
                             !.open[tag.name] = Front(@)]
      after[k \in 0 .. Len(tags)] ==
        IF k = 0 THEN [open |-> [n \in names |-> <<>>], protected |-> {}]
        ELSE Step(after[k - 1], tags[k])
      done == after[Len(tags)]
  IN  done.protected \cup UNION {ToSet(done.open[n]) : n \in names}

(***************************************************************************)
(* Bm25Scorer::score_all, of items given as the sets of their terms: a     *)
(* term of the query counts for more the fewer items have it, and an item  *)
(* with none of them scores nothing.  What the formula adds to that (its   *)
(* logarithm, repeated terms, long items) is left out.                     *)
(***************************************************************************)
ScoreAll(query, items) ==
  LET Rarity(t) == Len(items) + 1 - Cardinality({i \in DOMAIN items : t \in items[i]})
  IN  [i \in DOMAIN items |-> MapThenSumSet(Rarity, query \cap items[i])]

(* A zero score clears no threshold, zero included. *)
Clears(score) == score > 0 /\ score >= RelevanceThreshold

(* The best that clear the threshold, earlier first; a budget of them. *)
Pinned(scores, most) ==
  Best({i \in DOMAIN scores : Clears(scores[i])}, most,
       LAMBDA a, b : scores[a] > scores[b] \/ (scores[a] = scores[b] /\ a < b))

RelevantLines(lines, query) ==
  Pinned(ScoreAll(query, [i \in DOMAIN lines |-> lines[i].terms]), MaxRelevantLines)

RequiredLines(lines, query) ==
  SelectAnchors(lines) \cup ProtectedLines(lines) \cup RelevantLines(lines, query)

ErrorKeywords == {"error", "err", "failed", "failure", "fatal", "panic", "exception",
                  "traceback", "assert", "refused", "denied", "timeout", "timedout",
                  "unreachable", "corrupt", "invalid", "unauthorized", "forbidden"}
WarningKeywords == {"warn", "warning", "deprecated", "retry", "retrying", "slow"}

KeywordScore(line) ==
  3 * Cardinality(line.terms \cap ErrorKeywords) + Cardinality(line.terms \cap WarningKeywords)

(* The tiers of score_lines: critical 2, notable 1, routine 0. *)
Importance(line) ==
  IF KeywordScore(line) >= 3 THEN 2
  ELSE IF line.mark # "blank" /\ (KeywordScore(line) > 0 \/ line.notable) THEN 1 ELSE 0

\* FAULT for KeepWithRequired: the budget is a ceiling for the required lines too.
KeepWithinBudget(lines, budget, required) ==
  LET Before(a, b) ==
        IF (a \in required) # (b \in required) THEN a \in required
        ELSE IF Importance(lines[a]) # Importance(lines[b])
             THEN Importance(lines[a]) > Importance(lines[b]) ELSE a < b
  IN  Best(DOMAIN lines, budget, Before)

(* keep_with_required: the budget is a target, the required set a floor. *)
KeepWithRequired(lines, budget, required) ==
  LET Before(a, b) ==
        IF (a \in required) # (b \in required) THEN a \in required
        ELSE IF Importance(lines[a]) # Importance(lines[b])
             THEN Importance(lines[a]) > Importance(lines[b]) ELSE a < b
  IN  IF Len(lines) <= budget THEN DOMAIN lines
      ELSE Best(DOMAIN lines, Max({budget, Cardinality(required \cap DOMAIN lines)}), Before)

(* A gap is told between two kept lines, and only there. *)
KeptParts(n, kept) ==
  FlattenSeq([i \in 1 .. n |->
    IF i \notin kept THEN <<>>
    ELSE (IF kept \cap (1 .. i - 1) = {} THEN <<>> ELSE Told("gap", i, LeftOut(kept, i)))
           \o <<Show(i)>>])

TextOffer(c, query) ==
  LET kept == KeepWithRequired(c.lines, LineBudget, RequiredLines(c.lines, query))
  IN  IF Unfit(c, "prose") # "none" THEN Declines(Unfit(c, "prose"))
      ELSE IF Len(c.lines) <= LineBudget THEN Declines("not_smaller")
      ELSE Offers(<<Note("header", 0, Len(c.lines))>>
                  \o KeptParts(Len(c.lines), kept) \o <<Marker>>)
=============================================================================
