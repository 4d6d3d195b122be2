---------------------------- MODULE LogCompressor ----------------------------
(***************************************************************************)
(* Log lines collapsed by template (headroom-core: log_compressor.rs).     *)
(***************************************************************************)
EXTENDS Content

CONSTANTS
  ExamplesPerTemplate,
  MaxVerbatimSeverity,
  MinLogLines

ASSUME LogCaps == ExamplesPerTemplate \in Nat /\ MaxVerbatimSeverity \in Nat

Severity == {"ERROR", "FATAL", "PANIC", "WARN", "WARNING"}

(* normalize_token: a timestamp, an id, a number or a path gives way to a  *)
(* placeholder; a word stays, so that "full" and "ok" are never one line.  *)
NormalizeToken(token) == IF token \in DOMAIN Placeholder THEN Placeholder[token] ELSE token

Templatize(line) == [k \in DOMAIN line.tokens |-> NormalizeToken(line.tokens[k])]

HasSeverity(line) == ToSet(line.tokens) \cap Severity # {}

(* The lines sharing the template of line i, ascending. *)
GroupOf(lines, i) ==
  Ascending({j \in DOMAIN lines : Templatize(lines[j]) = Templatize(lines[i])})

(* First appearance, not the map's collation, orders the groups. *)
Templates(lines) ==
  Ascending({i \in DOMAIN lines : GroupOf(lines, i)[1] = i})

SeverityLines(lines) ==
  FirstOf(Ascending({i \in DOMAIN lines : HasSeverity(lines[i])}), MaxVerbatimSeverity)

(* One line of output per template, and an example that says more. *)
GroupParts(lines, i) ==
  LET group    == GroupOf(lines, i)
      examples == Ascending({j \in ToSet(FirstOf(group, ExamplesPerTemplate)) :
                               lines[j].tokens # Templatize(lines[j])})
  IN  <<Note("group", i, Len(group))>>
        \o [k \in DOMAIN examples |-> Note("example", examples[k], 0)]

LogOffer(c) ==
  LET lines == NonBlank(c.lines)
      order == Templates(lines)
      severe == SeverityLines(lines)
  IN  IF Unfit(c, "log") # "none" THEN Declines(Unfit(c, "log"))
      ELSE IF Len(lines) < MinLogLines THEN Declines("below_threshold")
      ELSE IF Len(order) = Len(lines) THEN Declines("not_smaller")
      ELSE Offers(<<Note("header", 0, Len(lines))>>
                  \o FlattenSeq([k \in DOMAIN order |-> GroupParts(lines, order[k])])
                  \o (IF severe # <<>> THEN <<Note("severities", 0, Len(severe))>>
                                       ELSE <<>>)
                  \o [k \in DOMAIN severe |-> Note("severe", severe[k], 0)]
                  \o <<Marker>>)
=============================================================================
