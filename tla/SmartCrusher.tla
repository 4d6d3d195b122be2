----------------------------- MODULE SmartCrusher -----------------------------
(***************************************************************************)
(* Arrays of records as a summary and the records that stand out           *)
(* (headroom-core: smart_crusher/).  A record is a function from the field *)
(* names it has to values; a value is <<"number", tenths>> or              *)
(* <<"text", bytes>>, so that 1.5 is <<"number", 15>> and no two different  *)
(* texts have the same length.                                             *)
(***************************************************************************)
EXTENDS TextSummarizer

CONSTANTS
  FieldNames,        \* the names a record may have, in the order it has them
  ErrorNames,        \* is_error_name
  ScoreNames,        \* contain a score hint
  IdentifierNames,   \* are or end in an identifier hint
  MinClassified,     \* MIN_RECORDS of field_detect
  SampleRecords,
  MinRecords,        \* min_records_to_summarize
  MaxLowCardinality,
  PreserveErrorFields,
  MaxRelevantRecords,
  MaxRankedRecords,
  MaxDepth

ASSUME NamesInOrder == FieldNames \in Seq(STRING)

Scale == 1000

Names(record) == DOMAIN record
With(records, f)      == {i \in DOMAIN records : f \in Names(records[i])}
ValuesOf(records, f)  == {records[i][f] : i \in With(records, f)}
Sharing(records, f, v) == Cardinality({i \in With(records, f) : records[i][f] = v})
IsNumber(value)       == value[1] = "number"

(* The fields in the order the document first shows them. *)
FieldOrder(records) ==
  LET First(k) == Min(With(records, FieldNames[k]))
      order == Ordered({k \in DOMAIN FieldNames : With(records, FieldNames[k]) # {}},
                       LAMBDA j, k : First(j) < First(k) \/ (First(j) = First(k) /\ j < k))
  IN  [k \in DOMAIN order |-> FieldNames[order[k]]]

(***************************************************************************)
(* analyzer.rs: what is known of a field.  Constant and unique ask for the *)
(* field in every record.                                                  *)
(***************************************************************************)
FieldStat(records, f) ==
  LET distinct == Cardinality(ValuesOf(records, f))
      total    == Len(records)
      present  == Cardinality(With(records, f))
  IN  [name |-> f, presentIn |-> present,
       kind |-> IF distinct = 1 /\ present = total THEN "constant"
                ELSE IF distinct = total /\ present = total THEN "unique"
                ELSE IF distinct <= MaxLowCardinality THEN "low_cardinality" ELSE "varied"]

Stats(records) ==
  LET order == FieldOrder(records)
  IN  [k \in DOMAIN order |-> FieldStat(records, order[k])]

(***************************************************************************)
(* outliers.rs: integer scores, so that ranking has no ties but of scores. *)
(* Medians are doubled, and deviations from a doubled median doubled too.  *)
(***************************************************************************)
Doubled(values) ==
  LET sorted == SortSeq(values, LAMBDA a, b : a < b)
      mid    == Len(sorted) \div 2
  IN  IF sorted = <<>> THEN 0
      ELSE IF Len(sorted) % 2 = 0 THEN sorted[mid] + sorted[mid + 1]
      ELSE 2 * sorted[mid + 1]

Distance(a, b) == IF a > b THEN a - b ELSE b - a

RareValue(records, f, i) ==
  LET shared   == Sharing(records, f, records[i][f])
      distinct == Cardinality(ValuesOf(records, f))
      total    == Len(records)
  IN  IF f \notin Names(records[i]) \/ shared * distinct * 2 > total THEN 0
      ELSE (Scale * (total - shared)) \div total

NumericOutlier(records, f, i) ==
  LET numeric == Ascending({j \in With(records, f) : IsNumber(records[j][f])})
      median  == Doubled([k \in DOMAIN numeric |-> records[numeric[k]][f][2]])
      Off(j)  == Distance(2 * records[j][f][2], median)
      mad     == Doubled([k \in DOMAIN numeric |-> Off(numeric[k])])
      deviates == IF mad > 0 THEN 4 * Off(i) > 7 * mad ELSE Off(i) > 0
  IN  IF Len(numeric) >= 4 /\ i \in ToSet(numeric) /\ deviates THEN Scale ELSE 0

RarePresence(records, stat, i) ==
  LET total  == Len(records)
      weight == (Scale * (total - stat.presentIn)) \div total
  IN  IF stat.name \notin Names(records[i]) THEN 0
      ELSE IF PreserveErrorFields /\ stat.name \in ErrorNames THEN 2 * weight
      ELSE weight

RecordSize(record) ==
  Total([k \in DOMAIN FieldNames |->
    IF FieldNames[k] \notin Names(record) THEN 0
    ELSE 2 + (IF IsNumber(record[FieldNames[k]]) THEN 2 ELSE record[FieldNames[k]][2])])

SizeOutlier(records, i) ==
  LET median == Doubled([k \in DOMAIN records |-> RecordSize(records[k])])
  IN  IF median > 0 /\ 2 * RecordSize(records[i]) > 3 * median THEN Scale ELSE 0

OutlierScore(records, stats, i) ==
  LET OfField(stat) ==
        (IF stat.kind \in {"low_cardinality", "varied"}
         THEN RareValue(records, stat.name, i) + NumericOutlier(records, stat.name, i)
         ELSE 0)
        + (IF stat.presentIn < Len(records) THEN RarePresence(records, stat, i) ELSE 0)
  IN  Total([k \in DOMAIN stats |-> OfField(stats[k])]) + SizeOutlier(records, i)

Outliers(records, stats) ==
  {i \in DOMAIN records : OutlierScore(records, stats, i) > 0}

(***************************************************************************)
(* field_detect.rs: which field ranks the records.                         *)
(***************************************************************************)
IsScore(records, f) ==
  LET numbers    == {v[2] : v \in {w \in ValuesOf(records, f) : IsNumber(w)}}
      spread     == Max(numbers) - Min(numbers)
      plausible  == IF spread > 0 /\ spread <= 10000 THEN 1 ELSE 0
      fractional == IF \E n \in numbers : n % 10 # 0 THEN 1 ELSE 0
      named      == IF f \in ScoreNames THEN 1 ELSE 0
  IN  /\ \A v \in ValuesOf(records, f) : IsNumber(v)
      /\ Cardinality(numbers) >= 2
      /\ plausible + fractional + named >= 2

ClassifyField(records, f) ==
  IF Cardinality(With(records, f)) < MinClassified THEN "ordinary"
  ELSE IF f \in IdentifierNames THEN "identifier"
  ELSE IF IsScore(records, f) THEN "score"
  ELSE IF 10 * Cardinality(ValuesOf(records, f)) >= 9 * Cardinality(With(records, f))
       THEN "identifier" ELSE "ordinary"

(***************************************************************************)
(* planning.rs                                                             *)
(***************************************************************************)
TopRanked(records) ==
  LET scores == SelectSeq(FieldOrder(records),
                          LAMBDA f : ClassifyField(records, f) = "score")
      Highest(f) == Best(With(records, f), MaxRankedRecords, LAMBDA a, b :
                      \/ records[a][f][2] > records[b][f][2]
                      \/ records[a][f][2] = records[b][f][2] /\ a < b)
  IN  IF scores = <<>> THEN {} ELSE Highest(Head(scores))

(* Records are scored as they are written out, field names included. *)
RelevantRecords(terms, query) == Pinned(ScoreAll(query, terms), MaxRelevantRecords)

(* What is said once of a field: only of one that every record has. *)
FieldPlans(records, stats) ==
  LET Said(stat) ==
        CASE stat.kind = "constant" -> TRUE
          [] stat.kind = "low_cardinality" -> stat.presentIn = Len(records)
          [] OTHER -> FALSE
      said == Ascending({k \in DOMAIN stats : Said(stats[k])})
  IN  [k \in DOMAIN said |->
         [name |-> stats[said[k]].name, all |-> stats[said[k]].kind = "constant",
          values |-> ValuesOf(records, stats[said[k]].name)]]

Anchors(records, stats, terms, query) ==
  Outliers(records, stats) \cup TopRanked(records) \cup RelevantRecords(terms, query)
    \cup {i \in DOMAIN records : i <= SampleRecords}

NoPlan == [anchors |-> {}, fields |-> <<>>]

Plan(records, terms, query) ==
  LET stats   == Stats(records)
      anchors == Anchors(records, stats, terms, query)
      fields  == FieldPlans(records, stats)
      total   == Len(records)
      n       == Cardinality(anchors)
  IN  IF total < MinRecords \/ n >= total \/ (fields = <<>> /\ 2 * n >= total)
      THEN NoPlan
      ELSE [anchors |-> anchors, fields |-> fields]

(***************************************************************************)
(* formatter.rs                                                            *)
(***************************************************************************)
PlanParts(records, plan) ==
  LET shown == Ascending(plan.anchors)
  IN  <<Note("header", 0, Len(records) - Len(shown))>>
      \o [k \in DOMAIN plan.fields |-> Note("statement", k, 0)]
      \o [k \in DOMAIN shown |-> Show(shown[k])]
      \o <<Marker>>

Structural(c, query) ==
  LET plan == Plan(c.records, c.terms, query)
  IN  IF Len(c.records) < 2 THEN Declines("wrong_content_type")
      ELSE IF plan = NoPlan THEN Declines("not_smaller")
      ELSE Offers(PlanParts(c.records, plan))

(* A leaf the summarizer takes: prose, over the floor, within the depth.   *)
LeafOffer(leaf) ==
  IF leaf.depth >= MaxDepth THEN Declines("too_deep")
  ELSE TextOffer(Text(leaf.lines), {})
Shrinks(leaf) == LeafOffer(leaf).parts # <<>>
=============================================================================
