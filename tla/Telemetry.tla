----------------------------- MODULE Telemetry -----------------------------
(***************************************************************************)
(* TOIN (headroom-core/telemetry.rs, headroom-proxy/toin.rs): what was     *)
(* observed of each shape of content, summed, exchanged between proxies    *)
(* and turned into recommendations.                                        *)
(*                                                                         *)
(* A text is a function from the paths of a JSON value to the kinds found  *)
(* there, a step of a path being <<"item", n>> or <<"member", name>>; what *)
(* is not JSON is at the empty path.  A model is the sequence of the parts *)
(* of its name.  An aggregate is a function from keys to observations; a   *)
(* key is the auth mode, the family of the model and the shape of the      *)
(* content, never the content itself.                                      *)
(***************************************************************************)
EXTENDS Naturals, Sequences, FiniteSets, SequencesExt

CONSTANTS
  Versions,  \* the parts of model names that begin with a digit
  MaxShapeDepth

(***************************************************************************)
(* StructureHash::of, by describe: keys and kinds, no values, of an array  *)
(* the first item, and down to MAX_SHAPE_DEPTH.  What is not JSON is known *)
(* by its content type alone.                                              *)
(***************************************************************************)
FirstItems(path) == \A i \in DOMAIN path : path[i][1] = "item" => path[i][2] = 1

Shape(text) ==
  [path \in {p \in DOMAIN text : Len(p) <= MaxShapeDepth /\ FirstItems(p)} |->
     IF Len(path) = MaxShapeDepth THEN "deep" ELSE text[path]]

(* model_family: two words at most, and none from the first version on.    *)
ModelFamily(model) ==
  LET words == {n \in 0..(IF Len(model) < 2 THEN Len(model) ELSE 2) :
                  \A i \in 1..n : model[i] \notin Versions}
      n     == CHOOSE m \in words : \A k \in words : k <= m
  IN  IF n = 0 THEN <<"unknown">> ELSE SubSeq(model, 1, n)

\* AggregationKey::new
KeyOf(mode, model, text) == <<mode, ModelFamily(model), Shape(text)>>

-----------------------------------------------------------------------------
Nothing == [samples |-> 0, before |-> 0, after |-> 0, declines |-> 0]
Unlearned == [key \in {} |-> Nothing]

Observed(aggregate, key) == IF key \in DOMAIN aggregate THEN aggregate[key] ELSE Nothing

\* The code's saturating_add (telemetry.rs:263) is a sum: no count here comes near 2^64.
Plus(o, p) ==
  [samples |-> o.samples + p.samples, before |-> o.before + p.before,
   after |-> o.after + p.after, declines |-> o.declines + p.declines]

\* Aggregator::merge
Merged(aggregate, other) ==
  [key \in DOMAIN aggregate \cup DOMAIN other |-> Plus(Observed(aggregate, key), Observed(other, key))]

Single(key, observation) == [k \in {key} |-> observation]

\* record and record_decline
Recorded(aggregate, key, before, after) ==
  Merged(aggregate, Single(key, [samples |-> 1, before |-> before, after |-> after, declines |-> 0]))

Declined(aggregate, key) == Merged(aggregate, Single(key, [Nothing EXCEPT !.samples = 1, !.declines = 1]))

(***************************************************************************)
(* recommend: a tenth is saved on average and fewer than half are          *)
(* declined.  A shape that has not been seen often enough is left out, and *)
(* worth_compressing is true of what is left out.                          *)
(***************************************************************************)
Recommendations(aggregate, floor) ==
  [key \in {k \in DOMAIN aggregate : aggregate[k].samples >= floor} |->
     LET o == aggregate[key]
     IN  10 * o.after < 9 * o.before /\ 2 * o.declines < o.samples]

WorthCompressing(recommendations, key) ==
  key \in DOMAIN recommendations => recommendations[key]
=============================================================================
