--------------------------- MODULE PipelineProofs ---------------------------
(***************************************************************************)
(* Proofs about one block and the store its original goes to: Pipeline,    *)
(* for any contents, limits and policies, and InMemoryCcrStore, for any    *)
(* originals, threads, Ttl and bound on the clock.                         *)
(***************************************************************************)
EXTENDS Pipeline, InMemoryCcrStore, TLAPS, WellFoundedInduction, FiniteSetTheorems,
        SequenceTheorems

(***************************************************************************)
(* What the gates have decided, and what that makes of the block: the      *)
(* transform is the one for the block, every stage after the first knows   *)
(* that the block may be compressed, nothing but the last shows a change,  *)
(* and whatever the document shows shorter was taken by the store.         *)
(***************************************************************************)
Stages == {"new", "routed", "leaves", "offered", "stored", "done"}

Decided ==
  /\ stage \in Stages
  /\ stage # "new" => routing = TransformForBlock(case.kind, c0, case.mode, case.worth)
  /\ stage = "routed" => routing # "none"
  /\ stage \in {"leaves", "offered", "stored"} => IsCompressible(case.kind)
  /\ stage = "leaves" => routing = "smart_crusher"
  /\ stage = "offered" => routing \notin {"none", "reformatter"}

Unchanged ==
  /\ stage \in Stages \ {"stored", "done"} => shows = Original
  /\ result = "error" => stage = "done" /\ shows = Original

Changed ==
  /\ todo \cup changed # {} => IsToolOutput(case.kind)
  /\ changed \subseteq originals
  /\ \/ shows = Original
     \/ /\ IsCompressible(case.kind)
        /\ \/ shows = Tidied /\ routing = "reformatter"
           \/ shows = Shortened /\ routing \notin {"none", "reformatter"}
           \/ /\ \E parts : shows = Summary(parts)
              /\ 0 \in originals /\ routing \notin {"none", "reformatter"}

BlockInv == Decided /\ Unchanged /\ Changed

\* A block that has not been routed is as it came.
LEMMA BlockInitInv == PipelineInit => BlockInv
  BY DEF PipelineInit, BlockInv, Decided, Unchanged, Changed, Stages

\* No step of the pipeline breaks what the gates have decided.
LEMMA BlockNextInv == BlockInv /\ [PipelineNext]_pipelineVars => BlockInv'
  <1> SUFFICES ASSUME BlockInv, [PipelineNext]_pipelineVars
               PROVE  BlockInv'
    OBVIOUS
  <1> USE DEF BlockInv, Decided, Unchanged, Changed, Stages, Finish
  <1>1. CASE RouteBlock
    BY <1>1 DEF RouteBlock, c0
  <1>2. CASE Refuse
    BY <1>2 DEF Refuse, c0
  <1>3. CASE Reformat
    BY <1>3 DEF Reformat, c0
  <1>4. CASE Offer
    BY <1>4 DEF Offer, c0
  <1>5. CASE BeginCrush
    BY <1>5 DEF BeginCrush, c0
  <1>6. ASSUME NEW stored \in BOOLEAN, ShrinkLeaf(stored)
        PROVE  BlockInv'
    BY <1>6 DEF ShrinkLeaf, c0
  <1>7. CASE Crush
    BY <1>7 DEF Crush, c0
  <1>8. CASE StoreAndMark
    BY <1>8 DEF StoreAndMark, c0
  <1>9. CASE StoreFails
    BY <1>9 DEF StoreFails, c0
  <1>10. CASE Validate
    BY <1>10 DEF Validate, c0
  <1>11. CASE UNCHANGED pipelineVars
    BY <1>11 DEF pipelineVars, c0
  <1> QED
    BY <1>1, <1>2, <1>3, <1>4, <1>5, <1>6, <1>7, <1>8, <1>9, <1>10, <1>11 DEF PipelineNext

\* So it is of every reachable state.
THEOREM BlockInvariant == PipelineSpec => []BlockInv
  BY BlockInitInv, BlockNextInv, PTL DEF PipelineSpec

\* Redeemable: store_and_mark and the put for a leaf come before what
\* advertises them, so whatever the block tells the model to ask for is stored.
THEOREM RedeemableHolds == PipelineSpec => []Redeemable
<1>1. BlockInv => Redeemable
  BY DEF BlockInv, Unchanged, Changed, Redeemable, Original, Tidied, Shortened, Summary
<1> QED
  BY <1>1, BlockInvariant, PTL

\* A block with a transform passed safety and policy; a compressor is only
\* for a request that pays by use, and prose only for a tool output.
LEMMA RoutedIs ==
  ASSUME NEW kind, NEW c, NEW mode, NEW worth,
         TransformForBlock(kind, c, mode, worth) # "none"
  PROVE  /\ Hazard(c) = "none" /\ mode \in {"payg", "oauth"}
         /\ TransformForBlock(kind, c, mode, worth) # "reformatter" =>
               /\ mode = "payg" /\ worth
               /\ Detect(c) = "prose" => IsToolOutput(kind)
<1>1. TransformFor(c, mode, worth) # "none"
  BY DEF TransformForBlock
<1>2. Route(c, mode, worth) \in {"compress", "lossless"}
  BY <1>1 DEF TransformFor
<1>3. Hazard(c) = "none" /\ mode \in {"payg", "oauth"}
  <2>1. CASE Route(c, mode, worth) = "compress"
    BY <2>1 DEF Route, LossyTransforms
  <2>2. CASE Route(c, mode, worth) = "lossless"
    <3>1. Hazard(c) = "none"
      BY <2>2 DEF Route
    <3>2. LosslessTransforms(mode)
      BY <2>2, <3>1, Zenon DEF Route
    <3> QED
      BY <3>1, <3>2 DEF LosslessTransforms
  <2> QED
    BY <1>2, <2>1, <2>2
<1>4. ASSUME TransformForBlock(kind, c, mode, worth) # "reformatter"
      PROVE  mode = "payg" /\ worth /\ (Detect(c) = "prose" => IsToolOutput(kind))
  <2>1. Route(c, mode, worth) = "compress"
    BY <1>1, <1>2, <1>4 DEF TransformFor, TransformForBlock
  <2>2. mode = "payg" /\ worth
    BY <2>1 DEF Route, LossyTransforms, LosslessTransforms
  <2>3. ASSUME Detect(c) = "prose" PROVE IsToolOutput(kind)
    <3>1. TransformFor(c, mode, worth) = "text_summarizer"
      BY <2>1, <2>3 DEF TransformFor, ForType
    <3> QED
      BY <3>1 DEF TransformForBlock
  <2> QED
    BY <2>2, <2>3
<1> QED
  BY <1>3, <1>4

\* OnlyWhatIsAllowed: whatever the content, the kind of block and the policy,
\* what changes is what the gates let through.
THEOREM OnlyWhatIsAllowedHolds == PipelineSpec => []OnlyWhatIsAllowed
<1>1. BlockInv => OnlyWhatIsAllowed
  <2> SUFFICES ASSUME BlockInv PROVE OnlyWhatIsAllowed
    OBVIOUS
  <2>1. ASSUME shows # Original
        PROVE  /\ case.mode # "subscription"
               /\ IsCompressible(case.kind) /\ ~IsSacrosanct(case.kind)
               /\ Hazard(c0) = "none"
    <3>1. stage # "new" /\ routing # "none" /\ IsCompressible(case.kind)
      BY <2>1 DEF BlockInv, Decided, Unchanged, Changed, Stages
    <3>2. ~IsSacrosanct(case.kind)
      BY <3>1 DEF IsCompressible, IsSacrosanct, IsToolOutput
    <3>3. case.mode \in {"payg", "oauth"} /\ Hazard(c0) = "none"
      BY <3>1, RoutedIs DEF BlockInv, Decided
    <3> QED
      BY <3>1, <3>2, <3>3
  <2>2. ASSUME shows.form \in {"summary", "shortened"}
        PROVE  /\ case.mode = "payg" /\ case.worth
               /\ Detect(c0) = "prose" => IsToolOutput(case.kind)
    <3>1. stage # "new" /\ routing # "none" /\ routing # "reformatter"
      BY <2>2 DEF BlockInv, Decided, Unchanged, Changed, Stages, Original, Tidied
    <3> QED
      BY <3>1, RoutedIs DEF BlockInv, Decided
  <2>3. changed # {} => IsToolOutput(case.kind)
    BY DEF BlockInv, Changed
  <2> QED
    BY <2>1, <2>2, <2>3 DEF OnlyWhatIsAllowed
<1> QED
  BY <1>1, BlockInvariant, PTL

-----------------------------------------------------------------------------
\* Some numbers have a smallest.
LEMMA SmallestExists ==
  ASSUME NEW S \in SUBSET Nat, S # {}
  PROVE  \E x \in S: \A y \in S: x <= y
<1> DEFINE R == {ss \in Nat \X Nat: ss[1] < ss[2]}
<1>1. IsWellFoundedOn(R, Nat)
  BY NatLessThanWellFounded DEF OpToRel
<1>2. \A x, y \in Nat: <<y, x>> \notin R => x <= y
  OBVIOUS
<1> HIDE DEF R
<1>3. \E x \in S: \A y \in S: <<y, x>> \notin R
  BY <1>1, WFMin
<1> QED
  BY <1>2, <1>3

\* A set with zero that has the successor of each of its numbers below n has
\* them all up to n.
LEMMA NumbersUpTo ==
  ASSUME NEW n \in Nat, NEW S \in SUBSET (0..n), 0 \in S,
         \A k \in 0 .. n - 1 : k \in S => k + 1 \in S
  PROVE  \A k \in 0..n : k \in S
<1> SUFFICES ASSUME (0..n) \ S # {} PROVE FALSE
  OBVIOUS
<1> DEFINE T == (0..n) \ S
<1>1. T \in SUBSET Nat /\ T # {}
  OBVIOUS
<1> HIDE DEF T
<1>2. PICK k \in T : \A m \in T : k <= m
  BY <1>1, SmallestExists
<1>3. k \in 0..n /\ k \notin S /\ \A m \in (0..n) \ S : k <= m
  BY <1>2 DEF T
<1>4. k # 0 /\ k - 1 \in 0 .. n - 1
  BY <1>3
<1>5. k - 1 \in S
  BY <1>3, <1>4
<1> QED
  BY <1>3, <1>4, <1>5

(***************************************************************************)
(* Functions computed along a sequence: what each prefix comes to.         *)
(***************************************************************************)
Along(f, n, v, step) == f[0] = v /\ \A k \in 1..n : f[k] = step[<<k, f[k - 1]>>]

\* A step for every place has a function of the prefixes.
LEMMA PrefixesExist ==
  ASSUME NEW n \in Nat, NEW V, NEW v \in V, NEW step \in [(1..n) \X V -> V]
  PROVE  \E f \in [0..n -> V] : Along(f, n, v, step)
<1> DEFINE Upto(f, m) == f[0] = v /\ \A k \in 1..m : f[k] = step[<<k, f[k - 1]>>]
           S == {m \in 0..n : \E f \in [0..n -> V] : Upto(f, m)}
<1>1. 0 \in S
  <2> DEFINE f == [k \in 0..n |-> v]
  <2>1. f \in [0..n -> V] /\ Upto(f, 0)
    OBVIOUS
  <2> HIDE DEF f, Upto
  <2> QED
    BY <2>1
<1>2. ASSUME NEW m \in 0 .. n - 1, m \in S PROVE m + 1 \in S
  <2>1. PICK f \in [0..n -> V] : Upto(f, m)
    BY <1>2
  <2> DEFINE x == step[<<m + 1, f[m]>>]
             g == [k \in 0..n |-> IF k = m + 1 THEN x ELSE f[k]]
  <2>2. m \in 0..n /\ m + 1 \in 1..n /\ f[m] \in V
    OBVIOUS
  <2>3. x \in V
    BY <2>2
  <2> HIDE DEF x
  <2>4. g \in [0..n -> V]
    BY <2>3
  <2>5. Upto(g, m + 1)
    <3>1. g[0] = v /\ g[m + 1] = step[<<m + 1, g[m]>>]
      <4>1. g[0] = f[0] /\ g[m] = f[m] /\ g[m + 1] = x
        BY <2>2
      <4> HIDE DEF g
      <4> QED
        BY <2>1, <4>1 DEF x
    <3>2. \A k \in 1..m : g[k] = f[k] /\ g[k - 1] = f[k - 1]
      OBVIOUS
    <3> HIDE DEF g
    <3>3. ASSUME NEW k \in 1 .. m + 1 PROVE g[k] = step[<<k, g[k - 1]>>]
      <4>1. CASE k = m + 1
        <5>1. k - 1 = m
          BY <4>1
        <5> QED
          BY <3>1, <4>1, <5>1
      <4>2. CASE k # m + 1
        <5>1. k \in 1..m
          BY <4>2
        <5> QED
          BY <2>1, <3>2, <5>1
      <4> QED
        BY <4>1, <4>2
    <3> QED
      BY <3>1, <3>3
  <2> HIDE DEF g, Upto
  <2> QED
    BY <2>4, <2>5
<1>3. S \in SUBSET (0..n)
  OBVIOUS
<1> HIDE DEF S
<1>4. n \in S
  BY <1>1, <1>2, <1>3, NumbersUpTo
<1> QED
  BY <1>4 DEF S, Along

\* What adds up to the total, number by number.
SumsOf(o, s) == o[0] = 0 /\ \A k \in 1..Len(s) : o[k] = o[k - 1] + s[k]

\* Total is that function for addition.
LEMMA TotalIs ==
  ASSUME NEW s \in Seq(Nat)
  PROVE  /\ \E o \in [0..Len(s) -> Nat] : SumsOf(o, s)
         /\ \A o \in [0..Len(s) -> Nat] : SumsOf(o, s) => Total(s) = o[Len(s)]
         /\ Total(s) \in Nat
<1> DEFINE n == Len(s)
           Is(f) == f = [k \in 0..n |-> IF k = 0 THEN 0 ELSE f[k - 1] + s[k]]
           sum == CHOOSE f : Is(f)
<1>1. n \in Nat /\ \A k \in 1..n : s[k] \in Nat
  OBVIOUS
<1>2. PICK o \in [0..n -> Nat] : SumsOf(o, s)
  <2> DEFINE step == [p \in (1..n) \X Nat |-> p[2] + s[p[1]]]
  <2>1. step \in [(1..n) \X Nat -> Nat]
    BY <1>1
  <2>2. PICK V, v : V = Nat /\ v = 0
    OBVIOUS
  <2>3. step \in [(1..n) \X V -> V] /\ v \in V
    BY <2>1, <2>2
  <2>4. \A k \in 1..n, x \in Nat : step[<<k, x>>] = x + s[k]
    OBVIOUS
  <2> HIDE DEF step, n
  <2>5. \E o \in [0..n -> V] : Along(o, n, v, step)
    BY <1>1, <2>3, PrefixesExist
  <2>6. PICK o \in [0..n -> Nat] : o[0] = 0 /\ \A k \in 1..n : o[k] = step[<<k, o[k - 1]>>]
    BY <2>2, <2>5 DEF Along
  <2>7. \A k \in 1..n : o[k - 1] \in Nat
    <3> TAKE k \in 1..n
    <3>1. k - 1 \in 0..n
      BY <1>1
    <3> QED
      BY <3>1
  <2>8. \A k \in 1..n : o[k] = o[k - 1] + s[k]
    BY <2>6, <2>4, <2>7
  <2> QED
    BY <2>6, <2>8 DEF SumsOf, n
<1>3. Is(sum)
  <2>1. Is(o)
    BY <1>2 DEF SumsOf
  <2> QED
    BY <2>1
<1>4. Total(s) = sum[n]
  BY DEF Total
<1> HIDE DEF sum
<1>5. ASSUME NEW p \in [0..n -> Nat], SumsOf(p, s) PROVE sum[n] = p[n]
  <2> DEFINE S == {k \in 0..n : sum[k] = p[k]}
  <2>1. 0 \in S
    BY <1>3, <1>5 DEF SumsOf
  <2>2. \A k \in 0 .. n - 1 : k \in S => k + 1 \in S
    BY <1>3, <1>5 DEF SumsOf
  <2>3. S \in SUBSET (0..n)
    OBVIOUS
  <2> HIDE DEF S, n
  <2>4. \A k \in 0..n : k \in S
    BY <1>1, <2>1, <2>2, <2>3, NumbersUpTo
  <2>5. n \in S
    BY <1>1, <2>4
  <2> QED
    BY <2>5 DEF S
<1> HIDE DEF Is
<1> QED
  BY <1>1, <1>2, <1>4, <1>5

\* Totals of sequences add up.
LEMMA TotalConcat ==
  ASSUME NEW s \in Seq(Nat), NEW t \in Seq(Nat)
  PROVE  Total(s \o t) = Total(s) + Total(t)
<1>1. PICK m \in Nat, n \in Nat : m = Len(s) /\ n = Len(t)
  OBVIOUS
<1>2. PICK o \in [0..m -> Nat] : SumsOf(o, s)
  BY <1>1, TotalIs
<1>3. PICK p \in [0..n -> Nat] : SumsOf(p, t)
  BY <1>1, TotalIs
<1>4. PICK w : w = s \o t
  OBVIOUS
<1>5. w \in Seq(Nat) /\ Len(w) = m + n /\ \A k \in 1 .. m + n : w[k] = IF k <= m THEN s[k] ELSE t[k - m]
  BY <1>1, <1>4, ConcatProperties
<1>6. PICK q : q = [k \in 0 .. m + n |-> IF k <= m THEN o[k] ELSE o[m] + p[k - m]]
  OBVIOUS
<1>7. /\ q \in [0 .. m + n -> Nat]
      /\ \A k \in 0..m : q[k] = o[k]
      /\ \A k \in 0 .. m + n : k > m => q[k] = o[m] + p[k - m]
  BY <1>6
<1>8. o[0] = 0 /\ p[0] = 0 /\ (\A k \in 1..m : o[k] = o[k - 1] + s[k]) /\ \A k \in 1..n : p[k] = p[k - 1] + t[k]
  BY <1>1, <1>2, <1>3 DEF SumsOf
<1>9. ASSUME NEW k \in 1 .. m + n PROVE q[k] = q[k - 1] + w[k]
  <2>1. CASE k <= m
    <3>1. k \in 0..m /\ k - 1 \in 0..m /\ k \in 1..m
      BY <2>1
    <3>2. q[k] = o[k] /\ q[k - 1] = o[k - 1] /\ w[k] = s[k]
      BY <1>5, <1>7, <2>1, <3>1
    <3> QED
      BY <1>8, <3>1, <3>2
  <2>2. CASE k > m
    <3>1. PICK j \in 1..n : j = k - m
      BY <2>2
    <3>2. w[k] = t[j] /\ q[k] = o[m] + p[j]
      BY <1>5, <1>7, <2>2, <3>1
    <3>3. q[k - 1] = o[m] + p[j - 1]
      <4>1. CASE j = 1
        <5>1. k - 1 = m /\ m \in 0..m
          BY <3>1, <4>1
        <5>2. q[m] = o[m] /\ o[m] \in Nat
          BY <1>7, <5>1
        <5> QED
          BY <1>8, <4>1, <5>1, <5>2
      <4>2. CASE j > 1
        <5>1. k - 1 \in 0 .. m + n /\ k - 1 > m /\ k - 1 - m = j - 1
          BY <3>1, <4>2
        <5> QED
          BY <1>7, <5>1
      <4> QED
        BY <4>1, <4>2
    <3>4. p[j] = p[j - 1] + t[j]
      BY <1>8
    <3>5. o[m] \in Nat /\ p[j - 1] \in Nat /\ t[j] \in Nat
      <4>1. j - 1 \in 0..n /\ m \in 0..m
        OBVIOUS
      <4>2. o[m] \in Nat
        BY <4>1
      <4>3. p[j - 1] \in Nat
        BY <4>1
      <4>4. t[j] \in Nat
        BY <1>1
      <4> QED
        BY <4>2, <4>3, <4>4
    <3>6. PICK x \in Nat, y \in Nat, z \in Nat : x = o[m] /\ y = p[j - 1] /\ z = t[j]
      BY <3>5
    <3>7. q[k] = x + (y + z) /\ q[k - 1] = x + y /\ w[k] = z
      BY <3>2, <3>3, <3>4, <3>6
    <3>8. x + (y + z) = (x + y) + z
      OBVIOUS
    <3> QED
      BY <3>7, <3>8
  <2> QED
    BY <1>1, <2>1, <2>2
<1>10. SumsOf(q, w)
  BY <1>1, <1>5, <1>7, <1>8, <1>9 DEF SumsOf
<1>11. q[m + n] = o[m] + p[n]
  <2>1. CASE n = 0
    BY <1>7, <1>8, <2>1
  <2>2. CASE n > 0
    BY <1>7, <2>2
  <2> QED
    BY <2>1, <2>2
<1>12. Total(s) = o[m]
  BY <1>1, <1>2, TotalIs
<1>13. Total(t) = p[n]
  BY <1>1, <1>3, TotalIs
<1>14. Total(w) = q[m + n]
  <2>1. PICK l \in Nat : l = m + n
    OBVIOUS
  <2>2. w \in Seq(Nat) /\ Len(w) = l /\ q \in [0..l -> Nat]
    BY <1>5, <1>7, <2>1
  <2> QED
    BY <1>10, <2>1, <2>2, TotalIs
<1> QED
  BY <1>4, <1>11, <1>12, <1>13, <1>14

\* The total of nothing.
LEMMA TotalOfNone == Total(<<>>) = 0
<1>1. <<>> \in Seq(Nat) /\ [k \in 0..0 |-> 0] \in [0..Len(<<>>) -> Nat]
      /\ SumsOf([k \in 0..0 |-> 0], <<>>)
  BY DEF SumsOf
<1> QED
  BY <1>1, TotalIs

\* The total of one number.
LEMMA TotalOfOne == ASSUME NEW x \in Nat PROVE Total(<<x>>) = x
<1> DEFINE o == [k \in 0..1 |-> IF k = 0 THEN 0 ELSE x]
<1>1. <<x>> \in Seq(Nat) /\ o \in [0..Len(<<x>>) -> Nat] /\ SumsOf(o, <<x>>) /\ o[1] = x
  BY DEF SumsOf
<1> HIDE DEF o
<1> QED
  BY <1>1, TotalIs

\* The pieces of FlattenSeq, one after the other.
Pieces(o, ss) == o[0] = <<>> /\ \A k \in 1..Len(ss) : o[k] = o[k - 1] \o ss[k]

\* FlattenSeq is such a function for concatenation.
LEMMA FlattenIs ==
  ASSUME NEW S, NEW ss \in Seq(Seq(S))
  PROVE  \E o \in [0..Len(ss) -> Seq(S)] :
           Pieces(o, ss) /\ FlattenSeq(ss) = o[Len(ss)]
<1> DEFINE n == Len(ss)
           V == Seq(S)
           Is(f) == f = [k \in 1..n |-> IF k = 1 THEN ss[k] ELSE f[k - 1] \o ss[k]]
           flatten == CHOOSE f : Is(f)
<1>1. n \in Nat /\ <<>> \in V /\ \A k \in 1..n : ss[k] \in V
  OBVIOUS
<1>2. PICK o \in [0..n -> V] : o[0] = <<>> /\ \A k \in 1..n : o[k] = o[k - 1] \o ss[k]
  <2> DEFINE step == [p \in (1..n) \X V |-> p[2] \o ss[p[1]]]
  <2>1. step \in [(1..n) \X V -> V]
    BY <1>1, ConcatProperties
  <2>2. \A k \in 1..n : \A x \in V : step[<<k, x>>] = x \o ss[k]
    OBVIOUS
  <2> HIDE DEF step, V, n
  <2>3. PICK v : v = <<>>
    OBVIOUS
  <2>4. v \in V
    BY <1>1, <2>3
  <2>5. \E o \in [0..n -> V] : Along(o, n, v, step)
    BY <1>1, <2>1, <2>4, PrefixesExist
  <2>6. PICK o \in [0..n -> V] : o[0] = <<>> /\ \A k \in 1..n : o[k] = step[<<k, o[k - 1]>>]
    BY <2>3, <2>5 DEF Along
  <2>7. \A k \in 1..n : o[k - 1] \in V
    <3> TAKE k \in 1..n
    <3>1. k - 1 \in 0..n
      BY <1>1
    <3> QED
      BY <3>1
  <2> QED
    BY <2>2, <2>6, <2>7
<1>3. Pieces(o, ss)
  BY <1>2 DEF Pieces
<1>4. FlattenSeq(ss) = o[n] => \E p \in [0..Len(ss) -> Seq(S)] : Pieces(p, ss) /\ FlattenSeq(ss) = p[Len(ss)]
  BY <1>2, <1>3
<1>5. CASE n = 0
  <2>1. ss = <<>> /\ FlattenSeq(ss) = ss
    BY <1>5 DEF FlattenSeq
  <2> QED
    BY <1>2, <1>5, <2>1
<1>6. CASE n > 0
  <2>1. Is([k \in 1..n |-> o[k]])
    <3>1. ASSUME NEW k \in 1..n
          PROVE  o[k] = IF k = 1 THEN ss[k] ELSE [j \in 1..n |-> o[j]][k - 1] \o ss[k]
      <4>1. <<>> \o ss[k] = ss[k]
        BY <1>1, ConcatEmptySeq
      <4>2. o[k] = o[k - 1] \o ss[k] /\ o[0] = <<>>
        BY <1>2
      <4>3. CASE k = 1
        <5>1. k - 1 = 0
          BY <4>3
        <5> QED
          BY <4>1, <4>2, <4>3, <5>1
      <4>4. CASE k # 1
        <5>1. [j \in 1..n |-> o[j]][k - 1] = o[k - 1]
          BY <1>1, <4>4
        <5> QED
          BY <4>2, <4>4, <5>1
      <4> QED
        BY <4>3, <4>4
    <3> QED
      BY <3>1
  <2>2. Is(flatten)
    BY <2>1
  <2>3. FlattenSeq(ss) = flatten[n]
    BY <1>6 DEF FlattenSeq
  <2> HIDE DEF flatten
  <2> DEFINE T == {k \in 0..n : k # 0 => flatten[k] = o[k]}
  <2>4. 0 \in T
    BY <1>1
  <2>5. ASSUME NEW k \in 0 .. n - 1, k \in T PROVE k + 1 \in T
    <3>1. k + 1 \in 1..n
      BY <1>1
    <3>2. flatten[k + 1] = IF k + 1 = 1 THEN ss[k + 1] ELSE flatten[k] \o ss[k + 1]
      <4> PICK j : j = k + 1
        OBVIOUS
      <4>1. j \in 1..n /\ j - 1 = k
        BY <3>1
      <4>2. flatten[j] = IF j = 1 THEN ss[j] ELSE flatten[j - 1] \o ss[j]
        BY <2>2, <4>1
      <4> QED
        BY <4>1, <4>2
    <3>3. o[k + 1] = o[k] \o ss[k + 1] /\ <<>> \o ss[k + 1] = ss[k + 1] /\ o[0] = <<>>
      <4> PICK j : j = k + 1
        OBVIOUS
      <4>1. j \in 1..n /\ j - 1 = k
        BY <3>1
      <4>2. o[j] = o[j - 1] \o ss[j]
        BY <1>2, <4>1
      <4>3. ss[j] \in Seq(S)
        BY <1>1, <4>1
      <4>4. <<>> \o ss[j] = ss[j]
        BY <4>3, ConcatEmptySeq
      <4> QED
        BY <1>2, <4>1, <4>2, <4>4
    <3>4. k # 0 => flatten[k] = o[k]
      BY <2>5
    <3>5. flatten[k + 1] = o[k + 1]
      <4>1. CASE k = 0
        <5>1. k + 1 = 1 /\ o[k] = <<>>
          BY <3>3, <4>1
        <5> QED
          BY <3>2, <3>3, <5>1
      <4>2. CASE k # 0
        <5>1. k + 1 # 1
          BY <4>2
        <5> QED
          BY <3>2, <3>3, <3>4, <4>2, <5>1
      <4> QED
        BY <4>1, <4>2
    <3> QED
      BY <3>1, <3>5
  <2>6. T \in SUBSET (0..n)
    OBVIOUS
  <2>7. n \in Nat
    BY <1>1
  <2> HIDE DEF T, n
  <2>8. \A k \in 0..n : k \in T
    BY <2>4, <2>5, <2>6, <2>7, NumbersUpTo
  <2>9. n \in T
    BY <2>7, <2>8
  <2>10. flatten[n] = o[n]
    BY <1>6, <2>9 DEF T
  <2> HIDE DEF V, Is, n
  <2>11. FlattenSeq(ss) = o[n]
    BY <2>3, <2>10
  <2> QED
    BY <1>4, <2>11
<1> HIDE DEF V, Is, flatten
<1> QED
  BY <1>1, <1>5, <1>6

(***************************************************************************)
(* What the parts of a summary show, and what their numbers come to.       *)
(***************************************************************************)
PartNames == {"line", "gap", "unchanged", "lockfile", "whitespace", "header", "group",
              "example", "severities", "severe", "file", "more", "more_files", "elided",
              "statement", "marker"}
Part == [part : PartNames, at : Nat, count : Nat]
Weights(s, K, A) ==
  [k \in DOMAIN s |-> IF s[k].part \in K /\ s[k].at \in A THEN s[k].count ELSE 0]

\* A count of parts is the total of their weights.
LEMMA CountIs ==
  ASSUME NEW s \in Seq(Part), NEW K, NEW A
  PROVE  /\ Weights(s, K, A) \in Seq(Nat) /\ Len(Weights(s, K, A)) = Len(s)
         /\ CountAbout(s, K, A) = Total(Weights(s, K, A)) /\ CountAbout(s, K, A) \in Nat
<1>1. PICK n \in Nat : n = Len(s)
  OBVIOUS
<1>2. DOMAIN s = 1..n /\ \A k \in 1..n : s[k].count \in Nat
  <2>1. DOMAIN s = 1..n /\ \A k \in 1..n : s[k] \in Part
    BY <1>1
  <2>2. \A p \in Part : p.count \in Nat
    BY DEF Part
  <2> QED
    BY <2>1, <2>2
<1>3. Weights(s, K, A) \in [1..n -> Nat]
  BY <1>2 DEF Weights
<1>4. Weights(s, K, A) \in Seq(Nat) /\ Len(Weights(s, K, A)) = n
  BY <1>3
<1>5. CountAbout(s, K, A) = Total(Weights(s, K, A))
  BY DEF CountAbout, Weights
<1> QED
  BY <1>1, <1>4, <1>5, TotalIs

\* Counts of sequences of parts add up, and they show what either shows.
LEMMA CountConcat ==
  ASSUME NEW s \in Seq(Part), NEW t \in Seq(Part), NEW K, NEW A
  PROVE  /\ s \o t \in Seq(Part)
         /\ CountAbout(s \o t, K, A) = CountAbout(s, K, A) + CountAbout(t, K, A)
         /\ ShownIn(s \o t) = ShownIn(s) \cup ShownIn(t)
<1>1. PICK m \in Nat, n \in Nat : m = Len(s) /\ n = Len(t)
  OBVIOUS
<1>2. s \o t \in Seq(Part) /\ Len(s \o t) = m + n
      /\ \A k \in 1 .. m + n : (s \o t)[k] = IF k <= m THEN s[k] ELSE t[k - m]
  BY <1>1, ConcatProperties
<1>3. DOMAIN s = 1..m /\ DOMAIN t = 1..n /\ DOMAIN (s \o t) = 1 .. m + n
  BY <1>1, <1>2
<1>4. PICK u : u = s \o t
  OBVIOUS
<1>5. /\ u \in Seq(Part) /\ DOMAIN u = 1 .. m + n /\ Len(u) = m + n
      /\ \A k \in 1..m : u[k] = s[k]
      /\ \A k \in 1..n : u[m + k] = t[k]
  <2>1. ASSUME NEW k \in 1..m PROVE u[k] = s[k]
    BY <1>2, <1>4
  <2>2. ASSUME NEW k \in 1..n PROVE u[m + k] = t[k]
    <3>1. PICK j : j = m + k
      OBVIOUS
    <3>2. j \in 1 .. m + n /\ ~(j <= m) /\ j - m = k
      BY <3>1
    <3>3. (s \o t)[j] = t[j - m]
      BY <1>2, <3>2
    <3> QED
      BY <1>4, <3>1, <3>2, <3>3
  <2> QED
    BY <1>2, <1>3, <1>4, <2>1, <2>2
<1>6. Weights(u, K, A) = Weights(s, K, A) \o Weights(t, K, A)
  <2> DEFINE a == Weights(s, K, A)
             b == Weights(t, K, A)
             c == Weights(u, K, A)
  <2>1. /\ a \in Seq(Nat) /\ b \in Seq(Nat) /\ c \in Seq(Nat)
        /\ Len(a) = m /\ Len(b) = n /\ Len(c) = m + n
    BY <1>1, <1>5, CountIs
  <2>2. \A k \in 1..m : c[k] = a[k]
    BY <1>3, <1>5 DEF Weights
  <2>3. \A k \in 1..n : c[m + k] = b[k]
    <3> TAKE k \in 1..n
    <3>1. m + k \in 1 .. m + n
      OBVIOUS
    <3> QED
      BY <1>3, <1>5, <3>1 DEF Weights
  <2> HIDE DEF a, b, c
  <2>4. a \o b \in Seq(Nat) /\ Len(a \o b) = m + n
        /\ \A k \in 1 .. m + n : (a \o b)[k] = IF k <= m THEN a[k] ELSE b[k - m]
    BY <2>1, ConcatProperties
  <2>5. PICK d : d = a \o b
    OBVIOUS
  <2>6. /\ d \in Seq(Nat) /\ Len(d) = m + n
        /\ \A k \in 1 .. m + n : d[k] = IF k <= m THEN a[k] ELSE b[k - m]
    BY <2>4, <2>5
  <2>7. ASSUME NEW k \in 1 .. m + n PROVE c[k] = d[k]
    <3>1. CASE k <= m
      <4>1. k \in 1..m
        BY <3>1
      <4> QED
        BY <2>2, <2>6, <3>1, <4>1
    <3>2. CASE k > m
      <4>1. PICK j : j = k - m
        OBVIOUS
      <4>2. j \in 1..n /\ m + j = k /\ ~(k <= m)
        BY <3>2, <4>1
      <4>3. c[m + j] = b[j] /\ d[k] = b[k - m]
        BY <2>3, <2>6, <4>2
      <4> QED
        BY <4>1, <4>2, <4>3
    <3> QED
      BY <3>1, <3>2
  <2>8. c = d
    BY <2>1, <2>6, <2>7, SeqEqual
  <2> QED
    BY <2>8, <2>5 DEF a, b, c
<1>7. CountAbout(u, K, A) = CountAbout(s, K, A) + CountAbout(t, K, A)
  <2>1. CountAbout(u, K, A) = Total(Weights(u, K, A))
    BY <1>5, CountIs
  <2>2. CountAbout(s, K, A) = Total(Weights(s, K, A)) /\ Weights(s, K, A) \in Seq(Nat)
    BY CountIs
  <2>3. CountAbout(t, K, A) = Total(Weights(t, K, A)) /\ Weights(t, K, A) \in Seq(Nat)
    BY CountIs
  <2>4. PICK a \in Seq(Nat), b \in Seq(Nat) : a = Weights(s, K, A) /\ b = Weights(t, K, A)
    BY <2>2, <2>3
  <2>5. Total(a \o b) = Total(a) + Total(b)
    BY TotalConcat
  <2> QED
    BY <1>6, <2>1, <2>2, <2>3, <2>4, <2>5
<1>8. ShownIn(u) = ShownIn(s) \cup ShownIn(t)
  <2>1. ASSUME NEW i \in ShownIn(u) PROVE i \in ShownIn(s) \cup ShownIn(t)
    <3>1. PICK k \in 1 .. m + n : u[k].part = "line" /\ u[k].at = i
      BY <1>5 DEF ShownIn
    <3>2. CASE k <= m
      <4>1. k \in 1..m /\ u[k] = s[k]
        BY <1>5, <3>2
      <4> QED
        BY <1>3, <3>1, <4>1 DEF ShownIn
    <3>3. CASE k > m
      <4>1. k - m \in 1..n /\ m + (k - m) = k
        BY <3>3
      <4>2. u[k] = t[k - m]
        BY <1>5, <4>1
      <4> QED
        BY <1>3, <3>1, <4>1, <4>2 DEF ShownIn
    <3> QED
      BY <3>2, <3>3
  <2>2. ASSUME NEW i \in ShownIn(s) PROVE i \in ShownIn(u)
    <3>1. PICK k \in 1..m : s[k].part = "line" /\ s[k].at = i
      BY <1>3 DEF ShownIn
    <3>2. k \in 1 .. m + n /\ k <= m
      OBVIOUS
    <3>3. u[k] = s[k] /\ k \in DOMAIN u
      BY <1>5, <3>2
    <3> QED
      BY <3>1, <3>3 DEF ShownIn
  <2>3. ASSUME NEW i \in ShownIn(t) PROVE i \in ShownIn(u)
    <3>1. PICK k \in 1..n : t[k].part = "line" /\ t[k].at = i
      BY <1>3 DEF ShownIn
    <3>2. u[m + k] = t[k] /\ m + k \in DOMAIN u
      BY <1>5
    <3> QED
      BY <3>1, <3>2 DEF ShownIn
  <2> QED
    BY <2>1, <2>2, <2>3
<1> QED
  BY <1>4, <1>5, <1>7, <1>8

\* Parts of other kinds count for nothing.
LEMMA NothingCounted ==
  ASSUME NEW s \in Seq(Part), NEW K, NEW A,
         \A k \in DOMAIN s : ~(s[k].part \in K /\ s[k].at \in A)
  PROVE  CountAbout(s, K, A) = 0
<1>1. PICK n \in Nat : n = Len(s)
  OBVIOUS
<1>2. \A k \in 1..n : Weights(s, K, A)[k] = 0
  BY <1>1 DEF Weights
<1> DEFINE o == [k \in 0..n |-> 0]
<1>3. o \in [0..Len(Weights(s, K, A)) -> Nat] /\ SumsOf(o, Weights(s, K, A)) /\ o[n] = 0
  BY <1>1, <1>2, CountIs DEF SumsOf
<1> HIDE DEF o
<1> QED
  BY <1>1, <1>3, CountIs, TotalIs

\* Parts that are not lines show none.
LEMMA NothingShown ==
  ASSUME NEW s, \A k \in DOMAIN s : s[k].part # "line"
  PROVE  ShownIn(s) = {}
BY DEF ShownIn

\* No parts count for nothing.
LEMMA CountOfNone ==
  ASSUME NEW K, NEW A
  PROVE  <<>> \in Seq(Part) /\ CountAbout(<<>>, K, A) = 0 /\ ShownIn(<<>>) = {}
<1>1. PICK s : s = <<>>
  OBVIOUS
<1>2. s \in Seq(Part) /\ \A k \in DOMAIN s : FALSE
  BY <1>1
<1>3. CountAbout(s, K, A) = 0
  BY <1>2, NothingCounted
<1>4. ShownIn(s) = {}
  BY <1>2, NothingShown
<1> QED
  BY <1>1, <1>2, <1>3, <1>4

\* The count of one part.
LEMMA CountOfOne ==
  ASSUME NEW p \in Part, NEW K, NEW A
  PROVE  /\ <<p>> \in Seq(Part)
         /\ CountAbout(<<p>>, K, A) = IF p.part \in K /\ p.at \in A THEN p.count ELSE 0
         /\ ShownIn(<<p>>) = IF p.part = "line" THEN {p.at} ELSE {}
<1>1. <<p>> \in Seq(Part) /\ p.count \in Nat
  BY DEF Part
<1>2. PICK x \in Nat : x = IF p.part \in K /\ p.at \in A THEN p.count ELSE 0
  BY <1>1
<1>3. Weights(<<p>>, K, A) = <<x>>
  <2>1. Weights(<<p>>, K, A) \in Seq(Nat) /\ Len(Weights(<<p>>, K, A)) = 1
    BY <1>1, CountIs
  <2>2. Weights(<<p>>, K, A)[1] = x
    BY <1>2 DEF Weights
  <2> QED
    BY <2>1, <2>2
<1>4. CountAbout(<<p>>, K, A) = x
  <2>1. PICK s \in Seq(Part) : s = <<p>>
    BY <1>1
  <2>2. CountAbout(s, K, A) = Total(Weights(s, K, A))
    BY CountIs
  <2>3. Total(<<x>>) = x
    BY TotalOfOne
  <2> QED
    BY <1>3, <2>1, <2>2, <2>3
<1>5. ShownIn(<<p>>) = IF p.part = "line" THEN {p.at} ELSE {}
  BY DEF ShownIn
<1> QED
  BY <1>1, <1>2, <1>4, <1>5

\* The size of two sets with nothing in common.
LEMMA SumOfDisjoint ==
  ASSUME NEW S, NEW T, IsFiniteSet(S), IsFiniteSet(T), S \cap T = {}
  PROVE  IsFiniteSet(S \cup T) /\ Cardinality(S \cup T) = Cardinality(S) + Cardinality(T)
BY FS_Union, FS_EmptySet, FS_CardinalityType

(***************************************************************************)
(* Pieces that account for sets with nothing in common account, together,  *)
(* for all of them.                                                        *)
(***************************************************************************)
AllOf(B, n) == UNION {B[i] : i \in 1..n}
Apart(B, n) == \A i, j \in 1..n : i # j => B[i] \cap B[j] = {}

Weighs(ss, K, A, B) ==
  \A i \in 1..Len(ss) : IsFiniteSet(B[i]) /\ CountAbout(ss[i], K, A) = Cardinality(B[i])

\* Pieces that count sets with nothing in common count their union.
LEMMA PiecesCount ==
  ASSUME NEW ss \in Seq(Seq(Part)), NEW K, NEW A, NEW B,
         Apart(B, Len(ss)), Weighs(ss, K, A, B)
  PROVE  /\ FlattenSeq(ss) \in Seq(Part) /\ IsFiniteSet(AllOf(B, Len(ss)))
         /\ CountAbout(FlattenSeq(ss), K, A) = Cardinality(AllOf(B, Len(ss)))
<1>1. PICK n \in Nat : n = Len(ss)
  OBVIOUS
<1>2. PICK o \in [0..n -> Seq(Part)] : Pieces(o, ss) /\ FlattenSeq(ss) = o[n]
  BY <1>1, FlattenIs
<1> DEFINE Good == {k \in 0..n : /\ IsFiniteSet(AllOf(B, k))
                                 /\ CountAbout(o[k], K, A) = Cardinality(AllOf(B, k))}
<1>3. 0 \in Good
  <2>1. AllOf(B, 0) = {} /\ o[0] = <<>>
    BY <1>2 DEF AllOf, Pieces
  <2>2. CountAbout(<<>>, K, A) = 0
    BY CountOfNone
  <2>3. IsFiniteSet(AllOf(B, 0)) /\ Cardinality(AllOf(B, 0)) = 0
    BY <2>1, FS_EmptySet
  <2> QED
    BY <2>1, <2>2, <2>3
<1>4. ASSUME NEW k \in 0 .. n - 1, k \in Good PROVE k + 1 \in Good
  <2>1. PICK j : j = k + 1
    OBVIOUS
  <2>2. j \in 1..n /\ j - 1 = k /\ k \in 0..n
    BY <2>1
  <2>3. o[j] = o[k] \o ss[j] /\ o[k] \in Seq(Part) /\ ss[j] \in Seq(Part)
    <3>1. o[j] = o[j - 1] \o ss[j]
      BY <1>1, <1>2, <2>2 DEF Pieces
    <3>2. o[k] \in Seq(Part)
      BY <1>2, <2>2
    <3>3. ss[j] \in Seq(Part)
      BY <1>1, <2>2
    <3> QED
      BY <2>2, <3>1, <3>2, <3>3
  <2>4. AllOf(B, j) = AllOf(B, k) \cup B[j]
    <3>1. 1..j = (1..k) \cup {j}
      BY <2>1
    <3> QED
      BY <3>1 DEF AllOf
  <2>5. AllOf(B, k) \cap B[j] = {}
    <3>1. \A i \in 1..k : i \in 1..n /\ i # j
      BY <2>1
    <3>2. \A i \in 1..k : B[i] \cap B[j] = {}
      BY <1>1, <2>2, <3>1 DEF Apart
    <3> QED
      BY <3>2 DEF AllOf
  <2>6. IsFiniteSet(AllOf(B, k)) /\ CountAbout(o[k], K, A) = Cardinality(AllOf(B, k))
    BY <1>4
  <2>7. IsFiniteSet(B[j]) /\ CountAbout(ss[j], K, A) = Cardinality(B[j])
    BY <1>1, <2>2 DEF Weighs
  <2>8. IsFiniteSet(AllOf(B, j)) /\ Cardinality(AllOf(B, j)) = Cardinality(AllOf(B, k)) + Cardinality(B[j])
    <3>1. PICK S, T : S = AllOf(B, k) /\ T = B[j]
      OBVIOUS
    <3>2. IsFiniteSet(S) /\ IsFiniteSet(T) /\ S \cap T = {}
      BY <2>5, <2>6, <2>7, <3>1
    <3>3. IsFiniteSet(S \cup T) /\ Cardinality(S \cup T) = Cardinality(S) + Cardinality(T)
      BY <3>2, SumOfDisjoint
    <3> QED
      BY <2>4, <3>1, <3>3
  <2>9. CountAbout(o[j], K, A) = CountAbout(o[k], K, A) + CountAbout(ss[j], K, A)
    BY <2>3, CountConcat
  <2>10. j \in Good
    BY <2>2, <2>6, <2>7, <2>8, <2>9
  <2> QED
    BY <2>1, <2>10
<1>5. Good \in SUBSET (0..n)
  OBVIOUS
<1> HIDE DEF Good
<1>6. \A k \in 0..n : k \in Good
  BY <1>3, <1>4, <1>5, NumbersUpTo
<1>7. IsFiniteSet(AllOf(B, n)) /\ CountAbout(o[n], K, A) = Cardinality(AllOf(B, n))
  BY <1>6 DEF Good
<1> QED
  BY <1>1, <1>2, <1>7

\* Pieces together show what each of them shows.
LEMMA PiecesShow ==
  ASSUME NEW ss \in Seq(Seq(Part))
  PROVE  FlattenSeq(ss) \in Seq(Part) /\ ShownIn(FlattenSeq(ss)) = UNION {ShownIn(ss[i]) : i \in 1..Len(ss)}
<1>1. PICK n \in Nat : n = Len(ss)
  OBVIOUS
<1>2. PICK o \in [0..n -> Seq(Part)] : Pieces(o, ss) /\ FlattenSeq(ss) = o[n]
  BY <1>1, FlattenIs
<1> DEFINE Good == {k \in 0..n : ShownIn(o[k]) = UNION {ShownIn(ss[i]) : i \in 1..k}}
<1>3. 0 \in Good
  <2>1. o[0] = <<>>
    BY <1>2 DEF Pieces
  <2>2. ShownIn(<<>>) = {}
    BY CountOfNone
  <2> QED
    BY <2>1, <2>2
<1>4. ASSUME NEW k \in 0 .. n - 1, k \in Good PROVE k + 1 \in Good
  <2>1. PICK j : j = k + 1
    OBVIOUS
  <2>2. j \in 1..n /\ j - 1 = k /\ k \in 0..n
    BY <2>1
  <2>3. o[j] = o[k] \o ss[j] /\ o[k] \in Seq(Part) /\ ss[j] \in Seq(Part)
    <3>1. o[j] = o[j - 1] \o ss[j]
      BY <1>1, <1>2, <2>2 DEF Pieces
    <3>2. o[k] \in Seq(Part)
      BY <1>2, <2>2
    <3>3. ss[j] \in Seq(Part)
      BY <1>1, <2>2
    <3> QED
      BY <2>2, <3>1, <3>2, <3>3
  <2>4. ShownIn(o[j]) = ShownIn(o[k]) \cup ShownIn(ss[j])
    BY <2>3, CountConcat
  <2>5. 1..j = (1..k) \cup {j}
    BY <2>1
  <2>6. ShownIn(o[k]) = UNION {ShownIn(ss[i]) : i \in 1..k}
    BY <1>4
  <2>7. ShownIn(o[j]) = UNION {ShownIn(ss[i]) : i \in 1..j}
    BY <2>4, <2>5, <2>6
  <2> QED
    BY <2>1, <2>2, <2>7
<1>5. Good \in SUBSET (0..n)
  OBVIOUS
<1> HIDE DEF Good
<1>6. \A k \in 0..n : k \in Good
  BY <1>3, <1>4, <1>5, NumbersUpTo
<1>7. ShownIn(o[n]) = UNION {ShownIn(ss[i]) : i \in 1..n}
  BY <1>6 DEF Good
<1> QED
  BY <1>1, <1>2, <1>7

(***************************************************************************)
(* Positions in ascending order.                                           *)
(***************************************************************************)
LEMMA AscendingIs ==
  ASSUME NEW S \in SUBSET Nat, IsFiniteSet(S), NEW n, n = Cardinality(S)
  PROVE  /\ n \in Nat /\ Ascending(S) \in [1..n -> S]
         /\ \A j, k \in 1..n : j < k => Ascending(S)[j] < Ascending(S)[k]
         /\ \A i \in S : \E k \in 1..n : Ascending(S)[k] = i
<1> DEFINE below(i) == {j \in S : j < i}
           rank == [i \in S |-> Cardinality(below(i)) + 1]
           At(k) == CHOOSE i \in S : Cardinality(below(i)) = k - 1
<1>1. n \in Nat
  BY FS_CardinalityType
<1>2. ASSUME NEW i \in S
      PROVE  IsFiniteSet(below(i)) /\ Cardinality(below(i)) \in Nat /\ Cardinality(below(i)) < n
  <2>1. below(i) \in SUBSET S /\ i \in S \ below(i)
    OBVIOUS
  <2> HIDE DEF below
  <2>2. IsFiniteSet(below(i)) /\ Cardinality(below(i)) <= n /\ Cardinality(below(i)) # n
    BY <2>1, FS_Subset
  <2> QED
    BY <1>1, <2>2, FS_CardinalityType
<1>3. ASSUME NEW i \in S, NEW j \in S, i < j
      PROVE  Cardinality(below(i)) < Cardinality(below(j))
  <2>1. i \in Nat /\ j \in Nat /\ \A k \in S : k \in Nat
    OBVIOUS
  <2>2. below(i) \in SUBSET below(j) /\ i \in below(j) \ below(i)
    <3> HIDE DEF rank, At
    <3>1. \A k \in S : k < i => k < j
      BY <1>3, <2>1
    <3>2. \A k : k \in below(i) => k \in below(j)
      BY <3>1
    <3>3. i \in below(j)
      BY <1>3
    <3>4. i \notin below(i)
      BY <2>1
    <3> QED
      BY <3>2, <3>3, <3>4
  <2>3. IsFiniteSet(below(j)) /\ Cardinality(below(j)) \in Nat /\ Cardinality(below(i)) \in Nat
    BY <1>2
  <2> HIDE DEF below
  <2>4. Cardinality(below(i)) <= Cardinality(below(j)) /\ Cardinality(below(i)) # Cardinality(below(j))
    BY <2>2, <2>3, FS_Subset
  <2> QED
    BY <2>3, <2>4
<1>4. \A i, j \in S : Cardinality(below(i)) = Cardinality(below(j)) => i = j
  <2> TAKE i \in S, j \in S
  <2>1. i < j \/ j < i \/ i = j
    OBVIOUS
  <2>2. Cardinality(below(i)) \in Nat /\ Cardinality(below(j)) \in Nat
    BY <1>2
  <2> HIDE DEF below
  <2> QED
    BY <1>3, <2>1, <2>2
<1> HIDE DEF below
<1>5. \A i \in S : rank[i] \in 1..n /\ rank[i] = Cardinality(below(i)) + 1
  BY <1>1, <1>2
<1>6. rank \in Injection(S, 1..n)
  <2>1. rank \in [S -> 1..n]
    BY <1>5
  <2>2. \A i, j \in S : rank[i] = rank[j] => i = j
    BY <1>2, <1>4, <1>5
  <2> HIDE DEF rank
  <2> QED
    BY <2>1, <2>2 DEF Injection, IsInjective
<1> HIDE DEF rank
<1>7. IsFiniteSet(1..n) /\ Cardinality(1..n) = n
  BY <1>1, FS_Interval
<1>8. rank \in Surjection(S, 1..n)
  BY <1>6, <1>7, FS_Injection
<1>9. \A k \in 1..n : \E i \in S : rank[i] = k
  BY <1>8 DEF Surjection
<1>10. ASSUME NEW k \in 1..n
       PROVE  At(k) \in S /\ Cardinality(below(At(k))) = k - 1
  <2>1. PICK i \in S : rank[i] = k
    BY <1>9
  <2>2. Cardinality(below(i)) = k - 1
    BY <1>2, <1>5, <2>1
  <2> QED
    BY <2>2
<1>11. Ascending(S) = [k \in 1..n |-> At(k)]
  BY DEF Ascending, Ordered, below
<1> HIDE DEF At
<1>12. Ascending(S) \in [1..n -> S] /\ \A k \in 1..n : Ascending(S)[k] = At(k)
  BY <1>10, <1>11
<1>13. ASSUME NEW j \in 1..n, NEW k \in 1..n, j < k PROVE At(j) < At(k)
  <2>1. At(j) \in S /\ At(k) \in S /\ At(j) \in Nat /\ At(k) \in Nat
    BY <1>10
  <2>2. At(j) < At(k) \/ At(k) < At(j) \/ At(j) = At(k)
    BY <2>1
  <2>3. Cardinality(below(At(j))) < Cardinality(below(At(k)))
    BY <1>10, <1>13
  <2>4. Cardinality(below(At(j))) \in Nat /\ Cardinality(below(At(k))) \in Nat
    BY <1>2, <2>1
  <2>5. At(k) < At(j) => Cardinality(below(At(k))) < Cardinality(below(At(j)))
    BY <1>3, <2>1
  <2>6. At(j) # At(k)
    <3>1. At(j) = At(k) => Cardinality(below(At(j))) = Cardinality(below(At(k)))
      OBVIOUS
    <3> QED
      BY <2>3, <2>4, <3>1
  <2>7. ~(At(k) < At(j))
    BY <2>3, <2>4, <2>5
  <2> QED
    BY <2>2, <2>6, <2>7
<1>14. ASSUME NEW i \in S PROVE \E k \in 1..n : At(k) = i
  <2>1. PICK k \in 1..n : rank[i] = k
    BY <1>5
  <2>2. Cardinality(below(i)) = k - 1
    BY <1>2, <1>5, <2>1
  <2>3. Cardinality(below(At(k))) = k - 1 /\ At(k) \in S
    BY <1>10
  <2>4. At(k) = i
    BY <1>4, <2>2, <2>3
  <2> QED
    BY <2>4
<1> QED
  BY <1>1, <1>12, <1>13, <1>14

\* The same, of positions in a sequence.
Lists(a, S, n) ==
  /\ IsFiniteSet(S) /\ n = Cardinality(S) /\ n \in Nat
  /\ a \in [1..n -> S] /\ a \in Seq(S) /\ Len(a) = n /\ DOMAIN a = 1..n
  /\ \A j, k \in 1..n : j < k => a[j] < a[k]
  /\ \A j, k \in 1..n : a[j] = a[k] => j = k
  /\ \A i \in S : \E k \in 1..n : a[k] = i

\* Ascending lists the positions it is given.
LEMMA AscendingPositions ==
  ASSUME NEW m \in Nat, NEW S \in SUBSET (1..m), NEW n, n = Cardinality(S)
  PROVE  Lists(Ascending(S), S, n)
<1>1. IsFiniteSet(S) /\ S \in SUBSET Nat
  <2>1. IsFiniteSet(1..m)
    BY FS_Interval
  <2>2. IsFiniteSet(S)
    BY <2>1, FS_Subset
  <2>3. S \in SUBSET Nat
    OBVIOUS
  <2> QED
    BY <2>2, <2>3
<1>2. PICK a : a = Ascending(S)
  OBVIOUS
<1>3. /\ n \in Nat /\ a \in [1..n -> S]
      /\ \A j, k \in 1..n : j < k => a[j] < a[k]
      /\ \A i \in S : \E k \in 1..n : a[k] = i
  BY <1>1, <1>2, AscendingIs
<1>4. a \in Seq(S) /\ Len(a) = n /\ DOMAIN a = 1..n
  BY <1>3
<1>5. ASSUME NEW j \in 1..n, NEW k \in 1..n, a[j] = a[k] PROVE j = k
  <2>1. a[j] \in Nat /\ a[k] \in Nat
    BY <1>1, <1>3
  <2>2. ~(j < k) /\ ~(k < j)
    BY <1>3, <1>5, <2>1
  <2> QED
    BY <1>3, <2>2
<1>6. Lists(a, S, n)
  BY <1>1, <1>3, <1>4, <1>5 DEF Lists
<1> QED
  BY <1>2, <1>6

\* A note is a part.
LEMMA NoteIs ==
  ASSUME NEW kind \in PartNames, NEW i \in Nat, NEW n \in Nat
  PROVE  /\ Note(kind, i, n) \in Part /\ Note(kind, i, n).part = kind
         /\ Note(kind, i, n).at = i /\ Note(kind, i, n).count = n
<1>1. Note(kind, i, n).part = kind /\ Note(kind, i, n).at = i /\ Note(kind, i, n).count = n
  BY DEF Note
<1>2. Note(kind, i, n) \in Part
  BY DEF Note, Part
<1> QED
  BY <1>1, <1>2

\* A shown line is a part.
LEMMA ShowIs ==
  ASSUME NEW i \in Nat
  PROVE  Show(i) \in Part /\ Show(i).part = "line" /\ Show(i).at = i /\ Show(i).count = 1
<1>1. PICK kind \in PartNames : kind = "line"
  BY DEF PartNames
<1>2. Show(i) = Note(kind, i, 1)
  BY <1>1 DEF Show, Note
<1> QED
  BY <1>1, <1>2, NoteIs

\* The lines that are not blank are lines.
LEMMA NonBlankIs ==
  ASSUME NEW X, NEW lines \in Seq(X)
  PROVE  NonBlank(lines) \in Seq(X)
<1> DEFINE S == {i \in DOMAIN lines : lines[i].mark # "blank"}
<1>1. PICK m \in Nat : m = Len(lines) /\ DOMAIN lines = 1..m
  OBVIOUS
<1>2. S \in SUBSET (1..m)
  BY <1>1
<1>3. NonBlank(lines) = [k \in DOMAIN Ascending(S) |-> lines[Ascending(S)[k]]]
  BY DEF NonBlank
<1> HIDE DEF S
<1>4. PICK n, a : n = Cardinality(S) /\ a = Ascending(S)
  OBVIOUS
<1>5. Lists(a, S, n)
  BY <1>1, <1>2, <1>4, AscendingPositions
<1>6. n \in Nat /\ a \in [1..n -> S] /\ DOMAIN a = 1..n
  BY <1>5 DEF Lists
<1>7. \A k \in 1..n : a[k] \in 1..m /\ lines[a[k]] \in X
  <2> TAKE k \in 1..n
  <2>1. a[k] \in S
    BY <1>6
  <2>2. a[k] \in 1..m
    BY <1>2, <2>1
  <2>3. \A i \in 1..m : lines[i] \in X
    BY <1>1
  <2> QED
    BY <2>2, <2>3
<1>8. [k \in 1..n |-> lines[a[k]]] \in Seq(X)
  BY <1>6, <1>7
<1> QED
  BY <1>3, <1>4, <1>6, <1>8

\* The lines f names, shown one after the other.
Listed(s, f, n) ==
  /\ s \in Seq(Part) /\ ShownIn(s) = {f[j] : j \in 1..n}
  /\ IsFiniteSet(ShownIn(s)) /\ Cardinality(ShownIn(s)) = n
  /\ \A K : CountAbout(s, K, Nat) = IF "line" \in K THEN n ELSE 0

\* Each position shown counts for one.
LEMMA ShowsListed ==
  ASSUME NEW n \in Nat, NEW f \in [1..n -> Nat], \A j, k \in 1..n : f[j] = f[k] => j = k
  PROVE  Listed([j \in 1..n |-> Show(f[j])], f, n)
<1>1. PICK s : s = [j \in 1..n |-> Show(f[j])]
  OBVIOUS
<1>2. \A j \in 1..n : s[j] \in Part /\ s[j].part = "line" /\ s[j].at = f[j] /\ s[j].count = 1
  <2> TAKE j \in 1..n
  <2>1. PICK i \in Nat : i = f[j]
    OBVIOUS
  <2>2. Show(i) \in Part /\ Show(i).part = "line" /\ Show(i).at = i /\ Show(i).count = 1
    BY ShowIs
  <2> QED
    BY <1>1, <2>1, <2>2
<1>3. DOMAIN s = 1..n /\ s \in Seq(Part) /\ Len(s) = n
  BY <1>1, <1>2
<1>4. ShownIn(s) = {f[j] : j \in 1..n}
  BY <1>2, <1>3 DEF ShownIn
<1>5. IsFiniteSet(ShownIn(s)) /\ Cardinality(ShownIn(s)) = n
  <2> DEFINE T == {f[j] : j \in 1..n}
  <2>1. f \in Bijection(1..n, T)
    BY DEF Bijection, Injection, Surjection, IsInjective
  <2>2. ExistsBijection(1..n, T)
    BY <2>1 DEF ExistsBijection
  <2>3. IsFiniteSet(1..n) /\ Cardinality(1..n) = n
    BY FS_Interval
  <2> HIDE DEF T
  <2>4. IsFiniteSet(T) /\ Cardinality(T) = n
    BY <2>2, <2>3, FS_Bijection
  <2> QED
    BY <1>4, <2>4 DEF T
<1>6. ASSUME NEW K PROVE CountAbout(s, K, Nat) = IF "line" \in K THEN n ELSE 0
  <2>1. CASE "line" \notin K
    <3>1. \A k \in DOMAIN s : ~(s[k].part \in K /\ s[k].at \in Nat)
      BY <1>2, <1>3, <2>1
    <3> QED
      BY <1>3, <2>1, <3>1, NothingCounted
  <2>2. CASE "line" \in K
    <3> DEFINE o == [k \in 0..n |-> k]
    <3>1. \A k \in 1..n : Weights(s, K, Nat)[k] = 1
      BY <1>2, <1>3, <2>2 DEF Weights
    <3>2. PICK w : w = Weights(s, K, Nat)
      OBVIOUS
    <3>3. w \in Seq(Nat) /\ Len(w) = n /\ CountAbout(s, K, Nat) = Total(w)
      BY <1>3, <3>2, CountIs
    <3>4. o \in [0..Len(w) -> Nat] /\ SumsOf(o, w) /\ o[n] = n
      <4>1. o \in [0..n -> Nat] /\ o[0] = 0 /\ o[n] = n
        OBVIOUS
      <4>2. \A k \in 1..n : o[k] = o[k - 1] + 1
        OBVIOUS
      <4>3. \A k \in 1..n : w[k] = 1
        BY <3>1, <3>2
      <4> HIDE DEF o
      <4> QED
        BY <3>3, <4>1, <4>2, <4>3 DEF SumsOf
    <3> HIDE DEF o
    <3>5. Total(w) = o[Len(w)]
      BY <3>3, <3>4, TotalIs
    <3> QED
      BY <2>2, <3>3, <3>4, <3>5
  <2> QED
    BY <2>1, <2>2
<1>7. Listed(s, f, n)
  BY <1>3, <1>4, <1>5, <1>6 DEF Listed
<1> QED
  BY <1>1, <1>7

\* One note, if there is something to tell.
LEMMA ToldIs ==
  ASSUME NEW kind, NEW i \in Nat, NEW S, IsFiniteSet(S), S # {} => kind \in PartNames /\ kind # "line"
  PROVE  /\ Told(kind, i, S) \in Seq(Part) /\ ShownIn(Told(kind, i, S)) = {}
         /\ \A K : CountAbout(Told(kind, i, S), K, Nat) = IF kind \in K THEN Cardinality(S) ELSE 0
<1>1. CASE S = {}
  <2>1. Told(kind, i, S) = <<>> /\ Cardinality(S) = 0
    BY <1>1, FS_EmptySet DEF Told
  <2> QED
    BY <2>1, CountOfNone
<1>2. CASE S # {}
  <2>1. PICK p : p = Note(kind, i, Cardinality(S))
    OBVIOUS
  <2>2. p \in Part /\ p.part = kind /\ p.at = i /\ p.count = Cardinality(S)
    <3>1. kind \in PartNames /\ Cardinality(S) \in Nat
      BY <1>2, FS_CardinalityType
    <3> QED
      BY <2>1, <3>1, NoteIs
  <2>3. Told(kind, i, S) = <<p>>
    BY <1>2, <2>1 DEF Told
  <2>4. <<p>> \in Seq(Part) /\ ShownIn(<<p>>) = {}
    BY <1>2, <2>2, CountOfOne
  <2>5. \A K : CountAbout(<<p>>, K, Nat) = IF kind \in K THEN Cardinality(S) ELSE 0
    BY <2>2, CountOfOne
  <2> QED
    BY <2>3, <2>4, <2>5
<1> QED
  BY <1>1, <1>2

\* A function on 1..n is a sequence.
LEMMA IsASequence ==
  ASSUME NEW R, NEW n \in Nat, NEW s \in [1..n -> R]
  PROVE  s \in Seq(R)
OBVIOUS

Agree(u, s, n) == \A k \in 1..n : u[k] = s[k]
\* The first few of a sequence.
LEMMA FirstOfIs ==
  ASSUME NEW X, NEW s \in Seq(X), NEW most \in Nat,
         NEW n, n = IF most < Len(s) THEN most ELSE Len(s)
  PROVE  /\ n \in Nat /\ n <= Len(s) /\ FirstOf(s, most) \in Seq(X)
         /\ Len(FirstOf(s, most)) = n /\ DOMAIN FirstOf(s, most) = 1..n
         /\ Agree(FirstOf(s, most), s, n)
<1>1. n \in Nat /\ n <= Len(s) /\ FirstOf(s, most) = SubSeq(s, 1, n)
  BY DEF FirstOf
<1>2. PICK t : t = SubSeq(s, 1, n)
  OBVIOUS
<1>3. t \in Seq(X) /\ Len(t) = n /\ \A k \in 1..n : t[k] = s[k]
  <2>1. 1 <= n + 1 /\ n <= Len(s) /\ 1 \in 1 .. Len(s) + 1 /\ n \in 1 - 1 .. Len(s)
    BY <1>1
  <2>2. /\ SubSeq(s, 1, n) \in Seq(X)
        /\ Len(SubSeq(s, 1, n)) = IF 1 <= n THEN n - 1 + 1 ELSE 0
        /\ \A k \in 1 .. n - 1 + 1 : SubSeq(s, 1, n)[k] = s[1 + k - 1]
    BY <1>1, <2>1, SubSeqProperties
  <2>3. \A k \in 1..n : 1 + k - 1 = k /\ k \in 1 .. n - 1 + 1
    BY <1>1
  <2> QED
    BY <1>1, <1>2, <2>2, <2>3
<1> QED
  BY <1>1, <1>2, <1>3 DEF Agree

\* One after the other.
Joins(u, s, t) ==
  /\ u \in Seq(Part) /\ ShownIn(u) = ShownIn(s) \cup ShownIn(t)
  /\ \A K, A : CountAbout(u, K, A) = CountAbout(s, K, A) + CountAbout(t, K, A)

\* Concatenation joins.
LEMMA Joined ==
  ASSUME NEW s \in Seq(Part), NEW t \in Seq(Part)
  PROVE  Joins(s \o t, s, t)
<1>1. PICK u : u = s \o t
  OBVIOUS
<1>2. u \in Seq(Part) /\ ShownIn(u) = ShownIn(s) \cup ShownIn(t)
  BY <1>1, CountConcat
<1>3. ASSUME NEW K, NEW A PROVE CountAbout(u, K, A) = CountAbout(s, K, A) + CountAbout(t, K, A)
  BY <1>1, CountConcat
<1> QED
  BY <1>1, <1>2, <1>3 DEF Joins

\* Parts that count for nothing but what is in K.
Silent(s, kinds) ==
  /\ s \in Seq(Part) /\ ShownIn(s) = {}
  /\ \A K, A : K \cap kinds = {} => CountAbout(s, K, A) = 0

\* Notes without a number.
LEMMA NotesCount ==
  ASSUME NEW n \in Nat, NEW f \in [1..n -> Nat], NEW kind \in PartNames, kind # "line",
         NEW s, s = [k \in 1..n |-> Note(kind, f[k], 0)]
  PROVE  Silent(s, {kind})
<1>1. \A k \in 1..n : s[k] \in Part /\ s[k].part = kind
  BY NoteIs
<1>2. DOMAIN s = 1..n /\ s \in Seq(Part)
  BY <1>1
<1>3. ShownIn(s) = {}
  BY <1>1, <1>2, NothingShown
<1>4. ASSUME NEW K, NEW A, K \cap {kind} = {} PROVE CountAbout(s, K, A) = 0
  <2>1. \A k \in DOMAIN s : ~(s[k].part \in K /\ s[k].at \in A)
    BY <1>1, <1>2, <1>4
  <2> QED
    BY <1>2, <2>1, NothingCounted
<1> QED
  BY <1>2, <1>3, <1>4 DEF Silent

\* One note.
LEMMA NoteCounts ==
  ASSUME NEW kind \in PartNames, kind # "line", NEW i \in Nat, NEW n \in Nat
  PROVE  /\ <<Note(kind, i, n)>> \in Seq(Part) /\ ShownIn(<<Note(kind, i, n)>>) = {}
         /\ \A K, A : CountAbout(<<Note(kind, i, n)>>, K, A) = IF kind \in K /\ i \in A THEN n ELSE 0
<1>1. PICK p \in Part : p = Note(kind, i, n) /\ p.part = kind /\ p.at = i /\ p.count = n
  BY NoteIs
<1>2. <<p>> \in Seq(Part) /\ ShownIn(<<p>>) = {}
  BY <1>1, CountOfOne
<1>3. \A K, A : CountAbout(<<p>>, K, A) = IF kind \in K /\ i \in A THEN n ELSE 0
  <2> TAKE K, A
  <2>1. CountAbout(<<p>>, K, A) = IF p.part \in K /\ p.at \in A THEN p.count ELSE 0
    BY CountOfOne
  <2> QED
    BY <1>1, <2>1
<1> QED
  BY <1>1, <1>2, <1>3

\* The marker counts for nothing but itself.
LEMMA MarkerCounts == Silent(<<Marker>>, {"marker"})
<1>1. PICK kind \in PartNames : kind = "marker" /\ kind # "line"
  BY DEF PartNames
<1>2. /\ <<Note(kind, 0, 0)>> \in Seq(Part) /\ ShownIn(<<Note(kind, 0, 0)>>) = {}
      /\ \A K, A : CountAbout(<<Note(kind, 0, 0)>>, K, A) = IF kind \in K /\ 0 \in A THEN 0 ELSE 0
  BY <1>1, NoteCounts
<1> QED
  BY <1>1, <1>2 DEF Marker, Silent

-----------------------------------------------------------------------------
\* The parts that quote no failure.
NotSevere == {p \in Part : p.part # "severe"}

\* Lines with one template.
LEMMA GroupIs ==
  ASSUME NEW X, NEW lines \in Seq(X), NEW n, n = Len(lines), NEW i \in 1..n,
         NEW S, S = {j \in 1..n : Templatize(lines[j]) = Templatize(lines[i])},
         NEW m, m = Cardinality(S)
  PROVE  /\ n \in Nat /\ i \in S /\ S \in SUBSET (1..n) /\ IsFiniteSet(S)
         /\ GroupOf(lines, i) = Ascending(S) /\ GroupOf(lines, i) \in Seq(S)
         /\ Len(GroupOf(lines, i)) = m /\ m \in Nat /\ 1 \in 1..m
         /\ GroupOf(lines, i)[1] \in S
<1>1. n \in Nat /\ DOMAIN lines = 1..n
  OBVIOUS
<1>2. i \in S /\ S \in SUBSET (1..n)
  OBVIOUS
<1>3. GroupOf(lines, i) = Ascending(S)
  BY <1>1 DEF GroupOf
<1>4. PICK a : a = Ascending(S)
  OBVIOUS
<1>5. IsFiniteSet(S) /\ m \in Nat /\ a \in [1..m -> S] /\ a \in Seq(S) /\ Len(a) = m
  <2>1. Lists(a, S, m)
    BY <1>1, <1>2, <1>4, AscendingPositions
  <2> QED
    BY <2>1 DEF Lists
<1>6. m # 0
  BY <1>2, <1>5, FS_EmptySet
<1>7. 1 \in 1..m
  BY <1>5, <1>6
<1> QED
  BY <1>1, <1>2, <1>3, <1>4, <1>5, <1>7

LinesLike(lines, i) == {j \in 1..Len(lines) : Templatize(lines[j]) = Templatize(lines[i])}
\* Parts that count the lines of S as a group, and show none of them.
StandsFor(s, S) ==
  /\ s \in Seq(Part) /\ ShownIn(s) = {} /\ s \in Seq(NotSevere)
  /\ CountAbout(s, {"group"}, Nat) = Cardinality(S) /\ CountAbout(s, {"line"}, Nat) = 0

\* The parts of a group count its lines, and show none of them.
LEMMA GroupCounts ==
  ASSUME NEW X, NEW lines \in Seq(X), NEW i \in 1..Len(lines),
         NEW S, S = LinesLike(lines, i)
  PROVE  StandsFor(GroupParts(lines, i), S)
<1>1. PICK n \in Nat : n = Len(lines)
  OBVIOUS
<1>2. PICK m, group : m = Cardinality(S) /\ group = GroupOf(lines, i)
  OBVIOUS
<1>3. /\ i \in Nat /\ S \in SUBSET (1..n) /\ group \in Seq(S) /\ Len(group) = m /\ m \in Nat
  <2>1. S = {j \in 1..n : Templatize(lines[j]) = Templatize(lines[i])} /\ i \in 1..n
    BY <1>1 DEF LinesLike
  <2> QED
    BY <1>1, <1>2, <2>1, GroupIs
<1>4. PICK first : first = FirstOf(group, ExamplesPerTemplate)
  OBVIOUS
<1>5. first \in Seq(S)
  BY <1>3, <1>4, LogCaps, FirstOfIs
<1> DEFINE E == {j \in ToSet(first) : lines[j].tokens # Templatize(lines[j])}
<1>6. E \in SUBSET (1..n)
  <2>1. ToSet(first) \subseteq S
    BY <1>5 DEF ToSet
  <2> QED
    BY <1>3, <2>1
<1> HIDE DEF E
<1>7. PICK q, examples : q = Cardinality(E) /\ examples = Ascending(E)
  OBVIOUS
<1>8. q \in Nat /\ examples \in [1..q -> E] /\ DOMAIN examples = 1..q
  <2>1. Lists(examples, E, q)
    BY <1>1, <1>6, <1>7, AscendingPositions
  <2> QED
    BY <2>1 DEF Lists
<1>9. examples \in [1..q -> Nat]
  <2>1. E \subseteq Nat
    BY <1>6
  <2> QED
    BY <1>8, <2>1
<1>10. PICK group_, example_, s : /\ group_ = "group" /\ example_ = "example"
                                   /\ s = [k \in 1..q |-> Note(example_, examples[k], 0)]
  OBVIOUS
<1>11. group_ \in PartNames /\ example_ \in PartNames /\ group_ # "line" /\ example_ # "line" /\ group_ # example_
  BY <1>10 DEF PartNames
<1>12. GroupParts(lines, i) = <<Note(group_, i, m)>> \o s
  BY <1>2, <1>3, <1>4, <1>7, <1>8, <1>10 DEF GroupParts, E
<1>13. Silent(s, {example_})
  BY <1>8, <1>9, <1>10, <1>11, NotesCount
<1>14. /\ s \in Seq(Part) /\ ShownIn(s) = {}
       /\ \A K, A : example_ \notin K => CountAbout(s, K, A) = 0
  BY <1>13 DEF Silent
<1>15. PICK t : t = <<Note(group_, i, m)>>
  OBVIOUS
<1>16. /\ t \in Seq(Part) /\ ShownIn(t) = {}
       /\ \A K, A : CountAbout(t, K, A) = IF group_ \in K /\ i \in A THEN m ELSE 0
  BY <1>3, <1>11, <1>15, NoteCounts
<1>17. t \o s \in Seq(Part) /\ ShownIn(t \o s) = ShownIn(t) \cup ShownIn(s)
       /\ \A K, A : CountAbout(t \o s, K, A) = CountAbout(t, K, A) + CountAbout(s, K, A)
  <2>1. Joins(t \o s, t, s)
    BY <1>14, <1>16, Joined
  <2> QED
    BY <2>1 DEF Joins
<1>18. CountAbout(t \o s, {"group"}, Nat) = m
  <2>1. CountAbout(t, {"group"}, Nat) = m /\ CountAbout(s, {"group"}, Nat) = 0
    BY <1>3, <1>10, <1>14, <1>16
  <2> QED
    BY <1>3, <1>17, <2>1
<1>19. CountAbout(t \o s, {"line"}, Nat) = 0
  <2>1. CountAbout(t, {"line"}, Nat) = 0 /\ CountAbout(s, {"line"}, Nat) = 0
    BY <1>11, <1>10, <1>14, <1>16
  <2> QED
    BY <1>17, <2>1
<1>20. t \o s \in Seq(NotSevere)
  <2>1. 0 \in Nat /\ group_ # "severe" /\ example_ # "severe"
    BY <1>10
  <2>2. t \in Seq(NotSevere)
    <3>1. Note(group_, i, m) \in NotSevere
      BY <1>3, <1>11, <2>1, NoteIs DEF NotSevere
    <3> QED
      BY <1>15, <3>1
  <2>3. s \in Seq(NotSevere)
    <3>1. \A k \in 1..q : s[k] \in NotSevere
      BY <1>9, <1>10, <1>11, <2>1, NoteIs DEF NotSevere
    <3>2. s = [k \in 1..q |-> s[k]]
      BY <1>10
    <3>3. s \in [1..q -> NotSevere]
      BY <3>1, <3>2
    <3>4. q \in Nat
      BY <1>8
    <3> QED
      BY <3>3, <3>4, IsASequence
  <2> QED
    BY <2>2, <2>3, ConcatProperties
<1> QED
  BY <1>2, <1>12, <1>14, <1>15, <1>16, <1>17, <1>18, <1>19, <1>20 DEF StandsFor

\* Parts with silent ones before or after them.
Same(u, s, kinds) ==
  /\ u \in Seq(Part) /\ ShownIn(u) = ShownIn(s)
  /\ \A K, A : K \cap kinds = {} => CountAbout(u, K, A) = CountAbout(s, K, A)

\* Silent parts change no other count.
LEMMA SilentBeside ==
  ASSUME NEW kinds, NEW s \in Seq(Part), NEW t, Silent(t, kinds)
  PROVE  /\ Same(s \o t, s, kinds) /\ s \o t \in Seq(Part)
         /\ Same(t \o s, s, kinds) /\ t \o s \in Seq(Part)
<1>1. t \in Seq(Part) /\ ShownIn(t) = {} /\ \A K, A : K \cap kinds = {} => CountAbout(t, K, A) = 0
  BY DEF Silent
<1>2. \A K, A : CountAbout(s, K, A) \in Nat
  BY CountIs
<1>3. Joins(s \o t, s, t) /\ Joins(t \o s, t, s)
  BY <1>1, Joined
<1>4. PICK u, v : u = s \o t /\ v = t \o s
  OBVIOUS
<1>5. Same(u, s, kinds)
  BY <1>1, <1>2, <1>3, <1>4 DEF Same, Joins
<1>6. Same(v, s, kinds)
  BY <1>1, <1>2, <1>3, <1>4 DEF Same, Joins
<1>7. u \in Seq(Part) /\ v \in Seq(Part)
  BY <1>5, <1>6 DEF Same
<1> QED
  BY <1>4, <1>5, <1>6, <1>7

\* A note of a silent kind is silent.
LEMMA SilentNote ==
  ASSUME NEW kinds, NEW kind \in PartNames, kind # "line", kind \in kinds, NEW i \in Nat, NEW n \in Nat
  PROVE  Silent(<<Note(kind, i, n)>>, kinds)
<1>1. PICK s : s = <<Note(kind, i, n)>>
  OBVIOUS
<1>2. /\ s \in Seq(Part) /\ ShownIn(s) = {}
      /\ \A K, A : CountAbout(s, K, A) = IF kind \in K /\ i \in A THEN n ELSE 0
  BY <1>1, NoteCounts
<1>3. Silent(s, kinds)
  BY <1>2 DEF Silent
<1> QED
  BY <1>1, <1>3

\* So is nothing.
LEMMA SilentNone == ASSUME NEW kinds PROVE Silent(<<>>, kinds)
<1>1. PICK s : s = <<>>
  OBVIOUS
<1>2. s \in Seq(Part) /\ ShownIn(s) = {} /\ \A K, A : CountAbout(s, K, A) = 0
  BY <1>1, CountOfNone
<1>3. Silent(s, kinds)
  BY <1>2 DEF Silent
<1> QED
  BY <1>1, <1>3

\* What counts for few kinds counts for no more than those.
LEMMA SilentMore ==
  ASSUME NEW s, NEW few, NEW kinds, few \subseteq kinds, Silent(s, few)
  PROVE  Silent(s, kinds)
<1>1. s \in Seq(Part) /\ ShownIn(s) = {} /\ \A K, A : K \cap few = {} => CountAbout(s, K, A) = 0
  BY DEF Silent
<1>2. \A K : K \cap kinds = {} => K \cap few = {}
  OBVIOUS
<1> QED
  BY <1>1, <1>2 DEF Silent

\* Counts that are the same stay the same along a chain.
LEMMA SameAgain ==
  ASSUME NEW kinds, NEW u, NEW v, NEW s, Same(u, v, kinds), Same(v, s, kinds)
  PROVE  Same(u, s, kinds)
BY DEF Same

\* Every line is in one of the groups.
LEMMA GroupsPartition ==
  ASSUME NEW X, NEW lines \in Seq(X), NEW n, n = Len(lines),
         NEW q, q = Len(Templates(lines)),
         NEW B, B = [k \in 1..q |-> {j \in 1..n : Templatize(lines[j]) = Templatize(lines[Templates(lines)[k]])}]
  PROVE  /\ n \in Nat /\ q \in Nat /\ DOMAIN Templates(lines) = 1..q
         /\ \A k \in 1..q : Templates(lines)[k] \in 1..n
         /\ Apart(B, q) /\ AllOf(B, q) = 1..n
<1> DEFINE F == {i \in 1..n : GroupOf(lines, i)[1] = i}
           G(i) == {j \in 1..n : Templatize(lines[j]) = Templatize(lines[i])}
<1>1. n \in Nat /\ DOMAIN lines = 1..n
  OBVIOUS
<1>2. Templates(lines) = Ascending(F)
  BY <1>1 DEF Templates
<1>3. F \in SUBSET (1..n)
  OBVIOUS
<1>4. \A i \in 1..n : GroupOf(lines, i) = Ascending(G(i)) /\ GroupOf(lines, i)[1] \in G(i)
  <2> TAKE i \in 1..n
  <2>1. PICK S : S = G(i)
    OBVIOUS
  <2>2. PICK m : m = Cardinality(S)
    OBVIOUS
  <2>3. GroupOf(lines, i) = Ascending(S) /\ GroupOf(lines, i)[1] \in S
    BY <2>1, <2>2, GroupIs
  <2> QED
    BY <2>1, <2>3
<1>5. \A i, j \in 1..n : Templatize(lines[i]) = Templatize(lines[j]) => G(i) = G(j)
  OBVIOUS
<1> HIDE DEF F
<1>6. PICK order, m : order = Templates(lines) /\ m = Cardinality(F)
  OBVIOUS
<1>7. Lists(order, F, m)
  BY <1>1, <1>2, <1>3, <1>6, AscendingPositions
<1>8. m = q /\ q \in Nat /\ DOMAIN order = 1..q /\ order \in [1..q -> F]
  BY <1>6, <1>7 DEF Lists
<1>9. \A k \in 1..q : order[k] \in F /\ order[k] \in 1..n /\ B[k] = G(order[k])
  BY <1>3, <1>6, <1>8
<1>10. Apart(B, q)
  <2> SUFFICES ASSUME NEW k \in 1..q, NEW l \in 1..q, k # l, NEW j \in B[k] \cap B[l] PROVE FALSE
    BY DEF Apart
  <2>1. Templatize(lines[order[k]]) = Templatize(lines[order[l]])
    BY <1>9
  <2>2. G(order[k]) = G(order[l])
    BY <1>5, <1>9, <2>1
  <2> HIDE DEF G
  <2>3. GroupOf(lines, order[k])[1] = GroupOf(lines, order[l])[1]
    BY <1>4, <1>9, <2>2
  <2>4. order[k] = order[l]
    BY <1>9, <2>3 DEF F
  <2> QED
    BY <1>7, <1>8, <2>4 DEF Lists
<1>11. AllOf(B, q) = 1..n
  <2>1. AllOf(B, q) \subseteq 1..n
    BY <1>9 DEF AllOf
  <2>2. ASSUME NEW j \in 1..n PROVE j \in AllOf(B, q)
    <3>1. PICK f : f = GroupOf(lines, j)[1]
      OBVIOUS
    <3>2. f \in G(j)
      BY <1>4, <3>1
    <3>3. f \in 1..n /\ Templatize(lines[f]) = Templatize(lines[j])
      BY <3>2
    <3>4. G(f) = G(j)
      BY <1>5, <3>3
    <3>5. GroupOf(lines, f)[1] = f
      <4> HIDE DEF G
      <4>1. GroupOf(lines, f) = GroupOf(lines, j)
        BY <1>4, <3>3, <3>4
      <4> QED
        BY <3>1, <4>1
    <3>6. f \in F
      BY <3>3, <3>5 DEF F
    <3>7. PICK k \in 1..q : order[k] = f
      BY <1>7, <1>8, <3>6 DEF Lists
    <3>8. j \in B[k]
      BY <1>9, <3>3, <3>7
    <3> QED
      BY <3>8 DEF AllOf
  <2> QED
    BY <2>1, <2>2
<1> QED
  BY <1>1, <1>6, <1>8, <1>9, <1>10, <1>11

\* A log's groups count its lines, and show none of them.
LEMMA GroupsCount ==
  ASSUME NEW X, NEW lines \in Seq(X),
         NEW F, F = FlattenSeq([k \in DOMAIN Templates(lines) |-> GroupParts(lines, Templates(lines)[k])])
  PROVE  /\ F \in Seq(Part) /\ ShownIn(F) = {} /\ F \in Seq(NotSevere)
         /\ CountAbout(F, {"group"}, Nat) = Len(lines) /\ CountAbout(F, {"line"}, Nat) = 0
<1>1. PICK n, order, q : n = Len(lines) /\ order = Templates(lines) /\ q = Len(order)
  OBVIOUS
<1> DEFINE B == [k \in 1..q |-> {j \in 1..n : Templatize(lines[j]) = Templatize(lines[order[k]])}]
           ss == [k \in 1..q |-> GroupParts(lines, order[k])]
           Z == [k \in 1..q |-> {}]
<1>2. PICK b : b = B
  OBVIOUS
<1>3. /\ n \in Nat /\ q \in Nat /\ DOMAIN order = 1..q /\ \A k \in 1..q : order[k] \in 1..n
      /\ Apart(b, q) /\ AllOf(b, q) = 1..n
  BY <1>1, <1>2, GroupsPartition
<1>4. ASSUME NEW k \in 1..q
      PROVE  /\ ss[k] \in Seq(Part) /\ ShownIn(ss[k]) = {} /\ IsFiniteSet(b[k])
             /\ CountAbout(ss[k], {"group"}, Nat) = Cardinality(b[k])
             /\ CountAbout(ss[k], {"line"}, Nat) = 0 /\ ss[k] \in Seq(NotSevere)
  <2>1. PICK i, S : i = order[k] /\ S = b[k]
    OBVIOUS
  <2>2. i \in 1..n /\ S = {j \in 1..n : Templatize(lines[j]) = Templatize(lines[i])}
    BY <1>2, <1>3, <2>1
  <2>3. /\ GroupParts(lines, i) \in Seq(Part) /\ ShownIn(GroupParts(lines, i)) = {}
        /\ CountAbout(GroupParts(lines, i), {"group"}, Nat) = Cardinality(S)
        /\ CountAbout(GroupParts(lines, i), {"line"}, Nat) = 0
        /\ GroupParts(lines, i) \in Seq(NotSevere)
    <3>1. S = LinesLike(lines, i) /\ i \in 1..Len(lines)
      BY <1>1, <2>2 DEF LinesLike
    <3>2. StandsFor(GroupParts(lines, i), S)
      BY <3>1, GroupCounts
    <3> QED
      BY <3>2 DEF StandsFor
  <2>4. IsFiniteSet(S)
    <3>1. PICK m : m = Cardinality(S)
      OBVIOUS
    <3> QED
      BY <1>1, <2>2, <3>1, GroupIs
  <2> QED
    BY <2>1, <2>3, <2>4
<1>5. F = FlattenSeq(ss)
  BY <1>1, <1>3
<1>6. PICK s : s = ss
  OBVIOUS
<1>7. s \in Seq(Seq(Part)) /\ Len(s) = q /\ \A k \in 1..q : s[k] = ss[k]
  BY <1>3, <1>4, <1>6
<1> HIDE DEF ss, B
<1>8. CountAbout(F, {"group"}, Nat) = n
  <2>1. Weighs(s, {"group"}, Nat, b) /\ Apart(b, Len(s))
    BY <1>3, <1>4, <1>7 DEF Weighs
  <2>2. CountAbout(FlattenSeq(s), {"group"}, Nat) = Cardinality(AllOf(b, Len(s)))
    BY <1>7, <2>1, PiecesCount
  <2>3. Cardinality(1..n) = n
    BY <1>3, FS_Interval
  <2> QED
    BY <1>3, <1>5, <1>6, <1>7, <2>2, <2>3
<1>9. CountAbout(F, {"line"}, Nat) = 0
  <2>1. PICK z : z = Z
    OBVIOUS
  <2>2. Apart(z, q) /\ AllOf(z, q) = {} /\ \A i \in 1..q : z[i] = {}
    BY <2>1 DEF Apart, AllOf
  <2>3. Weighs(s, {"line"}, Nat, z) /\ Apart(z, Len(s))
    BY <1>4, <1>7, <2>2, FS_EmptySet DEF Weighs
  <2>4. CountAbout(FlattenSeq(s), {"line"}, Nat) = Cardinality(AllOf(z, Len(s)))
    BY <1>7, <2>3, PiecesCount
  <2> QED
    BY <1>5, <1>6, <1>7, <2>2, <2>4, FS_EmptySet
<1>10. F \in Seq(Part) /\ ShownIn(F) = {}
  <2>1. FlattenSeq(s) \in Seq(Part) /\ ShownIn(FlattenSeq(s)) = UNION {ShownIn(s[i]) : i \in 1..Len(s)}
    BY <1>7, PiecesShow
  <2>2. \A i \in 1..Len(s) : ShownIn(s[i]) = {}
    BY <1>4, <1>7
  <2>3. ShownIn(FlattenSeq(s)) = {}
    BY <2>1, <2>2
  <2> QED
    BY <1>5, <1>6, <2>1, <2>3
<1>11. F \in Seq(NotSevere)
  <2>1. PICK Q : Q = NotSevere
    OBVIOUS
  <2>2. s = [k \in 1..q |-> s[k]] /\ \A k \in 1..q : s[k] \in Seq(Q)
    BY <1>4, <1>7, <2>1
  <2>3. s \in Seq(Seq(Q))
    BY <1>3, <2>2
  <2>4. PICK o \in [0..Len(s) -> Seq(Q)] : Pieces(o, s) /\ FlattenSeq(s) = o[Len(s)]
    BY <2>3, FlattenIs
  <2>5. Len(s) \in 0..Len(s)
    BY <1>3, <1>7
  <2> QED
    BY <1>5, <1>6, <2>1, <2>4, <2>5
<1> QED
  BY <1>1, <1>8, <1>9, <1>10, <1>11

\* The failures quoted are positions.
LEMMA SevereIs ==
  ASSUME NEW X, NEW lines \in Seq(X), NEW n, n = Len(SeverityLines(lines))
  PROVE  /\ n \in Nat /\ SeverityLines(lines) \in [1..n -> Nat]
         /\ LET S == {i \in DOMAIN lines : HasSeverity(lines[i])}
            IN  IF Cardinality(S) <= MaxVerbatimSeverity
                THEN S = {SeverityLines(lines)[k] : k \in 1..n} ELSE n = MaxVerbatimSeverity
<1> DEFINE S == {i \in DOMAIN lines : HasSeverity(lines[i])}
<1>1. PICK m \in Nat : m = Len(lines) /\ DOMAIN lines = 1..m
  OBVIOUS
<1>2. S \in SUBSET (1..m)
  BY <1>1
<1>3. SeverityLines(lines) = FirstOf(Ascending(S), MaxVerbatimSeverity)
  BY DEF SeverityLines
<1> HIDE DEF S
<1>4. PICK a, q : a = Ascending(S) /\ q = Cardinality(S)
  OBVIOUS
<1>5. Lists(a, S, q)
  BY <1>1, <1>2, <1>4, AscendingPositions
<1>6. a \in Seq(S)
  BY <1>5 DEF Lists
<1>7. S \subseteq Nat
  BY <1>2
<1>8. a \in Seq(Nat)
  <2>1. q \in Nat /\ a \in [1..q -> S]
    BY <1>5 DEF Lists
  <2>2. a \in [1..q -> Nat]
    BY <1>7, <2>1
  <2> QED
    BY <2>1, <2>2
<1>9. PICK s : s = FirstOf(a, MaxVerbatimSeverity)
  OBVIOUS
<1>10. s \in Seq(Nat)
  BY <1>8, <1>9, LogCaps, FirstOfIs
<1>11. Len(s) \in Nat /\ s \in [1..Len(s) -> Nat]
  BY <1>10
<1>12. IF q <= MaxVerbatimSeverity THEN S = {s[k] : k \in 1..Len(s)} ELSE Len(s) = MaxVerbatimSeverity
  <2>1. q \in Nat /\ a \in [1..q -> S] /\ Len(a) = q /\ \A i \in S : \E k \in 1..q : a[k] = i
    BY <1>5 DEF Lists
  <2>2. PICK m1, most \in Nat : /\ most = MaxVerbatimSeverity
                               /\ m1 = IF MaxVerbatimSeverity < Len(a) THEN MaxVerbatimSeverity ELSE Len(a)
    BY LogCaps
  <2>3. Len(s) = m1 /\ \A k \in 1..m1 : s[k] = a[k]
    <3>1. m1 = IF most < Len(a) THEN most ELSE Len(a)
      BY <2>2
    <3>2. Len(FirstOf(a, most)) = m1 /\ Agree(FirstOf(a, most), a, m1)
      BY <1>8, <3>1, FirstOfIs
    <3> QED
      BY <1>9, <2>2, <3>2 DEF Agree
  <2>4. CASE q <= MaxVerbatimSeverity
    <3>1. m1 = q
      BY <2>1, <2>2, <2>4, LogCaps
    <3>2. \A k \in 1..q : s[k] = a[k] /\ a[k] \in S
      BY <2>1, <2>3, <3>1
    <3> QED
      BY <2>1, <2>3, <2>4, <3>1, <3>2
  <2>5. CASE ~(q <= MaxVerbatimSeverity)
    BY <2>1, <2>2, <2>3, <2>5, LogCaps
  <2> QED
    BY <2>4, <2>5
<1> QED
  BY <1>3, <1>4, <1>9, <1>11, <1>12 DEF S

\* The failures a summary of a log quotes.
Quotes(parts, f, n) ==
  \E p \in Nat : /\ {k \in DOMAIN parts : parts[k].part = "severe"} = p + 1 .. p + n
                 /\ \A k \in 1..n : parts[p + k].at = f[k]

\* Notes of failures between parts that are none.
LEMMA Quoted ==
  ASSUME NEW a \in Seq(NotSevere), NEW b \in Seq(NotSevere), NEW n \in Nat, NEW f \in [1..n -> Nat],
         NEW e, e = [k \in 1..n |-> Note("severe", f[k], 0)]
  PROVE  Quotes(a \o e \o b, f, n)
<1>1. PICK kind \in PartNames : kind = "severe"
  BY DEF PartNames
<1>2. \A k \in 1..n : e[k] \in Part /\ e[k].part = "severe" /\ e[k].at = f[k]
  BY <1>1, NoteIs
<1>3. e \in Seq(Part) /\ Len(e) = n
  BY <1>2
<1>4. a \in Seq(Part) /\ b \in Seq(Part)
  BY DEF NotSevere
<1>5. PICK p \in Nat, q \in Nat : p = Len(a) /\ q = Len(b)
  OBVIOUS
<1>6. PICK d : d = a \o e
  OBVIOUS
<1>7. /\ d \in Seq(Part) /\ Len(d) = p + n
      /\ \A k \in 1 .. p + n : d[k] = IF k <= p THEN a[k] ELSE e[k - p]
  BY <1>3, <1>4, <1>5, <1>6, ConcatProperties
<1>8. PICK u : u = d \o b
  OBVIOUS
<1>9. /\ u \in Seq(Part) /\ Len(u) = p + n + q
      /\ \A k \in 1 .. p + n + q : u[k] = IF k <= p + n THEN d[k] ELSE b[k - (p + n)]
  <2>1. PICK l \in Nat : l = p + n
    BY <1>5
  <2>2. d \in Seq(Part) /\ b \in Seq(Part) /\ Len(d) = l /\ Len(b) = q
    BY <1>4, <1>5, <1>7, <2>1
  <2>3. /\ d \o b \in Seq(Part) /\ Len(d \o b) = l + q
        /\ \A k \in 1 .. l + q : (d \o b)[k] = IF k <= l THEN d[k] ELSE b[k - l]
    BY <2>2, ConcatProperties
  <2> QED
    BY <1>8, <2>1, <2>3
<1>10. DOMAIN u = 1 .. p + n + q
  BY <1>9
<1>11. \A k \in 1..n : p + k \in 1 .. p + n /\ u[p + k] = e[k]
  <2> TAKE k \in 1..n
  <2>1. p + k \in 1 .. p + n /\ p + k \in 1 .. p + n + q /\ ~(p + k <= p) /\ p + k - p = k /\ p + k <= p + n
    BY <1>5
  <2> QED
    BY <1>7, <1>9, <2>1
<1>12. ASSUME NEW k \in 1 .. p + n + q, k \notin p + 1 .. p + n
       PROVE  u[k].part # "severe"
  <2>1. CASE k <= p
    <3>1. k \in 1..p /\ k \in 1 .. p + n /\ k <= p + n
      BY <1>5, <2>1
    <3>2. u[k] = a[k] /\ a[k] \in NotSevere
      BY <1>5, <1>7, <1>9, <2>1, <3>1
    <3> QED
      BY <3>2 DEF NotSevere
  <2>2. CASE ~(k <= p)
    <3>1. ~(k <= p + n) /\ k - (p + n) \in 1..q
      BY <1>5, <1>12, <2>2
    <3>2. u[k] = b[k - (p + n)] /\ b[k - (p + n)] \in NotSevere
      BY <1>5, <1>9, <3>1
    <3> QED
      BY <3>2 DEF NotSevere
  <2> QED
    BY <2>1, <2>2
<1>13. ASSUME NEW k \in p + 1 .. p + n PROVE k \in 1 .. p + n + q /\ u[k].part = "severe"
  <2>1. PICK j \in 1..n : j = k - p /\ p + j = k
    <3>1. k - p \in 1..n /\ p + (k - p) = k
      BY <1>5
    <3> QED
      BY <3>1
  <2>2. k \in 1 .. p + n + q
    BY <1>5
  <2>3. u[k] = e[j] /\ e[j].part = "severe"
    BY <1>2, <1>11, <2>1
  <2> QED
    BY <2>2, <2>3
<1>14. {k \in DOMAIN u : u[k].part = "severe"} = p + 1 .. p + n
  BY <1>10, <1>12, <1>13
<1>15. \A k \in 1..n : u[p + k].at = f[k]
  BY <1>2, <1>11
<1> QED
  BY <1>6, <1>8, <1>14, <1>15 DEF Quotes

\* A summary of a log shows no line as it is and counts every one in a group.
LEMMA LogAccounts ==
  ASSUME NEW X, NEW c, c.lines \in Seq(X), NEW parts, parts = LogOffer(c).parts, parts # <<>>
  PROVE  /\ parts \in Seq(Part) /\ ShownIn(parts) = {} /\ CountAbout(parts, {"line"}, Nat) = 0
         /\ CountAbout(parts, {"group"}, Nat) = Len(NonBlank(c.lines))
         /\ LET severe == SeverityLines(NonBlank(c.lines)) IN Quotes(parts, severe, Len(severe))
<1>1. PICK lines \in Seq(X) : lines = NonBlank(c.lines)
  BY NonBlankIs
<1>2. PICK order, severe, body : /\ order = Templates(lines) /\ severe = SeverityLines(lines)
                                 /\ body = FlattenSeq([k \in DOMAIN order |-> GroupParts(lines, order[k])])
  OBVIOUS
<1>3. PICK kinds : kinds = {"header", "severities", "severe", "marker"}
  OBVIOUS
<1>4. PICK header, severities, severe_ : header = "header" /\ severities = "severities" /\ severe_ = "severe"
  OBVIOUS
<1>5. /\ {header, severities, severe_} \subseteq kinds /\ {header, severities, severe_} \subseteq PartNames
      /\ "marker" \in kinds /\ header # "line" /\ severities # "line" /\ severe_ # "line"
      /\ {"group"} \cap kinds = {} /\ {"line"} \cap kinds = {}
  BY <1>3, <1>4 DEF PartNames
<1>6. PICK h, m, e : /\ h = <<Note(header, 0, Len(lines))>>
                     /\ m = IF severe # <<>> THEN <<Note(severities, 0, Len(severe))>> ELSE <<>>
                     /\ e = [k \in DOMAIN severe |-> Note(severe_, severe[k], 0)]
  OBVIOUS
<1>7. parts = h \o body \o m \o e \o <<Marker>>
  BY <1>1, <1>2, <1>4, <1>6 DEF LogOffer, Declines, Offers
<1>8. PICK q \in Nat : q = Len(severe) /\ severe \in [1..q -> Nat]
  BY <1>2, SevereIs
<1>9. Silent(h, kinds)
  <2>1. Len(lines) \in Nat /\ 0 \in Nat
    OBVIOUS
  <2> QED
    BY <1>5, <1>6, <2>1, SilentNote
<1>10. Silent(m, kinds)
  <2>1. CASE severe # <<>>
    <3>1. m = <<Note(severities, 0, q)>>
      BY <1>6, <1>8, <2>1
    <3> QED
      BY <1>5, <3>1, SilentNote
  <2>2. CASE severe = <<>>
    BY <1>6, <2>2, SilentNone
  <2> QED
    BY <2>1, <2>2
<1>11. Silent(e, kinds)
  <2>1. e = [k \in 1..q |-> Note(severe_, severe[k], 0)]
    BY <1>6, <1>8
  <2>2. Silent(e, {severe_})
    BY <1>5, <1>8, <2>1, NotesCount
  <2> QED
    BY <1>5, <2>2, SilentMore
<1>12. Silent(<<Marker>>, kinds)
  BY <1>5, MarkerCounts, SilentMore
<1>13. /\ body \in Seq(Part) /\ ShownIn(body) = {}
       /\ CountAbout(body, {"group"}, Nat) = Len(lines) /\ CountAbout(body, {"line"}, Nat) = 0
       /\ body \in Seq(NotSevere)
  BY <1>2, GroupsCount
<1>14. Same(parts, body, kinds)
  <2>1. Same(h \o body, body, kinds) /\ h \o body \in Seq(Part)
    BY <1>9, <1>13, SilentBeside
  <2>2. PICK a \in Seq(Part) : a = h \o body
    BY <2>1
  <2>3. Same(a \o m, a, kinds) /\ a \o m \in Seq(Part)
    BY <1>10, SilentBeside
  <2>4. PICK b \in Seq(Part) : b = a \o m
    BY <2>3
  <2>5. Same(b \o e, b, kinds) /\ b \o e \in Seq(Part)
    BY <1>11, SilentBeside
  <2>6. PICK d \in Seq(Part) : d = b \o e
    BY <2>5
  <2>7. Same(d \o <<Marker>>, d, kinds)
    BY <1>12, SilentBeside
  <2>8. parts = d \o <<Marker>>
    BY <1>7, <2>2, <2>4, <2>6
  <2> QED
    BY <2>1, <2>2, <2>3, <2>4, <2>5, <2>6, <2>7, <2>8, SameAgain
<1>15. Quotes(parts, severe, q)
  <2>1. Len(lines) \in Nat /\ 0 \in Nat /\ header # "severe" /\ severities # "severe"
    BY <1>4
  <2>2. h \in Seq(NotSevere)
    <3>1. Note(header, 0, Len(lines)) \in NotSevere
      BY <1>5, <2>1, NoteIs DEF NotSevere
    <3> QED
      BY <1>6, <3>1
  <2>3. m \in Seq(NotSevere)
    <3>1. Note(severities, 0, q) \in NotSevere
      BY <1>5, <2>1, NoteIs DEF NotSevere
    <3> QED
      BY <1>6, <1>8, <3>1
  <2>4. <<Marker>> \in Seq(NotSevere)
    <3>1. PICK kind \in PartNames : kind = "marker"
      BY DEF PartNames
    <3>2. Note(kind, 0, 0) \in NotSevere
      BY <2>1, <3>1, NoteIs DEF NotSevere
    <3>3. PICK w : w = Note(kind, 0, 0)
      OBVIOUS
    <3> QED
      BY <3>1, <3>2, <3>3 DEF Marker
  <2>5. PICK a \in Seq(NotSevere) : a = h \o body \o m
    BY <1>13, <2>2, <2>3, ConcatProperties
  <2>6. e = [k \in 1..q |-> Note("severe", severe[k], 0)]
    BY <1>4, <1>6, <1>8
  <2>7. PICK mark \in Seq(NotSevere) : mark = <<Marker>>
    BY <2>4
  <2>8. severe \in [1..q -> Nat]
    BY <1>8
  <2>9. Quotes(a \o e \o mark, severe, q)
    BY <2>6, <2>8, Quoted
  <2> QED
    BY <1>7, <2>5, <2>7, <2>9
<1> QED
  BY <1>1, <1>2, <1>5, <1>8, <1>13, <1>14, <1>15 DEF Same

\* The records a plan shows are among those there are.
LEMMA AnchorsAre ==
  ASSUME NEW records, NEW terms, DOMAIN terms = DOMAIN records, NEW stats, NEW query
  PROVE  Anchors(records, stats, terms, query) \subseteq DOMAIN records
<1>1. Outliers(records, stats) \subseteq DOMAIN records
  BY DEF Outliers
<1>2. TopRanked(records) \subseteq DOMAIN records
  BY DEF TopRanked, Best, With
<1>3. RelevantRecords(terms, query) \subseteq DOMAIN records
  <2>1. PICK scores : scores = ScoreAll(query, terms)
    OBVIOUS
  <2>2. DOMAIN scores = DOMAIN records
    BY <2>1 DEF ScoreAll
  <2>3. Pinned(scores, MaxRelevantRecords) \subseteq DOMAIN scores
    BY DEF Pinned, Best
  <2> QED
    BY <2>1, <2>2, <2>3 DEF RelevantRecords
<1> QED
  BY <1>1, <1>2, <1>3 DEF Anchors

\* The fields stated are a sequence.
LEMMA FieldPlansAre ==
  ASSUME NEW records, NEW n, n = Len(FieldPlans(records, Stats(records)))
  PROVE  n \in Nat /\ DOMAIN FieldPlans(records, Stats(records)) = 1..n
<1> DEFINE S == {k \in DOMAIN FieldNames : With(records, FieldNames[k]) # {}}
           First(k) == Min(With(records, FieldNames[k]))
           Before(j, k) == First(j) < First(k) \/ (First(j) = First(k) /\ j < k)
           stats == Stats(records)
           Said(stat) == CASE stat.kind = "constant" -> TRUE
                           [] stat.kind = "low_cardinality" -> stat.presentIn = Len(records)
                           [] OTHER -> FALSE
           T == {k \in DOMAIN stats : Said(stats[k])}
<1>1. PICK m \in Nat : DOMAIN FieldNames = 1..m
  BY NamesInOrder
<1>2. Cardinality(S) \in Nat
  <2>1. S \in SUBSET (1..m) /\ IsFiniteSet(1..m)
    BY <1>1, FS_Interval
  <2> HIDE DEF S
  <2> QED
    BY <2>1, FS_Subset, FS_CardinalityType
<1>3. DOMAIN stats = 1..Cardinality(S)
  <2>1. DOMAIN Ordered(S, Before) = 1..Cardinality(S)
    BY DEF Ordered
  <2>2. DOMAIN FieldOrder(records) = DOMAIN Ordered(S, Before)
    BY DEF FieldOrder
  <2>3. DOMAIN stats = DOMAIN FieldOrder(records)
    BY DEF Stats
  <2> QED
    BY <2>1, <2>2, <2>3
<1>4. PICK k \in Nat : k = Cardinality(S)
  BY <1>2
<1>5. T \in SUBSET (1..k)
  BY <1>3, <1>4
<1>6. PICK a : a = Ascending(T)
  OBVIOUS
<1>7. FieldPlans(records, stats) = [j \in DOMAIN a |->
         [name |-> stats[a[j]].name, all |-> stats[a[j]].kind = "constant",
          values |-> ValuesOf(records, stats[a[j]].name)]]
  BY <1>6 DEF FieldPlans
<1> HIDE DEF T, stats
<1>8. PICK q : q = Cardinality(T)
  OBVIOUS
<1>9. q \in Nat /\ DOMAIN a = 1..q
  <2>1. Lists(a, T, q)
    BY <1>5, <1>6, <1>8, AscendingPositions
  <2> QED
    BY <2>1 DEF Lists
<1>10. DOMAIN FieldPlans(records, stats) = 1..q
  BY <1>7, <1>9
<1>11. Len(FieldPlans(records, stats)) = q
  BY <1>7, <1>9
<1> QED
  BY <1>9, <1>10, <1>11 DEF stats

\* The header counts the records that are not shown.
LEMMA PlanAccounts ==
  ASSUME NEW X, NEW records \in Seq(X), NEW plan, plan.anchors \subseteq DOMAIN records,
         NEW n \in Nat, DOMAIN plan.fields = 1..n,
         NEW parts, parts = PlanParts(records, plan)
  PROVE  /\ parts \in Seq(Part) /\ IsFiniteSet(ShownIn(parts)) /\ ShownIn(parts) = plan.anchors
         /\ CountAbout(parts, {"line"}, Nat) = Cardinality(ShownIn(parts))
         /\ CountAbout(parts, {"line", "header"}, Nat) = Len(records)
<1>1. PICK m \in Nat : m = Len(records) /\ DOMAIN records = 1..m
  OBVIOUS
<1>2. PICK S, q, shown : S = plan.anchors /\ q = Cardinality(S) /\ shown = Ascending(S)
  OBVIOUS
<1>3. S \in SUBSET (1..m)
  BY <1>1, <1>2
<1>4. Lists(shown, S, q)
  BY <1>1, <1>2, <1>3, AscendingPositions
<1>5. /\ q \in Nat /\ DOMAIN shown = 1..q /\ Len(shown) = q /\ IsFiniteSet(S) /\ shown \in [1..q -> S]
      /\ \A j, k \in 1..q : shown[j] = shown[k] => j = k
  BY <1>4 DEF Lists
<1>6. shown \in [1..q -> Nat]
  <2>1. S \subseteq Nat
    BY <1>3
  <2> QED
    BY <1>5, <2>1
<1>7. q <= m /\ m - q \in Nat
  <2>1. IsFiniteSet(1..m) /\ Cardinality(1..m) = m
    BY FS_Interval
  <2>2. q <= m
    BY <1>2, <1>3, <2>1, FS_Subset
  <2> QED
    BY <1>5, <2>2
<1>8. PICK header, statement, kinds : /\ header = "header" /\ statement = "statement"
                                      /\ kinds = {"statement", "marker"}
  OBVIOUS
<1>9. /\ {header, statement} \subseteq PartNames /\ header # "line" /\ statement # "line"
      /\ {statement, "marker"} \subseteq kinds
      /\ {"line"} \cap kinds = {} /\ {"line", "header"} \cap kinds = {}
  BY <1>8 DEF PartNames
<1>10. PICK h, f, s : /\ h = <<Note(header, 0, m - q)>>
                      /\ f = [k \in 1..n |-> Note(statement, k, 0)]
                      /\ s = [k \in 1..q |-> Show(shown[k])]
  OBVIOUS
<1>11. parts = h \o f \o s \o <<Marker>>
  BY <1>1, <1>2, <1>5, <1>8, <1>10 DEF PlanParts
<1>12. Silent(f, kinds)
  <2>1. PICK g : g = [k \in 1..n |-> k]
    OBVIOUS
  <2>4. g \in [1..n -> Nat]
    BY <2>1
  <2>2. f = [k \in 1..n |-> Note(statement, g[k], 0)]
    BY <1>10, <2>1
  <2>3. Silent(f, {statement})
    BY <1>9, <2>2, <2>4, NotesCount
  <2> QED
    BY <1>9, <2>3, SilentMore
<1>13. Silent(<<Marker>>, kinds)
  BY <1>9, MarkerCounts, SilentMore
<1>14. /\ s \in Seq(Part) /\ IsFiniteSet(ShownIn(s)) /\ Cardinality(ShownIn(s)) = q /\ ShownIn(s) = {shown[j] : j \in 1..q}
       /\ \A K : CountAbout(s, K, Nat) = IF "line" \in K THEN q ELSE 0
  <2>1. q \in Nat
    BY <1>5
  <2>2. \A j, k \in 1..q : shown[j] = shown[k] => j = k
    BY <1>5
  <2>3. s = [j \in 1..q |-> Show(shown[j])]
    BY <1>10
  <2>4. Listed([j \in 1..q |-> Show(shown[j])], shown, q)
    BY <1>6, <2>1, <2>2, ShowsListed
  <2>5. Listed(s, shown, q)
    BY <2>3, <2>4
  <2> QED
    BY <2>5 DEF Listed
<1>15. /\ h \in Seq(Part) /\ ShownIn(h) = {}
       /\ \A K, A : CountAbout(h, K, A) = IF header \in K /\ 0 \in A THEN m - q ELSE 0
  BY <1>7, <1>9, <1>10, NoteCounts
<1>16. Same(h \o f, h, kinds) /\ h \o f \in Seq(Part)
  BY <1>12, <1>15, SilentBeside
<1>17. PICK a \in Seq(Part) : a = h \o f
  BY <1>16
<1>18. Joins(a \o s, a, s)
  BY <1>14, Joined
<1>19. PICK b \in Seq(Part) : b = a \o s
  BY <1>18 DEF Joins
<1>20. Same(b \o <<Marker>>, b, kinds)
  BY <1>13, SilentBeside
<1>21. Same(parts, b, kinds) /\ Same(a, h, kinds) /\ Joins(b, a, s)
  BY <1>11, <1>16, <1>17, <1>18, <1>19, <1>20
<1>22. parts \in Seq(Part) /\ ShownIn(parts) = ShownIn(s)
  BY <1>15, <1>21 DEF Same, Joins
<1>23. CountAbout(parts, {"line"}, Nat) = q
  <2>1. CountAbout(h, {"line"}, Nat) = 0 /\ CountAbout(s, {"line"}, Nat) = q
    BY <1>9, <1>14, <1>15, <1>8
  <2> QED
    BY <1>5, <1>9, <1>21, <2>1 DEF Same, Joins
<1>24. CountAbout(parts, {"line", "header"}, Nat) = m
  <2>3. PICK K : K = {"line", "header"}
    OBVIOUS
  <2>4. "line" \in K /\ header \in K /\ 0 \in Nat
    BY <1>8, <2>3
  <2>5. CountAbout(s, K, Nat) = q
    BY <1>14, <2>4
  <2>6. CountAbout(h, K, Nat) = m - q
    BY <1>15, <2>4
  <2>1. CountAbout(h, {"line", "header"}, Nat) = m - q /\ CountAbout(s, {"line", "header"}, Nat) = q
    BY <2>3, <2>5, <2>6
  <2>2. CountAbout(parts, {"line", "header"}, Nat) = m - q + q
    BY <1>9, <1>21, <2>1 DEF Same, Joins
  <2> QED
    BY <1>5, <2>2
<1>25. ShownIn(parts) = plan.anchors
  <2>1. \A i \in S : \E k \in 1..q : shown[k] = i
    BY <1>4 DEF Lists
  <2>2. {shown[j] : j \in 1..q} = S
    BY <1>5, <2>1
  <2> QED
    BY <1>2, <1>14, <1>22, <2>2
<1> QED
  BY <1>1, <1>14, <1>22, <1>23, <1>24, <1>25

\* A summary of records shows or counts every one.
LEMMA JsonAccounts ==
  ASSUME NEW X, NEW c, c.records \in Seq(X), DOMAIN c.terms = DOMAIN c.records, NEW query,
         NEW parts, parts = Structural(c, query).parts, parts # <<>>
  PROVE  /\ parts \in Seq(Part) /\ IsFiniteSet(ShownIn(parts))
         /\ CountAbout(parts, {"line"}, Nat) = Cardinality(ShownIn(parts))
         /\ CountAbout(parts, {"line", "header"}, Nat) = Len(c.records)
         /\ Outliers(c.records, Stats(c.records)) \subseteq ShownIn(parts)
<1>1. PICK records \in Seq(X) : records = c.records
  OBVIOUS
<1>2. PICK plan : plan = Plan(records, c.terms, query)
  OBVIOUS
<1>3. plan # NoPlan /\ parts = PlanParts(records, plan)
  BY <1>1, <1>2 DEF Structural, Declines, Offers
<1>4. plan = [anchors |-> Anchors(records, Stats(records), c.terms, query),
              fields |-> FieldPlans(records, Stats(records))]
  BY <1>2, <1>3 DEF Plan
<1>5. plan.anchors \subseteq DOMAIN records
  <2>1. PICK stats : stats = Stats(records)
    OBVIOUS
  <2>2. Anchors(records, stats, c.terms, query) \subseteq DOMAIN records
    BY <1>1, AnchorsAre
  <2> QED
    BY <1>4, <2>1, <2>2
<1>6. PICK n \in Nat : DOMAIN plan.fields = 1..n
  <2>1. PICK n : n = Len(FieldPlans(records, Stats(records)))
    OBVIOUS
  <2>2. n \in Nat /\ DOMAIN FieldPlans(records, Stats(records)) = 1..n
    BY <2>1, FieldPlansAre
  <2> QED
    BY <1>4, <2>2
<1>7. Outliers(records, Stats(records)) \subseteq plan.anchors
  BY <1>4 DEF Anchors
<1> QED
  BY <1>1, <1>3, <1>5, <1>6, <1>7, PlanAccounts

(***************************************************************************)
(* What is kept of n lines, and the runs between that are left out.        *)
(***************************************************************************)
Runs(n, kept) ==
  [i \in 1 .. n + 1 |-> CASE i \in kept -> LeftOut(kept, i) \cup {i}
                          [] i = n + 1  -> LeftOut(kept, i)
                          [] OTHER      -> {}]

\* The runs between kept lines, with those lines, are all the lines.
LEMMA RunsCover ==
  ASSUME NEW n \in Nat, NEW kept \in SUBSET (1..n), NEW B, B = Runs(n, kept)
  PROVE  /\ Apart(B, n + 1) /\ AllOf(B, n + 1) = 1..n
         /\ \A i \in 1 .. n + 1 : IsFiniteSet(LeftOut(kept, i)) /\ LeftOut(kept, i) \in SUBSET (1..n)
<1>1. PICK m \in Nat : m = n + 1
  OBVIOUS
<1>2. \A i \in 1..m, j \in Nat : j \in B[i] <=>
         /\ i \in kept \/ i = m
         /\ (j = i /\ i \in kept) \/ (j \in 1 .. i - 1 /\ kept \cap (j .. i - 1) = {})
  BY <1>1 DEF Runs, LeftOut
<1>3. \A i \in 1..m : B[i] \subseteq 1..n
  <2> TAKE i \in 1..m
  <2>1. 1 .. i - 1 \subseteq 1..n
    BY <1>1
  <2>2. B[i] \subseteq (1 .. i - 1) \cup kept
    BY <1>1 DEF Runs, LeftOut
  <2> QED
    BY <2>1, <2>2
<1>4. Apart(B, m)
  <2>1. ASSUME NEW i \in 1..m, NEW k \in 1..m, i < k, NEW j \in Nat, j \in B[i], j \in B[k] PROVE FALSE
    <3>1. i \in kept /\ j <= i
      BY <1>1, <1>2, <2>1
    <3>2. j # k
      BY <2>1, <3>1
    <3>3. kept \cap (j .. k - 1) = {}
      BY <1>2, <2>1, <3>2
    <3>4. i \in j .. k - 1
      BY <2>1, <3>1
    <3> QED
      BY <3>1, <3>3, <3>4
  <2>2. \A i, k \in 1..m : i # k => i < k \/ k < i
    OBVIOUS
  <2>3. \A i \in 1..m : B[i] \subseteq Nat
    BY <1>3
  <2> QED
    BY <2>1, <2>2, <2>3 DEF Apart
<1>5. ASSUME NEW j \in 1..n PROVE \E i \in 1..m : j \in B[i]
  <2> DEFINE S == {i \in 1..m : j <= i /\ (i \in kept \/ i = m)}
  <2>1. S \in SUBSET Nat /\ S # {}
    BY <1>1
  <2>2. \A i : i \in S <=> i \in 1..m /\ j <= i /\ (i \in kept \/ i = m)
    OBVIOUS
  <2> HIDE DEF S
  <2>3. PICK i \in S : \A k \in S : i <= k
    BY <2>1, SmallestExists
  <2>4. i \in 1..m /\ j <= i /\ (i \in kept \/ i = m) /\ j \in Nat
    BY <2>2
  <2>5. CASE i = j
    <3>1. i \in kept
      BY <1>1, <2>4, <2>5
    <3> QED
      BY <1>2, <2>4, <2>5, <3>1
  <2>6. CASE i # j
    <3>1. j \in 1 .. i - 1
      BY <2>4, <2>6
    <3>2. kept \cap (j .. i - 1) = {}
      <4>1. ASSUME NEW k \in kept, k \in j .. i - 1 PROVE FALSE
        <5>1. k \in 1..m /\ j <= k /\ k < i
          BY <1>1, <2>4, <4>1
        <5>2. k \in S
          BY <2>2, <5>1
        <5>3. i <= k
          BY <2>3, <5>2
        <5> QED
          BY <2>4, <5>1, <5>3
      <4> QED
        BY <4>1
    <3> QED
      BY <1>2, <2>4, <3>1, <3>2
  <2> QED
    BY <2>5, <2>6
<1>6. AllOf(B, m) = 1..n
  BY <1>3, <1>5 DEF AllOf
<1>7. \A i \in 1..m : IsFiniteSet(LeftOut(kept, i)) /\ LeftOut(kept, i) \in SUBSET (1..n)
  <2> TAKE i \in 1..m
  <2>1. LeftOut(kept, i) \in SUBSET (1..n)
    BY <1>1 DEF LeftOut
  <2>2. IsFiniteSet(1..n)
    BY FS_Interval
  <2> QED
    BY <2>1, <2>2, FS_Subset
<1> QED
  BY <1>1, <1>4, <1>6, <1>7

(***************************************************************************)
(* A piece of a summary that tells of the lines b, and a whole summary     *)
(* that tells of n.                                                        *)
(***************************************************************************)
Tells(s, K, b) ==
  /\ s \in Seq(Part) /\ IsFiniteSet(b) /\ IsFiniteSet(ShownIn(s))
  /\ CountAbout(s, K, Nat) = Cardinality(b)
  /\ CountAbout(s, {"line"}, Nat) = Cardinality(ShownIn(s))
Accounts(s, K, n) ==
  /\ s \in Seq(Part) /\ IsFiniteSet(ShownIn(s))
  /\ CountAbout(s, K, Nat) = n
  /\ CountAbout(s, {"line"}, Nat) = Cardinality(ShownIn(s))

\* A note about the lines left out tells of them.
LEMMA ToldTells ==
  ASSUME NEW kind, NEW i \in Nat, NEW S, IsFiniteSet(S), NEW K,
         S # {} => kind \in PartNames \cap K /\ kind # "line"
  PROVE  Tells(Told(kind, i, S), K, S) /\ ShownIn(Told(kind, i, S)) = {}
<1>1. PICK s : s = Told(kind, i, S)
  OBVIOUS
<1>2. S = {} => s = <<>>
  BY <1>1 DEF Told
<1>3. /\ s \in Seq(Part) /\ ShownIn(s) = {}
      /\ \A L : CountAbout(s, L, Nat) = IF kind \in L THEN Cardinality(S) ELSE 0
  <2>1. S # {} => kind \in PartNames /\ kind # "line"
    OBVIOUS
  <2>2. /\ Told(kind, i, S) \in Seq(Part) /\ ShownIn(Told(kind, i, S)) = {}
        /\ \A K_1 : CountAbout(Told(kind, i, S), K_1, Nat) = IF kind \in K_1 THEN Cardinality(S) ELSE 0
    BY <2>1, ToldIs
  <2> QED
    BY <1>1, <2>2
<1>4. CountAbout(s, K, Nat) = Cardinality(S)
  <2>1. CASE S = {}
    BY <1>2, <2>1, CountOfNone, FS_EmptySet
  <2>2. CASE S # {}
    BY <1>3, <2>2
  <2> QED
    BY <2>1, <2>2
<1>5. CountAbout(s, {"line"}, Nat) = 0
  <2>1. CASE S = {}
    BY <1>2, <2>1, CountOfNone
  <2>2. CASE S # {}
    <3>1. kind \notin {"line"}
      BY <2>2
    <3> QED
      BY <1>3, <3>1
  <2> QED
    BY <2>1, <2>2
<1>6. IsFiniteSet({}) /\ Cardinality({}) = 0
  BY FS_EmptySet
<1> QED
  BY <1>1, <1>3, <1>4, <1>5, <1>6 DEF Tells

\* A shown line tells of itself.
LEMMA ShowTells ==
  ASSUME NEW i \in Nat, NEW K, "line" \in K
  PROVE  Tells(<<Show(i)>>, K, {i}) /\ ShownIn(<<Show(i)>>) = {i}
<1>1. PICK p \in Part : p = Show(i) /\ p.part = "line" /\ p.at = i /\ p.count = 1
  BY ShowIs
<1>2. <<p>> \in Seq(Part) /\ ShownIn(<<p>>) = {i}
  BY <1>1, CountOfOne
<1>3. \A L : "line" \in L => CountAbout(<<p>>, L, Nat) = 1
  <2> TAKE L
  <2>1. CountAbout(<<p>>, L, Nat) = IF p.part \in L /\ p.at \in Nat THEN p.count ELSE 0
    BY CountOfOne
  <2> QED
    BY <1>1, <2>1
<1>4. IsFiniteSet({i}) /\ Cardinality({i}) = 1
  BY FS_Singleton
<1> QED
  BY <1>1, <1>2, <1>3, <1>4 DEF Tells

\* Nothing tells of nothing.
LEMMA NoneTells ==
  ASSUME NEW K
  PROVE  Tells(<<>>, K, {}) /\ ShownIn(<<>>) = {}
BY CountOfNone, FS_EmptySet DEF Tells

\* Two pieces about different lines tell of both.
LEMMA JoinTells ==
  ASSUME NEW s, NEW t, NEW K, NEW a, NEW b, Tells(s, K, a), Tells(t, K, b),
         a \cap b = {}, ShownIn(s) \cap ShownIn(t) = {}
  PROVE  Tells(s \o t, K, a \cup b) /\ ShownIn(s \o t) = ShownIn(s) \cup ShownIn(t)
<1>1. s \in Seq(Part) /\ t \in Seq(Part)
  BY DEF Tells
<1>2. Joins(s \o t, s, t)
  BY <1>1, Joined
<1>3. PICK u : u = s \o t
  OBVIOUS
<1>4. /\ u \in Seq(Part) /\ ShownIn(u) = ShownIn(s) \cup ShownIn(t)
      /\ \A L, A : CountAbout(u, L, A) = CountAbout(s, L, A) + CountAbout(t, L, A)
  BY <1>2, <1>3 DEF Joins
<1>5. IsFiniteSet(a \cup b) /\ Cardinality(a \cup b) = Cardinality(a) + Cardinality(b)
  BY SumOfDisjoint DEF Tells
<1>6. IsFiniteSet(ShownIn(u)) /\ Cardinality(ShownIn(u)) = Cardinality(ShownIn(s)) + Cardinality(ShownIn(t))
  <2>1. IsFiniteSet(ShownIn(s)) /\ IsFiniteSet(ShownIn(t))
    BY DEF Tells
  <2> QED
    BY <1>4, <2>1, SumOfDisjoint
<1>7. Tells(u, K, a \cup b)
  BY <1>4, <1>5, <1>6 DEF Tells
<1> QED
  BY <1>3, <1>4, <1>7

\* The pieces of ss tell of the sets of B, each showing its own line if it is kept.
PieceTells(ss, K, B, kept, m) ==
  /\ DOMAIN ss = 1..m /\ ss = [i \in 1..m |-> ss[i]]
  /\ \A i \in 1..m : Tells(ss[i], K, B[i]) /\ ShownIn(ss[i]) = kept \cap {i}

\* Pieces that tell of all n lines, and of which each shows its own or none,
\* account for n.
LEMMA PiecesAccount ==
  ASSUME NEW m \in Nat, NEW ss, NEW B, NEW K, NEW n \in Nat,
         NEW kept \in SUBSET (1..m), PieceTells(ss, K, B, kept, m), Apart(B, m), AllOf(B, m) = 1..n
  PROVE  Accounts(FlattenSeq(ss), K, n) /\ ShownIn(FlattenSeq(ss)) = kept
<1>1. \A i \in 1..m : ss[i] \in Seq(Part) /\ ShownIn(ss[i]) = kept \cap {i}
  BY DEF PieceTells, Tells
<1>2. ss \in Seq(Seq(Part)) /\ Len(ss) = m
  <2>1. ss \in [1..m -> Seq(Part)]
    BY <1>1 DEF PieceTells
  <2> QED
    BY <2>1
<1>3. PICK F : F = FlattenSeq(ss)
  OBVIOUS
<1>4. CountAbout(F, K, Nat) = n
  <2>1. Weighs(ss, K, Nat, B) /\ Apart(B, Len(ss))
    BY <1>2 DEF Weighs, PieceTells, Tells
  <2>2. CountAbout(FlattenSeq(ss), K, Nat) = Cardinality(AllOf(B, Len(ss)))
    BY <1>2, <2>1, PiecesCount
  <2>3. Cardinality(1..n) = n
    BY FS_Interval
  <2> QED
    BY <1>2, <1>3, <2>2, <2>3
<1>5. F \in Seq(Part) /\ ShownIn(F) = UNION {ShownIn(ss[i]) : i \in 1..m}
  BY <1>2, <1>3, PiecesShow
<1>6. IsFiniteSet(ShownIn(F)) /\ CountAbout(F, {"line"}, Nat) = Cardinality(ShownIn(F))
  <2>1. PICK L : L = [i \in 1..m |-> ShownIn(ss[i])]
    OBVIOUS
  <2>2. \A i \in 1..m : L[i] = ShownIn(ss[i]) /\ L[i] \subseteq {i}
    BY <1>1, <2>1
  <2>3. Apart(L, m)
    BY <2>2 DEF Apart
  <2>4. Weighs(ss, {"line"}, Nat, L) /\ Apart(L, Len(ss))
    BY <1>2, <2>2, <2>3 DEF Weighs, PieceTells, Tells
  <2>5. /\ IsFiniteSet(AllOf(L, Len(ss)))
        /\ CountAbout(FlattenSeq(ss), {"line"}, Nat) = Cardinality(AllOf(L, Len(ss)))
    BY <1>2, <2>4, PiecesCount
  <2>6. AllOf(L, Len(ss)) = ShownIn(F)
    <3>1. AllOf(L, m) = UNION {L[i] : i \in 1..m}
      BY DEF AllOf
    <3>2. {L[i] : i \in 1..m} = {ShownIn(ss[i]) : i \in 1..m}
      BY <2>2
    <3> QED
      BY <1>2, <1>5, <3>1, <3>2
  <2> QED
    BY <1>3, <2>5, <2>6
<1>7. ShownIn(F) = kept
  BY <1>1, <1>5
<1> QED
  BY <1>3, <1>4, <1>5, <1>6, <1>7 DEF Accounts

\* A note before and the marker after change nothing.
LEMMA AccountsFramed ==
  ASSUME NEW h, NEW s, NEW K, NEW n, NEW kinds, Accounts(s, K, n), Silent(h, kinds),
         {"marker"} \subseteq kinds, K \cap kinds = {}, "line" \notin kinds
  PROVE  /\ Accounts(h \o s \o <<Marker>>, K, n) /\ Accounts(s \o <<Marker>>, K, n)
         /\ ShownIn(h \o s \o <<Marker>>) = ShownIn(s) /\ ShownIn(s \o <<Marker>>) = ShownIn(s)
<1>1. s \in Seq(Part) /\ Silent(<<Marker>>, kinds)
  BY MarkerCounts, SilentMore DEF Accounts
<1>2. Same(h \o s, s, kinds) /\ h \o s \in Seq(Part)
  BY <1>1, SilentBeside
<1>3. PICK a \in Seq(Part) : a = h \o s
  BY <1>2
<1>4. Same(a \o <<Marker>>, a, kinds) /\ Same(s \o <<Marker>>, s, kinds)
  BY <1>1, SilentBeside
<1>5. Same(a \o <<Marker>>, s, kinds)
  BY <1>2, <1>3, <1>4, SameAgain
<1>6. \A u : Same(u, s, kinds) => Accounts(u, K, n) /\ ShownIn(u) = ShownIn(s)
  <2> TAKE u
  <2>1. {"line"} \cap kinds = {}
    OBVIOUS
  <2> QED
    BY <2>1 DEF Same, Accounts
<1> QED
  BY <1>3, <1>4, <1>5, <1>6

Kept == {"line", "gap", "unchanged", "lockfile", "whitespace"}

\* The header and the marker count for no line.
LEMMA HeaderSilent ==
  ASSUME NEW n \in Nat
  PROVE  /\ Silent(<<Note("header", 0, n)>>, {"header", "marker"})
         /\ {"marker"} \subseteq {"header", "marker"} /\ Kept \cap {"header", "marker"} = {}
         /\ "line" \notin {"header", "marker"} /\ "line" \in Kept
         /\ {"gap", "unchanged", "lockfile", "whitespace"} \subseteq PartNames \cap Kept
         /\ "line" \notin {"gap", "unchanged", "lockfile", "whitespace"}
<1>1. PICK kinds, kind : kinds = {"header", "marker"} /\ kind = "header"
  OBVIOUS
<1>2. kind \in PartNames /\ kind # "line" /\ kind \in kinds /\ 0 \in Nat
  BY <1>1 DEF PartNames
<1>3. Silent(<<Note(kind, 0, n)>>, kinds)
  BY <1>2, SilentNote
<1> QED
  BY <1>1, <1>3 DEF Kept, PartNames

\* What is shown or told right before line i.
LEMMA ToldAndShown ==
  ASSUME NEW kind, NEW i \in Nat, NEW S, IsFiniteSet(S), NEW K,
         S # {} => kind \in PartNames \cap K /\ kind # "line", "line" \in K, i \notin S
  PROVE  /\ Tells(Told(kind, i, S) \o <<Show(i)>>, K, S \cup {i})
         /\ ShownIn(Told(kind, i, S) \o <<Show(i)>>) = {i}
<1>1. PICK s, t : s = Told(kind, i, S) /\ t = <<Show(i)>>
  OBVIOUS
<1>2. Tells(s, K, S) /\ ShownIn(s) = {}
  BY <1>1, ToldTells
<1>3. Tells(t, K, {i}) /\ ShownIn(t) = {i}
  BY <1>1, ShowTells
<1>4. Tells(s \o t, K, S \cup {i}) /\ ShownIn(s \o t) = ShownIn(s) \cup ShownIn(t)
  <2>1. S \cap {i} = {} /\ ShownIn(s) \cap ShownIn(t) = {}
    BY <1>2
  <2> QED
    BY <1>2, <1>3, <2>1, JoinTells
<1> QED
  BY <1>1, <1>2, <1>3, <1>4

\* A line is not among those left out before it.
LEMMA NotLeftOut ==
  ASSUME NEW kept, NEW i \in Nat
  PROVE  i \notin LeftOut(kept, i)
BY DEF LeftOut

\* Rendered accounts for every line.
LEMMA RenderedAccounts ==
  ASSUME NEW n \in Nat, NEW kept \in SUBSET (1..n), NEW gap, gap \in PartNames \cap Kept, gap # "line"
  PROVE  Accounts(Rendered(n, kept, gap), Kept, n) /\ ShownIn(Rendered(n, kept, gap)) = kept
<1>1. PICK m \in Nat : m = n + 1
  OBVIOUS
<1>2. PICK B : B = Runs(n, kept)
  OBVIOUS
<1>3. /\ Apart(B, m) /\ AllOf(B, m) = 1..n
      /\ \A i \in 1..m : IsFiniteSet(LeftOut(kept, i))
  BY <1>1, <1>2, RunsCover
<1>4. "line" \in Kept
  BY DEF Kept
<1> DEFINE ss == [i \in 1..m |->
                    CASE i \in kept -> Told(gap, i, LeftOut(kept, i)) \o <<Show(i)>>
                      [] i = m      -> Told(gap, i, LeftOut(kept, i))
                      [] OTHER      -> <<>>]
<1>5. Rendered(n, kept, gap) = FlattenSeq(ss)
  BY <1>1 DEF Rendered
<1>6. ASSUME NEW i \in 1..m PROVE Tells(ss[i], Kept, B[i]) /\ ShownIn(ss[i]) = kept \cap {i}
  <2>1. PICK S : S = LeftOut(kept, i)
    OBVIOUS
  <2>2. IsFiniteSet(S) /\ i \notin S /\ i \in Nat
    BY <1>3, <2>1, NotLeftOut
  <2>3. CASE i \in kept
    <3>1. ss[i] = Told(gap, i, S) \o <<Show(i)>> /\ B[i] = S \cup {i}
      BY <1>1, <1>2, <2>1, <2>3 DEF Runs
    <3> HIDE DEF ss
    <3>2. S # {} => gap \in PartNames \cap Kept /\ gap # "line"
      OBVIOUS
    <3>3. /\ Tells(Told(gap, i, S) \o <<Show(i)>>, Kept, S \cup {i})
          /\ ShownIn(Told(gap, i, S) \o <<Show(i)>>) = {i}
      BY <1>4, <2>2, <3>2, ToldAndShown
    <3>4. kept \cap {i} = {i}
      BY <2>3
    <3> QED
      BY <3>1, <3>3, <3>4
  <2>4. CASE i \notin kept /\ i = m
    <3>1. ss[i] = Told(gap, i, S) /\ B[i] = S
      BY <1>1, <1>2, <2>1, <2>4 DEF Runs
    <3> HIDE DEF ss
    <3> QED
      BY <2>2, <2>4, <3>1, ToldTells
  <2>5. CASE i \notin kept /\ i # m
    <3>1. ss[i] = <<>> /\ B[i] = {}
      BY <1>1, <1>2, <2>5 DEF Runs
    <3> HIDE DEF ss
    <3> QED
      BY <2>5, <3>1, NoneTells
  <2> QED
    BY <2>3, <2>4, <2>5
<1>7. DOMAIN ss = 1..m /\ ss = [i \in 1..m |-> ss[i]]
  OBVIOUS
<1> HIDE DEF ss
<1>8. Accounts(FlattenSeq(ss), Kept, n) /\ ShownIn(FlattenSeq(ss)) = kept
  <2>1. PieceTells(ss, Kept, B, kept, m)
    BY <1>6, <1>7 DEF PieceTells
  <2>2. kept \in SUBSET (1..m)
    BY <1>1
  <2> QED
    BY <1>3, <2>1, <2>2, PiecesAccount
<1> QED
  BY <1>5, <1>8

\* A summary of a program shows or counts every line.
LEMMA CodeAccounts ==
  ASSUME NEW X, NEW c, c.lines \in Seq(X), NEW parts, parts = CodeOffer(c).parts, parts # <<>>
  PROVE  /\ Accounts(parts, Kept, Len(c.lines))
         /\ ShownIn(parts) = DOMAIN c.lines \ BodyLines(c.lines, DetectLanguage(c.lines))
<1>1. PICK n, kept, gap : /\ n = Len(c.lines) /\ gap = "gap"
                          /\ kept = DOMAIN c.lines \ BodyLines(c.lines, DetectLanguage(c.lines))
  OBVIOUS
<1>2. n \in Nat /\ kept \in SUBSET (1..n)
  BY <1>1
<1>3. PICK h, kinds : h = <<Note("header", 0, n)>> /\ kinds = {"header", "marker"}
  OBVIOUS
<1>4. parts = h \o Rendered(n, kept, gap) \o <<Marker>>
  BY <1>1, <1>3 DEF CodeOffer, Declines, Offers
<1>5. /\ Silent(h, kinds) /\ {"marker"} \subseteq kinds /\ Kept \cap kinds = {} /\ "line" \notin kinds
      /\ gap \in PartNames \cap Kept /\ gap # "line"
  BY <1>1, <1>2, <1>3, HeaderSilent
<1>6. PICK s : s = Rendered(n, kept, gap)
  OBVIOUS
<1>7. Accounts(s, Kept, n) /\ ShownIn(s) = kept
  BY <1>2, <1>5, <1>6, RenderedAccounts
<1>8. Accounts(h \o s \o <<Marker>>, Kept, n) /\ ShownIn(h \o s \o <<Marker>>) = ShownIn(s)
  BY <1>5, <1>7, AccountsFramed
<1> QED
  BY <1>1, <1>4, <1>6, <1>7, <1>8

(***************************************************************************)
(* Diffs.                                                                  *)
(***************************************************************************)
Churn == {"none", "lockfile", "whitespace"}

\* Every line of a diff is churn or it is not.
LEMMA NoiseIs ==
  ASSUME NEW lines, NEW n \in Nat, DOMAIN lines = 1..n
  PROVE  Noise(lines) \in [1..n -> Churn]
<1>1. \A i : HunkNoise(lines, i) \in Churn
  BY DEF HunkNoise, Churn
<1> DEFINE opened(i) == {j \in 1..i : DiffKind(lines[j]) = "hunk" /\ i < EndOfHunk(lines, j)}
<1>2. Noise(lines) = [i \in 1..n |-> IF opened(i) = {} THEN "none" ELSE HunkNoise(lines, Max(opened(i)))]
  BY DEF Noise
<1> HIDE DEF opened
<1>3. "none" \in Churn
  BY DEF Churn
<1> QED
  BY <1>1, <1>2, <1>3

\* What each piece of a diff stands for: the run of churn that ends there, and
\* the quiet lines that are told or shown there.
DiffRuns(n, noise, kept) ==
  [i \in 1 .. n + 1 |-> NoiseRun(noise, i) \cup {j \in Runs(n, kept)[i] : noise[j] = "none"}]

\* A run of churn: its lines are of one kind, and end where the next begins.
LEMMA NoiseRunIs ==
  ASSUME NEW n \in Nat, NEW noise \in [1..n -> Churn], NEW i \in 1 .. n + 1
  PROVE  /\ NoiseRun(noise, i) \in SUBSET (1..n) /\ IsFiniteSet(NoiseRun(noise, i)) /\ i \notin NoiseRun(noise, i)
         /\ NoiseRun(noise, i) # {} => noise[i - 1] \in Churn /\ noise[i - 1] # "none"
         /\ \A j \in 1..n : j \in NoiseRun(noise, i) <=>
              /\ j < i /\ noise[j] # "none" /\ \A m \in 1..n : j <= m /\ m < i => noise[m] = noise[j]
              /\ i <= n => noise[i] # noise[j]
<1>1. NoiseRun(noise, i) \in SUBSET (1..n) /\ i \notin NoiseRun(noise, i)
  <2>1. 1 .. i - 1 \subseteq 1..n
    OBVIOUS
  <2>2. NoiseRun(noise, i) \subseteq 1 .. i - 1
    BY DEF NoiseRun
  <2> QED
    BY <2>1, <2>2
<1>2. IsFiniteSet(NoiseRun(noise, i))
  <2>1. IsFiniteSet(1..n)
    BY FS_Interval
  <2> QED
    BY <1>1, <2>1, FS_Subset
<1>3. NoiseRun(noise, i) # {} => noise[i - 1] \in Churn /\ noise[i - 1] # "none"
  <2> SUFFICES ASSUME NEW j, j \in NoiseRun(noise, i) PROVE noise[i - 1] \in Churn /\ noise[i - 1] # "none"
    OBVIOUS
  <2>1. j \in 1 .. i - 1 /\ noise[j] # "none" /\ \A m \in j .. i - 1 : noise[m] = noise[j]
    BY DEF NoiseRun
  <2>2. i - 1 \in j .. i - 1 /\ i - 1 \in 1..n
    BY <2>1
  <2>3. noise[i - 1] = noise[j]
    BY <2>1, <2>2
  <2> QED
    BY <2>1, <2>2, <2>3
<1>4. ASSUME NEW j \in 1..n
      PROVE  j \in NoiseRun(noise, i) <=>
              /\ j < i /\ noise[j] # "none" /\ \A m \in 1..n : j <= m /\ m < i => noise[m] = noise[j]
              /\ i <= n => noise[i] # noise[j]
  <2>1. j < i <=> j \in 1 .. i - 1
    OBVIOUS
  <2>2. i \in DOMAIN noise <=> i <= n
    OBVIOUS
  <2>3. \A m : m \in j .. i - 1 <=> m \in 1..n /\ j <= m /\ m < i
    OBVIOUS
  <2> QED
    BY <2>1, <2>2, <2>3 DEF NoiseRun
<1> QED
  BY <1>1, <1>2, <1>3, <1>4

\* The lines left out of a diff, with those kept, are all of its lines.
LEMMA DiffRunsCover ==
  ASSUME NEW n \in Nat, NEW noise \in [1..n -> Churn], NEW kept \in SUBSET {i \in 1..n : noise[i] = "none"},
         NEW B, B = DiffRuns(n, noise, kept)
  PROVE  Apart(B, n + 1) /\ AllOf(B, n + 1) = 1..n
<1>1. PICK m \in Nat : m = n + 1
  OBVIOUS
<1>2. PICK R : R = Runs(n, kept)
  OBVIOUS
<1>3. Apart(R, m) /\ AllOf(R, m) = 1..n
  <2>1. kept \in SUBSET (1..n)
    OBVIOUS
  <2> QED
    BY <1>1, <1>2, <2>1, RunsCover
<1>4. PICK N : N = [i \in 1..m |-> NoiseRun(noise, i)]
  OBVIOUS
<1>5. \A i \in 1..m : B[i] = N[i] \cup {j \in R[i] : noise[j] = "none"}
  BY <1>1, <1>2, <1>4 DEF DiffRuns
<1>6. \A i \in 1..m : N[i] \in SUBSET (1..n) /\ \A j \in 1..n : j \in N[i] <=>
              /\ j < i /\ noise[j] # "none" /\ \A k \in 1..n : j <= k /\ k < i => noise[k] = noise[j]
              /\ i <= n => noise[i] # noise[j]
  BY <1>1, <1>4, NoiseRunIs
<1>7. \A i \in 1..m : R[i] \subseteq 1..n
  BY <1>3 DEF AllOf
<1>8. ASSUME NEW i \in 1..m, NEW k \in 1..m, i < k PROVE N[i] \cap N[k] = {}
  <2>1. ASSUME NEW j \in 1..n, j \in N[i], j \in N[k] PROVE FALSE
    <3>1. j < i /\ (i <= n => noise[i] # noise[j])
      BY <1>6, <2>1
    <3>2. i \in 1..n
      BY <1>1, <1>8
    <3>3. noise[i] = noise[j]
      BY <1>6, <1>8, <2>1, <3>1, <3>2
    <3> QED
      BY <3>1, <3>2, <3>3
  <2> QED
    BY <1>6, <2>1
<1>9. Apart(B, m)
  <2>1. ASSUME NEW i \in 1..m, NEW k \in 1..m, i # k PROVE B[i] \cap B[k] = {}
    <3>1. N[i] \cap N[k] = {}
      BY <1>8, <2>1
    <3>2. R[i] \cap R[k] = {}
      BY <1>3, <2>1 DEF Apart
    <3>3. \A j \in N[i] \cup N[k] : noise[j] # "none"
      BY <1>6
    <3> QED
      BY <1>5, <3>1, <3>2, <3>3
  <2> QED
    BY <2>1 DEF Apart
<1>10. ASSUME NEW j \in 1..n PROVE \E i \in 1..m : j \in B[i]
  <2>1. CASE noise[j] = "none"
    <3>1. PICK i \in 1..m : j \in R[i]
      BY <1>3 DEF AllOf
    <3> QED
      BY <1>5, <2>1, <3>1
  <2>2. CASE noise[j] # "none"
    <3> DEFINE S == {i \in 1..m : j < i /\ (i <= n => noise[i] # noise[j])}
    <3>1. S \in SUBSET Nat /\ S # {}
      BY <1>1
    <3>2. \A i : i \in S <=> i \in 1..m /\ j < i /\ (i <= n => noise[i] # noise[j])
      OBVIOUS
    <3> HIDE DEF S
    <3>3. PICK i \in S : \A k \in S : i <= k
      BY <3>1, SmallestExists
    <3>4. i \in 1..m /\ j < i /\ (i <= n => noise[i] # noise[j])
      BY <3>2
    <3>5. ASSUME NEW k \in 1..n, j <= k, k < i PROVE noise[k] = noise[j]
      <4>1. k \in 1..m /\ k <= n
        BY <1>1
      <4>2. CASE k = j
        BY <4>2
      <4>3. CASE k # j
        <5>1. k \notin S
          BY <3>3, <3>4, <3>5, <4>1
        <5> QED
          BY <3>2, <3>5, <4>1, <4>3, <5>1
      <4> QED
        BY <4>2, <4>3
    <3>6. j \in N[i]
      BY <1>6, <2>2, <3>4, <3>5
    <3> QED
      BY <1>5, <3>4, <3>6
  <2> QED
    BY <2>1, <2>2
<1>11. \A i \in 1..m : B[i] \subseteq 1..n
  BY <1>5, <1>6, <1>7
<1> QED
  BY <1>1, <1>9, <1>10, <1>11 DEF AllOf

\* What is written at line i after the run of churn that ends there.
AfterRun(kind, noise, kept, m, i) ==
  CASE i \in kept -> Told(kind, i, QuietRun(noise, kept, i)) \o <<Show(i)>>
    [] i = m      -> Told(kind, i, QuietRun(noise, kept, i))
    [] OTHER      -> <<>>

Quiet(noise, S) == {j \in S : noise[j] = "none"}

\* What is written where churn ends or a line is kept.
LEMMA AfterRunTells ==
  ASSUME NEW n \in Nat, NEW noise \in [1..n -> Churn], NEW kept \in SUBSET Quiet(noise, 1..n),
         NEW kind \in PartNames \cap Kept, kind # "line", NEW m, m = n + 1, NEW i \in 1..m
  PROVE  /\ Tells(AfterRun(kind, noise, kept, m, i), Kept, Quiet(noise, Runs(n, kept)[i]))
         /\ ShownIn(AfterRun(kind, noise, kept, m, i)) = kept \cap {i}
<1>9. PICK S : S = Quiet(noise, Runs(n, kept)[i])
  OBVIOUS
<1>10. kept \in SUBSET {j \in 1..n : noise[j] = "none"} /\ S = {j \in Runs(n, kept)[i] : noise[j] = "none"}
  BY <1>9 DEF Quiet
<1>1. PICK Q, R : Q = QuietRun(noise, kept, i) /\ R = Runs(n, kept)
  OBVIOUS
<1>2. IsFiniteSet(LeftOut(kept, i))
  <2>1. kept \in SUBSET (1..n)
    BY <1>10
  <2> QED
    BY <1>1, <2>1, RunsCover
<1>3. Q = {j \in LeftOut(kept, i) : noise[j] = "none"} /\ i \in Nat
  BY <1>1 DEF QuietRun
<1>4. IsFiniteSet(Q) /\ i \notin Q
  <2>1. Q \subseteq LeftOut(kept, i)
    BY <1>3
  <2> QED
    BY <1>2, <1>3, <2>1, FS_Subset, NotLeftOut
<1>5. "line" \in Kept
  BY DEF Kept
<1>6. CASE i \in kept
  <2>1. AfterRun(kind, noise, kept, m, i) = Told(kind, i, Q) \o <<Show(i)>>
    BY <1>1, <1>6, <1>10 DEF AfterRun
  <2>2. S = Q \cup {i}
    <3>1. R[i] = LeftOut(kept, i) \cup {i} /\ noise[i] = "none"
      BY <1>1, <1>6, <1>10 DEF Runs
    <3> QED
      BY <1>1, <1>3, <1>10, <3>1
  <2>3. /\ Tells(Told(kind, i, Q) \o <<Show(i)>>, Kept, Q \cup {i})
        /\ ShownIn(Told(kind, i, Q) \o <<Show(i)>>) = {i}
    BY <1>3, <1>4, <1>5, ToldAndShown
  <2> QED
    BY <1>6, <1>9, <2>1, <2>2, <2>3
<1>7. CASE i \notin kept /\ i = m
  <2>1. AfterRun(kind, noise, kept, m, i) = Told(kind, i, Q)
    BY <1>1, <1>7 DEF AfterRun
  <2>2. S = Q
    <3>1. R[i] = LeftOut(kept, i)
      BY <1>1, <1>7, <1>10 DEF Runs
    <3> QED
      BY <1>1, <1>3, <1>10, <3>1
  <2>3. Tells(Told(kind, i, Q), Kept, Q) /\ ShownIn(Told(kind, i, Q)) = {}
    BY <1>3, <1>4, ToldTells
  <2> QED
    BY <1>7, <1>9, <2>1, <2>2, <2>3
<1>8. CASE i \notin kept /\ i # m
  <2>1. AfterRun(kind, noise, kept, m, i) = <<>>
    BY <1>8 DEF AfterRun
  <2>2. S = {}
    BY <1>1, <1>8, <1>10 DEF Runs
  <2> QED
    BY <1>8, <1>9, <2>1, <2>2, NoneTells
<1> QED
  BY <1>6, <1>7, <1>8, <1>9

\* The note for a run of churn tells of its lines.
LEMMA ChurnTells ==
  ASSUME NEW n \in Nat, NEW noise \in [1..n -> Churn], NEW i \in 1 .. n + 1, NEW N, N = NoiseRun(noise, i)
  PROVE  /\ Tells(Told(noise[i - 1], i, N), Kept, N) /\ ShownIn(Told(noise[i - 1], i, N)) = {}
         /\ \A j \in N : noise[j] # "none"
<1>1. PICK kind : kind = noise[i - 1]
  OBVIOUS
<1>2. /\ N \in SUBSET (1..n) /\ IsFiniteSet(N) /\ (N # {} => kind \in Churn /\ kind # "none")
      /\ \A j \in N : noise[j] # "none"
  BY <1>1, NoiseRunIs
<1>3. N # {} => kind \in PartNames \cap Kept /\ kind # "line"
  BY <1>2 DEF Kept, Churn, PartNames
<1>4. i \in Nat /\ IsFiniteSet(N)
  BY <1>2
<1>5. Tells(Told(kind, i, N), Kept, N) /\ ShownIn(Told(kind, i, N)) = {}
  BY <1>3, <1>4, ToldTells
<1> QED
  BY <1>1, <1>2, <1>5

\* What is written of a diff tells of every line.
LEMMA DiffPartsAccount ==
  ASSUME NEW lines, NEW n \in Nat, n = Len(lines), NEW noise \in [1..n -> Churn],
         NEW kept \in SUBSET {i \in 1..n : noise[i] = "none"}
  PROVE  Accounts(DiffParts(lines, noise, kept), Kept, n) /\ ShownIn(DiffParts(lines, noise, kept)) = kept
<1>1. PICK m \in Nat : m = n + 1
  OBVIOUS
<1>2. PICK B, R : B = DiffRuns(n, noise, kept) /\ R = Runs(n, kept)
  OBVIOUS
<1>3. Apart(B, m) /\ AllOf(B, m) = 1..n
  BY <1>1, <1>2, DiffRunsCover
<1>4. PICK kind \in PartNames \cap Kept : kind = "unchanged" /\ kind # "line"
  BY DEF PartNames, Kept
<1> DEFINE ss == [i \in 1..m |-> Told(noise[i - 1], i, NoiseRun(noise, i)) \o AfterRun(kind, noise, kept, m, i)]
<1>5. DiffParts(lines, noise, kept) = FlattenSeq(ss)
  BY <1>1, <1>4 DEF DiffParts, AfterRun
<1>6. ASSUME NEW i \in 1..m PROVE Tells(ss[i], Kept, B[i]) /\ ShownIn(ss[i]) = kept \cap {i}
  <2>10. ss[i] = Told(noise[i - 1], i, NoiseRun(noise, i)) \o AfterRun(kind, noise, kept, m, i)
    OBVIOUS
  <2> HIDE DEF ss
  <2>1. PICK S, N : S = {j \in R[i] : noise[j] = "none"} /\ N = NoiseRun(noise, i)
    OBVIOUS
  <2>2. PICK s, t : s = Told(noise[i - 1], i, N) /\ t = AfterRun(kind, noise, kept, m, i)
    OBVIOUS
  <2>3. B[i] = N \cup S
    BY <1>1, <1>2, <2>1 DEF DiffRuns
  <2>4. Tells(s, Kept, N) /\ ShownIn(s) = {} /\ \A j \in N : noise[j] # "none"
    BY <1>1, <2>1, <2>2, ChurnTells
  <2>5. Tells(t, Kept, S) /\ ShownIn(t) = kept \cap {i}
    <3>1. kept \in SUBSET Quiet(noise, 1..n) /\ S = Quiet(noise, Runs(n, kept)[i])
      BY <1>2, <2>1 DEF Quiet
    <3>2. kind # "line" /\ m = n + 1
      BY <1>1, <1>4
    <3>3. /\ Tells(AfterRun(kind, noise, kept, m, i), Kept, Quiet(noise, Runs(n, kept)[i]))
          /\ ShownIn(AfterRun(kind, noise, kept, m, i)) = kept \cap {i}
      BY <3>1, <3>2, AfterRunTells
    <3> QED
      BY <2>2, <3>1, <3>3
  <2>6. ss[i] = s \o t
    BY <2>1, <2>2, <2>10
  <2>7. N \cap S = {} /\ ShownIn(s) \cap ShownIn(t) = {}
    BY <2>1, <2>4
  <2>8. Tells(s \o t, Kept, N \cup S) /\ ShownIn(s \o t) = ShownIn(s) \cup ShownIn(t)
    BY <2>4, <2>5, <2>7, JoinTells
  <2> QED
    BY <2>3, <2>4, <2>5, <2>6, <2>8
<1>7. PICK z : z = ss
  OBVIOUS
<1>8. DOMAIN z = 1..m /\ z = [i \in 1..m |-> z[i]] /\ \A i \in 1..m : z[i] = ss[i]
  BY <1>7
<1> HIDE DEF ss
<1>9. \A i \in 1..m : Tells(z[i], Kept, B[i]) /\ ShownIn(z[i]) = kept \cap {i}
  BY <1>6, <1>8
<1>10. Accounts(FlattenSeq(z), Kept, n) /\ ShownIn(FlattenSeq(z)) = kept
  <2>1. PieceTells(z, Kept, B, kept, m)
    BY <1>8, <1>9 DEF PieceTells
  <2>2. kept \in SUBSET (1..m)
    BY <1>1
  <2> QED
    BY <1>3, <2>1, <2>2, PiecesAccount
<1> QED
  BY <1>5, <1>7, <1>10

\* A summary of a diff shows or counts every line.
LEMMA DiffAccounts ==
  ASSUME NEW X, NEW c, c.lines \in Seq(X), NEW parts, parts = DiffOffer(c).parts, parts # <<>>
  PROVE  Accounts(parts, Kept, Len(c.lines)) /\ ShownIn(parts) = DiffKept(c.lines, Noise(c.lines))
<1>1. PICK lines, n, noise : lines = c.lines /\ n = Len(lines) /\ noise = Noise(lines)
  OBVIOUS
<1>2. n \in Nat /\ DOMAIN lines = 1..n
  BY <1>1
<1>3. noise \in [1..n -> Churn]
  BY <1>1, <1>2, NoiseIs
<1>4. PICK kept : kept = DiffKept(lines, noise)
  OBVIOUS
<1>5. kept \in SUBSET {i \in 1..n : noise[i] = "none"}
  BY <1>2, <1>4 DEF DiffKept
<1>6. PICK s : s = DiffParts(lines, noise, kept)
  OBVIOUS
<1>7. parts = s \o <<Marker>>
  BY <1>1, <1>4, <1>6 DEF DiffOffer, Declines, Offers
<1>8. Accounts(s, Kept, n) /\ ShownIn(s) = kept
  BY <1>1, <1>2, <1>3, <1>5, <1>6, DiffPartsAccount
<1>9. PICK h, kinds : h = <<Note("header", 0, n)>> /\ kinds = {"header", "marker"}
  OBVIOUS
<1>10. Silent(h, kinds) /\ {"marker"} \subseteq kinds /\ Kept \cap kinds = {} /\ "line" \notin kinds
  BY <1>2, <1>9, HeaderSilent
<1>11. Accounts(s \o <<Marker>>, Kept, n) /\ ShownIn(s \o <<Marker>>) = ShownIn(s)
  BY <1>8, <1>10, AccountsFramed
<1> QED
  BY <1>1, <1>4, <1>7, <1>8, <1>11

(***************************************************************************)
(* Prose.                                                                  *)
(***************************************************************************)
LEMMA LargerOfTwo ==
  ASSUME NEW a \in Nat, NEW b \in Nat
  PROVE  Max({a, b}) \in {a, b} /\ Max({a, b}) \in Nat /\ Max({a, b}) >= a /\ Max({a, b}) >= b
<1>1. \E x \in {a, b} : \A y \in {a, b} : x >= y
  OBVIOUS
<1>2. Max({a, b}) \in {a, b} /\ \A y \in {a, b} : Max({a, b}) >= y
  BY <1>1 DEF Max
<1> QED
  BY <1>2

\* Whatever is required is kept, however small the budget.
LEMMA RequiredAreKept ==
  ASSUME NEW lines, NEW n \in Nat, DOMAIN lines = 1..n, Len(lines) = n, NEW budget \in Nat, n > budget,
         NEW required
  PROVE  /\ required \cap (1..n) \subseteq KeepWithRequired(lines, budget, required)
         /\ KeepWithRequired(lines, budget, required) \subseteq 1..n
<1> DEFINE Before(a, b) ==
             IF (a \in required) # (b \in required) THEN a \in required
             ELSE IF Importance(lines[a]) # Importance(lines[b])
                  THEN Importance(lines[a]) > Importance(lines[b]) ELSE a < b
           present == required \cap (1..n)
           most == Max({budget, Cardinality(present)})
           Earlier(i) == {j \in 1..n : Before(j, i)}
<1>1. KeepWithRequired(lines, budget, required) = {i \in 1..n : Cardinality(Earlier(i)) < most}
  <2>1. KeepWithRequired(lines, budget, required) = Best(1..n, most, Before)
    <3>1. ~(Len(lines) <= budget)
      OBVIOUS
    <3> QED
      BY <3>1, Zenon DEF KeepWithRequired
  <2> HIDE DEF Before, most
  <2> QED
    BY <2>1 DEF Best
<1>2. IsFiniteSet(present) /\ Cardinality(present) \in Nat
  <2>1. IsFiniteSet(1..n)
    BY FS_Interval
  <2> QED
    BY <2>1, FS_Subset, FS_CardinalityType
<1>3. most \in Nat /\ most >= Cardinality(present)
  BY <1>2, LargerOfTwo
<1>4. ASSUME NEW i \in present PROVE Earlier(i) \subseteq present \ {i}
  <2>1. ASSUME NEW j \in 1..n, j \notin required PROVE ~Before(j, i)
    <3>1. (j \in required) # (i \in required)
      BY <2>1, <1>4
    <3> QED
      BY <2>1, <3>1
  <2>2. ~Before(i, i)
    BY <1>4
  <2> HIDE DEF Before
  <2> QED
    BY <2>1, <2>2
<1> HIDE DEF most, Earlier, present
<1>5. ASSUME NEW i \in present PROVE Cardinality(Earlier(i)) < most
  <2>1. Cardinality(present \ {i}) = Cardinality(present) - 1 /\ IsFiniteSet(present \ {i})
    BY <1>2, <1>5, FS_RemoveElement
  <2>2. IsFiniteSet(Earlier(i)) /\ Cardinality(Earlier(i)) <= Cardinality(present \ {i})
    BY <1>4, <1>5, <2>1, FS_Subset
  <2>3. Cardinality(Earlier(i)) \in Nat
    BY <2>2, FS_CardinalityType
  <2> QED
    BY <1>2, <1>3, <2>1, <2>2, <2>3
<1> QED
  BY <1>1, <1>5 DEF present

\* With both ends kept, what is left out lies between two lines that are kept.
LEMMA KeptPartsAccount ==
  ASSUME NEW n \in Nat, NEW kept \in SUBSET (1..n), n > 0 => 1 \in kept /\ n \in kept
  PROVE  Accounts(KeptParts(n, kept), Kept, n) /\ ShownIn(KeptParts(n, kept)) = kept
<1>1. PICK m \in Nat : m = n + 1
  OBVIOUS
<1>2. PICK B : B = Runs(n, kept)
  OBVIOUS
<1>3. /\ Apart(B, m) /\ AllOf(B, m) = 1..n
      /\ \A i \in 1..m : IsFiniteSet(LeftOut(kept, i))
  BY <1>1, <1>2, RunsCover
<1>4. PICK gap \in PartNames \cap Kept : gap = "gap" /\ gap # "line"
  BY DEF PartNames, Kept
<1>5. "line" \in Kept
  BY DEF Kept
<1> DEFINE ss == [i \in 1..n |->
                    IF i \notin kept THEN <<>>
                    ELSE (IF kept \cap (1 .. i - 1) = {} THEN <<>> ELSE Told(gap, i, LeftOut(kept, i)))
                           \o <<Show(i)>>]
<1>6. KeptParts(n, kept) = FlattenSeq(ss)
  BY <1>4 DEF KeptParts
<1>7. B[m] = {}
  <2>1. m \notin kept
    BY <1>1
  <2>2. B[m] = LeftOut(kept, m)
    BY <1>1, <1>2, <2>1 DEF Runs
  <2>3. LeftOut(kept, m) = {}
    <3>1. \A j \in 1 .. m - 1 : n \in kept /\ n \in j .. m - 1
      BY <1>1
    <3> QED
      BY <3>1 DEF LeftOut
  <2> QED
    BY <2>2, <2>3
<1>8. Apart(B, n) /\ AllOf(B, n) = 1..n
  <2>1. 1..m = (1..n) \cup {m}
    BY <1>1
  <2> QED
    BY <1>3, <1>7, <2>1 DEF Apart, AllOf
<1>9. ASSUME NEW i \in 1..n PROVE Tells(ss[i], Kept, B[i]) /\ ShownIn(ss[i]) = kept \cap {i}
  <2>1. PICK S : S = LeftOut(kept, i)
    OBVIOUS
  <2>2. IsFiniteSet(S) /\ i \notin S /\ i \in Nat
    <3>1. i \in 1..m
      BY <1>1
    <3> QED
      BY <1>3, <2>1, <3>1, NotLeftOut
  <2>3. CASE i \in kept
    <3>1. B[i] = S \cup {i}
      BY <1>1, <1>2, <2>1, <2>3 DEF Runs
    <3>2. /\ Tells(Told(gap, i, S) \o <<Show(i)>>, Kept, S \cup {i})
          /\ ShownIn(Told(gap, i, S) \o <<Show(i)>>) = {i}
      BY <1>4, <1>5, <2>2, ToldAndShown
    <3>3. kept \cap (1 .. i - 1) = {} => Told(gap, i, S) = <<>>
      <4>1. SUFFICES ASSUME kept \cap (1 .. i - 1) = {} PROVE S = {}
        BY DEF Told
      <4>2. 1 \notin 1 .. i - 1
        BY <4>1
      <4>3. 1 .. i - 1 = {}
        BY <4>2
      <4> QED
        BY <2>1, <4>3 DEF LeftOut
    <3>4. ss[i] = Told(gap, i, S) \o <<Show(i)>>
      BY <2>1, <2>3, <3>3
    <3> QED
      BY <2>3, <3>1, <3>2, <3>4
  <2>4. CASE i \notin kept
    <3>1. ss[i] = <<>>
      BY <2>4
    <3>2. B[i] = {}
      BY <1>1, <1>2, <2>4 DEF Runs
    <3> QED
      BY <2>4, <3>1, <3>2, NoneTells
  <2> QED
    BY <2>3, <2>4
<1>10. PICK z : z = ss
  OBVIOUS
<1>11. DOMAIN z = 1..n /\ z = [i \in 1..n |-> z[i]] /\ \A i \in 1..n : z[i] = ss[i]
  BY <1>10
<1> HIDE DEF ss
<1>12. \A i \in 1..n : Tells(z[i], Kept, B[i]) /\ ShownIn(z[i]) = kept \cap {i}
  BY <1>9, <1>11
<1>13. Accounts(FlattenSeq(z), Kept, n) /\ ShownIn(FlattenSeq(z)) = kept
  <2>1. PieceTells(z, Kept, B, kept, n)
    BY <1>11, <1>12 DEF PieceTells
  <2> QED
    BY <1>8, <2>1, PiecesAccount
<1> QED
  BY <1>6, <1>10, <1>13

\* A summary of prose shows or counts every line.
LEMMA ProseAccounts ==
  ASSUME NEW X, NEW c, c.lines \in Seq(X), NEW query, NEW parts, parts = TextOffer(c, query).parts, parts # <<>>
  PROVE  /\ Accounts(parts, Kept, Len(c.lines)) /\ Len(c.lines) > LineBudget
         /\ ShownIn(parts) = KeepWithRequired(c.lines, LineBudget, RequiredLines(c.lines, query))
<1>1. PICK lines, n, required : lines = c.lines /\ n = Len(lines) /\ required = RequiredLines(lines, query)
  OBVIOUS
<1>2. n \in Nat /\ DOMAIN lines = 1..n /\ Len(lines) = n
  BY <1>1
<1>3. PICK kept : kept = KeepWithRequired(lines, LineBudget, required)
  OBVIOUS
<1>4. PICK h, kinds : h = <<Note("header", 0, n)>> /\ kinds = {"header", "marker"}
  OBVIOUS
<1>5. n > LineBudget /\ parts = h \o KeptParts(n, kept) \o <<Marker>>
  BY <1>1, <1>2, <1>3, <1>4, TextCaps DEF TextOffer, Declines, Offers
<1>6. required \cap (1..n) \subseteq kept /\ kept \in SUBSET (1..n)
  BY <1>2, <1>3, <1>5, TextCaps, RequiredAreKept
<1>7. n > 0 => 1 \in kept /\ n \in kept
  <2>1. SelectAnchors(lines) \subseteq required
    BY <1>1 DEF RequiredLines
  <2>2. n > 0 => {1, n} \subseteq SelectAnchors(lines)
    BY <1>2 DEF SelectAnchors
  <2> QED
    BY <1>2, <1>6, <2>1, <2>2
<1>8. Silent(h, kinds) /\ {"marker"} \subseteq kinds /\ Kept \cap kinds = {} /\ "line" \notin kinds
  BY <1>2, <1>4, HeaderSilent
<1>9. PICK s : s = KeptParts(n, kept)
  OBVIOUS
<1>10. Accounts(s, Kept, n) /\ ShownIn(s) = kept
  BY <1>2, <1>6, <1>7, <1>9, KeptPartsAccount
<1>11. Accounts(h \o s \o <<Marker>>, Kept, n) /\ ShownIn(h \o s \o <<Marker>>) = ShownIn(s)
  BY <1>8, <1>10, AccountsFramed
<1> QED
  BY <1>1, <1>3, <1>5, <1>9, <1>10, <1>11

(***************************************************************************)
(* Search hits.                                                            *)
(***************************************************************************)
LEMMA SmallerOfTwo ==
  ASSUME NEW a \in Nat, NEW b \in Nat
  PROVE  Min({a, b}) \in Nat /\ Min({a, b}) <= a /\ Min({a, b}) <= b
<1>1. \E x \in {a, b} : \A y \in {a, b} : x <= y
  OBVIOUS
<1>2. Min({a, b}) \in {a, b} /\ \A y \in {a, b} : Min({a, b}) <= y
  BY <1>1 DEF Min
<1> QED
  BY <1>2

\* The sizes of sets with nothing in common add up to that of all of them.
LEMMA SizesAdd ==
  ASSUME NEW s \in Seq(Nat), NEW B, NEW n, n = Len(s), Apart(B, n),
         \A i \in 1..n : IsFiniteSet(B[i]) /\ s[i] = Cardinality(B[i])
  PROVE  IsFiniteSet(AllOf(B, n)) /\ Cardinality(AllOf(B, n)) = Total(s)
<1>1. n \in Nat
  OBVIOUS
<1>2. PICK o \in [0..n -> Nat] : SumsOf(o, s)
  BY TotalIs
<1>3. Total(s) = o[n]
  BY <1>2, TotalIs
<1>4. o[0] = 0 /\ \A k \in 1..n : o[k] = o[k - 1] + s[k]
  BY <1>2 DEF SumsOf
<1> DEFINE Good == {k \in 0..n : IsFiniteSet(AllOf(B, k)) /\ Cardinality(AllOf(B, k)) = o[k]}
<1>5. 0 \in Good
  <2>1. AllOf(B, 0) = {}
    BY DEF AllOf
  <2>2. IsFiniteSet({}) /\ Cardinality({}) = 0
    BY FS_EmptySet
  <2>3. 0 \in 0..n
    BY <1>1
  <2> QED
    BY <1>4, <2>1, <2>2, <2>3
<1>6. ASSUME NEW k \in 0 .. n - 1, k \in Good PROVE k + 1 \in Good
  <2>1. PICK j : j = k + 1
    OBVIOUS
  <2>2. j \in 1..n /\ j - 1 = k
    BY <1>1, <2>1
  <2>3. AllOf(B, j) = AllOf(B, k) \cup B[j]
    <3>1. 1..j = (1..k) \cup {j}
      BY <1>1, <2>1
    <3> QED
      BY <3>1 DEF AllOf
  <2>4. AllOf(B, k) \cap B[j] = {}
    <3>1. \A i \in 1..k : i \in 1..n /\ i # j
      BY <1>1, <2>1
    <3> QED
      BY <2>2, <3>1 DEF AllOf, Apart
  <2>5. IsFiniteSet(AllOf(B, j)) /\ Cardinality(AllOf(B, j)) = Cardinality(AllOf(B, k)) + Cardinality(B[j])
    <3>1. PICK S, T : S = AllOf(B, k) /\ T = B[j]
      OBVIOUS
    <3>2. IsFiniteSet(S)
      BY <1>6, <3>1
    <3>3. IsFiniteSet(T)
      BY <2>2, <3>1
    <3> HIDE DEF Good
    <3>4. S \cap T = {}
      BY <2>4, <3>1
    <3>5. IsFiniteSet(S \cup T) /\ Cardinality(S \cup T) = Cardinality(S) + Cardinality(T)
      BY <3>2, <3>3, <3>4, SumOfDisjoint
    <3> QED
      BY <2>3, <3>1, <3>5
  <2>6. Cardinality(AllOf(B, j)) = o[j]
    BY <1>4, <1>6, <2>2, <2>5
  <2>7. j \in 0..n
    BY <2>2
  <2> QED
    BY <2>1, <2>5, <2>6, <2>7
<1>7. Good \in SUBSET (0..n)
  OBVIOUS
<1> HIDE DEF Good
<1>8. \A k \in 0..n : k \in Good
  BY <1>1, <1>5, <1>6, <1>7, NumbersUpTo
<1>9. n \in Good
  BY <1>1, <1>8
<1> QED
  BY <1>3, <1>9 DEF Good

FileHits(lines, path) == {i \in Hits(lines) : lines[i].path = path}

\* The hits of a file in the order of the source.
LEMMA HitsInIs ==
  ASSUME NEW X, NEW lines \in Seq(X), NEW path
  PROVE  /\ Lists(HitsIn(lines, path), FileHits(lines, path), Cardinality(FileHits(lines, path)))
         /\ FileHits(lines, path) \in SUBSET (1..Len(lines))
<1>1. PICK n \in Nat : n = Len(lines) /\ DOMAIN lines = 1..n
  OBVIOUS
<1>2. PICK S : S = FileHits(lines, path)
  OBVIOUS
<1>3. S \in SUBSET (1..n)
  BY <1>1, <1>2 DEF FileHits, Hits
<1>4. PICK m : m = Cardinality(S)
  OBVIOUS
<1>5. Lists(Ascending(S), S, m)
  BY <1>3, <1>4, AscendingPositions
<1>6. HitsIn(lines, path) = Ascending(S)
  BY <1>2 DEF HitsIn, FileHits
<1> QED
  BY <1>1, <1>2, <1>3, <1>4, <1>5, <1>6

\* Each file has a first hit, and no hit is in two files.
FilesApart(lines, files, q) ==
  /\ q \in Nat /\ DOMAIN files = 1..q /\ files \in Seq({files[k] : k \in 1..q})
  /\ \A k \in 1..q : HitsIn(lines, files[k])[1] \in FileHits(lines, files[k])
  /\ \A j, k \in 1..q : j # k => files[j] # files[k]

\* The files are those with a hit, each once.
LEMMA FilesAre ==
  ASSUME NEW X, NEW lines \in Seq(X), NEW files, files = Files(lines), NEW q, q = Len(files)
  PROVE  FilesApart(lines, files, q)
<1>1. PICK n \in Nat : n = Len(lines) /\ DOMAIN lines = 1..n
  OBVIOUS
<1>2. PICK S : S = {i \in Hits(lines) : HitsIn(lines, lines[i].path)[1] = i}
  OBVIOUS
<1>3. S \in SUBSET (1..n)
  BY <1>1, <1>2 DEF Hits
<1>4. PICK m, f : m = Cardinality(S) /\ f = Ascending(S)
  OBVIOUS
<1>5. Lists(f, S, m)
  BY <1>3, <1>4, AscendingPositions
<1>6. m \in Nat /\ f \in [1..m -> S] /\ DOMAIN f = 1..m /\ \A j, k \in 1..m : f[j] = f[k] => j = k
  BY <1>5 DEF Lists
<1>7. files = [k \in 1..m |-> lines[f[k]].path]
  BY <1>2, <1>4, <1>6 DEF Files
<1>8. DOMAIN files = 1..m /\ q = m
  BY <1>6, <1>7
<1>9. \A k \in 1..m : f[k] \in FileHits(lines, files[k]) /\ HitsIn(lines, files[k])[1] = f[k]
  <2> TAKE k \in 1..m
  <2>1. f[k] \in S /\ files[k] = lines[f[k]].path
    BY <1>6, <1>7
  <2> QED
    BY <1>2, <2>1 DEF FileHits
<1>10. \A j, k \in 1..m : j # k => files[j] # files[k]
  BY <1>6, <1>9
<1>11. files \in [1..m -> {files[k] : k \in 1..m}]
  BY <1>7, <1>8
<1>12. files \in Seq({files[k] : k \in 1..m})
  <2>1. PICK Y : Y = {files[k] : k \in 1..m}
    OBVIOUS
  <2>2. files \in [1..m -> Y] /\ m \in Nat
    BY <1>6, <1>11, <2>1
  <2>3. files \in Seq(Y)
    BY <2>2
  <2> QED
    BY <2>1, <2>3
<1> QED
  BY <1>6, <1>8, <1>9, <1>10, <1>12 DEF FilesApart

\* A file wants no more than it has.
LEMMA WantedIs ==
  ASSUME NEW X, NEW lines \in Seq(X), NEW path
  PROVE  Wanted(lines, path) \in Nat /\ Wanted(lines, path) <= Cardinality(FileHits(lines, path))
<1>1. PICK m : m = Cardinality(FileHits(lines, path))
  OBVIOUS
<1>2. Lists(HitsIn(lines, path), FileHits(lines, path), m)
  BY <1>1, HitsInIs
<1>3. m \in Nat /\ Len(HitsIn(lines, path)) = m
  BY <1>2 DEF Lists
<1>4. MaxMatchesPerFile \in Nat
  BY SearchCaps
<1> QED
  BY <1>1, <1>3, <1>4, SmallerOfTwo DEF Wanted

\* A file is shown no more than it has.
LEMMA ShareIs ==
  ASSUME NEW X, NEW lines \in Seq(X), NEW files, NEW q \in Nat, DOMAIN files = 1..q, NEW k \in 1..q
  PROVE  Share(lines, files, k) \in Nat /\ Share(lines, files, k) <= Cardinality(FileHits(lines, files[k]))
<1>1. PICK s : s = [j \in 1 .. k - 1 |-> Wanted(lines, files[j])]
  OBVIOUS
<1>2. s \in Seq(Nat)
  <2>1. \A j \in 1 .. k - 1 : Wanted(lines, files[j]) \in Nat
    BY WantedIs
  <2>2. s \in [1 .. k - 1 -> Nat]
    BY <1>1, <2>1
  <2>3. k - 1 \in Nat
    OBVIOUS
  <2> QED
    BY <2>2, <2>3
<1>3. Total(s) \in Nat
  BY <1>2, TotalIs
<1>4. PICK budget : budget = IF MaxTotalMatches > Total(s) THEN MaxTotalMatches - Total(s) ELSE 0
  OBVIOUS
<1>5. budget \in Nat
  BY <1>3, <1>4, SearchCaps
<1>6. Share(lines, files, k) = Min({Wanted(lines, files[k]), budget})
  BY <1>1, <1>4 DEF Share
<1>7. PICK w, c : w = Wanted(lines, files[k]) /\ c = Cardinality(FileHits(lines, files[k]))
  OBVIOUS
<1>8. w \in Nat /\ w <= c
  BY <1>7, WantedIs
<1>9. Min({w, budget}) \in Nat /\ Min({w, budget}) <= w
  BY <1>5, <1>8, SmallerOfTwo
<1>10. c \in Nat
  <2>1. Lists(HitsIn(lines, files[k]), FileHits(lines, files[k]), c)
    BY <1>7, HitsInIs
  <2> QED
    BY <2>1 DEF Lists
<1> QED
  BY <1>6, <1>7, <1>8, <1>9, <1>10

\* The hits a file shows.
ShownOf(lines, files, k) ==
  {HitsIn(lines, files[k])[j] : j \in 1 .. Share(lines, files, k)}

\* What one file's parts, s, tell of its hits P: they show S of them, and say
\* at the first, i, how many they do not.
FileTold(s, P, S, i) ==
  /\ s \in Seq(Part) /\ IsFiniteSet(S) /\ ShownIn(s) = S
  /\ CountAbout(s, {"line"}, Nat) = Cardinality(S)
  /\ CountAbout(s, {"elided"}, Nat) = 0
  /\ \A A : CountAbout(s, {"more"}, A) = IF i \in A THEN Cardinality(P \ S) ELSE 0
  /\ \A k \in DOMAIN s : s[k].part = "file" => s[k].at = i

Shared(P, S, h, s) ==
  /\ IsFiniteSet(P) /\ S \subseteq P /\ IsFiniteSet(S) /\ Cardinality(S) = s
  /\ Cardinality(P) = Len(h) /\ Cardinality(P \ S) = Len(h) - s
  /\ Listed([j \in 1..s |-> Show(h[j])], h, s)

\* What a file shows are its first hits.
LEMMA ShownOfIs ==
  ASSUME NEW X, NEW lines \in Seq(X), NEW files, NEW q \in Nat, DOMAIN files = 1..q, NEW k \in 1..q,
         NEW P, P = FileHits(lines, files[k]), NEW S, S = ShownOf(lines, files, k)
  PROVE  Shared(P, S, HitsIn(lines, files[k]), Share(lines, files, k))
<1>1. PICK h, m, s : h = HitsIn(lines, files[k]) /\ m = Cardinality(P) /\ s = Share(lines, files, k)
  OBVIOUS
<1>2. Lists(h, P, m) /\ P \in SUBSET (1..Len(lines))
  BY <1>1, HitsInIs
<1>3. /\ IsFiniteSet(P) /\ m \in Nat /\ h \in [1..m -> P] /\ Len(h) = m
      /\ \A j, l \in 1..m : h[j] = h[l] => j = l
  BY <1>2 DEF Lists
<1>4. s \in Nat /\ s <= m
  BY <1>1, ShareIs
<1>5. PICK g : g = [j \in 1..s |-> h[j]]
  OBVIOUS
<1>6. g \in [1..s -> Nat] /\ \A j, l \in 1..s : g[j] = g[l] => j = l
  <2>1. \A j \in 1..s : j \in 1..m
    BY <1>3, <1>4
  <2>2. P \subseteq Nat
    BY <1>2
  <2>3. \A j \in 1..s : h[j] \in Nat
    BY <1>3, <2>1, <2>2
  <2> QED
    BY <1>3, <1>5, <2>1, <2>3
<1>7. Listed([j \in 1..s |-> Show(g[j])], g, s)
  BY <1>4, <1>6, ShowsListed
<1>8. [j \in 1..s |-> Show(g[j])] = [j \in 1..s |-> Show(h[j])] /\ S = {g[j] : j \in 1..s}
  BY <1>1, <1>5 DEF ShownOf
<1>9. S \subseteq P
  BY <1>3, <1>4, <1>5, <1>8
<1>10. PICK u : u = [j \in 1..s |-> Show(h[j])]
  OBVIOUS
<1>11. /\ u \in Seq(Part) /\ ShownIn(u) = S /\ IsFiniteSet(S) /\ Cardinality(S) = s
       /\ \A K : CountAbout(u, K, Nat) = IF "line" \in K THEN s ELSE 0
  BY <1>7, <1>8, <1>10 DEF Listed
<1>12. S = {h[j] : j \in 1..s}
  BY <1>5, <1>8
<1>13. Listed(u, h, s)
  BY <1>11, <1>12 DEF Listed
<1>14. Cardinality(P \ S) = m - s
  <2>1. IsFiniteSet(P \ S) /\ P = S \cup (P \ S) /\ S \cap (P \ S) = {}
    BY <1>3, <1>9, FS_Subset
  <2>2. Cardinality(P) = Cardinality(S) + Cardinality(P \ S) /\ Cardinality(P \ S) \in Nat
    BY <1>11, <2>1, SumOfDisjoint, FS_CardinalityType
  <2> QED
    BY <1>1, <1>3, <1>4, <1>11, <2>2
<1>15. Shared(P, S, h, s)
  BY <1>1, <1>3, <1>9, <1>10, <1>11, <1>13, <1>14 DEF Shared
<1> QED
  BY <1>1, <1>15

\* A file's parts show its share and count the rest.
LEMMA FilePartsTell ==
  ASSUME NEW X, NEW lines \in Seq(X), NEW files, NEW q \in Nat, DOMAIN files = 1..q, NEW k \in 1..q,
         NEW P, P = FileHits(lines, files[k]), NEW S, S = ShownOf(lines, files, k),
         NEW i \in P, i = HitsIn(lines, files[k])[1]
  PROVE  FileTold(FileParts(lines, files, k), P, S, i)
<1>1. PICK h, m, s : h = HitsIn(lines, files[k]) /\ m = Len(h) /\ s = Share(lines, files, k)
  OBVIOUS
<1>2. /\ IsFiniteSet(P) /\ S \subseteq P /\ IsFiniteSet(S) /\ Cardinality(S) = s
      /\ Cardinality(P) = m /\ Cardinality(P \ S) = m - s
      /\ Listed([j \in 1..s |-> Show(h[j])], h, s)
  <2>1. Shared(P, S, HitsIn(lines, files[k]), Share(lines, files, k))
    BY ShownOfIs
  <2>2. Shared(P, S, h, s)
    BY <1>1, <2>1
  <2> QED
    BY <1>1, <2>2 DEF Shared
<1>3. s \in Nat /\ m \in Nat /\ s <= m /\ i \in Nat
  <2>1. P \in SUBSET (1..Len(lines))
    BY HitsInIs
  <2>2. s \in Nat /\ s <= Cardinality(P)
    BY <1>1, ShareIs
  <2>3. m \in Nat
    BY <1>2, FS_CardinalityType
  <2> QED
    BY <1>2, <2>1, <2>2, <2>3
<1>4. PICK file, more : file = "file" /\ more = "more"
  OBVIOUS
<1>5. {file, more} \subseteq PartNames /\ file # "line" /\ more # "line" /\ file # more
      /\ {"line"} \cap {file, more} = {} /\ {"elided"} \cap {file, more} = {}
  BY <1>4 DEF PartNames
<1>6. PICK a, b, d : /\ a = <<Note(file, i, 0)>> /\ b = [j \in 1..s |-> Show(h[j])]
                     /\ d = IF m > s THEN <<Note(more, i, m - s)>> ELSE <<>>
  OBVIOUS
<1>7. FileParts(lines, files, k) = a \o b \o d
  BY <1>1, <1>4, <1>6 DEF FileParts
<1>8. /\ a \in Seq(Part) /\ ShownIn(a) = {}
      /\ \A K, A : CountAbout(a, K, A) = 0
  <2>1. /\ a \in Seq(Part) /\ ShownIn(a) = {}
        /\ \A K, A : CountAbout(a, K, A) = IF file \in K /\ i \in A THEN 0 ELSE 0
    BY <1>3, <1>5, <1>6, NoteCounts
  <2> QED
    BY <2>1
<1>9. /\ b \in Seq(Part) /\ ShownIn(b) = S
      /\ \A K : CountAbout(b, K, Nat) = IF "line" \in K THEN s ELSE 0
  <2>1. Listed(b, h, s)
    BY <1>2, <1>6
  <2>2. S = {h[j] : j \in 1..s}
    BY <1>1 DEF ShownOf
  <2> QED
    BY <2>1, <2>2 DEF Listed
<1>10. \A j \in 1..s : b[j].part = "line"
  BY <1>6 DEF Show
<1>11. \A A : CountAbout(b, {more}, A) = 0
  <2> TAKE A
  <2>1. \A j \in DOMAIN b : ~(b[j].part \in {more} /\ b[j].at \in A)
    BY <1>5, <1>6, <1>10
  <2> QED
    BY <1>9, <2>1, NothingCounted
<1>12. /\ d \in Seq(Part) /\ ShownIn(d) = {}
       /\ \A K, A : CountAbout(d, K, A) = IF more \in K /\ i \in A THEN m - s ELSE 0
       /\ \A j \in DOMAIN d : d[j].part = more
  <2>1. CASE m > s
    <3>1. PICK n \in Nat : n = m - s
      BY <1>3, <2>1
    <3>2. d = <<Note(more, i, n)>>
      BY <1>6, <2>1, <3>1
    <3>3. /\ <<Note(more, i, n)>> \in Seq(Part) /\ ShownIn(<<Note(more, i, n)>>) = {}
          /\ \A K, A : CountAbout(<<Note(more, i, n)>>, K, A) = IF more \in K /\ i \in A THEN n ELSE 0
      BY <1>3, <1>5, NoteCounts
    <3>4. \A j \in DOMAIN d : d[j].part = more
      <4>1. PICK p : p = Note(more, i, n) /\ p.part = more
        BY <1>3, <1>5, NoteIs
      <4>2. d = <<p>>
        BY <3>2, <4>1
      <4> QED
        BY <4>1, <4>2
    <3> QED
      BY <3>1, <3>2, <3>3, <3>4
  <2>2. CASE ~(m > s)
    <3>1. d = <<>> /\ m - s = 0
      BY <1>3, <1>6, <2>2
    <3>2. <<>> \in Seq(Part) /\ ShownIn(<<>>) = {} /\ \A K, A : CountAbout(<<>>, K, A) = 0
      BY CountOfNone
    <3> QED
      BY <3>1, <3>2
  <2> QED
    BY <2>1, <2>2
<1>13. PICK u : u = a \o b
  OBVIOUS
<1>14. Joins(u, a, b)
  BY <1>8, <1>9, <1>13, Joined
<1>15. /\ u \in Seq(Part) /\ ShownIn(u) = S
       /\ \A K, A : CountAbout(u, K, A) = CountAbout(a, K, A) + CountAbout(b, K, A)
  BY <1>8, <1>9, <1>14 DEF Joins
<1>16. PICK w : w = u \o d
  OBVIOUS
<1>17. Joins(w, u, d)
  BY <1>12, <1>15, <1>16, Joined
<1>18. /\ w \in Seq(Part) /\ ShownIn(w) = S
       /\ \A K, A : CountAbout(w, K, A) = CountAbout(u, K, A) + CountAbout(d, K, A)
  BY <1>12, <1>15, <1>17 DEF Joins
<1>19. CountAbout(w, {"line"}, Nat) = s
  <2>1. CountAbout(d, {"line"}, Nat) = 0 /\ CountAbout(a, {"line"}, Nat) = 0 /\ CountAbout(b, {"line"}, Nat) = s
    BY <1>5, <1>8, <1>9, <1>12
  <2> QED
    BY <1>3, <1>15, <1>18, <2>1
<1>20. CountAbout(w, {"elided"}, Nat) = 0
  <2>1. CountAbout(d, {"elided"}, Nat) = 0 /\ CountAbout(a, {"elided"}, Nat) = 0 /\ CountAbout(b, {"elided"}, Nat) = 0
    BY <1>5, <1>8, <1>9, <1>12
  <2> QED
    BY <1>15, <1>18, <2>1
<1>21. \A A : CountAbout(w, {more}, A) = IF i \in A THEN m - s ELSE 0
  <2> TAKE A
  <2>1. /\ CountAbout(d, {more}, A) = (IF i \in A THEN m - s ELSE 0)
        /\ CountAbout(a, {more}, A) = 0 /\ CountAbout(b, {more}, A) = 0
    BY <1>8, <1>11, <1>12
  <2>2. CountAbout(w, {more}, A) = 0 + 0 + (IF i \in A THEN m - s ELSE 0)
    BY <1>15, <1>18, <2>1
  <2> QED
    BY <1>3, <2>2
<1>22. \A j \in DOMAIN w : w[j].part = file => w[j].at = i
  <2> DEFINE Q == {p \in Part : p.part = file => p.at = i}
  <2>1. a \in Seq(Q)
    <3>1. Note(file, i, 0) \in Q
      BY <1>3, <1>5, NoteIs
    <3> QED
      BY <1>6, <3>1
  <2>2. b \in Seq(Q)
    <3>3. DOMAIN b = 1..s
      BY <1>6
    <3>4. \A j \in DOMAIN b : b[j] \in Part
      BY <1>9
    <3>1. DOMAIN b = 1..s /\ \A j \in 1..s : b[j] \in Part /\ b[j].part # file
      BY <1>5, <1>10, <3>3, <3>4
    <3>2. b \in [1..s -> Q]
      BY <1>6, <3>1
    <3> QED
      BY <1>3, <3>2
  <2>3. d \in Seq(Q)
    <3>1. \A j \in DOMAIN d : d[j] \in Part /\ d[j].part # file
      BY <1>5, <1>12
    <3>2. \A j \in 1..Len(d) : d[j] \in Q
      BY <1>12, <3>1
    <3> QED
      BY <1>12, <3>2
  <2> HIDE DEF Q
  <2>4. u \in Seq(Q)
    BY <1>13, <2>1, <2>2, ConcatProperties
  <2>5. w \in Seq(Q)
    BY <1>16, <2>3, <2>4, ConcatProperties
  <2>6. \A j \in DOMAIN w : w[j] \in Q
    BY <2>5
  <2> QED
    BY <2>6 DEF Q
<1> QED
  BY <1>2, <1>4, <1>7, <1>13, <1>16, <1>18, <1>19, <1>20, <1>21, <1>22 DEF FileTold

\* What the parts of q files, F, tell: of each file's hits P the ones in S.
FilesTold(F, P, S, first, q) ==
  /\ F \in Seq(Part) /\ IsFiniteSet(AllOf(S, q)) /\ ShownIn(F) = AllOf(S, q)
  /\ CountAbout(F, {"line"}, Nat) = Cardinality(AllOf(S, q))
  /\ CountAbout(F, {"elided"}, Nat) = 0
  /\ \A k \in 1..q : CountAbout(F, {"more"}, P[k]) = Cardinality(P[k] \ S[k])
  /\ \A k \in DOMAIN F : F[k].part = "file" => \E j \in 1..q : F[k].at = first[j]

\* So do the parts of several files, of the hits of all of them.
LEMMA FilesTell ==
  ASSUME NEW ss \in Seq(Seq(Part)), NEW q, q = Len(ss), NEW P, NEW S, NEW first, Apart(P, q),
         \A k \in 1..q : /\ FileTold(ss[k], P[k], S[k], first[k]) /\ S[k] \subseteq P[k]
                         /\ IsFiniteSet(P[k]) /\ first[k] \in P[k]
  PROVE  FilesTold(FlattenSeq(ss), P, S, first, q)
<1>1. q \in Nat
  OBVIOUS
<1>2. PICK F : F = FlattenSeq(ss)
  OBVIOUS
<1>3. Apart(S, q)
  BY DEF Apart
<1>4. F \in Seq(Part) /\ ShownIn(F) = UNION {ShownIn(ss[k]) : k \in 1..q}
  BY <1>2, PiecesShow
<1>5. ShownIn(F) = AllOf(S, q)
  <2>1. \A k \in 1..q : ShownIn(ss[k]) = S[k]
    BY DEF FileTold
  <2>2. {ShownIn(ss[k]) : k \in 1..q} = {S[k] : k \in 1..q}
    BY <2>1
  <2> QED
    BY <1>4, <2>2 DEF AllOf
<1>6. IsFiniteSet(AllOf(S, q)) /\ CountAbout(F, {"line"}, Nat) = Cardinality(AllOf(S, q))
  <2>1. Weighs(ss, {"line"}, Nat, S)
    BY DEF Weighs, FileTold
  <2>2. /\ IsFiniteSet(AllOf(S, Len(ss)))
        /\ CountAbout(FlattenSeq(ss), {"line"}, Nat) = Cardinality(AllOf(S, Len(ss)))
    BY <1>3, <2>1, PiecesCount
  <2> QED
    BY <1>2, <2>2
<1>7. CountAbout(F, {"elided"}, Nat) = 0
  <2>1. PICK z : z = [k \in 1..q |-> {}]
    OBVIOUS
  <2>2. Apart(z, q) /\ AllOf(z, q) = {} /\ \A i \in 1..q : z[i] = {}
    BY <2>1 DEF Apart, AllOf
  <2>3. \A k \in 1..q : CountAbout(ss[k], {"elided"}, Nat) = 0
    BY DEF FileTold
  <2>4. Weighs(ss, {"elided"}, Nat, z) /\ Apart(z, Len(ss))
    BY <2>2, <2>3, FS_EmptySet DEF Weighs
  <2>5. CountAbout(FlattenSeq(ss), {"elided"}, Nat) = Cardinality(AllOf(z, Len(ss)))
    BY <2>4, PiecesCount
  <2> QED
    BY <1>2, <2>2, <2>5, FS_EmptySet
<1>8. ASSUME NEW l \in 1..q PROVE CountAbout(F, {"more"}, P[l]) = Cardinality(P[l] \ S[l])
  <2>1. PICK B : B = [k \in 1..q |-> IF k = l THEN P[l] \ S[l] ELSE {}]
    OBVIOUS
  <2>2. \A k \in 1..q : B[k] = IF k = l THEN P[l] \ S[l] ELSE {}
    BY <2>1
  <2>3. Apart(B, q) /\ AllOf(B, q) = P[l] \ S[l]
    <3>1. \A i, j \in 1..q : i # j => B[i] = {} \/ B[j] = {}
      BY <2>2
    <3>2. Apart(B, q)
      BY <3>1 DEF Apart
    <3>3. B[l] = P[l] \ S[l] /\ \A k \in 1..q : B[k] \subseteq P[l] \ S[l]
      BY <2>2
    <3>4. AllOf(B, q) = P[l] \ S[l]
      BY <3>3 DEF AllOf
    <3> QED
      BY <3>2, <3>4
  <2>4. \A k \in 1..q : first[k] \in P[l] <=> k = l
    BY DEF Apart
  <2>5. \A k \in 1..q : CountAbout(ss[k], {"more"}, P[l]) = IF k = l THEN Cardinality(P[l] \ S[l]) ELSE 0
    <3> TAKE k \in 1..q
    <3>1. CountAbout(ss[k], {"more"}, P[l]) = IF first[k] \in P[l] THEN Cardinality(P[k] \ S[k]) ELSE 0
      BY DEF FileTold
    <3> QED
      BY <2>4, <3>1
  <2>6. IsFiniteSet(P[l] \ S[l]) /\ IsFiniteSet({}) /\ Cardinality({}) = 0
    BY FS_EmptySet, FS_Subset
  <2>7. Weighs(ss, {"more"}, P[l], B) /\ Apart(B, Len(ss))
    BY <2>2, <2>3, <2>5, <2>6 DEF Weighs
  <2>8. CountAbout(FlattenSeq(ss), {"more"}, P[l]) = Cardinality(AllOf(B, Len(ss)))
    BY <2>7, PiecesCount
  <2> QED
    BY <1>2, <2>3, <2>8
<1>9. \A k \in DOMAIN F : F[k].part = "file" => \E j \in 1..q : F[k].at = first[j]
  <2> DEFINE Q == {p \in Part : p.part = "file" => \E j \in 1..q : p.at = first[j]}
  <2>1. \A k \in 1..q : ss[k] \in Seq(Q)
    <3> TAKE k \in 1..q
    <3>1. \A j \in DOMAIN ss[k] : ss[k][j].part = "file" => ss[k][j].at = first[k]
      BY DEF FileTold
    <3>2. PICK s \in Seq(Part) : s = ss[k]
      OBVIOUS
    <3>3. \A j \in 1..Len(s) : s[j] \in Q
      BY <3>1, <3>2
    <3> HIDE DEF Q
    <3>4. PICK n \in Nat : n = Len(s)
      OBVIOUS
    <3>5. s \in [1..n -> Q]
      <4>1. s \in [1..n -> Part]
        BY <3>4
      <4> QED
        BY <3>3, <3>4, <4>1
    <3>6. PICK R : R = Q
      OBVIOUS
    <3>7. s \in [1..n -> R]
      BY <3>5, <3>6
    <3>8. s \in Seq(R)
      BY <3>4, <3>7, IsASequence
    <3> QED
      BY <3>2, <3>6, <3>8
  <2> HIDE DEF Q
  <2>2. ss \in Seq(Seq(Q))
    <3>1. PICK R : R = Seq(Q)
      OBVIOUS
    <3>2. ss \in [1..q -> Seq(Part)]
      BY <1>1
    <3>3. ss \in [1..q -> R]
      BY <2>1, <3>1, <3>2
    <3>4. ss \in Seq(R)
      BY <1>1, <3>3, IsASequence
    <3> QED
      BY <3>1, <3>4
  <2>3. PICK o \in [0..q -> Seq(Q)] : Pieces(o, ss) /\ FlattenSeq(ss) = o[q]
    BY <2>2, FlattenIs
  <2>4. F \in Seq(Q)
    BY <1>1, <1>2, <2>3
  <2>5. \A k \in DOMAIN F : F[k] \in Q
    BY <2>4
  <2> QED
    BY <2>5 DEF Q
<1>10. FilesTold(F, P, S, first, q)
  BY <1>4, <1>5, <1>6, <1>7, <1>8, <1>9 DEF FilesTold
<1> QED
  BY <1>2, <1>10

\* Lines shown that no file claims, and the hits no file shows.
Elsewhere(s, S, n) ==
  /\ s \in Seq(Part) /\ ShownIn(s) = S /\ IsFiniteSet(S)
  /\ CountAbout(s, {"line"}, Nat) = Cardinality(S)
  /\ CountAbout(s, {"elided"}, Nat) = n
  /\ \A A : CountAbout(s, {"more"}, A) = 0
  /\ \A k \in DOMAIN s : s[k].part # "file"

\* The lines that are no hits, shown after the files.
LEMMA UnparsedTell ==
  ASSUME NEW m \in Nat, NEW S \in SUBSET (1..m)
  PROVE  Elsewhere([k \in DOMAIN Ascending(S) |-> Show(Ascending(S)[k])], S, 0)
<1>1. PICK a, n : a = Ascending(S) /\ n = Cardinality(S)
  OBVIOUS
<1>2. Lists(a, S, n)
  BY <1>1, AscendingPositions
<1>3. /\ IsFiniteSet(S) /\ n \in Nat /\ a \in [1..n -> S] /\ DOMAIN a = 1..n
      /\ \A j, k \in 1..n : a[j] = a[k] => j = k
      /\ \A i \in S : \E k \in 1..n : a[k] = i
  BY <1>2 DEF Lists
<1>4. a \in [1..n -> Nat]
  <2>1. S \subseteq Nat
    OBVIOUS
  <2> QED
    BY <1>3, <2>1
<1>5. PICK s : s = [k \in 1..n |-> Show(a[k])]
  OBVIOUS
<1>6. Listed([k \in 1..n |-> Show(a[k])], a, n)
  BY <1>3, <1>4, ShowsListed
<1>7. S = {a[k] : k \in 1..n}
  <2>1. \A k \in 1..n : a[k] \in S
    BY <1>3
  <2>2. \A i \in S : \E k \in 1..n : a[k] = i
    BY <1>3
  <2> QED
    BY <2>1, <2>2
<1>8. /\ s \in Seq(Part) /\ ShownIn(s) = S
      /\ \A K : CountAbout(s, K, Nat) = IF "line" \in K THEN n ELSE 0
  BY <1>5, <1>6, <1>7 DEF Listed
<1>9. DOMAIN s = 1..n /\ \A k \in 1..n : s[k].part = "line"
  BY <1>5 DEF Show
<1>10. \A A : CountAbout(s, {"more"}, A) = 0
  <2> TAKE A
  <2>1. \A k \in DOMAIN s : ~(s[k].part \in {"more"} /\ s[k].at \in A)
    BY <1>9
  <2> QED
    BY <1>8, <2>1, NothingCounted
<1>11. CountAbout(s, {"line"}, Nat) = n /\ CountAbout(s, {"elided"}, Nat) = 0
  BY <1>8
<1>12. \A k \in DOMAIN s : s[k].part # "file"
  BY <1>9
<1>13. Elsewhere(s, S, 0)
  BY <1>1, <1>3, <1>8, <1>10, <1>11, <1>12 DEF Elsewhere
<1> QED
  BY <1>1, <1>3, <1>5, <1>13

\* A note that is not about a file or a line.
LEMMA AsideTell ==
  ASSUME NEW kind \in PartNames, kind \notin {"line", "more", "file"}, NEW n \in Nat
  PROVE  Elsewhere(<<Note(kind, 0, n)>>, {}, IF kind = "elided" THEN n ELSE 0)
<1>1. PICK p : p = Note(kind, 0, n) /\ p.part = kind
  BY NoteIs
<1>2. kind # "line" /\ 0 \in Nat
  OBVIOUS
<1>3. /\ <<Note(kind, 0, n)>> \in Seq(Part) /\ ShownIn(<<Note(kind, 0, n)>>) = {}
      /\ \A K, A : CountAbout(<<Note(kind, 0, n)>>, K, A) = IF kind \in K /\ 0 \in A THEN n ELSE 0
  BY <1>2, NoteCounts
<1>4. PICK s : s = <<p>>
  OBVIOUS
<1>5. /\ s \in Seq(Part) /\ ShownIn(s) = {}
      /\ \A K, A : CountAbout(s, K, A) = IF kind \in K /\ 0 \in A THEN n ELSE 0
  BY <1>1, <1>3, <1>4
<1>6. CountAbout(s, {"line"}, Nat) = 0 /\ \A A : CountAbout(s, {"more"}, A) = 0
  BY <1>5
<1>7. CountAbout(s, {"elided"}, Nat) = IF kind = "elided" THEN n ELSE 0
  BY <1>2, <1>5
<1>8. \A k \in DOMAIN s : s[k].part # "file"
  BY <1>1, <1>4
<1>9. Elsewhere(s, {}, IF kind = "elided" THEN n ELSE 0)
  BY <1>5, <1>6, <1>7, <1>8, FS_EmptySet DEF Elsewhere
<1> QED
  BY <1>1, <1>4, <1>9

\* Nothing is shown and nothing counted.
LEMMA NoneTell == Elsewhere(<<>>, {}, 0)
<1>1. PICK s : s = <<>>
  OBVIOUS
<1>2. s \in Seq(Part) /\ ShownIn(s) = {} /\ \A K, A : CountAbout(s, K, A) = 0
  BY <1>1, CountOfNone
<1>3. \A k \in DOMAIN s : s[k].part # "file"
  BY <1>1
<1>4. Elsewhere(s, {}, 0)
  BY <1>2, <1>3, FS_EmptySet DEF Elsewhere
<1> QED
  BY <1>1, <1>4

\* The files' parts F with others around them, which show T and count n.
Beside(u, F, T, n) ==
  /\ u \in Seq(Part) /\ IsFiniteSet(T) /\ n \in Nat
  /\ ShownIn(u) = ShownIn(F) \cup T
  /\ CountAbout(u, {"line"}, Nat) = CountAbout(F, {"line"}, Nat) + Cardinality(T)
  /\ CountAbout(u, {"elided"}, Nat) = CountAbout(F, {"elided"}, Nat) + n
  /\ \A A : CountAbout(u, {"more"}, A) = CountAbout(F, {"more"}, A)
  /\ \A k \in DOMAIN u : u[k].part = "file" =>
       \E j \in DOMAIN F : F[j].part = "file" /\ F[j].at = u[k].at

\* What comes before the files leaves what they tell.
LEMMA ElsewhereBefore ==
  ASSUME NEW F \in Seq(Part), NEW s, Elsewhere(s, {}, 0)
  PROVE  Beside(s \o F, F, {}, 0)
<1>1. s \in Seq(Part) /\ ShownIn(s) = {} /\ CountAbout(s, {"line"}, Nat) = 0
      /\ CountAbout(s, {"elided"}, Nat) = 0 /\ \A A : CountAbout(s, {"more"}, A) = 0
      /\ \A k \in DOMAIN s : s[k].part # "file"
  BY FS_EmptySet DEF Elsewhere
<1>2. Joins(s \o F, s, F)
  BY <1>1, Joined
<1>3. PICK u : u = s \o F
  OBVIOUS
<1>4. /\ u \in Seq(Part) /\ ShownIn(u) = ShownIn(s) \cup ShownIn(F)
      /\ \A K, A : CountAbout(u, K, A) = CountAbout(s, K, A) + CountAbout(F, K, A)
  BY <1>2, <1>3 DEF Joins
<1>5. \A K, A : CountAbout(F, K, A) \in Nat
  BY CountIs
<1>6. \A k \in DOMAIN u : u[k].part = "file" =>
        \E j \in DOMAIN F : F[j].part = "file" /\ F[j].at = u[k].at
  <2> TAKE k \in DOMAIN u
  <2> HAVE u[k].part = "file"
  <2>1. k \in 1 .. Len(s) + Len(F) /\ u[k] = IF k <= Len(s) THEN s[k] ELSE F[k - Len(s)]
    BY <1>1, <1>3
  <2>2. ~(k <= Len(s))
    BY <1>1, <2>1
  <2>3. k - Len(s) \in DOMAIN F /\ u[k] = F[k - Len(s)]
    BY <1>1, <2>1, <2>2
  <2> QED
    BY <2>3
<1>7. Beside(u, F, {}, 0)
  <2>1. /\ CountAbout(u, {"line"}, Nat) = CountAbout(F, {"line"}, Nat)
        /\ CountAbout(u, {"elided"}, Nat) = CountAbout(F, {"elided"}, Nat)
        /\ \A A : CountAbout(u, {"more"}, A) = CountAbout(F, {"more"}, A)
    BY <1>1, <1>4, <1>5
  <2>2. ShownIn(u) = ShownIn(F) \cup {}
    BY <1>1, <1>4
  <2>3. IsFiniteSet({}) /\ Cardinality({}) = 0
    BY FS_EmptySet
  <2>4. \A K, A : CountAbout(F, K, A) + 0 = CountAbout(F, K, A)
    BY <1>5
  <2> QED
    BY <1>4, <1>6, <2>1, <2>2, <2>3, <2>4 DEF Beside
<1> QED
  BY <1>3, <1>7

\* What comes after them adds what it shows and counts.
LEMMA ElsewhereAfter ==
  ASSUME NEW F \in Seq(Part), NEW u, NEW T, NEW n, Beside(u, F, T, n),
         NEW s, NEW S, NEW m \in Nat, Elsewhere(s, S, m), T \cap S = {}
  PROVE  Beside(u \o s, F, T \cup S, n + m)
<1>1. /\ s \in Seq(Part) /\ ShownIn(s) = S /\ IsFiniteSet(S)
      /\ CountAbout(s, {"line"}, Nat) = Cardinality(S) /\ CountAbout(s, {"elided"}, Nat) = m
      /\ \A A : CountAbout(s, {"more"}, A) = 0
      /\ \A k \in DOMAIN s : s[k].part # "file"
  BY DEF Elsewhere
<1>2. /\ u \in Seq(Part) /\ IsFiniteSet(T) /\ n \in Nat
      /\ ShownIn(u) = ShownIn(F) \cup T
      /\ CountAbout(u, {"line"}, Nat) = CountAbout(F, {"line"}, Nat) + Cardinality(T)
      /\ CountAbout(u, {"elided"}, Nat) = CountAbout(F, {"elided"}, Nat) + n
      /\ \A A : CountAbout(u, {"more"}, A) = CountAbout(F, {"more"}, A)
      /\ \A k \in DOMAIN u : u[k].part = "file" =>
           \E j \in DOMAIN F : F[j].part = "file" /\ F[j].at = u[k].at
  BY DEF Beside
<1>3. Joins(u \o s, u, s)
  BY <1>1, <1>2, Joined
<1>4. PICK v : v = u \o s
  OBVIOUS
<1>5. /\ v \in Seq(Part) /\ ShownIn(v) = ShownIn(u) \cup ShownIn(s)
      /\ \A K, A : CountAbout(v, K, A) = CountAbout(u, K, A) + CountAbout(s, K, A)
  BY <1>3, <1>4 DEF Joins
<1>6. \A K, A : CountAbout(F, K, A) \in Nat
  BY CountIs
<1>7. /\ IsFiniteSet(T \cup S) /\ Cardinality(T \cup S) = Cardinality(T) + Cardinality(S)
      /\ Cardinality(T) \in Nat /\ Cardinality(S) \in Nat
  BY <1>1, <1>2, SumOfDisjoint, FS_CardinalityType
<1>8. ShownIn(v) = ShownIn(F) \cup (T \cup S)
  BY <1>1, <1>2, <1>5
<1>9. CountAbout(v, {"line"}, Nat) = CountAbout(F, {"line"}, Nat) + Cardinality(T \cup S)
  <2>1. PICK a \in Nat : a = CountAbout(F, {"line"}, Nat)
    BY <1>6
  <2>2. PICK b \in Nat, d \in Nat : b = Cardinality(T) /\ d = Cardinality(S)
    BY <1>7
  <2>3. CountAbout(v, {"line"}, Nat) = (a + b) + d
    BY <1>1, <1>2, <1>5, <2>1, <2>2
  <2>4. (a + b) + d = a + (b + d)
    OBVIOUS
  <2> QED
    BY <1>7, <2>1, <2>2, <2>3, <2>4
<1>10. CountAbout(v, {"elided"}, Nat) = CountAbout(F, {"elided"}, Nat) + (n + m)
  <2>1. PICK a \in Nat : a = CountAbout(F, {"elided"}, Nat)
    BY <1>6
  <2>2. CountAbout(v, {"elided"}, Nat) = (a + n) + m
    BY <1>1, <1>2, <1>5, <2>1
  <2>3. (a + n) + m = a + (n + m)
    BY <1>2
  <2> QED
    BY <2>1, <2>2, <2>3
<1>11. \A A : CountAbout(v, {"more"}, A) = CountAbout(F, {"more"}, A)
  <2> TAKE A
  <2>1. PICK a \in Nat : a = CountAbout(F, {"more"}, A)
    BY <1>6
  <2>2. CountAbout(v, {"more"}, A) = a + 0
    BY <1>1, <1>2, <1>5, <2>1
  <2> QED
    BY <2>1, <2>2
<1>12. \A k \in DOMAIN v : v[k].part = "file" =>
         \E j \in DOMAIN F : F[j].part = "file" /\ F[j].at = v[k].at
  <2> TAKE k \in DOMAIN v
  <2> HAVE v[k].part = "file"
  <2>1. k \in 1 .. Len(u) + Len(s) /\ v[k] = IF k <= Len(u) THEN u[k] ELSE s[k - Len(u)]
    BY <1>1, <1>2, <1>4
  <2>2. k <= Len(u)
    <3>1. ASSUME ~(k <= Len(u)) PROVE FALSE
      <4>1. k - Len(u) \in DOMAIN s /\ v[k] = s[k - Len(u)]
        BY <1>1, <1>2, <2>1, <3>1
      <4> QED
        BY <1>1, <4>1
    <3> QED
      BY <3>1
  <2>3. k \in DOMAIN u /\ v[k] = u[k]
    BY <1>2, <2>1, <2>2
  <2> QED
    BY <1>2, <2>3
<1>13. n + m \in Nat
  BY <1>2
<1>14. Beside(v, F, T \cup S, n + m)
  BY <1>5, <1>7, <1>8, <1>9, <1>10, <1>11, <1>12, <1>13 DEF Beside
<1> QED
  BY <1>4, <1>14
\* What a summary of hits says: every line that is not a hit is shown, every
\* hit is shown or counted, and so it is file by file.
Searched(parts, lines, hits) ==
  LET shown == ShownIn(parts)
  IN  /\ parts \in Seq(Part) /\ IsFiniteSet(shown)
      /\ CountAbout(parts, {"line"}, Nat) = Cardinality(shown)
      /\ shown \ hits = DOMAIN lines \ hits
      /\ Cardinality(shown \cap hits) + CountAbout(parts, {"elided"}, Nat) = Cardinality(hits)
      /\ \A k \in DOMAIN parts : parts[k].part = "file" =>
           LET file == {i \in hits : lines[i].path = lines[parts[k].at].path}
           IN  Cardinality(shown \cap file) + CountAbout(parts, {"more"}, file)
               = Cardinality(file)

\* The files listed, what they have in hits and what they show of them.
Grouped(lines, files, P, S, first, q) ==
  /\ q \in Nat /\ Apart(P, q) /\ Apart(S, q)
  /\ \A k \in 1..q : /\ P[k] = FileHits(lines, files[k]) /\ S[k] = ShownOf(lines, files, k)
                     /\ FileTold(FileParts(lines, files, k), P[k], S[k], first[k])
                     /\ S[k] \subseteq P[k] /\ IsFiniteSet(P[k]) /\ first[k] \in P[k]
                     /\ Share(lines, files, k) \in Nat /\ Cardinality(S[k]) = Share(lines, files, k)

\* The files listed have hits of their own, and show some of them.
LEMMA ListedAre ==
  ASSUME NEW X, NEW lines \in Seq(X), NEW files, files = Files(lines),
         NEW q \in Nat, q <= Len(files)
  PROVE  /\ DOMAIN files = 1 .. Len(files) /\ Len(files) \in Nat
         /\ \E P, S, first : Grouped(lines, files, P, S, first, q)
<1>1. PICK m : m = Len(files)
  OBVIOUS
<1>2. FilesApart(lines, files, m)
  BY <1>1, FilesAre
<1>3. /\ m \in Nat /\ DOMAIN files = 1..m
      /\ \A k \in 1..m : HitsIn(lines, files[k])[1] \in FileHits(lines, files[k])
      /\ \A j, k \in 1..m : j # k => files[j] # files[k]
  BY <1>2 DEF FilesApart
<1>4. \A k \in 1..q : k \in 1..m
  BY <1>1, <1>3
<1>5. PICK P : P = [k \in 1..q |-> FileHits(lines, files[k])]
  OBVIOUS
<1>6. PICK S : S = [k \in 1..q |-> ShownOf(lines, files, k)]
  OBVIOUS
<1>7. PICK first : first = [k \in 1..q |-> HitsIn(lines, files[k])[1]]
  OBVIOUS
<1>8. Apart(P, q)
  <2>1. \A j, k \in 1..q : \A i \in P[j] \cap P[k] : lines[i].path = files[j] /\ lines[i].path = files[k]
    BY <1>5 DEF FileHits
  <2> QED
    BY <1>3, <1>4, <2>1 DEF Apart
<1>9. ASSUME NEW k \in 1..q
      PROVE  /\ P[k] = FileHits(lines, files[k]) /\ S[k] = ShownOf(lines, files, k)
             /\ FileTold(FileParts(lines, files, k), P[k], S[k], first[k])
             /\ S[k] \subseteq P[k] /\ IsFiniteSet(P[k]) /\ first[k] \in P[k]
             /\ Share(lines, files, k) \in Nat /\ Cardinality(S[k]) = Share(lines, files, k)
  <2>1. PICK p, s, i : p = P[k] /\ s = S[k] /\ i = first[k]
    OBVIOUS
  <2>2. p = FileHits(lines, files[k]) /\ s = ShownOf(lines, files, k) /\ i = HitsIn(lines, files[k])[1]
    BY <1>5, <1>6, <1>7, <2>1
  <2>3. k \in 1..m /\ i \in p
    BY <1>3, <1>4, <2>2
  <2>4. FileTold(FileParts(lines, files, k), p, s, i)
    BY <1>3, <2>2, <2>3, FilePartsTell
  <2>5. Shared(p, s, HitsIn(lines, files[k]), Share(lines, files, k))
    BY <1>3, <2>2, <2>3, ShownOfIs
  <2>6. Share(lines, files, k) \in Nat
    BY <1>3, <2>3, ShareIs
  <2> QED
    BY <2>1, <2>2, <2>3, <2>4, <2>5, <2>6 DEF Shared
<1>10. Apart(S, q)
  BY <1>8, <1>9 DEF Apart
<1>11. Grouped(lines, files, P, S, first, q)
  BY <1>8, <1>9, <1>10 DEF Grouped
<1> QED
  BY <1>1, <1>3, <1>11

\* The parts of the files listed, and how many hits they show.
LEMMA ListedTell ==
  ASSUME NEW X, NEW lines \in Seq(X), NEW files, NEW P, NEW S, NEW first, NEW q,
         Grouped(lines, files, P, S, first, q)
  PROVE  /\ FilesTold(FlattenSeq([k \in 1..q |-> FileParts(lines, files, k)]), P, S, first, q)
         /\ Total([k \in 1..q |-> Share(lines, files, k)]) = Cardinality(AllOf(S, q))
<1>1. q \in Nat /\ Apart(P, q) /\ Apart(S, q)
  BY DEF Grouped
<1>2. \A k \in 1..q : /\ FileTold(FileParts(lines, files, k), P[k], S[k], first[k])
                      /\ S[k] \subseteq P[k] /\ IsFiniteSet(P[k]) /\ first[k] \in P[k]
                      /\ Share(lines, files, k) \in Nat /\ Cardinality(S[k]) = Share(lines, files, k)
  BY DEF Grouped
<1>3. PICK ss : ss = [k \in 1..q |-> FileParts(lines, files, k)]
  OBVIOUS
<1>4. \A k \in 1..q : FileParts(lines, files, k) \in Seq(Part)
  BY <1>2 DEF FileTold
<1>5. ss \in Seq(Seq(Part)) /\ Len(ss) = q
  <2>1. PICK R : R = Seq(Part)
    OBVIOUS
  <2>2. ss \in [1..q -> R]
    BY <1>3, <1>4, <2>1
  <2>3. ss \in Seq(R) /\ Len(ss) = q
    BY <1>1, <2>2, IsASequence
  <2> QED
    BY <2>1, <2>3
<1>6. \A k \in 1..q : /\ FileTold(ss[k], P[k], S[k], first[k]) /\ S[k] \subseteq P[k]
                      /\ IsFiniteSet(P[k]) /\ first[k] \in P[k]
  BY <1>2, <1>3
<1>7. FilesTold(FlattenSeq(ss), P, S, first, q)
  BY <1>1, <1>5, <1>6, FilesTell
<1>8. PICK s : s = [k \in 1..q |-> Share(lines, files, k)]
  OBVIOUS
<1>9. s \in Seq(Nat) /\ Len(s) = q
  <2>1. s \in [1..q -> Nat]
    BY <1>2, <1>8
  <2> QED
    BY <1>1, <2>1, IsASequence
<1>10. \A k \in 1..q : IsFiniteSet(S[k]) /\ s[k] = Cardinality(S[k])
  BY <1>2, <1>8 DEF FileTold
<1>11. Cardinality(AllOf(S, q)) = Total(s)
  BY <1>1, <1>9, <1>10, SizesAdd
<1> QED
  BY <1>3, <1>7, <1>8, <1>11

\* Parts that say everything of hits are the files' parts with the lines that
\* are no hits and the hits the files leave out beside them.
LEMMA BesideSearched ==
  ASSUME NEW X, NEW lines \in Seq(X), NEW files, NEW P, NEW S, NEW first, NEW q,
         Grouped(lines, files, P, S, first, q),
         NEW H, H = Hits(lines), NEW F, FilesTold(F, P, S, first, q),
         NEW u, NEW n \in Nat, n = Cardinality(H) - Cardinality(AllOf(S, q)),
         Beside(u, F, DOMAIN lines \ H, n)
  PROVE  Searched(u, lines, H)
<1>1. q \in Nat /\ Apart(P, q) /\ Apart(S, q)
  BY DEF Grouped
<1>2. \A k \in 1..q : /\ P[k] = FileHits(lines, files[k]) /\ S[k] \subseteq P[k]
                      /\ IsFiniteSet(P[k]) /\ first[k] \in P[k]
  BY DEF Grouped
<1>3. PICK A, U : A = AllOf(S, q) /\ U = DOMAIN lines \ H
  OBVIOUS
<1>4. /\ F \in Seq(Part) /\ IsFiniteSet(A) /\ ShownIn(F) = A
      /\ CountAbout(F, {"line"}, Nat) = Cardinality(A)
      /\ CountAbout(F, {"elided"}, Nat) = 0
      /\ \A k \in 1..q : CountAbout(F, {"more"}, P[k]) = Cardinality(P[k] \ S[k])
      /\ \A k \in DOMAIN F : F[k].part = "file" => \E j \in 1..q : F[k].at = first[j]
  BY <1>3 DEF FilesTold
<1>5. /\ u \in Seq(Part) /\ IsFiniteSet(U) /\ ShownIn(u) = ShownIn(F) \cup U
      /\ CountAbout(u, {"line"}, Nat) = CountAbout(F, {"line"}, Nat) + Cardinality(U)
      /\ CountAbout(u, {"elided"}, Nat) = CountAbout(F, {"elided"}, Nat) + n
      /\ \A B : CountAbout(u, {"more"}, B) = CountAbout(F, {"more"}, B)
      /\ \A k \in DOMAIN u : u[k].part = "file" =>
           \E j \in DOMAIN F : F[j].part = "file" /\ F[j].at = u[k].at
  BY <1>3 DEF Beside
<1>6. H \subseteq DOMAIN lines /\ IsFiniteSet(H)
  <2>1. PICK m \in Nat : m = Len(lines) /\ DOMAIN lines = 1..m
    OBVIOUS
  <2>2. H \subseteq 1..m
    BY <2>1 DEF Hits
  <2>3. IsFiniteSet(1..m)
    BY FS_Interval
  <2> QED
    BY <2>1, <2>2, <2>3, FS_Subset
<1>7. \A k \in 1..q : P[k] \subseteq H
  BY <1>2 DEF FileHits
<1>8. A \subseteq H /\ A \cap U = {}
  BY <1>2, <1>3, <1>7 DEF AllOf
<1>9. PICK shown : shown = ShownIn(u)
  OBVIOUS
<1>10. shown = A \cup U
  BY <1>4, <1>5, <1>9
<1>11. IsFiniteSet(shown) /\ CountAbout(u, {"line"}, Nat) = Cardinality(shown)
  <2>1. IsFiniteSet(A \cup U) /\ Cardinality(A \cup U) = Cardinality(A) + Cardinality(U)
    BY <1>4, <1>5, <1>8, SumOfDisjoint
  <2> QED
    BY <1>4, <1>5, <1>10, <2>1
<1>12. shown \ H = DOMAIN lines \ H
  BY <1>3, <1>8, <1>10
<1>13. Cardinality(shown \cap H) + CountAbout(u, {"elided"}, Nat) = Cardinality(H)
  <2>1. shown \cap H = A
    BY <1>3, <1>8, <1>10
  <2>2. CountAbout(u, {"elided"}, Nat) = n
    BY <1>4, <1>5
  <2>3. Cardinality(A) \in Nat /\ Cardinality(H) \in Nat
    BY <1>4, <1>6, FS_CardinalityType
  <2>4. PICK a \in Nat, h \in Nat : a = Cardinality(A) /\ h = Cardinality(H)
    BY <2>3
  <2>5. n = h - a
    BY <1>3, <2>4
  <2>6. a + n = h
    BY <2>5
  <2> QED
    BY <2>1, <2>2, <2>4, <2>6
<1>14. ASSUME NEW k \in DOMAIN u, u[k].part = "file",
              NEW file, file = {i \in H : lines[i].path = lines[u[k].at].path}
       PROVE  Cardinality(shown \cap file) + CountAbout(u, {"more"}, file) = Cardinality(file)
  <2>1. PICK j \in DOMAIN F : F[j].part = "file" /\ F[j].at = u[k].at
    BY <1>5, <1>14
  <2>2. PICK l \in 1..q : u[k].at = first[l]
    BY <1>4, <2>1
  <2>3. first[l] \in P[l] /\ P[l] = FileHits(lines, files[l])
    BY <1>2
  <2>4. file = P[l]
    BY <1>14, <2>2, <2>3 DEF FileHits
  <2>5. shown \cap P[l] = S[l]
    <3>1. P[l] \cap U = {}
      BY <1>3, <1>7
    <3>2. \A i \in 1..q : i # l => S[i] \cap P[l] = {}
      BY <1>1, <1>2 DEF Apart
    <3>3. A \cap P[l] = S[l]
      BY <1>2, <1>3, <3>2 DEF AllOf
    <3> QED
      BY <1>10, <3>1, <3>3
  <2>6. CountAbout(u, {"more"}, P[l]) = Cardinality(P[l] \ S[l])
    BY <1>4, <1>5
  <2>7. Cardinality(P[l]) = Cardinality(S[l]) + Cardinality(P[l] \ S[l])
    <3>1. /\ S[l] \subseteq P[l] /\ IsFiniteSet(P[l])
      BY <1>2
    <3>2. IsFiniteSet(S[l]) /\ IsFiniteSet(P[l] \ S[l]) /\ S[l] \cap (P[l] \ S[l]) = {}
      BY <3>1, FS_Subset
    <3>3. S[l] \cup (P[l] \ S[l]) = P[l]
      BY <3>1
    <3> QED
      BY <3>2, <3>3, SumOfDisjoint
  <2> QED
    BY <2>4, <2>5, <2>6, <2>7
<1>15. Searched(u, lines, H)
  BY <1>5, <1>9, <1>11, <1>12, <1>13, <1>14 DEF Searched
<1> QED
  BY <1>15

\* What the files show is among the hits.
LEMMA ShownAmongHits ==
  ASSUME NEW X, NEW lines \in Seq(X), NEW files, NEW P, NEW S, NEW first, NEW q,
         Grouped(lines, files, P, S, first, q)
  PROVE  /\ Cardinality(Hits(lines)) \in Nat /\ Cardinality(AllOf(S, q)) \in Nat
         /\ Cardinality(AllOf(S, q)) <= Cardinality(Hits(lines))
<1>1. PICK H, A : H = Hits(lines) /\ A = AllOf(S, q)
  OBVIOUS
<1>2. IsFiniteSet(H)
  <2>1. PICK m \in Nat : m = Len(lines) /\ DOMAIN lines = 1..m
    OBVIOUS
  <2>2. H \subseteq 1..m
    BY <1>1, <2>1 DEF Hits
  <2>3. IsFiniteSet(1..m)
    BY FS_Interval
  <2> QED
    BY <2>2, <2>3, FS_Subset
<1>3. \A k \in 1..q : S[k] \subseteq FileHits(lines, files[k])
  BY DEF Grouped
<1>4. A \subseteq H
  BY <1>1, <1>3 DEF AllOf, FileHits
<1>5. IsFiniteSet(A) /\ Cardinality(A) <= Cardinality(H)
  BY <1>2, <1>4, FS_Subset
<1> QED
  BY <1>1, <1>2, <1>5, FS_CardinalityType

\* A summary of search hits shows or counts every hit, in all and by file.
LEMMA SearchAccounts ==
  ASSUME NEW X, NEW c, c.lines \in Seq(X), NEW parts, parts = SearchOffer(c).parts, parts # <<>>,
         NEW lines, lines = NonBlank(c.lines)
  PROVE  Searched(parts, lines, Hits(lines))
<1>1. lines \in Seq(X)
  BY NonBlankIs
<1>2. PICK H, total : H = Hits(lines) /\ total = Cardinality(H)
  OBVIOUS
<1>3. PICK files, m : files = Files(lines) /\ m = Len(files)
  OBVIOUS
<1>4. PICK q : q = IF MaxFiles < m THEN MaxFiles ELSE m
  OBVIOUS
<1>5. m \in Nat /\ files \in Seq({files[k] : k \in 1..m})
  <2>1. FilesApart(lines, files, m)
    BY <1>1, <1>3, FilesAre
  <2>2. DOMAIN files = 1..m /\ files \in Seq({files[k] : k \in 1..m}) /\ m = Len(files)
    BY <1>3, <2>1 DEF FilesApart
  <2>3. PICK Y : Y = {files[k] : k \in 1..m}
    OBVIOUS
  <2>4. files \in Seq(Y)
    BY <2>2, <2>3
  <2>5. m \in Nat
    BY <1>3, <2>4
  <2> QED
    BY <2>2, <2>5
<1>6. MaxFiles \in Nat
  BY SearchCaps
<1>7. q \in Nat /\ q <= m /\ DOMAIN FirstOf(files, MaxFiles) = 1..q
  <2>1. PICK Y : Y = {files[k] : k \in 1..m}
    OBVIOUS
  <2>2. files \in Seq(Y)
    BY <1>5, <2>1
  <2> QED
    BY <1>3, <1>4, <1>6, <2>2, FirstOfIs
<1>8. PICK P, S, first : Grouped(lines, files, P, S, first, q)
  BY <1>1, <1>3, <1>7, ListedAre
<1>9. PICK F, shown : /\ F = FlattenSeq([k \in 1..q |-> FileParts(lines, files, k)])
                      /\ shown = Total([k \in 1..q |-> Share(lines, files, k)])
  OBVIOUS
<1>10. FilesTold(F, P, S, first, q) /\ shown = Cardinality(AllOf(S, q))
  BY <1>1, <1>8, <1>9, ListedTell
<1>11. total \in Nat /\ shown \in Nat /\ shown <= total
  BY <1>1, <1>2, <1>8, <1>10, ShownAmongHits
<1>12. PICK header, files_, elided : header = "header" /\ files_ = "more_files" /\ elided = "elided"
  OBVIOUS
<1>13. /\ header \in PartNames /\ files_ \in PartNames /\ elided \in PartNames
       /\ header \notin {"line", "more", "file"} /\ files_ \notin {"line", "more", "file"}
       /\ elided \notin {"line", "more", "file"} /\ header # "elided" /\ files_ # "elided"
  BY <1>12 DEF PartNames
<1>14. PICK unparsed : unparsed = Unparsed(lines)
  OBVIOUS
<1>15. PICK h, mf, t, e :
         /\ h = <<Note(header, 0, total)>>
         /\ mf = IF m > MaxFiles THEN <<Note(files_, 0, m - MaxFiles)>> ELSE <<>>
         /\ t = [k \in DOMAIN unparsed |-> Show(unparsed[k])]
         /\ e = IF total > shown THEN <<Note(elided, 0, total - shown)>> ELSE <<>>
  OBVIOUS
<1>16. parts = h \o F \o mf \o t \o e \o <<Marker>>
  <2>1. parts = <<Note("header", 0, total)>>
                  \o FlattenSeq([k \in 1..q |-> FileParts(lines, files, k)])
                  \o (IF m > MaxFiles THEN <<Note("more_files", 0, m - MaxFiles)>> ELSE <<>>)
                  \o [k \in DOMAIN unparsed |-> Show(unparsed[k])]
                  \o (IF total > shown THEN <<Note("elided", 0, total - shown)>> ELSE <<>>)
                  \o <<Marker>>
    BY <1>2, <1>3, <1>7, <1>9, <1>14 DEF SearchOffer, Declines, Offers
  <2> QED
    BY <1>9, <1>12, <1>15, <2>1
<1>17. Elsewhere(h, {}, 0)
  <2>1. Elsewhere(<<Note(header, 0, total)>>, {}, IF header = "elided" THEN total ELSE 0)
    BY <1>11, <1>13, AsideTell
  <2> QED
    BY <1>13, <1>15, <2>1
<1>18. Elsewhere(mf, {}, 0)
  <2>1. CASE m > MaxFiles
    <3>1. PICK n \in Nat : n = m - MaxFiles
      BY <1>5, <1>6, <2>1
    <3>2. Elsewhere(<<Note(files_, 0, n)>>, {}, IF files_ = "elided" THEN n ELSE 0)
      BY <1>13, AsideTell
    <3> QED
      BY <1>13, <1>15, <2>1, <3>1, <3>2
  <2>2. CASE ~(m > MaxFiles)
    BY <1>15, <2>2, NoneTell
  <2> QED
    BY <2>1, <2>2
<1>19. PICK U : U = DOMAIN lines \ H
  OBVIOUS
<1>20. Elsewhere(t, U, 0)
  <2>1. PICK d \in Nat : d = Len(lines) /\ DOMAIN lines = 1..d
    BY <1>1
  <2>2. U \in SUBSET (1..d)
    BY <1>19, <2>1
  <2>3. Elsewhere([k \in DOMAIN Ascending(U) |-> Show(Ascending(U)[k])], U, 0)
    BY <2>2, UnparsedTell
  <2>4. unparsed = Ascending(U)
    BY <1>2, <1>14, <1>19 DEF Unparsed
  <2> QED
    BY <1>15, <2>3, <2>4
<1>21. PICK n \in Nat : n = total - shown
  BY <1>11
<1>22. Elsewhere(e, {}, n)
  <2>1. CASE total > shown
    <3>1. Elsewhere(<<Note(elided, 0, n)>>, {}, IF elided = "elided" THEN n ELSE 0)
      BY <1>13, AsideTell
    <3> QED
      BY <1>12, <1>15, <1>21, <2>1, <3>1
  <2>2. CASE ~(total > shown)
    <3>1. n = 0 /\ e = <<>>
      BY <1>11, <1>15, <1>21, <2>2
    <3> QED
      BY <3>1, NoneTell
  <2> QED
    BY <2>1, <2>2
<1>23. Elsewhere(<<Marker>>, {}, 0)
  <2>1. PICK kind : kind = "marker"
    OBVIOUS
  <2>2. kind \in PartNames /\ kind \notin {"line", "more", "file"} /\ kind # "elided" /\ 0 \in Nat
    BY <2>1 DEF PartNames
  <2>3. Elsewhere(<<Note(kind, 0, 0)>>, {}, IF kind = "elided" THEN 0 ELSE 0)
    BY <2>2, AsideTell
  <2> QED
    BY <2>1, <2>2, <2>3 DEF Marker
<1>24. F \in Seq(Part)
  BY <1>10 DEF FilesTold
<1>25. Beside(parts, F, U, n)
  <2>1. PICK a : a = h \o F
    OBVIOUS
  <2>2. Beside(a, F, {}, 0)
    BY <1>17, <1>24, <2>1, ElsewhereBefore
  <2>3. PICK b : b = a \o mf
    OBVIOUS
  <2>4. Beside(b, F, {}, 0)
    <3>1. 0 \in Nat /\ {} \cap {} = {}
      OBVIOUS
    <3>2. Beside(a \o mf, F, {} \cup {}, 0 + 0)
      BY <1>18, <1>24, <2>2, <3>1, ElsewhereAfter
    <3>3. {} \cup {} = {} /\ 0 + 0 = 0
      OBVIOUS
    <3> QED
      BY <2>3, <3>2, <3>3
  <2>5. PICK d : d = b \o t
    OBVIOUS
  <2>6. Beside(d, F, U, 0)
    <3>1. 0 \in Nat /\ {} \cap U = {}
      OBVIOUS
    <3>2. Beside(b \o t, F, {} \cup U, 0 + 0)
      BY <1>20, <1>24, <2>4, <3>1, ElsewhereAfter
    <3>3. {} \cup U = U /\ 0 + 0 = 0
      OBVIOUS
    <3> QED
      BY <2>5, <3>2, <3>3
  <2>7. PICK f : f = d \o e
    OBVIOUS
  <2>8. Beside(f, F, U, n)
    <3>1. U \cap {} = {}
      OBVIOUS
    <3>2. Beside(d \o e, F, U \cup {}, 0 + n)
      BY <1>22, <1>24, <2>6, <3>1, ElsewhereAfter
    <3>3. U \cup {} = U /\ 0 + n = n
      OBVIOUS
    <3> QED
      BY <2>7, <3>2, <3>3
  <2>9. Beside(f \o <<Marker>>, F, U, n)
    <3>1. 0 \in Nat /\ U \cap {} = {}
      OBVIOUS
    <3>2. Beside(f \o <<Marker>>, F, U \cup {}, n + 0)
      BY <1>23, <1>24, <2>8, <3>1, ElsewhereAfter
    <3>3. U \cup {} = U /\ n + 0 = n
      OBVIOUS
    <3> QED
      BY <3>2, <3>3
  <2>10. parts = f \o <<Marker>>
    BY <1>16, <2>1, <2>3, <2>5, <2>7
  <2> QED
    BY <2>9, <2>10
<1>26. Searched(parts, lines, H)
  <2>1. n = Cardinality(H) - Cardinality(AllOf(S, q)) /\ Beside(parts, F, DOMAIN lines \ H, n)
    BY <1>2, <1>10, <1>19, <1>21, <1>25
  <2> QED
    BY <1>1, <1>2, <1>8, <1>10, <2>1, BesideSearched
<1> QED
  BY <1>2, <1>26

(***************************************************************************)
(* Where a summary comes from: the compressor for what the block holds,    *)
(* and for a document the records its shorter leaves left.                 *)
(***************************************************************************)
Chosen ==
  /\ offer.parts # <<>>
  /\ offer = IF routing = "smart_crusher" THEN Structural(Reduced(c0, changed), case.query)
             ELSE OfferOf(routing, c0, case.query)

FromCompressor ==
  /\ \E k \in DOMAIN Cases : case \in Cases[k]
  /\ stage = "offered" => Chosen
  /\ shows.form = "summary" => /\ shows = Summary(offer.parts) /\ Chosen
                               /\ stage \in {"stored", "done"}
                               /\ routing \notin {"none", "reformatter"}
                               /\ routing = TransformForBlock(case.kind, c0, case.mode, case.worth)

\* Nothing has been chosen yet.
LEMMA FromCompressorInit == PipelineInit => FromCompressor
BY DEF PipelineInit, FromCompressor, Original

\* Every step keeps where a summary comes from.
LEMMA FromCompressorNext == BlockInv /\ FromCompressor /\ [PipelineNext]_pipelineVars => FromCompressor'
  <1> SUFFICES ASSUME BlockInv, FromCompressor, [PipelineNext]_pipelineVars
               PROVE  FromCompressor'
    OBVIOUS
  <1> USE DEF BlockInv, Decided, Unchanged, Stages, FromCompressor, Chosen, Finish, Original
  <1>1. CASE RouteBlock
    BY <1>1 DEF RouteBlock
  <1>2. CASE Refuse
    BY <1>2 DEF Refuse
  <1>3. CASE Reformat
    BY <1>3 DEF Reformat, Tidied
  <1>4. CASE Offer
    BY <1>4 DEF Offer, c0
  <1>5. CASE BeginCrush
    BY <1>5 DEF BeginCrush
  <1>6. ASSUME NEW stored \in BOOLEAN, ShrinkLeaf(stored)
        PROVE  FromCompressor'
    BY <1>6 DEF ShrinkLeaf
  <1>7. CASE Crush
    BY <1>7 DEF Crush, c0, Shortened
  <1>8. CASE StoreAndMark
    BY <1>8 DEF StoreAndMark, c0
  <1>9. CASE StoreFails
    BY <1>9 DEF StoreFails
  <1>10. CASE Validate
    BY <1>10 DEF Validate, c0
  <1>11. CASE UNCHANGED pipelineVars
    BY <1>11 DEF pipelineVars, c0
  <1> QED
    BY <1>1, <1>2, <1>3, <1>4, <1>5, <1>6, <1>7, <1>8, <1>9, <1>10, <1>11 DEF PipelineNext

\* A document whose leaves were shortened has as many records as it had.
LEMMA ReducedIs ==
  ASSUME NEW c, IsContent(c), NEW leaves,
         NEW d, d = Reduced(c, leaves)
  PROVE  /\ \E X : d.records \in Seq(X)
         /\ DOMAIN d.terms = DOMAIN d.records /\ Len(d.records) = Len(c.records)
<1>1. PICK n \in Nat : n = Len(c.records) /\ DOMAIN c.records = 1..n
  <2>1. PICK R : c.records \in Seq(R)
    BY DEF IsContent
  <2> QED
    BY <2>1
<1>2. DOMAIN c = {"form", "lines", "records", "terms", "leaves", "padding", "depth", "size"}
      /\ DOMAIN c.terms = DOMAIN c.records
  BY DEF IsContent, Text
<1>3. PICK sz, r : /\ DOMAIN r = DOMAIN c.records /\ r = [i \in DOMAIN c.records |-> r[i]]
                   /\ d = [c EXCEPT !.size = sz, !.padding = 0, !.records = r]
  BY DEF Reduced
<1>4. d.records = r /\ d.terms = c.terms
  BY <1>2, <1>3
<1>5. PICK X : X = {r[i] : i \in 1..n}
  OBVIOUS
<1>6. r \in [1..n -> X]
  BY <1>1, <1>3, <1>5
<1>7. r \in Seq(X) /\ Len(r) = n
  BY <1>6, IsASequence
<1> QED
  BY <1>1, <1>2, <1>3, <1>4, <1>7
\* The compressor is the one for what was detected.
LEMMA CompressorIs ==
  ASSUME NEW kind, NEW c, NEW mode, NEW worth, NEW r, r = TransformForBlock(kind, c, mode, worth),
         r # "none", r # "reformatter"
  PROVE  /\ Detect(c) \in {"json", "log", "search", "diff", "code", "prose"}
         /\ r = ForType(Detect(c))
<1>1. r = TransformFor(c, mode, worth)
  BY DEF TransformForBlock
<1>2. Route(c, mode, worth) = "compress" /\ r = ForType(Detect(c))
  BY <1>1 DEF TransformFor
<1>3. ForType(Detect(c)) # "none"
  BY <1>2
<1>4. PICK t : t = Detect(c)
  OBVIOUS
<1>5. t \in {"json", "log", "search", "diff", "code", "prose"}
  BY <1>3, <1>4 DEF ForType
<1> QED
  BY <1>2, <1>4, <1>5

(***************************************************************************)
(* What a compressor offers for a content shows or counts every line, hit  *)
(* and record of it, and nothing twice: the compressors' writing passes.   *)
(***************************************************************************)
THEOREM SummaryAccounts ==
  ASSUME NEW c, IsContent(c), NEW query, NEW leaves, NEW type, type = Detect(c), NEW r, r = ForType(type),
         type \in {"json", "log", "search", "diff", "code", "prose"},
         NEW parts, parts # <<>>,
         parts = (IF r = "smart_crusher" THEN Structural(Reduced(c, leaves), query)
                  ELSE OfferOf(r, c, query)).parts,
         NEW lines, lines = LinesSeen(c)
  PROVE  /\ parts \in Seq(Part) /\ CountAbout(parts, {"line"}, Nat) = Cardinality(ShownIn(parts))
         /\ type = "log" => CountAbout(parts, {"group"}, Nat) = Len(lines)
         /\ type = "search" => Searched(parts, lines, Hits(lines))
         /\ type \in {"diff", "code", "prose"} => CountAbout(parts, Kept, Nat) = Len(lines)
         /\ type = "json" => CountAbout(parts, {"line", "header"}, Nat) = Len(c.records)
<1>1. c.lines \in Seq(Line)
  BY DEF IsContent
<1>2. CASE type = "log"
  <2>1. r = "log_compressor" /\ r # "smart_crusher"
    BY <1>2 DEF ForType
  <2>2. parts = LogOffer(c).parts
    BY <2>1 DEF OfferOf
  <2>3. lines = NonBlank(c.lines)
    BY <1>2 DEF LinesSeen
  <2>4. /\ parts \in Seq(Part) /\ ShownIn(parts) = {} /\ CountAbout(parts, {"line"}, Nat) = 0
        /\ CountAbout(parts, {"group"}, Nat) = Len(NonBlank(c.lines))
    BY <1>1, <2>2, LogAccounts
  <2> QED
    BY <1>2, <2>3, <2>4, FS_EmptySet
<1>3. CASE type = "search"
  <2>1. r = "search_compressor" /\ r # "smart_crusher"
    BY <1>3 DEF ForType
  <2>2. parts = SearchOffer(c).parts
    BY <2>1 DEF OfferOf
  <2>3. lines = NonBlank(c.lines)
    BY <1>3 DEF LinesSeen
  <2>4. Searched(parts, lines, Hits(lines))
    BY <1>1, <2>2, <2>3, SearchAccounts
  <2>5. parts \in Seq(Part) /\ CountAbout(parts, {"line"}, Nat) = Cardinality(ShownIn(parts))
    BY <2>4 DEF Searched
  <2> QED
    BY <1>3, <2>4, <2>5
<1>4. CASE type \in {"diff", "code", "prose"}
  <2>1. lines = c.lines /\ r # "smart_crusher"
    BY <1>4 DEF LinesSeen, ForType
  <2>2. Accounts(parts, Kept, Len(c.lines))
    <3>1. CASE type = "diff"
      <4>1. parts = DiffOffer(c).parts
        BY <2>1, <3>1 DEF OfferOf, ForType
      <4> QED
        BY <1>1, <4>1, DiffAccounts
    <3>2. CASE type = "code"
      <4>1. parts = CodeOffer(c).parts
        BY <2>1, <3>2 DEF OfferOf, ForType
      <4> QED
        BY <1>1, <4>1, CodeAccounts
    <3>3. CASE type = "prose"
      <4>1. parts = TextOffer(c, query).parts
        BY <2>1, <3>3 DEF OfferOf, ForType
      <4> QED
        BY <1>1, <4>1, ProseAccounts
    <3> QED
      BY <1>4, <3>1, <3>2, <3>3
  <2> QED
    BY <1>4, <2>1, <2>2 DEF Accounts
<1>5. CASE type = "json"
  <2>1. r = "smart_crusher"
    BY <1>5 DEF ForType
  <2>2. PICK d : d = Reduced(c, leaves)
    OBVIOUS
  <2>3. PICK X : d.records \in Seq(X)
    BY <2>2, ReducedIs
  <2>4. DOMAIN d.terms = DOMAIN d.records /\ Len(d.records) = Len(c.records)
    BY <2>2, ReducedIs
  <2>5. parts = Structural(d, query).parts
    BY <2>1, <2>2
  <2>6. /\ parts \in Seq(Part)
        /\ CountAbout(parts, {"line"}, Nat) = Cardinality(ShownIn(parts))
        /\ CountAbout(parts, {"line", "header"}, Nat) = Len(d.records)
    BY <2>3, <2>4, <2>5, JsonAccounts
  <2> QED
    BY <1>5, <2>4, <2>6
<1> QED
  BY <1>2, <1>3, <1>4, <1>5

\* And a summary from a compressor accounts for its content.
LEMMA FromCompressorAccounts == FromCompressor => Accounted
<1> SUFFICES ASSUME FromCompressor, shows.form = "summary" PROVE Accounted
  BY DEF Accounted
<1>1. /\ shows = Summary(offer.parts) /\ Chosen /\ routing \notin {"none", "reformatter"}
      /\ routing = TransformForBlock(case.kind, c0, case.mode, case.worth)
  BY DEF FromCompressor
<1>2. PICK parts : parts = shows.parts
  OBVIOUS
<1>3. parts = offer.parts /\ parts # <<>>
  BY <1>1, <1>2 DEF Summary, Chosen
<1>4. IsContent(c0)
  BY CasesAreContents DEF FromCompressor, c0
<1>5. PICK type : type = Detect(c0)
  OBVIOUS
<1>6. type \in {"json", "log", "search", "diff", "code", "prose"} /\ routing = ForType(type)
  BY <1>1, <1>5, CompressorIs
<1>7. parts = (IF routing = "smart_crusher" THEN Structural(Reduced(c0, changed), case.query)
               ELSE OfferOf(routing, c0, case.query)).parts
  BY <1>1, <1>3 DEF Chosen
<1>8. PICK lines : lines = LinesSeen(c0)
  OBVIOUS
<1>9. /\ parts \in Seq(Part) /\ CountAbout(parts, {"line"}, Nat) = Cardinality(ShownIn(parts))
      /\ type = "log" => CountAbout(parts, {"group"}, Nat) = Len(lines)
      /\ type = "search" => Searched(parts, lines, Hits(lines))
      /\ type \in {"diff", "code", "prose"} => CountAbout(parts, Kept, Nat) = Len(lines)
      /\ type = "json" => CountAbout(parts, {"line", "header"}, Nat) = Len(c0.records)
  <2>1. PICK c : c = c0
    OBVIOUS
  <2>2. IsContent(c) /\ type = Detect(c) /\ lines = LinesSeen(c)
        /\ parts = (IF routing = "smart_crusher" THEN Structural(Reduced(c, changed), case.query)
                    ELSE OfferOf(routing, c, case.query)).parts
    BY <1>4, <1>5, <1>7, <1>8, <2>1
  <2> QED
    BY <1>3, <1>6, <2>1, <2>2, SummaryAccounts
<1>10. type = "search" =>
         /\ ShownIn(parts) \ Hits(lines) = DOMAIN lines \ Hits(lines)
         /\ Cardinality(ShownIn(parts) \cap Hits(lines)) + CountAbout(parts, {"elided"}, Nat) = Cardinality(Hits(lines))
         /\ \A k \in DOMAIN parts : parts[k].part = "file" =>
              LET file == {i \in Hits(lines) : lines[i].path = lines[parts[k].at].path}
              IN  Cardinality(ShownIn(parts) \cap file) + CountAbout(parts, {"more"}, file)
                  = Cardinality(file)
  BY <1>9 DEF Searched
<1> QED
  BY <1>2, <1>5, <1>8, <1>9, <1>10 DEF Accounted, CountIn, Kept

(***************************************************************************)
(* Every line, hit and record of a content is in its summary or in one of  *)
(* the numbers the summary gives, and nothing is counted twice: Accounted, *)
(* for contents of any length and for any caps.                            *)
(***************************************************************************)
THEOREM AccountedHolds == PipelineSpec => []Accounted
<1>1. PipelineSpec => []FromCompressor
  BY FromCompressorInit, FromCompressorNext, BlockInvariant, PTL DEF PipelineSpec
<1> QED
  BY <1>1, FromCompressorAccounts, PTL

(***************************************************************************)
(* Where a diff's changes go.                                              *)
(***************************************************************************)
\* Positions have a last and a first.
LEMMA LastAndFirst ==
  ASSUME NEW n \in Nat, NEW S \in SUBSET (1..n), S # {}
  PROVE  /\ Max(S) \in S /\ \A x \in S : x <= Max(S)
         /\ Min(S) \in S /\ \A x \in S : Min(S) <= x
<1>1. S \in SUBSET Nat
  OBVIOUS
<1>2. \E x \in S : \A y \in S : x <= y
  BY <1>1, SmallestExists
<1>3. \E x \in S : \A y \in S : x >= y
  <2> DEFINE T == {n - x : x \in S}
  <2>1. T \in SUBSET Nat /\ T # {}
    <3>1. \A x \in S : x \in 1..n
      OBVIOUS
    <3>2. \A x \in 1..n : n - x \in Nat
      OBVIOUS
    <3> QED
      BY <3>1, <3>2
  <2>2. PICK d \in T : \A e \in T : d <= e
    BY <2>1, SmallestExists
  <2>3. PICK x \in S : d = n - x
    BY <2>2
  <2>4. \A y \in S : n - x <= n - y
    BY <2>2, <2>3
  <2>5. \A y \in S : x >= y
    <3> TAKE y \in S
    <3>1. x \in 1..n /\ y \in 1..n /\ n - x <= n - y
      BY <2>4
    <3> QED
      BY <3>1
  <2> QED
    BY <2>5
<1>4. Max(S) \in S /\ \A y \in S : Max(S) >= y
  BY <1>3 DEF Max
<1>5. Min(S) \in S /\ \A y \in S : Min(S) <= y
  BY <1>2 DEF Min
<1>6. \A x \in S : x <= Max(S)
  <2> TAKE x \in S
  <2>1. x \in 1..n /\ Max(S) \in 1..n /\ Max(S) >= x
    BY <1>4
  <2> QED
    BY <2>1
<1> QED
  BY <1>4, <1>5, <1>6

\* The lines of a hunk after its first are neither hunks nor headers.
LEMMA WithinHunk ==
  ASSUME NEW X, NEW lines \in Seq(X), NEW j \in Nat, j > 0, NEW i, i \in 1..Len(lines), i < EndOfHunk(lines, j)
  PROVE  \A k \in j + 1 .. i : DiffKind(lines[k]) \notin {"hunk", "header"}
<1>1. PICK m \in Nat : m = Len(lines) + 1
  OBVIOUS
<1>2. PICK S : S = {m} \cup {k \in j + 1 .. Len(lines) : DiffKind(lines[k]) \in {"hunk", "header"}}
  OBVIOUS
<1>3. S \in SUBSET (1..m) /\ S # {}
  BY <1>1, <1>2
<1>4. EndOfHunk(lines, j) = Min(S)
  BY <1>1, <1>2 DEF EndOfHunk
<1>5. \A x \in S : Min(S) <= x /\ Min(S) \in 1..m
  BY <1>3, LastAndFirst
<1>6. ASSUME NEW k \in j + 1 .. i, DiffKind(lines[k]) \in {"hunk", "header"} PROVE FALSE
  <2>1. k \in S /\ k \in Nat
    BY <1>2, <1>6
  <2>2. EndOfHunk(lines, j) <= k /\ EndOfHunk(lines, j) \in Nat
    BY <1>4, <1>5, <2>1
  <2> QED
    BY <2>1, <2>2
<1> QED
  BY <1>6

\* A change that a summary of a diff does not show is churn.
LEMMA ChangesAreShown ==
  ASSUME NEW X, NEW lines \in Seq(X), NEW i \in DOMAIN lines, i \notin DiffKept(lines, Noise(lines)),
         DiffKind(lines[i]) # "context"
  PROVE  \/ OwnerOf(lines, i) \in Lockfiles
         \/ \E j \in 1..i : /\ DiffKind(lines[j]) = "hunk"
                            /\ WhitespaceOnly(lines, j, EndOfHunk(lines, j))
<1>1. i \in 1..Len(lines) /\ Len(lines) \in Nat /\ i \in Nat
  OBVIOUS
<1>2. Noise(lines)[i] # "none"
  BY DEF DiffKept
<1>3. PICK S : S = {j \in 1..i : DiffKind(lines[j]) = "hunk" /\ i < EndOfHunk(lines, j)}
  OBVIOUS
<1>4. S # {} /\ HunkNoise(lines, Max(S)) # "none"
  BY <1>2, <1>3 DEF Noise
<1>5. PICK j \in S : j = Max(S)
  <2>1. S \in SUBSET (1..i)
    BY <1>3
  <2> QED
    BY <1>1, <1>4, <2>1, LastAndFirst
<1>6. j \in 1..i /\ DiffKind(lines[j]) = "hunk" /\ i < EndOfHunk(lines, j)
  BY <1>3, <1>5
<1>7. CASE OwnerOf(lines, j) \in Lockfiles
  <2>1. \A k \in j + 1 .. i : DiffKind(lines[k]) \notin {"hunk", "header"}
    BY <1>1, <1>6, WithinHunk
  <2>2. \A k \in j + 1 .. i : ~NamesPath(lines[k])
    <3> TAKE k \in j + 1 .. i
    <3>1. lines[k].mark = "file" => DiffKind(lines[k]) = "header"
      BY DEF DiffKind
    <3> QED
      BY <2>1, <3>1 DEF NamesPath
  <2>3. {k \in 1..i : NamesPath(lines[k])} = {k \in 1..j : NamesPath(lines[k])}
    <3>1. ASSUME NEW k \in 1..i, NamesPath(lines[k]) PROVE k \in 1..j
      <4>1. k \notin j + 1 .. i
        BY <2>2, <3>1
      <4> QED
        BY <1>6, <4>1
    <3> QED
      BY <1>6, <3>1
  <2>4. OwnerOf(lines, i) = OwnerOf(lines, j)
    BY <2>3 DEF OwnerOf
  <2> QED
    BY <1>7, <2>4
<1>8. CASE OwnerOf(lines, j) \notin Lockfiles
  <2>1. WhitespaceOnly(lines, j, EndOfHunk(lines, j))
    BY <1>4, <1>5, <1>8 DEF HunkNoise
  <2> QED
    BY <1>6, <2>1
<1> QED
  BY <1>7, <1>8

(***************************************************************************)
(* Walks over the lines of a program.                                      *)
(***************************************************************************)
\* A walk over n places that leaves the set gone[i] at place i and goes on at
\* next[i].
Walks(f, gone, next, m) == f = [i \in 1..m |-> IF i = m THEN {} ELSE gone[i] \cup f[next[i]]]

\* Another walk with the same places, but for a jump to the end where nothing
\* is left on the way.
Shortcut(far, near, gone, n, m) ==
  \A i \in 1..n : far[i] # near[i] => far[i] = m /\ \A k \in i + 1 .. n : gone[k] = {}
Ahead(next, n, m) == next \in [1..n -> 1..m] /\ \A i \in 1..n : next[i] > i

\* There is one wherever each place goes on at a later one.
LEMMA WalkExists ==
  ASSUME NEW n \in Nat, NEW m, m = n + 1, NEW gone, NEW next, Ahead(next, n, m)
  PROVE  \E f : Walks(f, gone, next, m)
<1> DEFINE At(f, i) == IF i = m THEN {} ELSE gone[i] \cup f[next[i]]
           Known(f, k) == DOMAIN f = 1..m /\ \A i \in 1..m : i >= m - k => f[i] = At(f, i)
           S == {k \in 0..n : \E f : Known(f, k)}
<1>0. next \in [1..n -> 1..m] /\ \A i \in 1..n : next[i] > i
  BY DEF Ahead
<1>1. 0 \in S
  <2> DEFINE f == [i \in 1..m |-> {}]
  <2>1. Known(f, 0)
    <3>1. \A i \in 1..m : i >= m - 0 => i = m
      OBVIOUS
    <3> QED
      BY <3>1
  <2> HIDE DEF f, Known
  <2> QED
    BY <2>1
<1>2. ASSUME NEW k \in 0 .. n - 1, k \in S PROVE k + 1 \in S
  <2>1. PICK f : Known(f, k)
    BY <1>2
  <2>2. PICK p \in 1..n : p = m - (k + 1)
    OBVIOUS
  <2>3. PICK x : x = gone[p] \cup f[next[p]]
    OBVIOUS
  <2> DEFINE g == [i \in 1..m |-> IF i = p THEN x ELSE f[i]]
  <2>4. g[p] = x /\ DOMAIN g = 1..m /\ \A i \in 1..m : i # p => g[i] = f[i]
    BY <2>2
  <2> HIDE DEF g
  <2>5. ASSUME NEW i \in 1..m, i >= m - (k + 1) PROVE g[i] = At(g, i)
    <3>1. i # m => next[i] \in 1..m /\ next[i] > i /\ next[i] # p
      BY <1>0, <2>2, <2>5
    <3>2. CASE i = p
      <4>1. g[next[p]] = f[next[p]] /\ i # m
        BY <2>2, <2>4, <3>1, <3>2
      <4> QED
        BY <2>3, <2>4, <3>2, <4>1
    <3>3. CASE i # p
      <4>1. i >= m - k
        BY <2>2, <2>5, <3>3
      <4>2. f[i] = At(f, i) /\ g[i] = f[i]
        BY <2>1, <2>4, <3>3, <4>1
      <4>3. i # m => g[next[i]] = f[next[i]]
        BY <2>4, <3>1
      <4> QED
        BY <4>2, <4>3
    <3> QED
      BY <3>2, <3>3
  <2> HIDE DEF At
  <2>6. Known(g, k + 1)
    BY <2>4, <2>5
  <2> HIDE DEF Known
  <2> QED
    BY <2>6
<1>3. S \in SUBSET (0..n)
  OBVIOUS
<1> HIDE DEF S, Known
<1>4. n \in S
  <2>1. \A k \in 0 .. n - 1 : k \in S => k + 1 \in S
    BY <1>2
  <2>2. \A k \in 0..n : k \in S
    BY <1>1, <1>3, <2>1, NumbersUpTo
  <2> QED
    BY <2>2
<1>5. PICK f : Known(f, n)
  BY <1>4 DEF S
<1> USE DEF Known
<1>6. \A i \in 1..m : f[i] = At(f, i)
  BY <1>5
<1> DEFINE g == [i \in 1..m |-> f[i]]
<1>7. \A i \in 1..m : g[i] = IF i = m THEN {} ELSE gone[i] \cup g[next[i]]
  <2> TAKE i \in 1..m
  <2>1. i # m => next[i] \in 1..m
    BY <1>0
  <2> QED
    BY <1>6, <2>1
<1>8. g = [i \in 1..m |-> g[i]]
  OBVIOUS
<1> HIDE DEF g
<1>9. g = [i \in 1..m |-> IF i = m THEN {} ELSE gone[i] \cup g[next[i]]]
  BY <1>7, <1>8
<1>10. Walks(g, gone, next, m)
  BY <1>9 DEF Walks
<1> QED
  BY <1>10

\* Two walks that leave the same sets, where the first jumps to the end only if
\* nothing is left on the way, leave the same.
LEMMA WalksAgree ==
  ASSUME NEW n \in Nat, NEW m, m = n + 1, NEW gone,
         NEW far, Ahead(far, n, m), NEW near, Ahead(near, n, m), Shortcut(far, near, gone, n, m),
         NEW f, Walks(f, gone, far, m), NEW g, Walks(g, gone, near, m)
  PROVE  \A i \in 1..m : f[i] = g[i]
<1>0. m \in Nat /\ m \in 1..m /\ 1..n = 1..m \ {m}
  OBVIOUS
<1>10. /\ far \in [1..n -> 1..m] /\ near \in [1..n -> 1..m]
       /\ \A i \in 1..n : far[i] > i /\ near[i] > i
       /\ \A i \in 1..n : far[i] # near[i] => far[i] = m /\ \A k \in i + 1 .. n : gone[k] = {}
  BY DEF Ahead, Shortcut
<1>1. f[m] = {} /\ \A i \in 1..n : f[i] = gone[i] \cup f[far[i]]
  BY <1>0 DEF Walks
<1>2. g[m] = {} /\ \A i \in 1..n : g[i] = gone[i] \cup g[near[i]]
  BY <1>0 DEF Walks
<1>3. ASSUME NEW i \in 1..m, \A k \in i..n : gone[k] = {} PROVE g[i] = {}
  <2> SUFFICES ASSUME {k \in i..m : g[k] # {}} # {} PROVE FALSE
    OBVIOUS
  <2>1. PICK T \in SUBSET (1..m) : T = {k \in i..m : g[k] # {}}
    <3>1. \A k \in i..m : k \in 1..m
      BY <1>0
    <3> QED
      BY <3>1
  <2>2. PICK k \in T : \A x \in T : x <= k
    <3>1. T # {}
      BY <2>1
    <3>2. m \in Nat
      OBVIOUS
    <3>3. Max(T) \in T /\ \A x \in T : x <= Max(T)
      BY <3>1, <3>2, LastAndFirst
    <3> QED
      BY <3>3
  <2>3. k \in 1..n /\ k >= i /\ g[k] # {}
    BY <1>2, <2>1, <2>2
  <2>4. near[k] \in i..m /\ near[k] > k
    BY <1>10, <2>3
  <2>5. near[k] \notin T
    BY <2>1, <2>2, <2>3, <2>4
  <2>6. g[near[k]] = {}
    BY <2>1, <2>4, <2>5
  <2>7. g[k] = gone[k] \cup g[near[k]]
    BY <1>2, <2>3
  <2>8. gone[k] = {}
    <3>1. k \in i..n
      BY <2>3
    <3> QED
      BY <1>3, <3>1
  <2> QED
    BY <2>3, <2>6, <2>7, <2>8
<1> SUFFICES ASSUME {i \in 1..m : f[i] # g[i]} # {} PROVE FALSE
  OBVIOUS
<1>4. PICK T \in SUBSET (1..m) : T = {i \in 1..m : f[i] # g[i]}
  OBVIOUS
<1>5. PICK i \in T : \A x \in T : x <= i
  <2>1. T # {}
    BY <1>4
  <2>2. Max(T) \in T /\ \A x \in T : x <= Max(T)
    BY <1>0, <2>1, LastAndFirst
  <2> QED
    BY <2>2
<1>6. i \in 1..n /\ f[i] # g[i]
  <2>1. i \in 1..m /\ f[i] # g[i]
    BY <1>4, <1>5
  <2>2. i # m
    BY <1>1, <1>2, <2>1
  <2> QED
    BY <1>0, <2>1, <2>2
<1>7. ASSUME NEW x \in 1..m, x > i PROVE f[x] = g[x]
  BY <1>4, <1>5, <1>6, <1>7
<1>8. CASE far[i] = near[i]
  <2>1. f[far[i]] = g[far[i]]
    BY <1>10, <1>6, <1>7
  <2>2. f[i] = gone[i] \cup f[far[i]] /\ g[i] = gone[i] \cup g[near[i]]
    BY <1>1, <1>2, <1>6
  <2> QED
    BY <1>6, <1>8, <2>1, <2>2
<1>9. CASE far[i] # near[i]
  <2>1. far[i] = m /\ \A k \in i + 1 .. n : gone[k] = {}
    BY <1>10, <1>6, <1>9
  <2>2. near[i] \in 1..m /\ \A k \in near[i] .. n : gone[k] = {}
    BY <1>10, <1>6, <2>1
  <2>3. g[near[i]] = {}
    BY <1>3, <2>2
  <2>4. f[i] = gone[i] \cup f[far[i]] /\ g[i] = gone[i] \cup g[near[i]]
    BY <1>1, <1>2, <1>6
  <2>5. f[far[i]] = {}
    BY <1>1, <2>1
  <2> QED
    BY <1>6, <2>3, <2>4, <2>5
<1> QED
  BY <1>8, <1>9

\* A walk that leaves places of a set leaves nothing else.
LEMMA WalkWithin ==
  ASSUME NEW n \in Nat, NEW m, m = n + 1, NEW gone, NEW next, Ahead(next, n, m),
         NEW f, Walks(f, gone, next, m), NEW V, \A i \in 1..n : gone[i] \subseteq V
  PROVE  \A i \in 1..m : f[i] \subseteq V
<1>0. m \in Nat /\ m \in 1..m /\ 1..n = 1..m \ {m}
  OBVIOUS
<1>1. f[m] = {} /\ \A i \in 1..n : f[i] = gone[i] \cup f[next[i]]
  BY <1>0 DEF Walks
<1>2. next \in [1..n -> 1..m] /\ \A i \in 1..n : next[i] > i
  BY DEF Ahead
<1>3. PICK T \in SUBSET (1..m) : T = {i \in 1..m : ~(f[i] \subseteq V)}
  OBVIOUS
<1>4. CASE T # {}
  <2>1. PICK i \in T : \A x \in T : x <= i
    <3>1. Max(T) \in T /\ \A x \in T : x <= Max(T)
      BY <1>0, <1>4, LastAndFirst
    <3> QED
      BY <3>1
  <2>2. i \in 1..m /\ ~(f[i] \subseteq V)
    BY <1>3, <2>1
  <2>3. i # m
    BY <1>1, <2>2
  <2>4. i \in 1..n
    BY <1>0, <2>2, <2>3
  <2>5. next[i] \in 1..m /\ next[i] > i
    BY <1>2, <2>4
  <2>6. next[i] \notin T
    BY <1>0, <2>1, <2>2, <2>5
  <2>7. f[next[i]] \subseteq V
    BY <1>3, <2>5, <2>6
  <2>8. f[i] \subseteq V
    BY <1>1, <2>4, <2>7
  <2> QED
    BY <2>2, <2>8
<1>5. CASE T = {}
  BY <1>3, <1>5
<1> QED
  BY <1>4, <1>5

\* Numbers come to nothing when each is nothing.
LEMMA TotalOfZeros ==
  ASSUME NEW s \in Seq(Nat)
  PROVE  Total(s) = 0 <=> \A k \in 1..Len(s) : s[k] = 0
<1>1. PICK n \in Nat : n = Len(s)
  OBVIOUS
<1>2. PICK o \in [0..n -> Nat] : SumsOf(o, s)
  BY <1>1, TotalIs
<1>3. Total(s) = o[n]
  BY <1>1, <1>2, TotalIs
<1>4. o[0] = 0 /\ \A k \in 0 .. n - 1 : o[k + 1] = o[k] + s[k + 1]
  <2>1. o[0] = 0 /\ \A k \in 1..n : o[k] = o[k - 1] + s[k]
    BY <1>1, <1>2 DEF SumsOf
  <2>2. \A k \in 0 .. n - 1 : k + 1 \in 1..n /\ k + 1 - 1 = k
    OBVIOUS
  <2> QED
    BY <2>1, <2>2
<1>5. ASSUME \A k \in 1..n : s[k] = 0 PROVE o[n] = 0
  <2>1. PICK S \in SUBSET (0..n) : S = {k \in 0..n : o[k] = 0}
    OBVIOUS
  <2>2. 0 \in S
    BY <1>4, <2>1
  <2>3. \A k \in 0 .. n - 1 : k \in S => k + 1 \in S
    BY <1>4, <1>5, <2>1
  <2>4. \A k \in 0..n : k \in S
    BY <2>2, <2>3, NumbersUpTo
  <2> QED
    BY <2>1, <2>4
<1>6. ASSUME NEW j \in 1..n, s[j] # 0 PROVE o[n] # 0
  <2>1. PICK S \in SUBSET (0..n) : S = {k \in 0..n : k >= j => o[k] > 0}
    OBVIOUS
  <2>2. 0 \in S
    BY <2>1
  <2>3. ASSUME NEW k \in 0 .. n - 1, k \in S PROVE k + 1 \in S
    <3>0. k + 1 \in 1..n /\ k \in 0..n
      OBVIOUS
    <3>1. k + 1 \in 0..n /\ o[k + 1] = o[k] + s[k + 1] /\ s[k + 1] \in Nat /\ o[k] \in Nat
      <4>1. s[k + 1] \in Nat
        BY <1>1, <3>0
      <4>2. o[k] \in Nat
        BY <1>2, <3>0
      <4> QED
        BY <1>4, <3>0, <4>1, <4>2
    <3>2. CASE k >= j
      BY <2>1, <2>3, <3>1, <3>2
    <3>3. CASE k < j
      <4>1. k + 1 >= j => k + 1 = j
        BY <3>3
      <4> QED
        BY <1>6, <2>1, <3>1, <4>1
    <3> QED
      BY <3>2, <3>3
  <2>4. \A k \in 0..n : k \in S
    BY <2>2, <2>3, NumbersUpTo
  <2> QED
    BY <2>1, <2>4
<1> QED
  BY <1>1, <1>3, <1>5, <1>6

\* The braces of some lines are none when no line has one.
LEMMA OpensNone ==
  ASSUME NEW lines \in Seq(Line), NEW i \in 1..Len(lines), NEW j \in i..Len(lines)
  PROVE  /\ Opens(lines, i, j) \in Nat
         /\ Opens(lines, i, j) = 0 <=> \A k \in i..j : lines[k].opens = 0
<1> DEFINE s == [k \in 1 .. j - i + 1 |-> lines[i + k - 1].opens]
<1>0. \A k \in i..j : lines[k].opens \in Nat
  <2> TAKE k \in i..j
  <2>1. k \in 1..Len(lines)
    OBVIOUS
  <2>2. lines[k] \in Line
    BY <2>1
  <2> QED
    BY <2>2 DEF Line
<1>1. \A k \in 1 .. j - i + 1 : i + k - 1 \in i..j
  OBVIOUS
<1>2. \A k \in i..j : k - i + 1 \in 1 .. j - i + 1 /\ i + (k - i + 1) - 1 = k
  OBVIOUS
<1>3. s \in Seq(Nat) /\ Len(s) = j - i + 1
  BY <1>0, <1>1
<1>4. \A k \in 1 .. j - i + 1 : s[k] = lines[i + k - 1].opens
  OBVIOUS
<1>5. Opens(lines, i, j) = Total(s)
  BY DEF Opens
<1> HIDE DEF s
<1>6. Total(s) \in Nat
  BY <1>3, TotalIs
<1>7. Total(s) = 0 <=> \A k \in 1 .. j - i + 1 : s[k] = 0
  BY <1>3, TotalOfZeros
<1> QED
  BY <1>1, <1>2, <1>4, <1>5, <1>6, <1>7

\* Where a walk over the definitions goes on, and the same line by line.
Gone(lines, language) ==
  [i \in DOMAIN lines |-> IF IsDefinition(lines[i], language)
                          THEN Elidable(i, BodyAfter(lines, language, i)) ELSE {}]
Far(lines, language) ==
  [i \in DOMAIN lines |-> IF IsDefinition(lines[i], language)
                          THEN BodyAfter(lines, language, i).next ELSE i + 1]
Near(lines, language) ==
  [i \in DOMAIN lines |-> IF IsDefinition(lines[i], language)
                          THEN Max({i + 1, BodyAfter(lines, language, i).end}) ELSE i + 1]

\* Both go forward, and differ only where no brace is left.
GoesOn(lines, language, i, far, near) ==
  /\ far \in i + 1 .. Len(lines) + 1 /\ near \in i + 1 .. Len(lines) + 1
  /\ far # near => /\ far = Len(lines) + 1 /\ ~IndentationScoped(language)
                   /\ \A k \in i..Len(lines) : lines[k].opens = 0

\* After a definition whose brace never comes nothing more is left out.
LEMMA BodyIs ==
  ASSUME NEW lines \in Seq(Line), NEW language, NEW n, n = Len(lines), NEW i \in 1..n,
         NEW far, far = BodyAfter(lines, language, i).next,
         NEW near, near = Max({i + 1, BodyAfter(lines, language, i).end})
  PROVE  GoesOn(lines, language, i, far, near)
<1> USE DEF GoesOn
<1>0. n \in Nat
  OBVIOUS
<1>1. PICK m \in Nat : m = n + 1 /\ i + 1 \in 1..m
  BY <1>0
<1>2. \A x \in 1..m : Max({i + 1, x}) \in i + 1 .. m
  <2> TAKE x \in 1..m
  <2>1. {i + 1, x} \in SUBSET (1..m)
    BY <1>1
  <2>2. PICK S \in SUBSET (1..m) : S = {i + 1, x}
    BY <2>1
  <2>3. S # {} /\ i + 1 \in S
    BY <2>2
  <2>4. Max(S) \in S /\ \A y \in S : y <= Max(S)
    BY <2>3, LastAndFirst
  <2> QED
    BY <2>2, <2>3, <2>4
<1>3. CASE IndentationScoped(language)
  <2>1. PICK end : end = EndOfIndentedBlock(lines, i + 1, lines[i].indent)
    OBVIOUS
  <2>2. far = Max({end, i + 1}) /\ near = Max({i + 1, end})
    BY <1>3, <2>1 DEF BodyAfter
  <2>3. PICK S : S = {m} \cup {k \in i + 1 .. n : lines[k].mark # "blank" /\ lines[k].indent <= lines[i].indent}
    OBVIOUS
  <2>4. S \in SUBSET (1..m) /\ S # {}
    BY <1>0, <1>1, <2>3
  <2>5. end = Min(S)
    BY <1>1, <2>1, <2>3 DEF EndOfIndentedBlock
  <2>6. end \in 1..m
    BY <2>4, <2>5, LastAndFirst
  <2>7. {end, i + 1} = {i + 1, end}
    OBVIOUS
  <2>8. far = near
    BY <2>2, <2>7
  <2> QED
    BY <1>1, <1>2, <2>2, <2>6, <2>8
<1>4. CASE ~IndentationScoped(language)
  <2>1. PICK B : B = {k \in i..n : /\ Opens(lines, i, k) > 0
                                   /\ Opens(lines, i, k) <= Closes(lines, i, k)}
    OBVIOUS
  <2>2. PICK scan : scan = ScanBracedBlock(lines, i)
    OBVIOUS
  <2>3. /\ near = Max({i + 1, scan.end})
        /\ far = Max({i + 1, IF scan.foundOpen THEN scan.end ELSE scan.scannedTo})
    BY <1>4, <2>2 DEF BodyAfter
  <2>4. CASE B # {}
    <3>1. scan = [end |-> Min(B) + 1, scannedTo |-> Min(B) + 1, foundOpen |-> TRUE]
      BY <2>1, <2>2, <2>4 DEF ScanBracedBlock
    <3>2. B \in SUBSET (1..n)
      BY <1>0, <2>1
    <3>3. Min(B) \in B
      BY <1>0, <2>4, <3>2, LastAndFirst
    <3>4. scan.end \in 1..m /\ scan.foundOpen
      <4>1. Min(B) \in 1..n
        BY <3>2, <3>3
      <4>2. Min(B) + 1 \in 1..m
        BY <1>0, <1>1, <4>1
      <4> QED
        BY <3>1, <4>2
    <3>5. far = near
      BY <2>3, <3>4
    <3> QED
      BY <1>1, <1>2, <2>3, <3>4, <3>5
  <2>5. CASE B = {}
    <3>1. scan = [end |-> i + 1, scannedTo |-> n + 1, foundOpen |-> Opens(lines, i, n) > 0]
      BY <2>1, <2>2, <2>5 DEF ScanBracedBlock
    <3>2. near = Max({i + 1, i + 1}) /\ near \in i + 1 .. m
      BY <1>1, <1>2, <2>3, <3>1
    <3>3. CASE Opens(lines, i, n) > 0
      <4>1. far = near
        BY <2>3, <3>1, <3>3
      <4> QED
        BY <1>1, <3>2, <4>1
    <3>4. CASE ~(Opens(lines, i, n) > 0)
      <4>1. far = Max({i + 1, m})
        BY <1>1, <2>3, <3>1, <3>4
      <4>2. far = m
        <5>0. m \in 1..m
          BY <1>0, <1>1
        <5>1. PICK S \in SUBSET (1..m) : S = {i + 1, m}
          BY <1>1, <5>0
        <5>2. S # {} /\ m \in S /\ \A x \in S : x <= m
          BY <1>0, <1>1, <5>1
        <5>3. Max(S) \in S /\ \A y \in S : y <= Max(S)
          BY <5>2, LastAndFirst
        <5> QED
          BY <4>1, <5>1, <5>2, <5>3
      <4>3. n \in i..n
        BY <1>0
      <4>4. Opens(lines, i, n) \in Nat /\ (Opens(lines, i, n) = 0 <=> \A k \in i..n : lines[k].opens = 0)
        BY <4>3, OpensNone
      <4>5. \A k \in i..n : lines[k].opens = 0
        BY <3>4, <4>4
      <4>6. far \in i + 1 .. n + 1
        BY <1>0, <1>1, <4>2
      <4> QED
        BY <1>1, <1>4, <3>2, <4>2, <4>5, <4>6
    <3> QED
      BY <3>3, <3>4
  <2> QED
    BY <2>4, <2>5
<1> QED
  BY <1>3, <1>4

\* A body is made of lines.
LEMMA BodyIsLines ==
  ASSUME NEW lines \in Seq(Line), NEW language, NEW n, n = Len(lines), NEW i \in 1..n
  PROVE  Elidable(i, BodyAfter(lines, language, i)) \subseteq 1..n
<1>1. PICK m \in Nat : n \in Nat /\ m = n + 1 /\ m \in 1..m /\ i + 1 \in 1..m /\ i \in Nat
  OBVIOUS
<1>2. PICK body : body = BodyAfter(lines, language, i)
  OBVIOUS
<1>3. body.end \in 1..m /\ body.closing \in {0, 1}
  <2>1. CASE IndentationScoped(language)
    <3>1. body.end = EndOfIndentedBlock(lines, i + 1, lines[i].indent) /\ body.closing = 0
      BY <1>2, <2>1 DEF BodyAfter
    <3>2. PICK S : S = {m} \cup {k \in i + 1 .. n : lines[k].mark # "blank" /\ lines[k].indent <= lines[i].indent}
      OBVIOUS
    <3>3. S \in SUBSET (1..m) /\ S # {}
      BY <1>1, <3>2
    <3>4. body.end = Min(S)
      BY <1>1, <3>1, <3>2 DEF EndOfIndentedBlock
    <3>5. Min(S) \in S
      BY <3>3, LastAndFirst
    <3> QED
      BY <3>1, <3>3, <3>4, <3>5
  <2>2. CASE ~IndentationScoped(language)
    <3>1. body.end = ScanBracedBlock(lines, i).end /\ body.closing = 1
      BY <1>2, <2>2 DEF BodyAfter
    <3>2. PICK B : B = {k \in i..n : /\ Opens(lines, i, k) > 0
                                     /\ Opens(lines, i, k) <= Closes(lines, i, k)}
      OBVIOUS
    <3>3. CASE B # {}
      <4>1. ScanBracedBlock(lines, i).end = Min(B) + 1
        BY <3>2, <3>3 DEF ScanBracedBlock
      <4>2. B \in SUBSET (1..n)
        BY <1>1, <3>2
      <4>3. Min(B) \in B
        BY <1>1, <3>3, <4>2, LastAndFirst
      <4>4. Min(B) \in 1..n
        BY <4>2, <4>3
      <4>5. Min(B) + 1 \in 1..m
        BY <1>1, <4>4
      <4> QED
        BY <3>1, <4>1, <4>5
    <3>4. CASE B = {}
      <4>1. ScanBracedBlock(lines, i).end = i + 1
        BY <3>2, <3>4 DEF ScanBracedBlock
      <4> QED
        BY <1>1, <3>1, <4>1
    <3> QED
      BY <3>3, <3>4
  <2> QED
    BY <2>1, <2>2
<1>4. i + 1 .. body.end - 1 - body.closing \subseteq 1..n
  BY <1>1, <1>3
<1> QED
  BY <1>2, <1>4 DEF Elidable

\* Without an opening brace there is no body.
LEMMA NoBraceNoBody ==
  ASSUME NEW lines \in Seq(Line), NEW language, ~IndentationScoped(language),
         NEW k \in 1..Len(lines), \A j \in k..Len(lines) : lines[j].opens = 0
  PROVE  Elidable(k, BodyAfter(lines, language, k)) = {}
<1>1. PICK B : B = {i \in k..Len(lines) : /\ Opens(lines, k, i) > 0
                                          /\ Opens(lines, k, i) <= Closes(lines, k, i)}
  OBVIOUS
<1>2. ASSUME NEW i \in k..Len(lines) PROVE ~(Opens(lines, k, i) > 0)
  <2>1. \A j \in k..i : lines[j].opens = 0
    OBVIOUS
  <2>2. Opens(lines, k, i) = 0
    BY <2>1, OpensNone
  <2> QED
    BY <2>2
<1>3. B = {}
  BY <1>1, <1>2
<1>4. ScanBracedBlock(lines, k).end = k + 1
  BY <1>1, <1>3 DEF ScanBracedBlock
<1>5. BodyAfter(lines, language, k).end = k + 1 /\ BodyAfter(lines, language, k).closing = 1
  BY <1>4 DEF BodyAfter
<1>6. k + 1 .. k + 1 - 1 - 1 = {}
  OBVIOUS
<1> QED
  BY <1>5, <1>6 DEF Elidable

\* Leaving out the bodies one by one leaves out the same.
LEMMA BodiesAre ==
  ASSUME NEW lines \in Seq(Line), NEW language
  PROVE  /\ BodyLines(lines, language) = BodiesOneByOne(lines, language)
         /\ BodyLines(lines, language) \subseteq DOMAIN lines
<1>1. PICK n \in Nat, m \in Nat : n = Len(lines) /\ DOMAIN lines = 1..n /\ m = n + 1
  OBVIOUS
<1> DEFINE gone == Gone(lines, language)
           far  == Far(lines, language)
           near == Near(lines, language)
           F(f) == f = [i \in 1 .. Len(lines) + 1 |->
                     IF i > Len(lines) THEN {}
                     ELSE IF ~IsDefinition(lines[i], language) THEN f[i + 1]
                     ELSE LET body == BodyAfter(lines, language, i)
                          IN  Elidable(i, body) \cup f[body.next]]
           G(f) == f = [i \in 1 .. Len(lines) + 1 |->
                     IF i > Len(lines) THEN {}
                     ELSE IF ~IsDefinition(lines[i], language) THEN f[i + 1]
                     ELSE LET body == BodyAfter(lines, language, i)
                          IN  Elidable(i, body) \cup f[Max({i + 1, body.end})]]
<1>2. BodyLines(lines, language) = (CHOOSE f : F(f))[1]
  BY DEF BodyLines
<1>3. BodiesOneByOne(lines, language) = (CHOOSE f : G(f))[1]
  BY DEF BodiesOneByOne
<1>4. ASSUME NEW i \in 1..n
      PROVE  /\ far[i] \in i + 1 .. n + 1 /\ near[i] \in i + 1 .. n + 1
             /\ far[i] # near[i] => /\ far[i] = n + 1 /\ ~IndentationScoped(language)
                                    /\ \A k \in i..n : lines[k].opens = 0
  <2>1. CASE IsDefinition(lines[i], language)
    <3>1. far[i] = BodyAfter(lines, language, i).next
          /\ near[i] = Max({i + 1, BodyAfter(lines, language, i).end})
      BY <1>1, <2>1 DEF Far, Near
    <3> HIDE DEF far, near, F, G, gone
    <3>2. PICK x, y : x = far[i] /\ y = near[i]
      OBVIOUS
    <3>3. GoesOn(lines, language, i, x, y)
      <4>1. n = Len(lines)
        BY <1>1
      <4> QED
        BY <3>1, <3>2, <4>1, BodyIs
    <3> QED
      BY <1>1, <3>2, <3>3 DEF GoesOn
  <2>2. CASE ~IsDefinition(lines[i], language)
    BY <1>1, <2>2 DEF Far, Near
  <2> QED
    BY <2>1, <2>2
<1>5. Ahead(far, n, m) /\ Ahead(near, n, m)
  <2>1. DOMAIN far = 1..n /\ DOMAIN near = 1..n /\ far = [i \in 1..n |-> far[i]] /\ near = [i \in 1..n |-> near[i]]
    BY <1>1 DEF Far, Near
  <2> HIDE DEF far, near
  <2>2. \A i \in 1..n : far[i] \in 1..m /\ near[i] \in 1..m /\ far[i] > i /\ near[i] > i
    BY <1>1, <1>4
  <2> QED
    BY <2>1, <2>2 DEF Ahead
<1>6. Shortcut(far, near, gone, n, m)
  <2> SUFFICES ASSUME NEW i \in 1..n, far[i] # near[i], NEW k \in i + 1 .. n
               PROVE  gone[k] = {}
    <3> HIDE DEF far, near, gone
    <3>1. \A i \in 1..n : far[i] # near[i] => far[i] = m
      BY <1>1, <1>4
    <3> QED
      BY <3>1 DEF Shortcut
  <2>1. far[i] = m /\ ~IndentationScoped(language) /\ \A j \in i..n : lines[j].opens = 0
    BY <1>1, <1>4
  <2>2. k \in 1..Len(lines) /\ \A j \in k..Len(lines) : lines[j].opens = 0
    BY <1>1, <2>1
  <2>3. Elidable(k, BodyAfter(lines, language, k)) = {}
    BY <2>1, <2>2, NoBraceNoBody
  <2>4. gone[k] = {}
    BY <1>1, <2>2, <2>3 DEF Gone
  <2> QED
    BY <2>4
<1>7. ASSUME NEW f PROVE F(f) <=> Walks(f, gone, far, m)
  <2>1. \A i \in 1..m : ~(i > n) =>
          (IF ~IsDefinition(lines[i], language) THEN f[i + 1]
           ELSE LET body == BodyAfter(lines, language, i) IN Elidable(i, body) \cup f[body.next])
            = gone[i] \cup f[far[i]]
    BY <1>1 DEF Gone, Far
  <2> HIDE DEF gone, far
  <2>2. \A i \in 1..m : i > Len(lines) <=> i = m
    BY <1>1
  <2> QED
    BY <1>1, <2>1, <2>2 DEF Walks
<1>8. ASSUME NEW f PROVE G(f) <=> Walks(f, gone, near, m)
  <2>1. \A i \in 1..m : ~(i > n) =>
          (IF ~IsDefinition(lines[i], language) THEN f[i + 1]
           ELSE LET body == BodyAfter(lines, language, i)
                IN Elidable(i, body) \cup f[Max({i + 1, body.end})])
            = gone[i] \cup f[near[i]]
    BY <1>1 DEF Gone, Near
  <2> HIDE DEF gone, near
  <2>2. \A i \in 1..m : i > Len(lines) <=> i = m
    BY <1>1
  <2> QED
    BY <1>1, <2>1, <2>2 DEF Walks
<1>17. \A i \in 1..n : gone[i] \subseteq 1..n
  <2> TAKE i \in 1..n
  <2>1. Elidable(i, BodyAfter(lines, language, i)) \subseteq 1..n
    BY <1>1, BodyIsLines
  <2> QED
    BY <1>1, <2>1 DEF Gone
<1> HIDE DEF gone, far, near, F, G
<1>9. (\E f : Walks(f, gone, far, m)) /\ (\E f : Walks(f, gone, near, m))
  BY <1>1, <1>5, WalkExists
<1>10. PICK f : f = (CHOOSE h : F(h)) /\ F(f)
  BY <1>7, <1>9
<1>11. PICK g : g = (CHOOSE h : G(h)) /\ G(g)
  BY <1>8, <1>9
<1>12. Walks(f, gone, far, m) /\ Walks(g, gone, near, m)
  BY <1>7, <1>8, <1>10, <1>11
<1>13. \A i \in 1..m : f[i] = g[i]
  <2>1. n \in Nat /\ m = n + 1
    BY <1>1
  <2> QED
    BY <1>5, <1>6, <1>12, <2>1, WalksAgree
<1>14. 1 \in 1..m
  BY <1>1
<1>15. f[1] \subseteq 1..n
  <2>1. n \in Nat /\ m = n + 1
    BY <1>1
  <2>3. PICK V : V = 1..n
    OBVIOUS
  <2>4. \A i \in 1..n : gone[i] \subseteq V
    BY <1>17, <2>3
  <2>2. \A i \in 1..m : f[i] \subseteq V
    BY <1>5, <1>12, <2>1, <2>4, WalkWithin
  <2> QED
    BY <1>14, <2>2, <2>3
<1>16. BodyLines(lines, language) = f[1] /\ BodiesOneByOne(lines, language) = g[1]
  BY <1>2, <1>3, <1>10, <1>11
<1> QED
  BY <1>1, <1>13, <1>14, <1>15, <1>16

(***************************************************************************)
(* What is kept of prose.                                                  *)
(***************************************************************************)
\* What two sequences hold together.
LEMMA ToSetConcat ==
  ASSUME NEW S, NEW s \in Seq(S), NEW t \in Seq(S)
  PROVE  ToSet(s \o t) = ToSet(s) \cup ToSet(t)
<1>1. PICK m \in Nat, n \in Nat : m = Len(s) /\ n = Len(t)
  OBVIOUS
<1>2. PICK u : u = s \o t
  OBVIOUS
<1>3. /\ DOMAIN u = 1 .. m + n /\ DOMAIN s = 1..m /\ DOMAIN t = 1..n
      /\ \A k \in 1 .. m + n : u[k] = IF k <= m THEN s[k] ELSE t[k - m]
  BY <1>1, <1>2
<1>4. \A k \in 1..m : k \in 1 .. m + n /\ u[k] = s[k]
  BY <1>3
<1>5. \A k \in 1..n : m + k \in 1 .. m + n /\ u[m + k] = t[k]
  <2> TAKE k \in 1..n
  <2>1. m + k \in 1 .. m + n /\ ~(m + k <= m) /\ m + k - m = k
    OBVIOUS
  <2> QED
    BY <1>3, <2>1
<1>6. \A k \in 1 .. m + n : (k \in 1..m /\ u[k] = s[k]) \/ (k - m \in 1..n /\ u[k] = t[k - m])
  BY <1>3
<1>7. ToSet(u) \subseteq ToSet(s) \cup ToSet(t)
  BY <1>3, <1>6 DEF ToSet
<1>8. ToSet(s) \subseteq ToSet(u) /\ ToSet(t) \subseteq ToSet(u)
  BY <1>3, <1>4, <1>5 DEF ToSet
<1> QED
  BY <1>2, <1>7, <1>8

\* A flattened sequence holds what its pieces hold.
LEMMA FlattenHolds ==
  ASSUME NEW S, NEW ss \in Seq(Seq(S))
  PROVE  FlattenSeq(ss) \in Seq(S) /\ \A i \in 1..Len(ss) : ToSet(ss[i]) \subseteq ToSet(FlattenSeq(ss))
<1>1. PICK n \in Nat : n = Len(ss)
  OBVIOUS
<1>2. PICK o \in [0..n -> Seq(S)] : Pieces(o, ss) /\ FlattenSeq(ss) = o[n]
  BY <1>1, FlattenIs
<1>3. \A k \in 0 .. n - 1 : o[k + 1] = o[k] \o ss[k + 1]
  <2>1. \A k \in 1..n : o[k] = o[k - 1] \o ss[k]
    BY <1>1, <1>2 DEF Pieces
  <2> TAKE k \in 0 .. n - 1
  <2>2. PICK j \in 1..n : j = k + 1 /\ j - 1 = k
    OBVIOUS
  <2> QED
    BY <2>1, <2>2
<1>4. PICK T \in SUBSET (0..n) : T = {k \in 0..n : \A i \in 1..k : ToSet(ss[i]) \subseteq ToSet(o[k])}
  OBVIOUS
<1>5. 0 \in T
  BY <1>4
<1>6. ASSUME NEW k \in 0 .. n - 1, k \in T PROVE k + 1 \in T
  <2>1. PICK j \in 1..n : j = k + 1
    OBVIOUS
  <2>2. o[k] \in Seq(S) /\ ss[j] \in Seq(S)
    <3>1. k \in 0..n
      OBVIOUS
    <3>2. o[k] \in Seq(S)
      BY <1>2, <3>1
    <3>3. ss[j] \in Seq(S)
      BY <1>1
    <3> QED
      BY <3>2, <3>3
  <2>3. ToSet(o[j]) = ToSet(o[k]) \cup ToSet(ss[j])
    <3>1. o[j] = o[k] \o ss[j]
      BY <1>3, <2>1
    <3> QED
      BY <2>2, <3>1, ToSetConcat
  <2>4. \A i \in 1..j : i = j \/ i \in 1..k
    BY <2>1
  <2>5. \A i \in 1..k : ToSet(ss[i]) \subseteq ToSet(o[k])
    BY <1>4, <1>6
  <2>6. \A i \in 1..j : ToSet(ss[i]) \subseteq ToSet(o[j])
    BY <2>3, <2>4, <2>5
  <2> QED
    BY <1>4, <2>1, <2>6
<1>7. \A k \in 0..n : k \in T
  BY <1>5, <1>6, NumbersUpTo
<1>8. \A i \in 1..n : ToSet(ss[i]) \subseteq ToSet(o[n])
  BY <1>4, <1>7
<1>9. o[n] \in Seq(S)
  BY <1>2
<1> QED
  BY <1>1, <1>2, <1>8, <1>9

Tag == [line : Nat, name : STRING, closing : BOOLEAN]

\* Every tag of a line is found, with its line.
LEMMA TagsAreFound ==
  ASSUME NEW lines \in Seq(Line), NEW tags, tags = FindTags(lines)
  PROVE  /\ tags \in Seq(Tag)
         /\ \A i \in DOMAIN lines : lines[i].tags # <<>> => \E k \in DOMAIN tags : tags[k].line = i
<1> DEFINE Of(i) == [k \in DOMAIN lines[i].tags |->
             [line |-> i, name |-> lines[i].tags[k].name, closing |-> lines[i].tags[k].closing]]
           ss == [i \in DOMAIN lines |-> Of(i)]
<1>1. PICK n \in Nat : n = Len(lines) /\ DOMAIN lines = 1..n
  OBVIOUS
<1>2. ASSUME NEW i \in 1..n PROVE Of(i) \in Seq(Tag) /\ (lines[i].tags # <<>> => ToSet(Of(i)) # {} /\ \A t \in ToSet(Of(i)) : t.line = i)
  <2>1. lines[i] \in Line
    BY <1>1
  <2>2. PICK s : s = lines[i].tags
    OBVIOUS
  <2>3. s \in Seq([name : STRING, closing : BOOLEAN])
    BY <2>1, <2>2 DEF Line
  <2>4. PICK m \in Nat : m = Len(s) /\ DOMAIN s = 1..m
    BY <2>3
  <2>5. \A k \in 1..m : s[k].name \in STRING /\ s[k].closing \in BOOLEAN
    <3>1. \A X : s \in Seq(X) => \A k \in 1..m : s[k] \in X
      BY <2>4
    <3>2. \A k \in 1..m : s[k] \in [name : STRING, closing : BOOLEAN]
      BY <2>3, <3>1
    <3> QED
      BY <3>2
  <2>6. Of(i) = [k \in 1..m |-> [line |-> i, name |-> s[k].name, closing |-> s[k].closing]]
    BY <2>2, <2>4
  <2> HIDE DEF Of
  <2>7. Of(i) \in [1..m -> Tag]
    BY <2>5, <2>6 DEF Tag
  <2>8. s # <<>> => 1 \in 1..m
    BY <2>3, <2>4
  <2>9. \A k \in 1..m : Of(i)[k].line = i
    BY <2>6
  <2>10. ToSet(Of(i)) = {Of(i)[k] : k \in 1..m}
    BY <2>6 DEF ToSet
  <2>11. Of(i) \in Seq(Tag)
    BY <2>4, <2>7
  <2> QED
    BY <2>2, <2>8, <2>9, <2>10, <2>11
<1>3. tags = FlattenSeq(ss)
  BY DEF FindTags
<1> HIDE DEF Of
<1>4. ss \in [1..n -> Seq(Tag)] /\ \A i \in 1..n : ss[i] = Of(i)
  BY <1>1, <1>2
<1> HIDE DEF ss
<1>5. ss \in Seq(Seq(Tag)) /\ Len(ss) = n
  BY <1>4
<1>6. tags \in Seq(Tag) /\ \A i \in 1..n : ToSet(ss[i]) \subseteq ToSet(tags)
  BY <1>3, <1>5, FlattenHolds
<1>7. ASSUME NEW i \in 1..n, lines[i].tags # <<>> PROVE \E k \in DOMAIN tags : tags[k].line = i
  <2>1. PICK t \in ToSet(Of(i)) : t.line = i
    BY <1>2, <1>7
  <2>2. t \in ToSet(tags)
    BY <1>4, <1>6, <2>1
  <2> QED
    BY <2>1, <2>2 DEF ToSet
<1> QED
  BY <1>1, <1>6, <1>7

\* What the stacks of open lines and the lines found in pairs protect.
Stacks(names) == [open : [names -> Seq(Nat)], protected : SUBSET Nat]
Protected(acc, names) == acc.protected \cup UNION {ToSet(acc.open[n]) : n \in names}

\* The end of a stack and the rest of it.
LEMMA LastAndFront ==
  ASSUME NEW S, NEW s \in Seq(S), s # <<>>
  PROVE  Front(s) \in Seq(S) /\ Last(s) \in S /\ ToSet(s) = ToSet(Front(s)) \cup {Last(s)}
<1>1. PICK n \in Nat : n = Len(s) /\ DOMAIN s = 1..n /\ n > 0
  OBVIOUS
<1>2. Front(s) = [k \in 1 .. n - 1 |-> s[k]]
  BY <1>1 DEF Front
<1>3. Last(s) = s[n]
  BY <1>1 DEF Last
<1>4. \A k \in 1..n : s[k] \in S /\ (k \in 1 .. n - 1 \/ k = n)
  BY <1>1
<1>5. \A k \in 1 .. n - 1 : k \in 1..n
  BY <1>1
<1>6. Front(s) \in Seq(S)
  <2>1. Front(s) \in [1 .. n - 1 -> S]
    BY <1>2, <1>4, <1>5
  <2>2. n - 1 \in Nat
    BY <1>1
  <2> QED
    BY <2>1, <2>2
<1>7. ToSet(Front(s)) = {s[k] : k \in 1 .. n - 1} /\ ToSet(s) = {s[k] : k \in 1..n}
  BY <1>1, <1>2 DEF ToSet
<1>8. n \in 1..n
  BY <1>1
<1> QED
  BY <1>3, <1>4, <1>5, <1>6, <1>7, <1>8

TagStep(acc, tag) ==
  LET stack == acc.open[tag.name]
  IN  IF ~tag.closing THEN [acc EXCEPT !.open[tag.name] = Append(@, tag.line)]
      ELSE IF stack = <<>> THEN [acc EXCEPT !.protected = @ \cup {tag.line}]
      ELSE [acc EXCEPT !.protected = @ \cup {Last(stack), tag.line}, !.open[tag.name] = Front(@)]

\* One more tag is protected, and what was stays so.
LEMMA TagStepProtects ==
  ASSUME NEW names, NEW acc \in Stacks(names), NEW tag \in Tag, tag.name \in names
  PROVE  /\ TagStep(acc, tag) \in Stacks(names)
         /\ Protected(acc, names) \cup {tag.line} \subseteq Protected(TagStep(acc, tag), names)
<1>1. PICK open, protected : open = acc.open /\ protected = acc.protected
  OBVIOUS
<1>2. acc = [open |-> open, protected |-> protected] /\ open \in [names -> Seq(Nat)] /\ protected \in SUBSET Nat
  BY <1>1 DEF Stacks
<1>3. PICK name \in names, i \in Nat : name = tag.name /\ i = tag.line
  <2>1. tag.line \in Nat
    BY DEF Tag
  <2> QED
    BY <2>1
<1>4. PICK stack \in Seq(Nat) : stack = open[name]
  BY <1>2, <1>3
<1>5. ASSUME NEW op \in [names -> Seq(Nat)], NEW pr \in SUBSET Nat, TagStep(acc, tag) = [open |-> op, protected |-> pr],
             protected \subseteq pr, \A n \in names : n # name => op[n] = open[n],
             ToSet(stack) \subseteq pr \cup ToSet(op[name]), i \in pr \cup ToSet(op[name])
      PROVE  /\ TagStep(acc, tag) \in Stacks(names)
             /\ Protected(acc, names) \cup {tag.line} \subseteq Protected(TagStep(acc, tag), names)
  <2>1. Protected(TagStep(acc, tag), names) = pr \cup UNION {ToSet(op[n]) : n \in names}
    BY <1>5 DEF Protected
  <2>2. Protected(acc, names) = protected \cup UNION {ToSet(open[n]) : n \in names}
    BY <1>1 DEF Protected
  <2>3. \A n \in names : ToSet(open[n]) \subseteq pr \cup UNION {ToSet(op[x]) : x \in names}
    <3> TAKE n \in names
    <3>1. CASE n = name
      BY <1>4, <1>5, <3>1
    <3>2. CASE n # name
      <4>1. ToSet(op[n]) = ToSet(open[n])
        BY <1>5, <3>2
      <4> QED
        BY <4>1
    <3> QED
      BY <3>1, <3>2
  <2>4. i \in pr \cup UNION {ToSet(op[x]) : x \in names}
    BY <1>3, <1>5
  <2>5. TagStep(acc, tag) \in Stacks(names)
    BY <1>5 DEF Stacks
  <2>6. PICK P : P = Protected(TagStep(acc, tag), names)
    OBVIOUS
  <2>7. Protected(acc, names) \subseteq P
    <3>1. P = pr \cup UNION {ToSet(op[n]) : n \in names}
      BY <2>1, <2>6
    <3>2. PICK U : U = UNION {ToSet(op[n]) : n \in names}
      OBVIOUS
    <3>3. \A n \in names : ToSet(open[n]) \subseteq pr \cup U
      BY <2>3, <3>2
    <3>4. UNION {ToSet(open[n]) : n \in names} \subseteq pr \cup U
      BY <3>3
    <3> QED
      BY <1>5, <2>2, <3>1, <3>2, <3>4
  <2>8. tag.line \in P
    BY <1>3, <2>1, <2>4, <2>6
  <2> QED
    BY <2>5, <2>6, <2>7, <2>8
<1>6. CASE ~tag.closing
  <2>1. PICK op : op = [open EXCEPT ![name] = Append(stack, i)]
    OBVIOUS
  <2>2. TagStep(acc, tag) = [open |-> op, protected |-> protected]
    BY <1>2, <1>3, <1>4, <1>6, <2>1 DEF TagStep
  <2>3. op \in [names -> Seq(Nat)] /\ op[name] = Append(stack, i) /\ \A n \in names : n # name => op[n] = open[n]
    BY <1>2, <1>3, <1>4, <2>1
  <2>4. ToSet(op[name]) = ToSet(stack) \cup {i}
    <3>1. Append(stack, i) = stack \o <<i>> /\ <<i>> \in Seq(Nat)
      OBVIOUS
    <3>2. PICK one \in Seq(Nat) : one = <<i>>
      BY <3>1
    <3>3. ToSet(one) = {i}
      BY <3>2 DEF ToSet
    <3>4. ToSet(stack \o one) = ToSet(stack) \cup ToSet(one)
      BY ToSetConcat
    <3> QED
      BY <2>3, <3>1, <3>2, <3>3, <3>4
  <2> QED
    BY <1>2, <1>5, <2>2, <2>3, <2>4
<1>7. CASE tag.closing /\ stack = <<>>
  <2>1. TagStep(acc, tag) = [open |-> open, protected |-> protected \cup {i}]
    BY <1>2, <1>3, <1>4, <1>7 DEF TagStep
  <2>2. protected \cup {i} \in SUBSET Nat /\ ToSet(open[name]) = ToSet(stack)
    BY <1>2, <1>3, <1>4
  <2> QED
    BY <1>2, <1>5, <2>1, <2>2
<1>8. CASE tag.closing /\ stack # <<>>
  <2>1. PICK op : op = [open EXCEPT ![name] = Front(stack)]
    OBVIOUS
  <2>2. PICK pr : pr = protected \cup {Last(stack), i}
    OBVIOUS
  <2>3. TagStep(acc, tag) = [open |-> op, protected |-> pr]
    BY <1>2, <1>3, <1>4, <1>8, <2>1, <2>2 DEF TagStep
  <2>4. Front(stack) \in Seq(Nat) /\ Last(stack) \in Nat /\ ToSet(stack) = ToSet(Front(stack)) \cup {Last(stack)}
    BY <1>8, LastAndFront
  <2>5. op \in [names -> Seq(Nat)] /\ op[name] = Front(stack) /\ \A n \in names : n # name => op[n] = open[n]
    BY <1>2, <1>3, <2>1, <2>4
  <2>6. pr \in SUBSET Nat /\ protected \subseteq pr /\ i \in pr /\ ToSet(stack) \subseteq pr \cup ToSet(op[name])
    BY <1>2, <2>2, <2>4, <2>5
  <2> QED
    BY <1>5, <2>3, <2>5, <2>6
<1> QED
  BY <1>6, <1>7, <1>8 DEF Tag

\* A line with a tag is protected.
LEMMA TagsAreProtected ==
  ASSUME NEW lines \in Seq(Line), NEW i \in DOMAIN lines, lines[i].tags # <<>>
  PROVE  i \in ProtectedLines(lines)
<1>1. PICK tags : tags = FindTags(lines)
  OBVIOUS
<1>2. tags \in Seq(Tag) /\ \E k \in DOMAIN tags : tags[k].line = i
  BY <1>1, TagsAreFound
<1>3. PICK n \in Nat : n = Len(tags) /\ DOMAIN tags = 1..n
  BY <1>2
<1>4. PICK names : names = {tags[k].name : k \in 1..n}
  OBVIOUS
<1>5. PICK none : none = [open |-> [x \in names |-> <<>>], protected |-> {}]
  OBVIOUS
<1> DEFINE Is(f) == f = [k \in 0..n |-> IF k = 0 THEN none ELSE TagStep(f[k - 1], tags[k])]
           after == CHOOSE f : Is(f)
<1>6. ProtectedLines(lines) = Protected(after[n], names)
  <2>1. DOMAIN tags = 1..n /\ Len(tags) = n
    BY <1>3
  <2>2. names = {tags[k].name : k \in DOMAIN tags}
    BY <1>3, <1>4
  <2> QED
    BY <1>1, <1>5, <2>1, <2>2 DEF ProtectedLines, Protected, TagStep
<1>7. none \in Stacks(names)
  BY <1>5 DEF Stacks
<1>8. \A k \in 1..n : tags[k] \in Tag /\ tags[k].name \in names
  BY <1>2, <1>3, <1>4
<1>9. PICK o \in [0..n -> Stacks(names)] : o[0] = none /\ \A k \in 1..n : o[k] = TagStep(o[k - 1], tags[k])
  <2> DEFINE step == [p \in (1..n) \X Stacks(names) |-> TagStep(p[2], tags[p[1]])]
  <2>1. \A k \in 1..n, acc \in Stacks(names) : TagStep(acc, tags[k]) \in Stacks(names)
    BY <1>8, TagStepProtects
  <2>2. step \in [(1..n) \X Stacks(names) -> Stacks(names)]
    BY <2>1
  <2>3. \A k \in 1..n, acc \in Stacks(names) : step[<<k, acc>>] = TagStep(acc, tags[k])
    OBVIOUS
  <2> HIDE DEF step, Is, after
  <2>4. PICK V : V = Stacks(names)
    OBVIOUS
  <2>5. \E o \in [0..n -> V] : Along(o, n, none, step)
    BY <1>7, <2>2, <2>4, PrefixesExist
  <2>6. PICK o \in [0..n -> V] : o[0] = none /\ \A k \in 1..n : o[k] = step[<<k, o[k - 1]>>]
    BY <2>5 DEF Along
  <2>7. \A k \in 1..n : o[k - 1] \in V
    <3> TAKE k \in 1..n
    <3>1. k - 1 \in 0..n
      OBVIOUS
    <3> QED
      BY <3>1
  <2> QED
    BY <2>3, <2>4, <2>6, <2>7
<1>10. Is(after)
  <2>1. Is([k \in 0..n |-> o[k]])
    <3>1. ASSUME NEW k \in 0..n
          PROVE  o[k] = IF k = 0 THEN none ELSE TagStep([j \in 0..n |-> o[j]][k - 1], tags[k])
      <4>1. CASE k = 0
        BY <1>9, <4>1
      <4>2. CASE k # 0
        <5>1. k \in 1..n /\ k - 1 \in 0..n
          BY <4>2
        <5>2. [j \in 0..n |-> o[j]][k - 1] = o[k - 1]
          BY <5>1
        <5> QED
          BY <1>9, <4>2, <5>1, <5>2
      <4> QED
        BY <4>1, <4>2
    <3> QED
      BY <3>1
  <2> QED
    BY <2>1
<1> HIDE DEF after
<1>11. after[0] = none /\ \A k \in 1..n : after[k] = TagStep(after[k - 1], tags[k])
  <2>1. \A k \in 0..n : after[k] = IF k = 0 THEN none ELSE TagStep(after[k - 1], tags[k])
    BY <1>10
  <2>2. 0 \in 0..n /\ \A k \in 1..n : k \in 0..n /\ k # 0
    OBVIOUS
  <2> QED
    BY <2>1, <2>2
<1> HIDE DEF Is
<1>12. PICK T \in SUBSET (0..n) : T = {k \in 0..n : /\ after[k] \in Stacks(names)
                               /\ \A j \in 1..k : tags[j].line \in Protected(after[k], names)}
  OBVIOUS
<1>13. 0 \in T
  BY <1>7, <1>11, <1>12
<1>14. ASSUME NEW k \in 0 .. n - 1, k \in T PROVE k + 1 \in T
  <2>1. PICK m \in 1..n : m = k + 1 /\ m - 1 = k
    OBVIOUS
  <2>2. after[m] = TagStep(after[k], tags[m])
    BY <1>11, <2>1
  <2>3. after[k] \in Stacks(names) /\ \A j \in 1..k : tags[j].line \in Protected(after[k], names)
    BY <1>12, <1>14
  <2>4. /\ after[m] \in Stacks(names)
        /\ Protected(after[k], names) \cup {tags[m].line} \subseteq Protected(after[m], names)
    BY <1>8, <2>2, <2>3, TagStepProtects
  <2>5. \A j \in 1..m : j = m \/ j \in 1..k
    BY <2>1
  <2>6. \A j \in 1..m : tags[j].line \in Protected(after[m], names)
    BY <2>3, <2>4, <2>5
  <2>7. m \in 0..n
    OBVIOUS
  <2> QED
    BY <1>12, <2>1, <2>4, <2>6, <2>7
<1>15. \A k \in 0..n : k \in T
  BY <1>13, <1>14, NumbersUpTo
<1>16. n \in 0..n
  OBVIOUS
<1>17. \A j \in 1..n : tags[j].line \in Protected(after[n], names)
  BY <1>12, <1>15, <1>16
<1> QED
  BY <1>2, <1>3, <1>6, <1>17

\* Of the lines that are not required, one that is left out matters no more
\* than one that is kept.
LEMMA KeptMatterMore ==
  ASSUME NEW lines, NEW n \in Nat, DOMAIN lines = 1..n, Len(lines) = n, NEW budget \in Nat, n > budget,
         NEW required, NEW kept, kept = KeepWithRequired(lines, budget, required),
         NEW i \in (1..n) \ kept, NEW j \in kept \ required
  PROVE  i \notin required /\ Importance(lines[i]) <= Importance(lines[j])
<1> DEFINE Before(a, b) ==
             IF (a \in required) # (b \in required) THEN a \in required
             ELSE IF Importance(lines[a]) # Importance(lines[b])
                  THEN Importance(lines[a]) > Importance(lines[b]) ELSE a < b
           most == Max({budget, Cardinality(required \cap (1..n))})
           Earlier(x) == {y \in 1..n : Before(y, x)}
<1>1. kept = {x \in 1..n : Cardinality(Earlier(x)) < most}
  <2>1. kept = Best(1..n, most, Before)
    <3>1. ~(Len(lines) <= budget)
      OBVIOUS
    <3> QED
      BY <3>1, Zenon DEF KeepWithRequired
  <2> HIDE DEF Before, most
  <2> QED
    BY <2>1 DEF Best
<1>2. i \notin required
  <2>1. required \cap (1..n) \subseteq kept
    BY RequiredAreKept
  <2> QED
    BY <2>1
<1>3. \A a : Importance(lines[a]) \in Nat
  BY DEF Importance
<1>4. ASSUME Importance(lines[i]) > Importance(lines[j]) PROVE Earlier(i) \subseteq Earlier(j)
  <2> SUFFICES ASSUME NEW y \in 1..n, Before(y, i) PROVE Before(y, j)
    OBVIOUS
  <2>1. CASE y \in required
    BY <2>1
  <2>2. CASE y \notin required
    <3>1. PICK p \in Nat, q \in Nat, r \in Nat :
            p = Importance(lines[y]) /\ q = Importance(lines[i]) /\ r = Importance(lines[j])
      BY <1>3
    <3>2. q > r
      BY <1>4, <3>1
    <3>3. (y \in required) = (i \in required) /\ (y \in required) = (j \in required)
      BY <1>2, <2>2
    <3>4. p >= q
      <4>1. IF p # q THEN p > q ELSE y < i
        BY <3>1, <3>3
      <4> QED
        BY <4>1
    <3>5. p > r /\ p # r
      BY <3>2, <3>4
    <3> QED
      BY <3>1, <3>3, <3>5
  <2> QED
    BY <2>1, <2>2
<1>5. most \in Nat
  <2>1. IsFiniteSet(1..n)
    BY FS_Interval
  <2>2. Cardinality(required \cap (1..n)) \in Nat
    BY <2>1, FS_Subset, FS_CardinalityType
  <2> QED
    BY <2>2, LargerOfTwo
<1> HIDE DEF most, Earlier
<1>6. \A x \in 1..n : IsFiniteSet(Earlier(x)) /\ Cardinality(Earlier(x)) \in Nat
  <2> TAKE x \in 1..n
  <2>1. IsFiniteSet(1..n) /\ Earlier(x) \in SUBSET (1..n)
    BY FS_Interval DEF Earlier
  <2> QED
    BY <2>1, FS_Subset, FS_CardinalityType
<1>7. ~(Importance(lines[i]) > Importance(lines[j]))
  <2> SUFFICES ASSUME Importance(lines[i]) > Importance(lines[j]) PROVE FALSE
    OBVIOUS
  <2>1. Earlier(i) \subseteq Earlier(j) /\ j \in 1..n
    BY <1>1, <1>4
  <2>2. Cardinality(Earlier(i)) <= Cardinality(Earlier(j))
    BY <1>6, <2>1, FS_Subset
  <2>3. Cardinality(Earlier(j)) < most /\ ~(Cardinality(Earlier(i)) < most)
    BY <1>1
  <2> QED
    BY <1>5, <1>6, <2>1, <2>2, <2>3
<1>8. PICK q \in Nat, r \in Nat : q = Importance(lines[i]) /\ r = Importance(lines[j])
  BY <1>3
<1>9. q <= r
  BY <1>7, <1>8
<1> QED
  BY <1>2, <1>8, <1>9

(***************************************************************************)
(* What is kept of records.                                                *)
(***************************************************************************)
Below(R, S, i) == {j \in S : <<j, i>> \in R}
StrictOrder(R, S) ==
  /\ \A i \in S : <<i, i>> \notin R
  /\ \A i, j, k \in S : <<i, j>> \in R /\ <<j, k>> \in R => <<i, k>> \in R
  /\ \A i, j \in S : i = j \/ <<i, j>> \in R \/ <<j, i>> \in R

\* In a strict order every place is taken by the one that as many are before.
LEMMA RankedIs ==
  ASSUME NEW S, IsFiniteSet(S), NEW n, n = Cardinality(S), NEW R, StrictOrder(R, S), NEW at,
         \A k \in 1..n : \A i \in S : Cardinality(Below(R, S, i)) = k - 1
           => at[k] \in S /\ Cardinality(Below(R, S, at[k])) = k - 1
  PROVE  /\ n \in Nat /\ \A k \in 1..n : at[k] \in S
         /\ \A i \in S : \E k \in 1..n : at[k] = i
<1> DEFINE rank == [i \in S |-> Cardinality(Below(R, S, i)) + 1]
<1>1. n \in Nat
  BY FS_CardinalityType
<1>2. ASSUME NEW i \in S
      PROVE  /\ IsFiniteSet(Below(R, S, i)) /\ Cardinality(Below(R, S, i)) \in Nat
             /\ Cardinality(Below(R, S, i)) < n
  <2>1. Below(R, S, i) \in SUBSET S /\ i \in S \ Below(R, S, i)
    BY DEF Below, StrictOrder
  <2>2. IsFiniteSet(Below(R, S, i)) /\ Cardinality(Below(R, S, i)) <= n /\ Cardinality(Below(R, S, i)) # n
    BY <2>1, FS_Subset
  <2> QED
    BY <1>1, <2>2, FS_CardinalityType
<1>3. ASSUME NEW i \in S, NEW j \in S, <<i, j>> \in R
      PROVE  Cardinality(Below(R, S, i)) < Cardinality(Below(R, S, j))
  <2>1. Below(R, S, i) \in SUBSET Below(R, S, j) /\ i \in Below(R, S, j) \ Below(R, S, i)
    BY <1>3 DEF Below, StrictOrder
  <2>2. /\ IsFiniteSet(Below(R, S, j)) /\ Cardinality(Below(R, S, j)) \in Nat
        /\ Cardinality(Below(R, S, i)) \in Nat
    BY <1>2
  <2>3. /\ Cardinality(Below(R, S, i)) <= Cardinality(Below(R, S, j))
        /\ Cardinality(Below(R, S, i)) # Cardinality(Below(R, S, j))
    BY <2>1, <2>2, FS_Subset
  <2> QED
    BY <2>2, <2>3
<1>4. \A i, j \in S : Cardinality(Below(R, S, i)) = Cardinality(Below(R, S, j)) => i = j
  <2> TAKE i \in S, j \in S
  <2>1. i = j \/ <<i, j>> \in R \/ <<j, i>> \in R
    BY DEF StrictOrder
  <2>2. Cardinality(Below(R, S, i)) \in Nat /\ Cardinality(Below(R, S, j)) \in Nat
    BY <1>2
  <2> QED
    BY <1>3, <2>1, <2>2
<1>5. \A i \in S : rank[i] \in 1..n /\ rank[i] = Cardinality(Below(R, S, i)) + 1
  BY <1>1, <1>2
<1>6. rank \in Injection(S, 1..n)
  <2>1. rank \in [S -> 1..n]
    BY <1>5
  <2>2. \A i, j \in S : rank[i] = rank[j] => i = j
    BY <1>2, <1>4, <1>5
  <2> HIDE DEF rank
  <2> QED
    BY <2>1, <2>2 DEF Injection, IsInjective
<1> HIDE DEF rank
<1>7. IsFiniteSet(1..n) /\ Cardinality(1..n) = n
  BY <1>1, FS_Interval
<1>8. rank \in Surjection(S, 1..n)
  BY <1>6, <1>7, FS_Injection
<1>9. \A k \in 1..n : \E i \in S : rank[i] = k
  BY <1>8 DEF Surjection
<1>10. ASSUME NEW k \in 1..n PROVE at[k] \in S /\ Cardinality(Below(R, S, at[k])) = k - 1
  <2>1. PICK i \in S : rank[i] = k
    BY <1>9
  <2>2. Cardinality(Below(R, S, i)) = k - 1
    BY <1>2, <1>5, <2>1
  <2> QED
    BY <2>2
<1>11. ASSUME NEW i \in S PROVE \E k \in 1..n : at[k] = i
  <2>1. PICK k \in 1..n : rank[i] = k
    BY <1>5
  <2>2. Cardinality(Below(R, S, i)) = k - 1
    BY <1>2, <1>5, <2>1
  <2>3. Cardinality(Below(R, S, at[k])) = k - 1 /\ at[k] \in S
    BY <1>10
  <2>4. at[k] = i
    BY <1>4, <2>2, <2>3
  <2> QED
    BY <2>4
<1> QED
  BY <1>1, <1>10, <1>11

\* The statistics are those of the fields that some record has.
LEMMA StatsAre ==
  ASSUME NEW X, NEW records \in Seq(X), NEW stats, stats = Stats(records)
  PROVE  /\ \E n \in Nat : DOMAIN stats = 1..n /\ Len(stats) = n
         /\ \A k \in DOMAIN stats : \E f : stats[k] = FieldStat(records, f) /\ With(records, f) # {}
         /\ \A f \in ToSet(FieldNames) : With(records, f) # {} => \E k \in DOMAIN stats : stats[k] = FieldStat(records, f)
<1> DEFINE S == {k \in DOMAIN FieldNames : With(records, FieldNames[k]) # {}}
           First(k) == Min(With(records, FieldNames[k]))
           Before(j, k) == First(j) < First(k) \/ (First(j) = First(k) /\ j < k)
           R == {p \in S \X S : Before(p[1], p[2])}
           order == Ordered(S, Before)
           n == Cardinality(S)
<1>1. PICK m \in Nat : DOMAIN FieldNames = 1..m
  BY NamesInOrder
<1>2. S \in SUBSET (1..m) /\ IsFiniteSet(S)
  <2>1. S \in SUBSET (1..m) /\ IsFiniteSet(1..m)
    BY <1>1, FS_Interval
  <2> QED
    BY <2>1, FS_Subset
<1>3. \A k \in S : First(k) \in Nat
  <2> TAKE k \in S
  <2>1. PICK r \in Nat : r = Len(records) /\ DOMAIN records = 1..r
    OBVIOUS
  <2>2. PICK W : W = With(records, FieldNames[k])
    OBVIOUS
  <2>3. W \in SUBSET (1..r) /\ W # {}
    BY <2>1, <2>2 DEF With
  <2>4. Min(W) \in W
    BY <2>3, LastAndFirst
  <2> QED
    BY <2>2, <2>3, <2>4
<1> HIDE DEF First
<1>4. StrictOrder(R, S)
  <2>1. \A i, j \in S : <<i, j>> \in R <=> Before(i, j)
    OBVIOUS
  <2>2. \A i \in S : i \in Nat /\ First(i) \in Nat
    BY <1>2, <1>3
  <2> HIDE DEF R, S
  <2>3. \A i \in S : ~Before(i, i)
    BY <2>2
  <2>4. \A i, j, k \in S : Before(i, j) /\ Before(j, k) => Before(i, k)
    BY <2>2
  <2>5. \A i, j \in S : i = j \/ Before(i, j) \/ Before(j, i)
    BY <2>2
  <2> HIDE DEF Before
  <2> QED
    BY <2>1, <2>3, <2>4, <2>5 DEF StrictOrder
<1>5. \A i \in S : Below(R, S, i) = {j \in S : Before(j, i)}
  BY DEF Below
<1>6. order = [k \in 1..n |-> CHOOSE i \in S : Cardinality({j \in S : Before(j, i)}) = k - 1]
  BY DEF Ordered
<1> HIDE DEF S, R, Before, order
<1>7. \A k \in 1..n : \A i \in S : Cardinality(Below(R, S, i)) = k - 1
           => order[k] \in S /\ Cardinality(Below(R, S, order[k])) = k - 1
  <2> SUFFICES ASSUME NEW k \in 1..n, NEW i \in S, Cardinality(Below(R, S, i)) = k - 1
               PROVE  order[k] \in S /\ Cardinality(Below(R, S, order[k])) = k - 1
    OBVIOUS
  <2>1. Cardinality({j \in S : Before(j, i)}) = k - 1
    BY <1>5
  <2>2. order[k] = CHOOSE x \in S : Cardinality({j \in S : Before(j, x)}) = k - 1
    BY <1>6
  <2>3. order[k] \in S /\ Cardinality({j \in S : Before(j, order[k])}) = k - 1
    BY <2>1, <2>2
  <2> QED
    BY <1>5, <2>3
<1> HIDE DEF n
<1>8. /\ n \in Nat /\ \A k \in 1..n : order[k] \in S
      /\ \A i \in S : \E k \in 1..n : order[k] = i
  <2>1. PICK q : q = n
    OBVIOUS
  <2>2. q = Cardinality(S) /\ IsFiniteSet(S)
    BY <1>2, <2>1 DEF n
  <2>3. \A k \in 1..q : \A i \in S : Cardinality(Below(R, S, i)) = k - 1
           => order[k] \in S /\ Cardinality(Below(R, S, order[k])) = k - 1
    BY <1>7, <2>1
  <2>4. PICK at, P : at = order /\ P = R
    OBVIOUS
  <2>5. StrictOrder(P, S)
    BY <1>4, <2>4
  <2>6. \A k \in 1..q : \A i \in S : Cardinality(Below(P, S, i)) = k - 1
           => at[k] \in S /\ Cardinality(Below(P, S, at[k])) = k - 1
    BY <2>3, <2>4
  <2>7. /\ q \in Nat /\ \A k \in 1..q : at[k] \in S
        /\ \A i \in S : \E k \in 1..q : at[k] = i
    BY <2>2, <2>5, <2>6, RankedIs
  <2> QED
    BY <2>1, <2>4, <2>7
<1>9. FieldOrder(records) = [k \in DOMAIN order |-> FieldNames[order[k]]]
  BY DEF FieldOrder, order, S, Before, First
<1>10. DOMAIN order = 1..n
  BY <1>6
<1>11. DOMAIN stats = 1..n /\ \A k \in 1..n : stats[k] = FieldStat(records, FieldNames[order[k]])
  <2>1. DOMAIN FieldOrder(records) = 1..n /\ \A k \in 1..n : FieldOrder(records)[k] = FieldNames[order[k]]
    BY <1>9, <1>10
  <2>2. stats = [k \in DOMAIN FieldOrder(records) |-> FieldStat(records, FieldOrder(records)[k])]
    BY DEF Stats
  <2> QED
    BY <2>1, <2>2
<1>12. ASSUME NEW k \in DOMAIN stats PROVE \E f : stats[k] = FieldStat(records, f) /\ With(records, f) # {}
  <2>1. order[k] \in S /\ stats[k] = FieldStat(records, FieldNames[order[k]])
    BY <1>8, <1>11
  <2>2. With(records, FieldNames[order[k]]) # {}
    BY <2>1 DEF S
  <2> QED
    BY <2>1, <2>2
<1>13. ASSUME NEW f \in ToSet(FieldNames), With(records, f) # {}
       PROVE  \E k \in DOMAIN stats : stats[k] = FieldStat(records, f)
  <2>1. PICK i \in DOMAIN FieldNames : f = FieldNames[i]
    BY DEF ToSet
  <2>2. i \in S
    BY <1>13, <2>1 DEF S
  <2>3. PICK k \in 1..n : order[k] = i
    BY <1>8, <2>2
  <2> QED
    BY <1>11, <2>1, <2>3
<1>14. Len(stats) = n
  <2>1. stats = [k \in DOMAIN FieldOrder(records) |-> FieldStat(records, FieldOrder(records)[k])]
    BY DEF Stats
  <2> QED
    BY <1>8, <1>11, <2>1
<1> QED
  BY <1>8, <1>11, <1>12, <1>13, <1>14

\* A share is nothing only of less than the whole.
LEMMA ShareOf ==
  ASSUME NEW a \in Nat, NEW b \in Nat, b > 0
  PROVE  a \div b \in Nat /\ (a >= b => a \div b > 0)
<1>1. a \div b \in Int /\ a = b * (a \div b) + (a % b) /\ a % b \in 0 .. b - 1
  OBVIOUS
<1>2. PICK q \in Int, r \in 0 .. b - 1 : q = a \div b /\ r = a % b /\ a = b * q + r
  BY <1>1
<1>3. q >= 0
  <2> SUFFICES ASSUME q <= -1 PROVE FALSE
    OBVIOUS
  <2>1. b * q <= b * (-1)
    OBVIOUS
  <2> QED
    BY <1>2, <2>1
<1>4. a >= b => q > 0
  <2> SUFFICES ASSUME a >= b, q = 0 PROVE FALSE
    BY <1>3
  <2>1. b * q = 0
    OBVIOUS
  <2> QED
    BY <1>2, <2>1
<1> QED
  BY <1>2, <1>3, <1>4

\* How many the first m numbers are.
LEMMA SizeOfUpTo ==
  ASSUME NEW m \in Nat
  PROVE  IsFiniteSet(1..m) /\ Cardinality(1..m) = m
BY FS_Interval

\* Some places of n, and the others.
Among(W, n) ==
  /\ W \in SUBSET (1..n) /\ IsFiniteSet(W) /\ Cardinality(W) \in Nat /\ Cardinality(W) <= n
  /\ Cardinality(W) = n => W = 1..n
  /\ Cardinality((1..n) \ W) = n - Cardinality(W)

\* The records with a field, and those without.
LEMMA WithIs ==
  ASSUME NEW X, NEW records \in Seq(X), NEW n, n = Len(records), NEW f, NEW W, W = With(records, f)
  PROVE  Among(W, n)
<1>1. n \in Nat /\ DOMAIN records = 1..n
  OBVIOUS
<1>2. W \in SUBSET (1..n)
  BY <1>1 DEF With
<1>3. IsFiniteSet(1..n) /\ Cardinality(1..n) = n
  <2>1. PICK m \in Nat : m = n
    BY <1>1
  <2>2. IsFiniteSet(1..m) /\ Cardinality(1..m) = m
    BY SizeOfUpTo
  <2> QED
    BY <2>1, <2>2
<1>4. IsFiniteSet(W) /\ Cardinality(W) <= n /\ (Cardinality(W) = n => W = 1..n)
  BY <1>2, <1>3, FS_Subset
<1>5. Cardinality((1..n) \ W) = Cardinality(1..n) - Cardinality((1..n) \cap W)
  BY <1>3, FS_Difference
<1>6. (1..n) \cap W = W
  BY <1>2
<1> QED
  BY <1>1, <1>2, <1>3, <1>4, <1>5, <1>6, FS_CardinalityType DEF Among

\* What counts for a record is never less than nothing.
LEMMA RareIs ==
  ASSUME NEW X, NEW records \in Seq(X), NEW i \in DOMAIN records, NEW f,
         NEW stat, stat = FieldStat(records, f)
  PROVE  /\ RareValue(records, stat.name, i) \in Nat
         /\ NumericOutlier(records, stat.name, i) \in Nat
         /\ RarePresence(records, stat, i) \in Nat
         /\ SizeOutlier(records, i) \in Nat
<1>1. PICK n \in Nat : n = Len(records) /\ DOMAIN records = 1..n /\ n > 0
  OBVIOUS
<1>2. Scale \in Nat /\ Scale = 1000
  BY DEF Scale
<1>3. NumericOutlier(records, stat.name, i) \in Nat /\ SizeOutlier(records, i) \in Nat
  BY <1>2 DEF NumericOutlier, SizeOutlier
<1>4. stat.name = f /\ stat.presentIn = Cardinality(With(records, f))
  BY DEF FieldStat
<1>5. \A q \in Nat : q <= n => (Scale * (n - q)) \div n \in Nat
  <2> TAKE q \in Nat
  <2> HAVE q <= n
  <2>1. PICK d \in Nat : d = n - q
    OBVIOUS
  <2>2. 1000 * d \in Nat
    BY <2>1
  <2>3. (1000 * d) \div n \in Nat
    BY <1>1, <2>2, ShareOf
  <2> QED
    BY <1>2, <2>1, <2>3
<1>6. RareValue(records, f, i) \in Nat
  <2>1. PICK shared : shared = Sharing(records, f, records[i][f])
    OBVIOUS
  <2>2. shared \in Nat /\ shared <= n
    <3>1. PICK W, U : W = With(records, f) /\ U = {x \in W : records[x][f] = records[i][f]}
      OBVIOUS
    <3>2. IsFiniteSet(W) /\ Cardinality(W) \in Nat /\ Cardinality(W) <= n
      BY <1>1, <3>1, WithIs DEF Among
    <3>3. IsFiniteSet(U) /\ Cardinality(U) <= Cardinality(W) /\ Cardinality(U) \in Nat
      BY <3>1, <3>2, FS_Subset, FS_CardinalityType
    <3>4. shared = Cardinality(U)
      BY <2>1, <3>1 DEF Sharing
    <3> QED
      BY <1>1, <3>2, <3>3, <3>4
  <2>3. (Scale * (n - shared)) \div n \in Nat
    BY <1>5, <2>2
  <2> QED
    BY <1>1, <2>1, <2>3 DEF RareValue
<1>7. RarePresence(records, stat, i) \in Nat
  <2>1. PICK present \in Nat : present = Cardinality(With(records, f)) /\ present <= n
    <3>1. Among(With(records, f), n)
      BY <1>1, WithIs
    <3> QED
      BY <3>1 DEF Among
  <2>2. PICK weight \in Nat : weight = (Scale * (n - present)) \div n
    BY <1>5, <2>1
  <2>3. 2 * weight \in Nat
    OBVIOUS
  <2> QED
    BY <1>1, <1>4, <2>1, <2>2, <2>3 DEF RarePresence
<1> QED
  BY <1>3, <1>4, <1>6, <1>7

OfField(records, stat, i) ==
  (IF stat.kind \in {"low_cardinality", "varied"}
   THEN RareValue(records, stat.name, i) + NumericOutlier(records, stat.name, i)
   ELSE 0)
  + (IF stat.presentIn < Len(records) THEN RarePresence(records, stat, i) ELSE 0)

\* What a field counts for, and that an error field others lack counts.
LEMMA OfFieldIs ==
  ASSUME NEW X, NEW records \in Seq(X), NEW i \in DOMAIN records, NEW f,
         NEW stat, stat = FieldStat(records, f)
  PROVE  /\ OfField(records, stat, i) \in Nat
         /\ (/\ f \in Names(records[i]) \cap ErrorNames /\ PreserveErrorFields
             /\ Len(records) <= Scale * Cardinality(DOMAIN records \ With(records, f)))
              => OfField(records, stat, i) > 0
<1>1. PICK n \in Nat : n = Len(records) /\ DOMAIN records = 1..n /\ n > 0
  OBVIOUS
<1>2. PICK a \in Nat : a = IF stat.kind \in {"low_cardinality", "varied"}
                           THEN RareValue(records, stat.name, i) + NumericOutlier(records, stat.name, i) ELSE 0
  BY RareIs
<1>3. PICK p \in Nat : p = RarePresence(records, stat, i)
  BY RareIs
<1>4. OfField(records, stat, i) = a + (IF stat.presentIn < n THEN p ELSE 0)
  BY <1>1, <1>2, <1>3 DEF OfField
<1>5. ASSUME /\ f \in Names(records[i]) \cap ErrorNames /\ PreserveErrorFields
             /\ Len(records) <= Scale * Cardinality(DOMAIN records \ With(records, f))
      PROVE  stat.presentIn < n /\ p > 0
  <2>1. PICK present \in Nat : /\ present = Cardinality(With(records, f)) /\ present <= n
                               /\ Cardinality(DOMAIN records \ With(records, f)) = n - present
    <3>1. PICK W : W = With(records, f)
      OBVIOUS
    <3>2. /\ Cardinality(W) \in Nat /\ Cardinality(W) <= n
          /\ Cardinality((1..n) \ W) = n - Cardinality(W)
      <4>1. Among(W, n)
        BY <1>1, <3>1, WithIs
      <4> QED
        BY <4>1 DEF Among
    <3> QED
      BY <1>1, <3>1, <3>2
  <2>2. PICK d \in Nat : d = n - present
    BY <2>1
  <2>3. stat.name = f /\ stat.presentIn = present
    BY <2>1 DEF FieldStat
  <2>4. n <= 1000 * d
    BY <1>1, <1>5, <2>1, <2>2 DEF Scale
  <2>5. d > 0
    BY <1>1, <2>4
  <2>6. (1000 * d) \div n \in Nat /\ (1000 * d) \div n > 0
    <3>1. PICK e \in Nat : e = 1000 * d /\ e >= n
      BY <2>4
    <3>2. e \div n \in Nat /\ e \div n > 0
      BY <1>1, <3>1, ShareOf
    <3> QED
      BY <3>1, <3>2
  <2>7. p = 2 * ((1000 * d) \div n)
    <3>1. ~(stat.name \notin Names(records[i])) /\ (PreserveErrorFields /\ stat.name \in ErrorNames)
      BY <1>5, <2>3
    <3> QED
      BY <1>1, <1>3, <2>2, <2>3, <3>1 DEF RarePresence, Scale
  <2> QED
    BY <2>2, <2>3, <2>5, <2>6, <2>7
<1>6. a + (IF stat.presentIn < n THEN p ELSE 0) \in Nat
  BY <1>2, <1>3
<1>7. stat.presentIn < n /\ p > 0 => a + (IF stat.presentIn < n THEN p ELSE 0) > 0
  BY <1>2, <1>3
<1> QED
  BY <1>4, <1>5, <1>6, <1>7

\* A record with an error field that others lack is an outlier.
LEMMA ErrorStandsOut ==
  ASSUME NEW X, NEW records \in Seq(X), NEW i \in DOMAIN records,
         NEW f \in ToSet(FieldNames), f \in Names(records[i]) \cap ErrorNames, PreserveErrorFields,
         Len(records) <= Scale * Cardinality(DOMAIN records \ With(records, f))
  PROVE  i \in Outliers(records, Stats(records))
<1>1. PICK stats : stats = Stats(records)
  OBVIOUS
<1>2. PICK n \in Nat : DOMAIN stats = 1..n /\ Len(stats) = n
  BY <1>1, StatsAre
<1>3. \A k \in 1..n : \E g : stats[k] = FieldStat(records, g)
  BY <1>1, <1>2, StatsAre
<1>4. PICK k \in 1..n : stats[k] = FieldStat(records, f)
  <2>1. i \in With(records, f)
    BY DEF With
  <2>2. With(records, f) # {}
    BY <2>1
  <2>3. \E x \in DOMAIN stats : stats[x] = FieldStat(records, f)
    BY <1>1, <2>2, StatsAre
  <2> QED
    BY <1>2, <2>3
<1>5. PICK w : w = [x \in 1..n |-> OfField(records, stats[x], i)]
  OBVIOUS
<1>6. \A x \in 1..n : OfField(records, stats[x], i) \in Nat
  BY <1>3, OfFieldIs
<1>7. w \in Seq(Nat) /\ Len(w) = n
  BY <1>5, <1>6
<1>8. w[k] # 0
  <2>1. OfField(records, stats[k], i) \in Nat /\ OfField(records, stats[k], i) > 0
    BY <1>4, OfFieldIs
  <2>2. w[k] = OfField(records, stats[k], i)
    BY <1>5
  <2> QED
    BY <2>1, <2>2
<1>9. Total(w) \in Nat /\ Total(w) # 0
  BY <1>7, <1>8, TotalIs, TotalOfZeros
<1>10. OutlierScore(records, stats, i) = Total(w) + SizeOutlier(records, i)
  BY <1>2, <1>5 DEF OutlierScore, OfField
<1>11. SizeOutlier(records, i) \in Nat
  BY RareIs
<1>12. OutlierScore(records, stats, i) > 0
  BY <1>9, <1>10, <1>11
<1> QED
  BY <1>1, <1>12 DEF Outliers

\* What is said of all records is so of each.
LEMMA SaidIsSo ==
  ASSUME NEW X, NEW records \in Seq(X), NEW said \in ToSet(FieldPlans(records, Stats(records)))
  PROVE  SaidOf(said, records)
<1>1. PICK n \in Nat : n = Len(records) /\ DOMAIN records = 1..n
  OBVIOUS
<1>2. PICK stats : stats = Stats(records)
  OBVIOUS
<1>3. PICK m \in Nat : DOMAIN stats = 1..m
  BY <1>2, StatsAre
<1> DEFINE Said(stat) == CASE stat.kind = "constant" -> TRUE
                           [] stat.kind = "low_cardinality" -> stat.presentIn = Len(records)
                           [] OTHER -> FALSE
           T == {k \in DOMAIN stats : Said(stats[k])}
<1>4. PICK a : a = Ascending(T)
  OBVIOUS
<1>5. FieldPlans(records, stats) = [j \in DOMAIN a |->
         [name |-> stats[a[j]].name, all |-> stats[a[j]].kind = "constant",
          values |-> ValuesOf(records, stats[a[j]].name)]]
  BY <1>4 DEF FieldPlans
<1>6. \A j \in DOMAIN a : a[j] \in T
  <2>1. T \in SUBSET (1..m)
    BY <1>3
  <2> HIDE DEF T
  <2>2. PICK q : q = Cardinality(T)
    OBVIOUS
  <2>3. Lists(a, T, q)
    BY <1>4, <2>1, <2>2, AscendingPositions
  <2> QED
    BY <2>3 DEF Lists
<1>7. PICK k \in T : said = [name |-> stats[k].name, all |-> stats[k].kind = "constant",
                             values |-> ValuesOf(records, stats[k].name)]
  <2>1. said \in ToSet(FieldPlans(records, stats))
    BY <1>2
  <2>2. PICK j \in DOMAIN a : said = [name |-> stats[a[j]].name, all |-> stats[a[j]].kind = "constant",
                                      values |-> ValuesOf(records, stats[a[j]].name)]
    BY <1>5, <2>1 DEF ToSet
  <2> QED
    BY <1>6, <2>2
<1>8. k \in DOMAIN stats /\ Said(stats[k])
  OBVIOUS
<1>9. PICK f : stats[k] = FieldStat(records, f) /\ With(records, f) # {}
  BY <1>2, <1>8, StatsAre
<1>10. PICK V, W : V = ValuesOf(records, f) /\ W = With(records, f)
  OBVIOUS
<1>11. /\ W \in SUBSET (1..n) /\ IsFiniteSet(W) /\ (Cardinality(W) = n => W = 1..n)
  BY <1>1, <1>10, WithIs DEF Among
<1>12. /\ stats[k].name = f /\ stats[k].presentIn = Cardinality(W)
       /\ stats[k].kind = IF Cardinality(V) = 1 /\ Cardinality(W) = n THEN "constant"
                          ELSE IF Cardinality(V) = n /\ Cardinality(W) = n THEN "unique"
                          ELSE IF Cardinality(V) <= MaxLowCardinality THEN "low_cardinality" ELSE "varied"
  BY <1>1, <1>9, <1>10 DEF FieldStat
<1>13. said.name = f /\ said.values = V /\ (said.all <=> stats[k].kind = "constant")
  BY <1>7, <1>10, <1>12
<1>14. Cardinality(W) = n
  BY <1>1, <1>8, <1>12
<1>15. ASSUME NEW i \in DOMAIN records PROVE f \in Names(records[i]) /\ records[i][f] \in V
  <2>1. i \in W
    BY <1>1, <1>11, <1>14
  <2> QED
    BY <1>10, <2>1 DEF With, ValuesOf
<1>16. ASSUME said.all, NEW i \in DOMAIN records PROVE V = {records[i][f]}
  <2>1. Cardinality(V) = 1
    BY <1>12, <1>13, <1>16
  <2>2. IsFiniteSet(V)
    <3>1. PICK value : value = [x \in W |-> records[x][f]]
      OBVIOUS
    <3>2. V = {records[x][f] : x \in W}
      BY <1>10 DEF ValuesOf
    <3>3. value \in Surjection(W, V)
      BY <3>1, <3>2 DEF Surjection
    <3> QED
      BY <1>11, <3>3, FS_Surjection
  <2>3. \E x : V = {x}
    BY <2>1, <2>2, FS_Singleton
  <2> QED
    BY <1>15, <1>16, <2>3
<1> QED
  BY <1>13, <1>15, <1>16 DEF SaidOf

(***************************************************************************)
(* A summary keeps what matters.                                           *)
(***************************************************************************)
\* The fields of the records are those they had.
LEMMA ReducedNames ==
  ASSUME NEW c, IsContent(c), NEW leaves,
         NEW d, d = Reduced(c, leaves)
  PROVE  /\ DOMAIN d.records = DOMAIN c.records
         /\ \A i \in DOMAIN d.records : Names(d.records[i]) \subseteq ToSet(FieldNames)
<1>1. DOMAIN c = {"form", "lines", "records", "terms", "leaves", "padding", "depth", "size"}
  BY DEF IsContent, Text
<1> DEFINE At(i) == {k \in leaves : c.leaves[k].at = i}
           r == [i \in DOMAIN c.records |->
                   IF At(i) = {} THEN c.records[i]
                   ELSE [c.records[i] EXCEPT ![c.leaves[CHOOSE k \in At(i) : TRUE].field] =
                           <<"text", LeafSize(c.leaves[CHOOSE k \in At(i) : TRUE])>>]]
<1>2. PICK sz : d = [c EXCEPT !.size = sz, !.padding = 0, !.records = r]
  BY <1>1 DEF Reduced
<1>3. d.records = r
  <2> HIDE DEF r
  <2> QED
    BY <1>1, <1>2
<1>4. \A i \in DOMAIN c.records : DOMAIN r[i] = DOMAIN c.records[i]
  OBVIOUS
<1>5. DOMAIN r = DOMAIN c.records
  OBVIOUS
<1> HIDE DEF r
<1> QED
  BY <1>3, <1>4, <1>5 DEF IsContent, Names

\* The failures of a log are told one by one, or as many as are allowed.
LEMMA FailuresAreTold ==
  ASSUME NEW X, NEW lines \in Seq(X), NEW parts,
         NEW s, s = SeverityLines(lines), Quotes(parts, s, Len(s))
  PROVE  FailuresTold(parts, lines)
<1>0. PICK S, told : /\ S = {i \in DOMAIN lines : HasSeverity(lines[i])}
                     /\ told = {k \in DOMAIN parts : parts[k].part = "severe"}
  OBVIOUS
<1> SUFFICES IF Cardinality(S) <= MaxVerbatimSeverity
             THEN S = {parts[k].at : k \in told} ELSE Cardinality(told) = MaxVerbatimSeverity
  BY <1>0 DEF FailuresTold
<1>1. PICK n \in Nat, most \in Nat : DOMAIN lines = 1..n /\ most = MaxVerbatimSeverity
  BY LogCaps
<1>2. PICK q, a : q = Cardinality(S) /\ a = Ascending(S)
  OBVIOUS
<1>3. S \in SUBSET (1..n)
  BY <1>0, <1>1
<1>4. Lists(a, S, q)
  BY <1>2, <1>3, AscendingPositions
<1>5. /\ q \in Nat /\ a \in Seq(S) /\ Len(a) = q /\ DOMAIN a = 1..q /\ \A k \in 1..q : a[k] \in S
      /\ \A i \in S : \E k \in 1..q : a[k] = i
  BY <1>4 DEF Lists
<1>7. s = SubSeq(a, 1, IF most < q THEN most ELSE q)
  BY <1>0, <1>1, <1>2, <1>5 DEF SeverityLines, FirstOf
<1>8. PICK m \in Nat : m = (IF most < q THEN most ELSE q) /\ m <= q
  BY <1>1, <1>5
<1>9. s = SubSeq(a, 1, m)
  BY <1>7, <1>8
<1>10. Len(s) = m /\ \A k \in 1..m : s[k] = a[k]
  BY <1>5, <1>8, <1>9
<1>11. Quotes(parts, s, m)
  BY <1>10
<1>12. PICK p \in Nat : told = p + 1 .. p + m /\ \A k \in 1..m : parts[p + k].at = s[k]
  BY <1>0, <1>11 DEF Quotes
<1>13. CASE q <= most
  <2>1. m = q
    BY <1>1, <1>5, <1>8, <1>13
  <2>2. \A k \in 1..q : p + k \in told /\ parts[p + k].at = a[k]
    BY <1>10, <1>12, <2>1
  <2>3. \A x \in told : x - p \in 1..q /\ p + (x - p) = x
    BY <1>12, <2>1
  <2>4. \A x \in told : parts[x].at = a[x - p]
    <3> TAKE x \in told
    <3>1. PICK k \in 1..q : k = x - p /\ p + k = x
      BY <2>3
    <3> QED
      BY <2>2, <3>1
  <2>5. S \subseteq {parts[x].at : x \in told}
    BY <1>5, <2>2
  <2>6. {parts[x].at : x \in told} \subseteq S
    BY <1>5, <2>3, <2>4
  <2> QED
    BY <1>1, <1>2, <1>13, <2>5, <2>6
<1>14. CASE ~(q <= most)
  <2>1. m = most
    BY <1>8, <1>14
  <2>2. Cardinality(p + 1 .. p + m) = m
    <3>1. p + 1 \in Int /\ p + m \in Int
      OBVIOUS
    <3>2. PICK x \in Int, y \in Int : x = p + 1 /\ y = p + m /\ y - x + 1 = m
      BY <3>1
    <3>3. Cardinality(x..y) = IF x > y THEN 0 ELSE y - x + 1
      BY FS_Interval
    <3>4. x > y => m = 0
      BY <3>2
    <3> QED
      BY <3>2, <3>3, <3>4
  <2> QED
    BY <1>1, <1>2, <1>12, <1>14, <2>1, <2>2
<1> QED
  BY <1>13, <1>14

(***************************************************************************)
(* What a compressor offers for a content loses nothing that matters: a    *)
(* log's failures, a diff's changes, what is outside the bodies of a       *)
(* program, the tags of prose and what matters more than what is kept, and *)
(* of records the errors others lack and what is said of all.              *)
(***************************************************************************)
THEOREM SummaryKeepsWhatMatters ==
  ASSUME NEW c, IsContent(c), NEW query, NEW leaves, NEW type, type = Detect(c), NEW r, r = ForType(type),
         type \in {"json", "log", "search", "diff", "code", "prose"},
         NEW parts, parts # <<>>,
         parts = (IF r = "smart_crusher" THEN Structural(Reduced(c, leaves), query)
                  ELSE OfferOf(r, c, query)).parts,
         NEW lines, lines = LinesSeen(c),
         NEW shown, shown = ShownIn(parts), NEW gone, gone = DOMAIN lines \ shown,
         NEW records, records = Reduced(c, leaves).records
  PROVE  /\ type = "log"   => FailuresTold(parts, lines)
         /\ type = "diff"  => ChangesShown(lines, gone)
         /\ type = "code"  => gone = BodiesOneByOne(lines, DetectLanguage(lines))
         /\ type = "prose" => TagsAndWeightKept(lines, gone, shown, query)
         /\ type = "json"  => ErrorsShown(records, shown) /\ SaidOfEach(records)
<1>1. c.lines \in Seq(Line)
  BY DEF IsContent
<1>2. CASE type = "log"
  <2>1. r = "log_compressor" /\ r # "smart_crusher"
    BY <1>2 DEF ForType
  <2>2. parts = LogOffer(c).parts
    BY <2>1 DEF OfferOf
  <2>3. lines = NonBlank(c.lines)
    BY <1>2 DEF LinesSeen
  <2>4. lines \in Seq(Line)
    BY <1>1, <2>3, NonBlankIs
  <2>5. PICK f : f = SeverityLines(lines) /\ Quotes(parts, f, Len(f))
    BY <1>1, <2>2, <2>3, LogAccounts
  <2>6. FailuresTold(parts, lines)
    BY <2>4, <2>5, FailuresAreTold
  <2> QED
    BY <1>2, <2>6
<1>3. CASE type = "search"
  BY <1>3
<1>4. CASE type = "diff"
  <2>1. lines = c.lines /\ r # "smart_crusher"
    BY <1>4 DEF LinesSeen, ForType
  <2>2. parts = DiffOffer(c).parts
    BY <1>4, <2>1 DEF OfferOf, ForType
  <2>3. shown = DiffKept(lines, Noise(lines))
    BY <1>1, <2>1, <2>2, DiffAccounts
  <2>4. \A i \in gone : i \in DOMAIN lines /\ i \notin DiffKept(lines, Noise(lines))
    BY <2>3
  <2>5. lines \in Seq(Line)
    BY <1>1, <2>1
  <2>6. ASSUME NEW i \in gone, DiffKind(lines[i]) # "context"
        PROVE  \/ OwnerOf(lines, i) \in Lockfiles
               \/ \E j \in 1..i : /\ DiffKind(lines[j]) = "hunk"
                                  /\ WhitespaceOnly(lines, j, EndOfHunk(lines, j))
    BY <2>4, <2>5, <2>6, ChangesAreShown
  <2> QED
    BY <1>4, <2>6 DEF ChangesShown
<1>5. CASE type = "code"
  <2>1. lines = c.lines /\ r # "smart_crusher"
    BY <1>5 DEF LinesSeen, ForType
  <2>2. parts = CodeOffer(c).parts
    BY <1>5, <2>1 DEF OfferOf, ForType
  <2>3. lines \in Seq(Line)
    BY <1>1, <2>1
  <2>4. PICK body : body = BodyLines(lines, DetectLanguage(lines))
    OBVIOUS
  <2>5. shown = DOMAIN lines \ body
    BY <1>1, <2>1, <2>2, <2>4, CodeAccounts
  <2>6. body = BodiesOneByOne(lines, DetectLanguage(lines)) /\ body \subseteq DOMAIN lines
    BY <2>3, <2>4, BodiesAre
  <2>7. gone = body
    BY <2>5, <2>6
  <2> QED
    BY <1>5, <2>6, <2>7
<1>6. CASE type = "prose"
  <2>1. lines = c.lines /\ r # "smart_crusher"
    BY <1>6 DEF LinesSeen, ForType
  <2>2. parts = TextOffer(c, query).parts
    BY <1>6, <2>1 DEF OfferOf, ForType
  <2>3. lines \in Seq(Line)
    BY <1>1, <2>1
  <2>4. PICK n \in Nat : n = Len(lines) /\ DOMAIN lines = 1..n
    BY <2>3
  <2>5. PICK required : required = RequiredLines(lines, query)
    OBVIOUS
  <2>6. PICK budget \in Nat : budget = LineBudget
    BY TextCaps
  <2>7. shown = KeepWithRequired(lines, budget, required) /\ n > budget
    BY <1>1, <2>1, <2>2, <2>4, <2>5, <2>6, ProseAccounts
  <2>8. gone = (1..n) \ shown
    BY <2>4
  <2>9. ASSUME NEW i \in gone PROVE lines[i].tags = <<>>
    <3>1. i \in DOMAIN lines /\ i \notin shown
      BY <2>4, <2>8
    <3>2. required \cap (1..n) \subseteq shown
      BY <2>4, <2>7, RequiredAreKept
    <3>3. i \notin required
      BY <2>4, <3>1, <3>2
    <3>4. i \notin ProtectedLines(lines)
      BY <2>5, <3>3 DEF RequiredLines
    <3> QED
      BY <2>3, <3>1, <3>4, TagsAreProtected
  <2>10. ASSUME NEW i \in gone, NEW j \in shown \ required
         PROVE  Importance(lines[i]) <= Importance(lines[j])
    BY <2>4, <2>7, <2>8, KeptMatterMore
  <2> QED
    BY <1>6, <2>5, <2>9, <2>10 DEF TagsAndWeightKept
<1>7. CASE type = "json"
  <2>1. r = "smart_crusher"
    BY <1>7 DEF ForType
  <2>2. PICK d : d = Reduced(c, leaves)
    OBVIOUS
  <2>3. PICK X : d.records \in Seq(X)
    BY <2>2, ReducedIs
  <2>4. DOMAIN d.terms = DOMAIN d.records /\ records = d.records
    BY <2>2, ReducedIs
  <2>5. parts = Structural(d, query).parts
    BY <2>1, <2>2
  <2>6. Outliers(records, Stats(records)) \subseteq shown
    BY <2>3, <2>4, <2>5, JsonAccounts
  <2>7. \A i \in DOMAIN records : Names(records[i]) \subseteq ToSet(FieldNames)
    BY <2>2, <2>4, ReducedNames
  <2>8. ASSUME NEW i \in DOMAIN records, NEW f \in Names(records[i]) \cap ErrorNames, PreserveErrorFields,
               Len(records) <= Scale * Cardinality(DOMAIN records \ With(records, f))
        PROVE  i \in shown
    <3>1. f \in ToSet(FieldNames)
      BY <2>7
    <3>2. i \in Outliers(records, Stats(records))
      BY <2>3, <2>4, <2>8, <3>1, ErrorStandsOut
    <3> QED
      BY <2>6, <3>2
  <2>9. ASSUME NEW said \in ToSet(FieldPlans(records, Stats(records))) PROVE SaidOf(said, records)
    BY <2>3, <2>4, SaidIsSo
  <2> QED
    BY <1>7, <2>8, <2>9 DEF ErrorsShown, SaidOfEach
<1> QED
  BY <1>2, <1>3, <1>4, <1>5, <1>6, <1>7

\* And so does a summary from a compressor.
LEMMA FromCompressorKeeps == FromCompressor => NothingThatMatters
<1> SUFFICES ASSUME FromCompressor, shows.form = "summary" PROVE NothingThatMatters
  BY DEF NothingThatMatters
<1>1. /\ shows = Summary(offer.parts) /\ Chosen /\ routing \notin {"none", "reformatter"}
      /\ routing = TransformForBlock(case.kind, c0, case.mode, case.worth)
  BY DEF FromCompressor
<1>2. PICK parts : parts = shows.parts
  OBVIOUS
<1>3. parts = offer.parts /\ parts # <<>>
  BY <1>1, <1>2 DEF Summary, Chosen
<1>4. PICK c : c = c0
  OBVIOUS
<1>5. IsContent(c)
  BY <1>4, CasesAreContents DEF FromCompressor, c0
<1>6. PICK type : type = Detect(c)
  OBVIOUS
<1>7. type \in {"json", "log", "search", "diff", "code", "prose"} /\ routing = ForType(type)
  BY <1>1, <1>4, <1>6, CompressorIs
<1>8. parts = (IF routing = "smart_crusher" THEN Structural(Reduced(c, changed), case.query)
               ELSE OfferOf(routing, c, case.query)).parts
  BY <1>1, <1>3, <1>4 DEF Chosen
<1>9. PICK lines, shown, gone : lines = LinesSeen(c) /\ shown = ShownIn(parts) /\ gone = DOMAIN lines \ shown
  OBVIOUS
<1>10. PICK records, query : records = Reduced(c, changed).records /\ query = case.query
  OBVIOUS
<1>11. /\ type = "log"   => FailuresTold(parts, lines)
       /\ type = "diff"  => ChangesShown(lines, gone)
       /\ type = "code"  => gone = BodiesOneByOne(lines, DetectLanguage(lines))
       /\ type = "prose" => TagsAndWeightKept(lines, gone, shown, query)
       /\ type = "json"  => ErrorsShown(records, shown) /\ SaidOfEach(records)
  <2>1. parts = (IF routing = "smart_crusher" THEN Structural(Reduced(c, changed), query)
                 ELSE OfferOf(routing, c, query)).parts
    BY <1>8, <1>10
  <2> QED
    BY <1>3, <1>5, <1>6, <1>7, <1>9, <1>10, <2>1, SummaryKeepsWhatMatters
<1> QED
  BY <1>2, <1>4, <1>6, <1>9, <1>10, <1>11 DEF NothingThatMatters

(***************************************************************************)
(* No summary, of a content of any length, loses what matters.             *)
(***************************************************************************)
THEOREM NothingThatMattersHolds == PipelineSpec => []NothingThatMatters
<1>1. PipelineSpec => []FromCompressor
  BY FromCompressorInit, FromCompressorNext, BlockInvariant, PTL DEF PipelineSpec
<1> QED
  BY <1>1, FromCompressorKeeps, PTL

-----------------------------------------------------------------------------
(***************************************************************************)
(* The store in memory                                                     *)
(***************************************************************************)
USE TtlAssumption, ClockAssumption, NoHashAssumption

(***************************************************************************)
(* Type correctness, in the form the other proofs use: one step of any     *)
(* thread keeps the type invariant.                                        *)
(***************************************************************************)
LEMMA InitTypeOK == Init => TypeOK
  BY DEF Init, TypeOK, Call, Idle, Operations, Lookup, Answers

(***************************************************************************)
(* What a put promises when it is acknowledged: no less than was promised  *)
(* before, and no more than any put of that original in flight writes.     *)
(***************************************************************************)
LEMMA OldestInFlight ==
  ASSUME TypeOK, NEW t \in Threads, call[t].op = "put"
  PROVE  /\ Oldest(call[t].hash) \in Expiries(call[t].hash)
         /\ \A u \in Threads: call[u].op = "put" /\ call[u].hash = call[t].hash
                              => Oldest(call[t].hash) <= call[u].at
  <1> DEFINE E == Expiries(call[t].hash)
  <1>1. call[t].at \in E /\ \A u \in InFlight("put", call[t].hash): call[u].at \in E
    BY DEF Expiries, InFlight
  <1>2. E \in SUBSET Nat /\ E # {}
    <2>1. \A u \in Threads: call[u].at \in Nat
      BY DEF TypeOK, Call
    <2>2. QED
      BY <1>1, <2>1 DEF Expiries, InFlight
  <1> HIDE DEF E
  <1>3. \E at \in E: \A other \in E: at <= other
    BY <1>2, SmallestExists
  <1>4. Oldest(call[t].hash) \in E /\ \A other \in E: Oldest(call[t].hash) <= other
    BY <1>3 DEF Oldest, E
  <1>5. QED
    BY <1>1, <1>4 DEF E, InFlight

LEMMA PromisedIs ==
  ASSUME TypeOK, NEW t \in Threads, call[t].op = "put"
  PROVE  /\ Promised(call[t].hash) \in Nat /\ Promised(call[t].hash) >= held[call[t].hash]
         /\ PutsInOrder => /\ Promised(call[t].hash) > 0
                           /\ Promised(call[t].hash) <= clock + Ttl
                           /\ \A u \in Threads: call[u].op = "put" /\ call[u].hash = call[t].hash
                                                => Promised(call[t].hash) <= call[u].at
  <1> DEFINE h == call[t].hash
  <1>1. PICK u \in Threads: call[u].op = "put" /\ call[u].hash = h /\ Oldest(h) = call[u].at
    BY OldestInFlight DEF Expiries, InFlight
  <1>2. Oldest(h) \in Nat /\ held[h] \in Nat /\ clock \in Nat
    BY <1>1 DEF TypeOK, Call
  <1>3. ASSUME PutsInOrder
        PROVE  /\ held[h] <= Oldest(h) /\ Oldest(h) > 0 /\ Oldest(h) <= clock + Ttl
    BY <1>1, <1>2, <1>3 DEF PutsInOrder
  <1>4. QED
    BY <1>2, <1>3, OldestInFlight DEF Promised

\* No step of any thread breaks the types.
LEMMA NextTypeOK == TypeOK /\ [Next]_vars => TypeOK'
  <1> SUFFICES ASSUME TypeOK, [Next]_vars
               PROVE  TypeOK'
    OBVIOUS
  <1> USE DEF TypeOK, Call, Idle, Operations, Lookup, Answers, Begin
  <1>1. CASE Tick
    BY <1>1 DEF Tick
  <1>2. ASSUME NEW t \in Threads, NEW h \in Hashes, PutBegin(t, h)
        PROVE  TypeOK'
    BY <1>2 DEF PutBegin
  <1>3. ASSUME NEW t \in Threads, NEW h \in Hashes, GetBegin(t, h)
        PROVE  TypeOK'
    BY <1>3 DEF GetBegin
  <1>4. ASSUME NEW t \in Threads, PutInsert(t)
        PROVE  TypeOK'
    <2>1. Promised(call[t].hash) \in Nat
      BY <1>4, PromisedIs DEF PutInsert
    <2>2. QED
      BY <1>4, <2>1 DEF PutInsert
  <1>5. ASSUME NEW t \in Threads, GetLookup(t)
        PROVE  TypeOK'
    <2>1. PICK answer \in {"found", "miss"}:
             asked' = [asked EXCEPT ![t] = [@ EXCEPT !.answer = answer, !.at = clock]]
      BY <1>5 DEF GetLookup
    <2>2. asked' \in [Threads -> Lookup]
      <3>1. asked[t] \in Lookup /\ clock \in Nat /\ answer \in Answers
        OBVIOUS
      <3>2. [asked[t] EXCEPT !.answer = answer, !.at = clock] \in Lookup
        <4> HIDE DEF TypeOK
        <4>1. QED
          BY <3>1
      <3>3. QED
        BY <2>1, <3>2
    <2>3. QED
      BY <1>5, <2>2 DEF GetLookup
  <1>6. ASSUME NEW t \in Threads, PurgeBegin(t)
        PROVE  TypeOK'
    BY <1>6 DEF PurgeBegin
  <1>7. ASSUME NEW t \in Threads, PurgeRetain(t)
        PROVE  TypeOK'
    BY <1>7 DEF PurgeRetain
  <1>8. CASE UNCHANGED vars
    BY <1>8 DEF vars
  <1>9. QED
    BY <1>1, <1>2, <1>3, <1>4, <1>5, <1>6, <1>7, <1>8 DEF Next

\* Every reachable state of the store has the shape TypeOK gives it.
THEOREM TypeCorrect == Spec => []TypeOK
  BY InitTypeOK, NextTypeOK, PTL DEF Spec

-----------------------------------------------------------------------------
\* A thread that reads the clock before it takes the lock is never ahead of it.
LEMMA NextReadings == TypeOK /\ ReadingsNotAhead /\ [Next]_vars => ReadingsNotAhead'
  <1> SUFFICES ASSUME TypeOK, ReadingsNotAhead, [Next]_vars
               PROVE  ReadingsNotAhead'
    OBVIOUS
  <1> USE DEF TypeOK, ReadingsNotAhead, Call, Idle, Begin
  <1>1. CASE Tick
    BY <1>1 DEF Tick
  <1>2. ASSUME NEW t \in Threads, NEW h \in Hashes, PutBegin(t, h)
        PROVE  ReadingsNotAhead'
    BY <1>2 DEF PutBegin
  <1>3. ASSUME NEW t \in Threads, NEW h \in Hashes, GetBegin(t, h)
        PROVE  ReadingsNotAhead'
    BY <1>3 DEF GetBegin
  <1>4. ASSUME NEW t \in Threads, PutInsert(t) \/ GetLookup(t) \/ PurgeRetain(t)
        PROVE  ReadingsNotAhead'
    BY <1>4 DEF PutInsert, GetLookup, PurgeRetain
  <1>5. ASSUME NEW t \in Threads, PurgeBegin(t)
        PROVE  ReadingsNotAhead'
    BY <1>5 DEF PurgeBegin
  <1>6. CASE UNCHANGED vars
    BY <1>6 DEF vars
  <1>7. QED
    BY <1>1, <1>2, <1>3, <1>4, <1>5, <1>6 DEF Next

\* So no reachable state has a reader or a purge ahead of the clock.
LEMMA Readings == Spec => []ReadingsNotAhead
  <1>1. Init => ReadingsNotAhead
    BY DEF Init, ReadingsNotAhead, Idle
  <1>2. QED
    BY <1>1, NextReadings, TypeCorrect, PTL DEF Spec

(***************************************************************************)
(* A purge removes nothing that is still live, however old the reading of  *)
(* the clock it works from, and no other operation removes anything.       *)
(***************************************************************************)
THEOREM PurgeIsSafe == Spec => OnlyExpiredLeave
  <1> DEFINE Safe == \A h \in DOMAIN entries: h \notin DOMAIN entries' => entries[h] <= clock
  <1>1. TypeOK /\ ReadingsNotAhead /\ [Next]_vars => [Safe]_vars
    <2> SUFFICES ASSUME TypeOK, ReadingsNotAhead, Next
                 PROVE  Safe
      OBVIOUS
    <2>1. CASE entries' = entries
      BY <2>1
    <2>2. ASSUME NEW t \in Threads, PutInsert(t)
          PROVE  Safe
      BY <2>2 DEF PutInsert
    <2>3. ASSUME NEW t \in Threads, PurgeRetain(t)
          PROVE  Safe
      <3>1. call[t].op = "purge" /\ call[t].at <= clock /\ call[t].at \in Nat
        BY <2>3 DEF PurgeRetain, ReadingsNotAhead, TypeOK, Call
      <3>2. ASSUME NEW h \in DOMAIN entries, h \notin DOMAIN entries'
            PROVE  entries[h] <= call[t].at
        BY <2>3, <3>1, <3>2 DEF PurgeRetain, Live, TypeOK
      <3>3. QED
        BY <3>1, <3>2 DEF TypeOK
    <2>4. QED
      BY <2>1, <2>2, <2>3
         DEF Next, Tick, PutBegin, GetBegin, GetLookup, PurgeBegin
  <1>2. QED
    BY <1>1, TypeCorrect, Readings, PTL DEF Spec, OnlyExpiredLeave

-----------------------------------------------------------------------------
(***************************************************************************)
(* Retention.  The argument: what is promised is the expiry of the oldest  *)
(* put still in flight, so that no insertion to come writes an earlier one *)
(* (PutsInOrder), and a purge removes only what its reading of the clock   *)
(* has already passed (ReadingsNotAhead).  So what is still owed is in the *)
(* map, unexpired.                                                         *)
(***************************************************************************)
LEMMA NextPutsInOrder ==
  ASSUME TypeOK, PutsInOrder, [Next]_vars
  PROVE  PutsInOrder'
  <1> USE DEF TypeOK, PutsInOrder, Call, Idle, Begin
  <1>1. CASE Tick
    BY <1>1 DEF Tick
  <1>2. ASSUME NEW t \in Threads, NEW h \in Hashes, PutBegin(t, h)
        PROVE  PutsInOrder'
    BY <1>2 DEF PutBegin
  <1>3. ASSUME NEW t \in Threads, NEW h \in Hashes, GetBegin(t, h)
        PROVE  PutsInOrder'
    BY <1>3 DEF GetBegin
  <1>4. ASSUME NEW t \in Threads, PutInsert(t)
        PROVE  PutsInOrder'
    <2>1. /\ Promised(call[t].hash) <= clock + Ttl
          /\ \A u \in Threads: call[u].op = "put" /\ call[u].hash = call[t].hash
                               => Promised(call[t].hash) <= call[u].at
      BY <1>4, PromisedIs DEF PutInsert
    <2>2. QED
      BY <1>4, <2>1 DEF PutInsert
  <1>5. ASSUME NEW t \in Threads, GetLookup(t) \/ PurgeBegin(t) \/ PurgeRetain(t)
        PROVE  PutsInOrder'
    <2>1. CASE GetLookup(t)
      BY <2>1 DEF GetLookup
    <2>2. CASE PurgeBegin(t)
      BY <2>2 DEF PurgeBegin
    <2>3. CASE PurgeRetain(t)
      BY <2>3 DEF PurgeRetain
    <2>4. QED
      BY <1>5, <2>1, <2>2, <2>3
  <1>6. CASE UNCHANGED vars
    BY <1>6 DEF vars
  <1>7. QED
    BY <1>1, <1>2, <1>3, <1>4, <1>5, <1>6 DEF Next

\* An original stays in the map until what was promised of it has passed.
LEMMA NextHeld ==
  ASSUME TypeOK, PutsInOrder, ReadingsNotAhead, HeldUntilPromised, [Next]_vars
  PROVE  HeldUntilPromised'
  <1> USE DEF TypeOK, HeldUntilPromised, Call
  <1>1. ASSUME NEW t \in Threads, PutInsert(t)
        PROVE  HeldUntilPromised'
    <2>1. Promised(call[t].hash) <= call[t].at /\ Promised(call[t].hash) \in Nat
      BY <1>1, PromisedIs DEF PutInsert
    <2>2. \A h \in Hashes:
             held'[h] = IF h = call[t].hash THEN Promised(call[t].hash) ELSE held[h]
      BY <1>1 DEF PutInsert
    <2>3. \A h \in Hashes: h # call[t].hash => 
             (h \in DOMAIN entries => h \in DOMAIN entries' /\ entries'[h] = entries[h])
      BY <1>1 DEF PutInsert
    <2>4. call[t].hash \in DOMAIN entries' /\ entries'[call[t].hash] = call[t].at
      BY <1>1 DEF PutInsert
    <2>5. QED
      BY <1>1, <2>1, <2>2, <2>3, <2>4 DEF PutInsert
  <1>2. ASSUME NEW t \in Threads, PurgeRetain(t)
        PROVE  HeldUntilPromised'
    <2>1. call[t].at <= clock /\ call[t].at \in Nat
      BY <1>2 DEF PurgeRetain, ReadingsNotAhead
    <2>2. \A h \in DOMAIN entries:
             entries[h] > clock => h \in DOMAIN entries' /\ entries'[h] = entries[h]
      BY <1>2, <2>1 DEF PurgeRetain, Live
    <2>3. UNCHANGED <<clock, held>>
      BY <1>2 DEF PurgeRetain
    <2>4. QED
      BY <2>2, <2>3
  <1>3. CASE Tick
    BY <1>3 DEF Tick
  <1>4. CASE UNCHANGED <<clock, entries, held>>
    BY <1>4
  <1>5. QED
    BY <1>1, <1>2, <1>3, <1>4
       DEF Next, vars, PutBegin, GetBegin, GetLookup, PurgeBegin

\* Nothing is stored that no put wrote.
LEMMA NextOnlyPromised ==
  ASSUME TypeOK, PutsInOrder, OnlyPromisedStored, [Next]_vars
  PROVE  OnlyPromisedStored'
  <1> USE DEF TypeOK, OnlyPromisedStored, Call
  <1>1. ASSUME NEW t \in Threads, PutInsert(t)
        PROVE  OnlyPromisedStored'
    <2>1. Promised(call[t].hash) > 0
      BY <1>1, PromisedIs DEF PutInsert
    <2>2. QED
      BY <1>1, <2>1 DEF PutInsert
  <1>2. ASSUME NEW t \in Threads, PurgeRetain(t)
        PROVE  OnlyPromisedStored'
    BY <1>2 DEF PurgeRetain
  <1>3. CASE UNCHANGED <<entries, held>>
    BY <1>3
  <1>4. QED
    BY <1>1, <1>2, <1>3
       DEF Next, vars, Tick, PutBegin, GetBegin, GetLookup, PurgeBegin

\* A thread is looking up what it asked for.
LEMMA NextLookups ==
  ASSUME TypeOK, LookupsInProgress, [Next]_vars
  PROVE  LookupsInProgress'
  <1> USE DEF TypeOK, LookupsInProgress, Call, Idle, Lookup, Begin
  <1>1. ASSUME NEW t \in Threads, NEW h \in Hashes, GetBegin(t, h)
        PROVE  LookupsInProgress'
    BY <1>1 DEF GetBegin
  <1>2. ASSUME NEW t \in Threads, GetLookup(t)
        PROVE  LookupsInProgress'
    <2>1. asked'[t].answer # "pending" /\ call'[t].op = "idle"
      BY <1>2 DEF GetLookup
    <2>2. \A u \in Threads \ {t}: asked'[u] = asked[u] /\ call'[u] = call[u]
      BY <1>2 DEF GetLookup
    <2>3. QED
      BY <1>2, <2>1, <2>2 DEF GetLookup
  <1>3. ASSUME NEW t \in Threads, PutInsert(t)
        PROVE  LookupsInProgress'
    <2>0. Promised(call[t].hash) \in Nat /\ Promised(call[t].hash) >= held[call[t].hash]
      BY <1>3, PromisedIs DEF PutInsert
    <2>1. \A h \in Hashes: held[h] <= held'[h]
      BY <1>3, <2>0 DEF PutInsert
    <2>2. UNCHANGED asked /\ held' \in [Hashes -> Nat]
      BY <1>3, <2>0 DEF PutInsert
    <2>3. \A u \in Threads: call'[u].op = "get" => call'[u] = call[u]
      BY <1>3 DEF PutInsert
    <2>4. \A u \in Threads: call'[u].op = "get" <=> call[u].op = "get"
      BY <1>3 DEF PutInsert
    <2>5. ASSUME NEW u \in Threads, call'[u].op = "get"
          PROVE  asked'[u].hash = call'[u].hash /\ asked'[u].owed <= held'[asked'[u].hash]
      BY <2>1, <2>2, <2>3, <2>4, <2>5
    <2>6. QED
      BY <2>2, <2>4, <2>5
  <1>4. ASSUME NEW t \in Threads, NEW h \in Hashes, PutBegin(t, h)
        PROVE  LookupsInProgress'
    BY <1>4 DEF PutBegin
  <1>5. ASSUME NEW t \in Threads, PurgeBegin(t) \/ PurgeRetain(t)
        PROVE  LookupsInProgress'
    BY <1>5 DEF PurgeBegin, PurgeRetain
  <1>6. CASE UNCHANGED <<call, held, asked>>
    BY <1>6
  <1>7. QED
    BY <1>1, <1>2, <1>3, <1>4, <1>5, <1>6 DEF Next, vars, Tick

(***************************************************************************)
(* A lookup that misses had nothing owed to it any more: otherwise the     *)
(* entry would still be in the map with an expiry beyond the clock, and so *)
(* beyond the older reading of it the lookup compares with.                *)
(***************************************************************************)
LEMMA MissIsHonest ==
  ASSUME TypeOK, HeldUntilPromised, ReadingsNotAhead, LookupsInProgress,
         NEW t \in Threads, call[t].op = "get",
         ~Live(call[t].hash, call[t].at)
  PROVE  asked[t].owed <= clock
  <1>1. SUFFICES ASSUME asked[t].owed > clock
                 PROVE  FALSE
    BY DEF TypeOK, Lookup
  <1>2. call[t].hash \in Hashes /\ call[t].at \in Nat /\ call[t].at <= clock
    BY DEF TypeOK, Call, ReadingsNotAhead
  <1>3. held[call[t].hash] \in Nat /\ held[call[t].hash] > clock
    BY <1>1, <1>2 DEF LookupsInProgress, TypeOK, Lookup
  <1>4. call[t].hash \in DOMAIN entries /\ entries[call[t].hash] > clock
    BY <1>2, <1>3 DEF HeldUntilPromised, TypeOK
  <1>5. QED
    BY <1>2, <1>4 DEF Live, TypeOK

\* A miss means that the promise had passed.
LEMMA NextPromiseKept ==
  ASSUME TypeOK, HeldUntilPromised, ReadingsNotAhead, LookupsInProgress,
         PromiseKept, [Next]_vars
  PROVE  PromiseKept'
  <1> USE DEF TypeOK, PromiseKept, Lookup
  <1>1. ASSUME NEW t \in Threads, NEW h \in Hashes, GetBegin(t, h)
        PROVE  PromiseKept'
    BY <1>1 DEF GetBegin
  <1>2. ASSUME NEW t \in Threads, GetLookup(t)
        PROVE  PromiseKept'
    <2>1. asked'[t].answer = "miss" => ~Live(call[t].hash, call[t].at)
      BY <1>2 DEF GetLookup
    <2>2. asked'[t].owed = asked[t].owed /\ asked'[t].at = clock
      BY <1>2 DEF GetLookup
    <2>3. asked'[t].answer = "miss" => asked'[t].owed <= asked'[t].at
      BY <1>2, <2>1, <2>2, MissIsHonest DEF GetLookup
    <2>4. \A u \in Threads \ {t}: asked'[u] = asked[u]
      BY <1>2 DEF GetLookup
    <2>5. QED
      BY <2>3, <2>4
  <1>3. CASE UNCHANGED asked
    BY <1>3
  <1>4. QED
    BY <1>1, <1>2, <1>3
       DEF Next, vars, Tick, PutBegin, PutInsert, PurgeBegin, PurgeRetain

(***************************************************************************)
(* The inductive invariant holds in every reachable state, whatever puts,  *)
(* lookups and purges overlap.                                             *)
(***************************************************************************)
THEOREM Retention == Spec => []IInv
  <1>1. Init => IInv
    <2>1. Init => PutsInOrder /\ HeldUntilPromised /\ OnlyPromisedStored
      BY DEF Init, PutsInOrder, HeldUntilPromised, OnlyPromisedStored, Idle
    <2>2. Init => ReadingsNotAhead /\ LookupsInProgress /\ PromiseKept
      BY DEF Init, ReadingsNotAhead, LookupsInProgress, PromiseKept, Idle
    <2>3. QED
      BY <2>1, <2>2, InitTypeOK DEF IInv
  <1>2. ReadingsNotAhead /\ TypeOK /\ [Next]_vars => ReadingsNotAhead'
    BY NextReadings
  <1>3. IInv /\ [Next]_vars => IInv'
    BY <1>2, NextTypeOK, NextPutsInOrder, NextHeld, NextOnlyPromised,
       NextLookups, NextPromiseKept DEF IInv
  <1>4. QED
    BY <1>1, <1>3, PTL DEF Spec

(***************************************************************************)
(* Until the time an acknowledged put promised, its original is in the map *)
(* and unexpired, for every number of threads and every interleaving; puts *)
(* of one original that overlap promise the expiry of the oldest of them.  *)
(***************************************************************************)
THEOREM AcknowledgedIsHeld == Spec => []HeldUntilPromised
  <1>1. IInv => HeldUntilPromised
    BY DEF IInv
  <1>2. QED
    BY <1>1, Retention, PTL

\* And no lookup misses while what it was owed at its start is still owed at its end.
THEOREM MissesAreHonest == Spec => []PromiseKept
  <1>1. IInv => PromiseKept
    BY DEF IInv
  <1>2. QED
    BY <1>1, Retention, PTL

-----------------------------------------------------------------------------
(***************************************************************************)
(* Refinement of CcrPromise.  Offered only grows by the original a put     *)
(* begins with; an insertion leaves it alone, since the put in flight      *)
(* becomes a promise.                                                      *)
(***************************************************************************)
LEMMA OfferedByPutBegin ==
  ASSUME TypeOK, NEW t \in Threads, NEW h \in Hashes, PutBegin(t, h)
  PROVE  Offered' = Offered \cup {h}
  <1>1. \A u \in Threads: u # t => call'[u] = call[u]
    BY DEF PutBegin, Begin, TypeOK
  <1>2. call[t].op = "idle" /\ call'[t].op = "put" /\ call'[t].hash = h
    BY DEF PutBegin, Begin, TypeOK, Idle
  <1>3. \A k \in Hashes: (InFlight("put", k) # {})' <=> InFlight("put", k) # {} \/ k = h
    BY <1>1, <1>2 DEF InFlight
  <1>4. UNCHANGED held
    BY DEF PutBegin
  <1>5. QED
    BY <1>3, <1>4 DEF Offered

\* An insertion leaves what is offered.
LEMMA OfferedByPutInsert ==
  ASSUME TypeOK, PutsInOrder, NEW t \in Threads, PutInsert(t)
  PROVE  /\ Offered' = Offered
         /\ call[t].hash \in Offered
         /\ held'[call[t].hash] \in Nat /\ held'[call[t].hash] >= held[call[t].hash]
  <1> DEFINE h == call[t].hash
  <1>1. h \in Hashes /\ call[t].op = "put" /\ held[h] \in Nat
    BY DEF PutInsert, TypeOK, Call
  <1>2. Promised(h) \in Nat /\ Promised(h) >= held[h] /\ Promised(h) > 0
    BY <1>1, PromisedIs
  <1>3. held'[h] = Promised(h) /\ \A k \in Hashes: k # h => held'[k] = held[k]
    BY <1>1, <1>2 DEF PutInsert, TypeOK
  <1>4. call'[t].op = "idle" /\ \A u \in Threads: u # t => call'[u] = call[u]
    BY DEF PutInsert, TypeOK, Idle
  <1>5. \A k \in Hashes: k # h => ((InFlight("put", k) # {})' <=> InFlight("put", k) # {})
    BY <1>1, <1>4 DEF InFlight
  <1>6. h \in Offered /\ h \in Offered'
    BY <1>1, <1>2, <1>3 DEF Offered, InFlight
  <1>7. Offered' = Offered
    BY <1>3, <1>5, <1>6 DEF Offered
  <1>8. QED
    BY <1>1, <1>2, <1>3, <1>6, <1>7

\* So does a step that is neither the start nor the end of a put.
LEMMA OfferedUnchanged ==
  ASSUME TypeOK, UNCHANGED held, NEW t \in Threads,
         call[t].op # "put", call'[t].op # "put",
         \A u \in Threads: u # t => call'[u] = call[u]
  PROVE  Offered' = Offered
  BY DEF Offered, InFlight

(***************************************************************************)
(* InMemoryCcrStore implements CcrPromise: every step of the store is a    *)
(* step of the contract or changes nothing the contract speaks of.         *)
(***************************************************************************)
THEOREM Implementation == Spec => ImplementsPromise
  <1>1. Init => Promise!Init
    <2> SUFFICES ASSUME Init
                 PROVE  Promise!Init
      OBVIOUS
    <2>1. Offered = {}
      BY DEF Init, Offered, InFlight, Idle
    <2>2. QED
      BY <2>1 DEF Init, Promise!Init
  <1>2. IInv /\ [Next]_vars => [Promise!Next]_(Promise!vars)
    <2> SUFFICES ASSUME IInv, [Next]_vars
                 PROVE  Promise!Next \/ UNCHANGED Promise!vars
      OBVIOUS
    <2> TypeOK /\ PutsInOrder
      BY DEF IInv
    <2>1. CASE Tick
      <3>1. Offered' = Offered
        BY <2>1 DEF Tick, Offered, InFlight
      <3>2. Promise!Tick
        BY <2>1, <3>1 DEF Tick, Promise!Tick, TypeOK
      <3>3. QED
        BY <3>2 DEF Promise!Next
    <2>2. ASSUME NEW t \in Threads, NEW h \in Hashes, PutBegin(t, h)
          PROVE  Promise!Next
      <3>1. Promise!Offer(h)
        BY <2>2, OfferedByPutBegin DEF PutBegin, Promise!Offer
      <3>2. QED
        BY <3>1 DEF Promise!Next
    <2>3. ASSUME NEW t \in Threads, PutInsert(t)
          PROVE  Promise!Next
      <3>1. call[t].hash \in Hashes
        BY <2>3 DEF PutInsert, TypeOK
      <3>2. held' = [held EXCEPT ![call[t].hash] = held'[call[t].hash]]
        BY <2>3, <3>1 DEF PutInsert, TypeOK
      <3>3. Promise!Acknowledge(call[t].hash)
        BY <2>3, <3>2, OfferedByPutInsert DEF PutInsert, Promise!Acknowledge
      <3>4. QED
        BY <3>1, <3>3 DEF Promise!Next
    <2>4. ASSUME NEW t \in Threads, NEW h \in Hashes, GetBegin(t, h)
          PROVE  Promise!Next
      <3>1. call[t].op = "idle" /\ call'[t].op = "get"
            /\ \A u \in Threads: u # t => call'[u] = call[u]
        BY <2>4 DEF GetBegin, Begin, TypeOK, Idle
      <3>2. Offered' = Offered
        BY <2>4, <3>1, OfferedUnchanged DEF GetBegin
      <3>3. asked[t].answer # "pending"
        BY <3>1 DEF IInv, LookupsInProgress
      <3>4. Promise!Ask(t, h)
        BY <2>4, <3>2, <3>3 DEF GetBegin, Promise!Ask
      <3>5. QED
        BY <3>4 DEF Promise!Next
    <2>5. ASSUME NEW t \in Threads, GetLookup(t)
          PROVE  Promise!Next
      <3>1. call[t].op = "get" /\ call'[t].op = "idle"
            /\ \A u \in Threads: u # t => call'[u] = call[u]
        BY <2>5 DEF GetLookup, TypeOK, Idle
      <3>2. Offered' = Offered
        BY <2>5, <3>1, OfferedUnchanged DEF GetLookup
      <3>3. asked[t].answer = "pending" /\ asked[t].hash = call[t].hash
        BY <3>1 DEF IInv, LookupsInProgress
      <3>4. CASE Live(call[t].hash, call[t].at)
        <4>1. asked[t].hash \in Offered
          BY <3>3, <3>4 DEF Live, IInv, OnlyPromisedStored, Offered, TypeOK
        <4>2. Promise!Found(t)
          BY <2>5, <3>2, <3>3, <3>4, <4>1 DEF GetLookup, Promise!Found, Promise!AnswerWith
        <4>3. QED
          BY <4>2 DEF Promise!Next
      <3>5. CASE ~Live(call[t].hash, call[t].at)
        <4>1. asked[t].owed <= clock
          BY <3>1, <3>5, MissIsHonest DEF IInv
        <4>2. Promise!Miss(t)
          BY <2>5, <3>2, <3>3, <3>5, <4>1 DEF GetLookup, Promise!Miss, Promise!AnswerWith
        <4>3. QED
          BY <4>2 DEF Promise!Next
      <3>6. QED
        BY <3>4, <3>5
    <2>6. ASSUME NEW t \in Threads, PurgeBegin(t) \/ PurgeRetain(t)
          PROVE  UNCHANGED Promise!vars
      <3>1. call[t].op # "put" /\ call'[t].op # "put"
            /\ \A u \in Threads: u # t => call'[u] = call[u]
        BY <2>6 DEF PurgeBegin, PurgeRetain, Begin, TypeOK, Idle
      <3>2. Offered' = Offered
        BY <2>6, <3>1, OfferedUnchanged DEF PurgeBegin, PurgeRetain
      <3>3. QED
        BY <2>6, <3>2 DEF PurgeBegin, PurgeRetain, Promise!vars
    <2>7. CASE UNCHANGED vars
      BY <2>7 DEF vars, Promise!vars, Offered, InFlight
    <2>8. QED
      BY <2>1, <2>2, <2>3, <2>4, <2>5, <2>6, <2>7 DEF Next
  <1>3. QED
    BY <1>1, <1>2, Retention, PTL DEF Spec, ImplementsPromise, Promise!Spec
=============================================================================
