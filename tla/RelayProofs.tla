----------------------------- MODULE RelayProofs -----------------------------
(***************************************************************************)
(* Proofs about the two ways a reply reaches its client: what the proxy    *)
(* has counted of an HTTP reply when it is gone (ResponseStream), and what *)
(* an end of a WebSocket has been sent (WebSocketRelay).                   *)
(***************************************************************************)
EXTENDS ResponseStream, WebSocketRelay, Integers, SequenceTheorems, WellFoundedInduction, TLAPS

-----------------------------------------------------------------------------
(***************************************************************************)
(* Numbers                                                                 *)
(***************************************************************************)
\* A set of natural numbers that is not empty has a smallest one.
LEMMA SmallestExists ==
  ASSUME NEW S \in SUBSET Nat, S # {}
  PROVE  \E x \in S: \A y \in S: x <= y
<1> DEFINE R == {ss \in Nat \X Nat: ss[1] < ss[2]}
<1>1. IsWellFoundedOn(R, Nat)
  BY NatLessThanWellFounded DEF OpToRel
<1>2. \A x, y \in Nat: <<y, x>> \notin R => x <= y
  OBVIOUS
<1> HIDE DEF R
<1>3. \E x \in S: \A y \in S: <<y, x>> \notin R
  BY <1>1, WFMin
<1> QED
  BY <1>2, <1>3

\* A set with zero that has the successor of each of its numbers has them all.
LEMMA AllNumbers ==
  ASSUME NEW S \in SUBSET Nat, 0 \in S, \A n \in S: n + 1 \in S
  PROVE  \A n \in Nat: n \in S
<1> SUFFICES ASSUME Nat \ S # {} PROVE FALSE
  OBVIOUS
<1>1. PICK n \in Nat \ S: \A m \in Nat \ S: n <= m
  BY SmallestExists
<1>2. n # 0 /\ n - 1 \in Nat
  BY <1>1
<1>3. n - 1 \in S
  BY <1>1, <1>2
<1> QED
  BY <1>1, <1>2, <1>3

\* The smallest and the largest of some positions.
LEMMA MinOf ==
  ASSUME NEW S \in SUBSET Nat, S # {}
  PROVE  Min(S) \in S /\ \A y \in S: Min(S) <= y
<1>1. \E x \in S: \A y \in S: x <= y
  BY SmallestExists
<1> QED
  BY <1>1 DEF Min

LEMMA MaxOf ==
  ASSUME NEW n \in Nat, NEW S \in SUBSET (0..n), S # {}
  PROVE  Max(S) \in S /\ \A y \in S: y <= Max(S)
<1> DEFINE T == {x \in Nat: n - x \in S}
<1>1. PICK s \in S: TRUE
  OBVIOUS
<1>2. n - s \in T
  OBVIOUS
<1>3. PICK t \in T: \A y \in T: t <= y
  BY <1>2, SmallestExists
<1>4. n - t \in S /\ \A y \in S: n - t >= y
  <2>1. \A y \in S: n - y \in T
    OBVIOUS
  <2> QED
    BY <1>3, <2>1
<1>5. \E x \in S: \A y \in S: x >= y
  BY <1>4
<1>6. Max(S) \in S /\ \A y \in S: Max(S) >= y
  BY <1>5 DEF Max
<1> QED
  BY <1>6

-----------------------------------------------------------------------------
(***************************************************************************)
(* Recursion.  A function that asks for its value at a smaller argument is *)
(* there; what is computed of the two is a function, too.                  *)
(***************************************************************************)
Descends(S, ends, next, size) == \A x \in S \ ends: size[next[x]] < size[x]

Solves(f, S, ends, last, next, step) ==
  \A x \in S: f[x] = IF x \in ends THEN last[x] ELSE step[<<x, f[next[x]]>>]

LEMMA RecursionExists ==
  ASSUME NEW S, NEW V, V # {}, NEW size \in [S -> Nat],
         NEW ends \in SUBSET S, NEW last \in [S -> V],
         NEW next \in [S -> S], NEW step \in [S \X V -> V],
         Descends(S, ends, next, size)
  PROVE  \E f \in [S -> V]: Solves(f, S, ends, last, next, step)
<1> USE DEF Descends
<1> DEFINE Below(n) == {x \in S: size[x] < n}
           Is(f, x) == f[x] = IF x \in ends THEN last[x] ELSE step[<<x, f[next[x]]>>]
           Upto(f, n) == \A x \in Below(n): Is(f, x)
           Reached == {n \in Nat: \E f \in [S -> V]: Upto(f, n)}
<1>1. \A n \in Nat: n \in Reached
  <2>1. 0 \in Reached
    <3>1. PICK v \in V: TRUE
      OBVIOUS
    <3>2. [x \in S |-> v] \in [S -> V] /\ Upto([x \in S |-> v], 0)
      OBVIOUS
    <3> QED
      BY <3>2
  <2>2. ASSUME NEW n \in Reached PROVE n + 1 \in Reached
    <3>1. PICK f \in [S -> V]: Upto(f, n)
      OBVIOUS
    <3> DEFINE g == [x \in S |-> IF size[x] < n THEN f[x]
                                 ELSE IF x \in ends THEN last[x] ELSE step[<<x, f[next[x]]>>]]
    <3>2. g \in [S -> V]
      OBVIOUS
    <3>3. ASSUME NEW x \in Below(n + 1) PROVE Is(g, x)
      <4>1. x \notin ends => size[next[x]] < n
        <5>1. x \notin ends => size[next[x]] < size[x]
          OBVIOUS
        <5>2. size[x] \in Nat /\ size[next[x]] \in Nat /\ size[x] < n + 1
          OBVIOUS
        <5> QED
          BY <5>1, <5>2
      <4>2. x \notin ends => g[next[x]] = f[next[x]]
        BY <4>1
      <4>3. size[x] < n => Is(f, x)
        BY <3>1
      <4> QED
        BY <4>2, <4>3
    <3> HIDE DEF g, Is
    <3>4. Upto(g, n + 1)
      BY <3>3
    <3>5. n + 1 \in Nat
      OBVIOUS
    <3> HIDE DEF Upto
    <3> QED
      BY <3>2, <3>4, <3>5
  <2> HIDE DEF Reached
  <2>3. Reached \subseteq Nat
    BY DEF Reached
  <2> QED
    BY <2>1, <2>2, <2>3, AllNumbers
<1>2. ASSUME NEW n \in Nat, NEW m \in Nat, NEW f \in [S -> V], NEW g \in [S -> V],
             Upto(f, n), Upto(g, m)
      PROVE  \A x \in Below(n) \cap Below(m): f[x] = g[x]
  <2> DEFINE Differ == {x \in Below(n) \cap Below(m): f[x] # g[x]}
             sizes == {size[x]: x \in Differ}
  <2> SUFFICES ASSUME Differ # {} PROVE FALSE
    OBVIOUS
  <2>1. sizes \subseteq Nat /\ sizes # {}
    OBVIOUS
  <2>2. PICK k \in sizes: \A l \in sizes: k <= l
    BY <2>1, SmallestExists
  <2>3. PICK x \in Differ: size[x] = k
    BY <2>2
  <2>4. Is(f, x) /\ Is(g, x) /\ x \notin ends
    <3>1. x \in Below(n) /\ x \in Below(m) /\ f[x] # g[x]
      BY <2>3
    <3>2. Is(f, x) /\ Is(g, x)
      <4> HIDE DEF Is, Below
      <4> QED
        BY <1>2, <3>1
    <3>3. x \in ends => f[x] = last[x] /\ g[x] = last[x]
      BY <3>2
    <3> HIDE DEF Is, Below, Differ
    <3> QED
      BY <3>1, <3>2, <3>3
  <2>5. size[next[x]] < size[x] /\ size[x] \in Nat /\ size[next[x]] \in Nat /\ next[x] \in S
    BY <2>4, <2>3
  <2>6. size[x] < n /\ size[x] < m
    BY <2>3
  <2>7. next[x] \in Below(n) \cap Below(m)
    BY <2>5, <2>6
  <2>8. next[x] \notin Differ
    <3>1. next[x] \in Differ => size[next[x]] \in sizes
      OBVIOUS
    <3> HIDE DEF Differ, sizes
    <3> QED
      BY <2>2, <2>3, <2>5, <3>1
  <2>9. f[next[x]] = g[next[x]]
    BY <2>7, <2>8
  <2>10. f[x] = g[x]
    BY <2>4, <2>9
  <2> QED
    BY <2>3, <2>10
<1> DEFINE At(n) == CHOOSE f \in [S -> V]: Upto(f, n)
           all == [x \in S |-> At(size[x] + 1)[x]]
<1>3. \A n \in Nat: At(n) \in [S -> V] /\ Upto(At(n), n)
  BY <1>1
<1> HIDE DEF At
<1>4. all \in [S -> V]
  <2>1. \A x \in S: size[x] + 1 \in Nat
    OBVIOUS
  <2> QED
    BY <1>3, <2>1
<1>5. ASSUME NEW x \in S PROVE all[x] = IF x \in ends THEN last[x] ELSE step[<<x, all[next[x]]>>]
  <2>1. size[x] \in Nat /\ next[x] \in S /\ size[next[x]] \in Nat
    OBVIOUS
  <2>2. At(size[x] + 1) \in [S -> V] /\ Is(At(size[x] + 1), x)
    BY <1>3, <2>1
  <2>3. x \notin ends => all[next[x]] = At(size[x] + 1)[next[x]]
    <3> SUFFICES ASSUME x \notin ends PROVE all[next[x]] = At(size[x] + 1)[next[x]]
      OBVIOUS
    <3>1. size[next[x]] < size[x]
      OBVIOUS
    <3>2. next[x] \in Below(size[x] + 1) \cap Below(size[next[x]] + 1)
      BY <2>1, <3>1
    <3>3. At(size[next[x]] + 1) \in [S -> V] /\ Upto(At(size[next[x]] + 1), size[next[x]] + 1)
      BY <1>3, <2>1
    <3>4. At(size[x] + 1) \in [S -> V] /\ Upto(At(size[x] + 1), size[x] + 1)
      BY <1>3, <2>1
    <3>5. size[x] + 1 \in Nat /\ size[next[x]] + 1 \in Nat
      BY <2>1
    <3>6. At(size[x] + 1)[next[x]] = At(size[next[x]] + 1)[next[x]]
      <4> HIDE DEF Below, Upto
      <4> QED
        BY <1>2, <3>2, <3>3, <3>4, <3>5
    <3> QED
      BY <2>1, <3>6
  <2>4. all[x] = At(size[x] + 1)[x]
    OBVIOUS
  <2> HIDE DEF all
  <2> QED
    BY <2>2, <2>3, <2>4
<1> HIDE DEF all
<1>6. Solves(all, S, ends, last, next, step)
  BY <1>5 DEF Solves
<1> QED
  BY <1>4, <1>6

-----------------------------------------------------------------------------
(***************************************************************************)
(* What an observer makes of one frame, and of one after the other         *)
(***************************************************************************)
Observers ==
  [read: Nat, creation: Nat, prose: Nat, thinking: Nat, calls: SUBSET STRING,
   completed: BOOLEAN, failure: BOOLEAN, unknown: SUBSET STRING]

LEMMA CountIs == \A P: Count(P) \in {0, 1}
  BY DEF Count

LEMMA CacheIsAdded ==
  ASSUME NEW seen \in Observers, NEW event
  PROVE  /\ WithCache(seen, event) \in Observers
         /\ WithCache(seen, event).read = seen.read + CacheFromUsage(event).read
         /\ WithCache(seen, event).creation = seen.creation + CacheFromUsage(event).creation
         /\ CacheFromUsage(event).read \in {0, 1} /\ CacheFromUsage(event).creation \in {0, 1}
         /\ WithCache(seen, event).failure = seen.failure
<1> DEFINE cache == CacheFromUsage(event)
<1>1. cache.read \in {0, 1} /\ cache.creation \in {0, 1}
  BY CountIs DEF CacheFromUsage
<1> DEFINE read == seen.read + cache.read
           creation == seen.creation + cache.creation
<1>2. WithCache(seen, event) = [seen EXCEPT !.read = read, !.creation = creation]
  BY DEF WithCache, Observers
<1> HIDE DEF cache
<1>3. read \in Nat /\ creation \in Nat
  BY <1>1 DEF Observers
<1> HIDE DEF read, creation
<1>4. WithCache(seen, event) \in Observers
  BY <1>2, <1>3 DEF Observers
<1>5. /\ WithCache(seen, event).read = read
      /\ WithCache(seen, event).creation = creation
      /\ WithCache(seen, event).failure = seen.failure
  BY <1>2 DEF Observers
<1> QED
  BY <1>1, <1>4, <1>5 DEF cache, read, creation

LEMMA NothingSeenIs == NothingSeen \in Observers
  BY DEF NothingSeen, Observers

\* What is counted only grows.
LEMMA OneMore ==
  ASSUME NEW d \in Dialects, NEW seen \in Observers, NEW frame \in Seq(STRING)
  PROVE  /\ Observe(d, seen, frame) \in Observers
         /\ Observe(d, seen, frame).read >= seen.read
         /\ Observe(d, seen, frame).creation >= seen.creation
<1> DEFINE event == Fields(frame)
<1>1. event \subseteq STRING
  BY DEF Fields, ToSet
<1> HIDE DEF event
<1>2. StreamObserver(seen, event) \in Observers
      /\ StreamObserver(seen, event).read >= seen.read
      /\ StreamObserver(seen, event).creation >= seen.creation
  <2> DEFINE opened == IF "message_start" \in event THEN WithCache(seen, event) ELSE seen
             Delta(kind) == Count({"content_block_delta", kind} \subseteq event)
  <2>1. opened \in Observers /\ opened.read >= seen.read /\ opened.creation >= seen.creation
    <3>1. CASE "message_start" \in event
      <4>1. opened = WithCache(seen, event)
        BY <3>1
      <4>2. /\ opened \in Observers
            /\ opened.read = seen.read + CacheFromUsage(event).read
            /\ opened.creation = seen.creation + CacheFromUsage(event).creation
            /\ CacheFromUsage(event).read \in {0, 1}
            /\ CacheFromUsage(event).creation \in {0, 1}
        BY ONLY <4>1, CacheIsAdded, seen \in Observers
      <4>3. seen.read \in Nat /\ seen.creation \in Nat
        BY DEF Observers
      <4> HIDE DEF opened
      <4> QED
        BY <4>2, <4>3
    <3>2. CASE "message_start" \notin event
      <4>1. opened = seen
        BY <3>2
      <4> QED
        BY <4>1 DEF Observers
    <3> QED
      BY <3>1, <3>2
  <2>2. Delta("text") \in Nat /\ Delta("thinking") \in Nat
    BY CountIs
  <2>3. Names(event) \subseteq STRING
    BY <1>1 DEF Names
  <2> DEFINE over == opened.completed \/ event \cap {"message_stop", "[DONE]"} # {}
             fails == opened.failure \/ "error" \in event
             unknown == opened.unknown \cup (Names(event) \ (AnthropicEvents \cup {"[DONE]"}))
  <2>4. over \in BOOLEAN /\ fails \in BOOLEAN /\ unknown \subseteq STRING
    BY <2>1, <2>3 DEF Observers
  <2> DEFINE prose == opened.prose + Delta("text")
             thinking == opened.thinking + Delta("thinking")
  <2>5. StreamObserver(seen, event) =
          [opened EXCEPT !.prose = prose, !.thinking = thinking,
                         !.completed = over, !.failure = fails, !.unknown = unknown]
    BY <2>1 DEF StreamObserver, Observers
  <2> HIDE DEF opened, Delta, over, fails, unknown
  <2>6. prose \in Nat /\ thinking \in Nat
    BY <2>1, <2>2 DEF Observers
  <2> HIDE DEF prose, thinking
  <2> QED
    BY <2>1, <2>4, <2>5, <2>6 DEF Observers
<1>5. seen.read >= seen.read /\ seen.creation >= seen.creation
  BY DEF Observers
<1>3. OpenAiObserver(seen, event) \in Observers
      /\ OpenAiObserver(seen, event).read >= seen.read
      /\ OpenAiObserver(seen, event).creation >= seen.creation
  <2>1. CASE OpenAiEvent(event) = "usage"
    BY <2>1, CacheIsAdded DEF OpenAiObserver, Observers
  <2>2. CASE OpenAiEvent(event) = "chunk"
    <3> DEFINE more == seen.prose + Count("text" \in event)
               calls == seen.calls \cup (event \cap {"call 0", "call 1"})
    <3>1. more \in Nat
      BY CountIs DEF Observers
    <3>3. calls \subseteq STRING
      BY <1>1 DEF Observers
    <3>2. OpenAiObserver(seen, event) = [seen EXCEPT !.prose = more, !.calls = calls]
      BY <2>2 DEF OpenAiObserver, Observers
    <3> HIDE DEF more, calls
    <3>4. OpenAiObserver(seen, event) \in Observers
      BY <3>1, <3>2, <3>3 DEF Observers
    <3> QED
      BY <3>2, <3>4 DEF Observers
  <2>3. CASE OpenAiEvent(event) = "done"
    <3>1. OpenAiObserver(seen, event) = [seen EXCEPT !.completed = TRUE]
      BY <2>3 DEF OpenAiObserver
    <3>2. OpenAiObserver(seen, event) \in Observers
      BY <3>1 DEF Observers
    <3>3. /\ OpenAiObserver(seen, event).read = seen.read
          /\ OpenAiObserver(seen, event).creation = seen.creation
      BY <3>1 DEF Observers
    <3> QED
      BY <1>5, <3>2, <3>3
  <2>4. CASE OpenAiEvent(event) = "error"
    <3>1. OpenAiObserver(seen, event) = [seen EXCEPT !.failure = TRUE]
      BY <2>4 DEF OpenAiObserver
    <3>2. OpenAiObserver(seen, event) \in Observers
      BY <3>1 DEF Observers
    <3>3. /\ OpenAiObserver(seen, event).read = seen.read
          /\ OpenAiObserver(seen, event).creation = seen.creation
      BY <3>1 DEF Observers
    <3> QED
      BY <1>5, <3>2, <3>3
  <2>5. CASE OpenAiEvent(event) = "other"
    BY <2>5 DEF OpenAiObserver, Observers
  <2> QED
    BY <2>1, <2>2, <2>3, <2>4, <2>5 DEF OpenAiEvent
<1>4. ResponsesObserver(seen, event) \in Observers
      /\ ResponsesObserver(seen, event).read >= seen.read
      /\ ResponsesObserver(seen, event).creation >= seen.creation
  <2> DEFINE over == event \cap (Terminated \cup {"response.completed"}) # {}
             ended == IF over THEN WithCache(seen, event) ELSE seen
             spoken == Count("response.output_text.delta" \in event)
             thought == Count("response.reasoning_summary_text.delta" \in event)
             completed == ended.completed \/ over
             fails == ended.failure
                        \/ event \cap (Terminated \cup {"response.error", "error"}) # {}
             calls == ended.calls \cup IF "response.function_call_arguments.delta" \in event
                                       THEN event \cap {"call 0", "call 1"} ELSE {}
             unknown == ended.unknown \cup (Names(event) \ ResponsesEvents)
  <2>1. ended \in Observers /\ ended.read >= seen.read /\ ended.creation >= seen.creation
    BY CacheIsAdded DEF Observers
  <2>2. spoken \in Nat /\ thought \in Nat
    BY CountIs
  <2>3. calls \subseteq STRING /\ unknown \subseteq STRING
    BY <1>1, <2>1 DEF Observers, Names
  <2>4. completed \in BOOLEAN /\ fails \in BOOLEAN
    BY <2>1 DEF Observers
  <2> DEFINE prose == ended.prose + spoken
             thinking == ended.thinking + thought
  <2>5. ResponsesObserver(seen, event) =
          [ended EXCEPT !.completed = completed, !.failure = fails, !.prose = prose,
                        !.thinking = thinking, !.calls = calls, !.unknown = unknown]
    BY <2>1 DEF ResponsesObserver, Observers
  <2> HIDE DEF over, ended, spoken, thought, completed, fails, calls, unknown
  <2>6. prose \in Nat /\ thinking \in Nat
    BY <2>1, <2>2 DEF Observers
  <2> HIDE DEF prose, thinking
  <2> QED
    BY <2>1, <2>3, <2>4, <2>5, <2>6 DEF Observers
<1> QED
  BY <1>2, <1>3, <1>4, <1>5, DialectAssumption DEF Observe, event

\* Frames observed one after the other.
LEMMA InTurn ==
  ASSUME NEW d \in Dialects, NEW seen \in Observers, NEW s \in Seq(Seq(STRING))
  PROVE  \E o \in [0..Len(s) -> Observers]:
           /\ o[0] = seen
           /\ \A k \in 1..Len(s): o[k] = Observe(d, o[k - 1], s[k])
           /\ Observed(d, seen, s) = o[Len(s)]
<1> DEFINE n == Len(s)
           S == SUBSET (1..n)
           size == [t \in S |-> IF t = {} THEN 0 ELSE Max(t)]
           ends == {{}}
           last == [t \in S |-> seen]
           next == [t \in S |-> t \ {Max(t)}]
           step == [p \in S \X Observers |->
                      IF p[1] = {} THEN seen ELSE Observe(d, p[2], s[Max(p[1])])]
           Is(f) == f = [t \in S |-> IF t = {} THEN seen
                                     ELSE Observe(d, f[t \ {Max(t)}], s[Max(t)])]
<1>1. n \in Nat /\ DOMAIN s = 1..n /\ \A k \in 1..n: s[k] \in Seq(STRING)
  OBVIOUS
<1>2. \A t \in S: t # {} => Max(t) \in t /\ Max(t) \in 1..n /\ \A y \in t: y <= Max(t)
  <2> TAKE t \in S
  <2>1. t \in SUBSET (0..n)
    OBVIOUS
  <2> QED
    BY <1>1, <2>1, MaxOf
<1>3. \E f \in [S -> Observers]: Is(f)
  <2>1. /\ Observers # {} /\ ends \in SUBSET S
        /\ last \in [S -> Observers] /\ next \in [S -> S]
    OBVIOUS
  <2>7. size \in [S -> Nat]
    <3>1. \A t \in S: t # {} => Max(t) \in Nat
      <4>1. 1..n \subseteq Nat
        BY <1>1
      <4> HIDE DEF S
      <4> QED
        BY ONLY <1>2, <4>1
    <3> HIDE DEF S
    <3> QED
      BY <3>1
  <2>2. step \in [S \X Observers -> Observers]
    BY <1>1, <1>2, OneMore
  <2>3. \A t \in S \ ends: size[next[t]] < size[t]
    <3> SUFFICES ASSUME NEW t \in S, t # {} PROVE size[next[t]] < size[t]
      OBVIOUS
    <3> DEFINE u == t \ {Max(t)}
    <3>1. u \in S /\ next[t] = u
      OBVIOUS
    <3>2. u # {} => Max(u) \in u /\ Max(u) \in 1..n
      BY <1>2, <3>1
    <3>3. Max(t) \in 1..n /\ \A y \in t: y <= Max(t)
      BY <1>2
    <3>4. size[t] = Max(t) /\ size[u] = IF u = {} THEN 0 ELSE Max(u)
      BY <3>1
    <3>5. u # {} => Max(u) <= Max(t) /\ Max(u) # Max(t)
      BY <3>2, <3>3
    <3> HIDE DEF u, size, next
    <3> QED
      BY <1>1, <3>1, <3>2, <3>3, <3>4, <3>5
  <2> HIDE DEF size, ends, last, next, step, S
  <2>8. /\ Observers # {} /\ ends \in SUBSET S /\ last \in [S -> Observers]
        /\ next \in [S -> S] /\ size \in [S -> Nat] /\ step \in [S \X Observers -> Observers]
        /\ Descends(S, ends, next, size)
    BY <2>1, <2>2, <2>3, <2>7 DEF Descends
  <2>4. PICK f \in [S -> Observers]: Solves(f, S, ends, last, next, step)
    BY <2>8, RecursionExists
  <2>5. ASSUME NEW x \in S
        PROVE  (IF x \in ends THEN last[x] ELSE step[<<x, f[next[x]]>>])
                 = IF x = {} THEN seen ELSE Observe(d, f[x \ {Max(x)}], s[Max(x)])
    <3>1. next[x] \in S /\ next[x] = x \ {Max(x)}
      BY DEF next, S
    <3>2. f[next[x]] \in Observers
      BY <3>1
    <3>3. step[<<x, f[next[x]]>>] = IF x = {} THEN seen ELSE Observe(d, f[next[x]], s[Max(x)])
      BY <3>2 DEF step
    <3> QED
      BY <3>1, <3>3 DEF ends, last
  <2>6. Is(f)
    <3>1. \A x \in S: f[x] = IF x = {} THEN seen ELSE Observe(d, f[x \ {Max(x)}], s[Max(x)])
      BY <2>4, <2>5 DEF Solves
    <3>2. f = [x \in S |-> f[x]]
      OBVIOUS
    <3> QED
      BY <3>1, <3>2
  <2> QED
    BY <2>6
<1> DEFINE iter == CHOOSE f : Is(f)
<1>4. Is(iter)
  BY <1>3
<1>5. Observed(d, seen, s) = iter[1..n]
  BY <1>1 DEF Observed, FoldLeft, MapThenFoldSet
<1> DEFINE o == [k \in 0..n |-> iter[1..k]]
<1>6. ASSUME NEW k \in 0..n
      PROVE  iter[1..k] = IF k = 0 THEN seen ELSE Observe(d, iter[1..(k - 1)], s[k])
  <2>1. 1..k \in S /\ (1..k = {} <=> k = 0)
    <3>1. n \in Nat
      BY <1>1
    <3> HIDE DEF n
    <3>2. k \in Nat /\ k <= n
      BY <3>1
    <3>3. k # 0 => 1 \in 1..k
      BY <3>2
    <3>4. 1..k \subseteq 1..n
      BY <3>1, <3>2
    <3> QED
      BY <3>2, <3>3, <3>4
  <2>2. k # 0 => Max(1..k) = k
    <3> SUFFICES ASSUME k # 0 PROVE Max(1..k) = k
      OBVIOUS
    <3>1. Max(1..k) \in 1..k /\ \A y \in 1..k: y <= Max(1..k)
      BY <1>2, <2>1
    <3> QED
      BY <1>1, <3>1
  <2>3. k # 0 => (1..k) \ {k} = 1..(k - 1)
    <3>1. k \in Nat
      <4>1. k \in 0..n /\ n \in Nat
        BY <1>1
      <4> HIDE DEF n
      <4> QED
        BY <4>1
    <3>2. \A i \in Nat: i \in (1..k) \ {k} <=> i \in 1..(k - 1)
      BY <3>1
    <3>3. (1..k) \ {k} \subseteq Nat /\ 1..(k - 1) \subseteq Nat
      BY <3>1
    <3> QED
      BY <3>2, <3>3
  <2> HIDE DEF S, iter
  <2>4. iter[1..k] = IF 1..k = {} THEN seen
                     ELSE Observe(d, iter[(1..k) \ {Max(1..k)}], s[Max(1..k)])
    BY <1>4, <2>1
  <2> QED
    BY <2>1, <2>2, <2>3, <2>4
<1> HIDE DEF iter, S
<1>7. o[0] = seen /\ \A k \in 1..n: o[k] = Observe(d, o[k - 1], s[k])
  BY <1>1, <1>6
<1>8. \A k \in Nat: k \in 0..n => o[k] \in Observers
  <2> DEFINE T == {k \in Nat: k \in 0..n => o[k] \in Observers}
  <2>1. 0 \in T
    BY <1>7
  <2>2. ASSUME NEW k \in T PROVE k + 1 \in T
    <3> SUFFICES ASSUME k + 1 \in 0..n PROVE o[k + 1] \in Observers
      OBVIOUS
    <3>1. k \in 0..n /\ k + 1 \in 1..n /\ (k + 1) - 1 = k
      BY <1>1
    <3>2. o[k] \in Observers /\ o[k + 1] = Observe(d, o[k], s[k + 1])
      BY <1>7, <3>1
    <3>3. s[k + 1] \in Seq(STRING)
      BY <1>1, <3>1
    <3> HIDE DEF o
    <3> QED
      BY <3>2, <3>3, OneMore
  <2> HIDE DEF T
  <2>3. T \in SUBSET Nat
    BY DEF T
  <2>4. \A k \in Nat: k \in T
    BY <2>1, <2>2, <2>3, AllNumbers
  <2> QED
    BY <2>4 DEF T
<1>9. o \in [0..n -> Observers]
  BY <1>1, <1>8
<1>10. Observed(d, seen, s) = o[n]
  BY <1>1, <1>5
<1> HIDE DEF o
<1> QED
  BY <1>7, <1>9, <1>10

-----------------------------------------------------------------------------
(***************************************************************************)
(* Where the frames are in the bytes                                       *)
(***************************************************************************)
LEMMA BeginsWith ==
  ASSUME NEW S, NEW u \in Seq(S), NEW t \in Seq(S)
  PROVE  IsPrefix(u, t) <=> Len(u) <= Len(t) /\ \A j \in 1..Len(u): t[j] = u[j]
<1>1. Len(u) \in Nat /\ Len(t) \in Nat
  OBVIOUS
<1>2. SubSeq(u, 1, Len(u)) = u
  BY SubSeqFull
<1>3. SUFFICES ASSUME Len(u) <= Len(t)
               PROVE  u = SubSeq(t, 1, Len(u)) <=> \A j \in 1..Len(u): t[j] = u[j]
  BY <1>2 DEF IsPrefix
<1> DEFINE v == SubSeq(t, 1, Len(u))
<1>4. v \in Seq(S) /\ Len(v) = Len(u) /\ \A j \in 1..Len(u): v[j] = t[j]
  BY <1>1, <1>3, SubSeqProperties
<1> HIDE DEF v
<1>5. (\A j \in 1..Len(u): u[j] = v[j]) => u = v
  BY <1>1, <1>4, SeqEqual
<1>6. u = v <=> \A j \in 1..Len(u): t[j] = u[j]
  BY <1>4, <1>5
<1> QED
  BY <1>6 DEF v

LEMMA EndIs ==
  ASSUME NEW R, NEW b \in Seq(R), NEW i \in 1..Len(b)
  PROVE  /\ TerminatorAt(b, i) = 2 <=> i + 1 <= Len(b) /\ b[i] = LF /\ b[i + 1] = LF
         /\ TerminatorAt(b, i) = 4 <=> /\ i + 3 <= Len(b)
                                       /\ b[i] = CR /\ b[i + 1] = LF
                                       /\ b[i + 2] = CR /\ b[i + 3] = LF
         /\ TerminatorAt(b, i) \in {0, 2, 4}
<1> DEFINE t == SubSeq(b, i, Len(b))
           n == Len(b)
           S == R \cup {LF, CR}
<1>0. b \in Seq(S)
  OBVIOUS
<1>1. t \in Seq(S) /\ Len(t) = n - i + 1 /\ n \in Nat
      /\ \A j \in 1..Len(t): t[j] = b[i + j - 1]
  BY <1>0, SubSeqProperties
<1> HIDE DEF t
<1>2. IsPrefix(<<LF, LF>>, t) <=> Len(t) >= 2 /\ t[1] = LF /\ t[2] = LF
  <2> DEFINE u == <<LF, LF>>
  <2>1. u \in Seq(S) /\ Len(u) = 2 /\ u[1] = LF /\ u[2] = LF
    OBVIOUS
  <2> HIDE DEF u
  <2>2. IsPrefix(u, t) <=> 2 <= Len(t) /\ \A j \in 1..2: t[j] = u[j]
    <3>1. u \in Seq(S) /\ t \in Seq(S)
      BY <1>1, <2>1
    <3>2. IsPrefix(u, t) <=> Len(u) <= Len(t) /\ \A j \in 1..Len(u): t[j] = u[j]
      BY <3>1, BeginsWith
    <3>3. Len(u) = 2
      BY <2>1
    <3> QED
      BY <3>2, <3>3
  <2>3. (\A j \in 1..2: t[j] = u[j]) <=> t[1] = u[1] /\ t[2] = u[2]
    OBVIOUS
  <2>4. IsPrefix(u, t) <=> 2 <= Len(t) /\ t[1] = LF /\ t[2] = LF
    BY <2>1, <2>2, <2>3
  <2> QED
    BY <1>1, <2>4 DEF u
<1>3. IsPrefix(<<CR, LF, CR, LF>>, t) <=> /\ Len(t) >= 4 /\ t[1] = CR /\ t[2] = LF
                                         /\ t[3] = CR /\ t[4] = LF
  <2> DEFINE u == <<CR, LF, CR, LF>>
  <2>1. u \in Seq(S) /\ Len(u) = 4 /\ u[1] = CR /\ u[2] = LF /\ u[3] = CR /\ u[4] = LF
    OBVIOUS
  <2> HIDE DEF u
  <2>2. IsPrefix(u, t) <=> 4 <= Len(t) /\ \A j \in 1..4: t[j] = u[j]
    <3>1. u \in Seq(S) /\ t \in Seq(S)
      BY <1>1, <2>1
    <3>2. IsPrefix(u, t) <=> Len(u) <= Len(t) /\ \A j \in 1..Len(u): t[j] = u[j]
      BY <3>1, BeginsWith
    <3>3. Len(u) = 4
      BY <2>1
    <3> QED
      BY <3>2, <3>3
  <2>3. (\A j \in 1..4: t[j] = u[j])
          <=> t[1] = u[1] /\ t[2] = u[2] /\ t[3] = u[3] /\ t[4] = u[4]
    OBVIOUS
  <2>4. IsPrefix(u, t) <=> 4 <= Len(t) /\ t[1] = CR /\ t[2] = LF /\ t[3] = CR /\ t[4] = LF
    BY <2>1, <2>2, <2>3
  <2> QED
    BY <1>1, <2>4 DEF u
<1>4. Len(t) >= 2 => t[1] = b[i] /\ t[2] = b[i + 1]
  BY <1>1
<1>5. Len(t) >= 4 => t[1] = b[i] /\ t[2] = b[i + 1] /\ t[3] = b[i + 2] /\ t[4] = b[i + 3]
  BY <1>1
<1>6. (Len(t) >= 2 <=> i + 1 <= n) /\ (Len(t) >= 4 <=> i + 3 <= n)
  BY <1>1
<1>7. CR # LF
  BY DEF CR, LF
<1>8. TerminatorAt(b, i) = IF IsPrefix(<<LF, LF>>, t) THEN 2
                           ELSE IF IsPrefix(<<CR, LF, CR, LF>>, t) THEN 4 ELSE 0
  BY <1>2, <1>3, <1>7 DEF TerminatorAt, t
<1> QED
  BY <1>2, <1>3, <1>4, <1>5, <1>6, <1>7, <1>8

\* The recursion of Drained.
LEMMA FrameLength ==
  ASSUME NEW b \in Seq(STRING)
  PROVE  /\ NextFrame(b) \in 0..Len(b)
         /\ NextFrame(b) = 0 <=> \A i \in 1..Len(b): TerminatorAt(b, i) = 0
<1> DEFINE ends == {i \in DOMAIN b: TerminatorAt(b, i) > 0}
<1>1. Len(b) \in Nat /\ DOMAIN b = 1..Len(b) /\ ends \in SUBSET Nat
  OBVIOUS
<1>2. CASE ends = {}
  <2>1. NextFrame(b) = 0
    BY <1>2 DEF NextFrame
  <2>2. \A i \in 1..Len(b): TerminatorAt(b, i) = 0
    BY <1>1, <1>2, EndIs
  <2> QED
    BY <1>1, <2>1, <2>2
<1>3. CASE ends # {}
  <2>1. Min(ends) \in ends
    BY <1>1, <1>3, MinOf
  <2>2. NextFrame(b) = Min(ends) - 1 + TerminatorAt(b, Min(ends))
    BY <1>3 DEF NextFrame
  <2>3. PICK m \in 1..Len(b): m = Min(ends) /\ TerminatorAt(b, m) \in {2, 4}
    <3>1. Min(ends) \in 1..Len(b) /\ TerminatorAt(b, Min(ends)) > 0
      BY <1>1, <2>1
    <3> HIDE DEF ends
    <3>2. TerminatorAt(b, Min(ends)) \in {0, 2, 4}
      BY <3>1, EndIs
    <3> QED
      BY <3>1, <3>2
  <2>4. NextFrame(b) = m - 1 + TerminatorAt(b, m)
    BY <2>2, <2>3
  <2>5. m - 1 + TerminatorAt(b, m) \in 1..Len(b)
    BY <1>1, <2>3, EndIs
  <2> HIDE DEF ends
  <2> QED
    BY <1>1, <2>3, <2>4, <2>5
<1> QED
  BY <1>2, <1>3

Draining == [frames: Seq(Seq(STRING)), rest: Seq(STRING)]

LEMMA DrainedIs ==
  \A b \in Seq(STRING):
    /\ Drained[b] \in Draining
    /\ NextFrame(b) = 0 => Drained[b] = [frames |-> <<>>, rest |-> b]
    /\ NextFrame(b) # 0 =>
         LET after == Drained[SubSeq(b, NextFrame(b) + 1, Len(b))]
         IN  Drained[b] = [frames |-> <<SubSeq(b, 1, NextFrame(b))>> \o after.frames,
                           rest |-> after.rest]
<1> DEFINE S == Seq(STRING)
           size == [b \in S |-> Len(b)]
           ends == {b \in S: NextFrame(b) = 0}
           last == [b \in S |-> [frames |-> <<>>, rest |-> b]]
           next == [b \in S |-> SubSeq(b, NextFrame(b) + 1, Len(b))]
           step == [p \in S \X Draining |->
                      [frames |-> <<SubSeq(p[1], 1, NextFrame(p[1]))>> \o p[2].frames,
                       rest |-> p[2].rest]]
           Is(f) == f = [b \in Seq(STRING) |->
                           IF NextFrame(b) = 0 THEN [frames |-> <<>>, rest |-> b]
                           ELSE [frames |-> <<SubSeq(b, 1, NextFrame(b))>>
                                              \o f[SubSeq(b, NextFrame(b) + 1, Len(b))].frames,
                                 rest |-> f[SubSeq(b, NextFrame(b) + 1, Len(b))].rest]]
<1>1. \A b \in S: /\ SubSeq(b, NextFrame(b) + 1, Len(b)) \in S
                  /\ SubSeq(b, 1, NextFrame(b)) \in S
                  /\ NextFrame(b) # 0 => Len(SubSeq(b, NextFrame(b) + 1, Len(b))) < Len(b)
  <2> TAKE b \in S
  <2>1. Len(b) \in Nat /\ NextFrame(b) \in 0..Len(b)
    BY FrameLength
  <2> QED
    BY <2>1, SubSeqProperties
<1>2. /\ Draining # {} /\ size \in [S -> Nat] /\ ends \in SUBSET S
      /\ last \in [S -> Draining] /\ next \in [S -> S]
  <2>1. [frames |-> <<>>, rest |-> <<>>] \in Draining
    BY DEF Draining
  <2>2. last \in [S -> Draining]
    BY DEF Draining
  <2>3. next \in [S -> S]
    BY <1>1
  <2>4. size \in [S -> Nat]
    OBVIOUS
  <2> QED
    BY <2>1, <2>2, <2>3, <2>4
<1>3. step \in [S \X Draining -> Draining]
  <2> SUFFICES ASSUME NEW b \in S, NEW v \in Draining
               PROVE  [frames |-> <<SubSeq(b, 1, NextFrame(b))>> \o v.frames,
                       rest |-> v.rest] \in Draining
    OBVIOUS
  <2>1. <<SubSeq(b, 1, NextFrame(b))>> \in Seq(S) /\ v.frames \in Seq(S) /\ v.rest \in S
    BY <1>1 DEF Draining
  <2>2. <<SubSeq(b, 1, NextFrame(b))>> \o v.frames \in Seq(S)
    BY <2>1, ConcatProperties
  <2> QED
    BY <2>1, <2>2 DEF Draining
<1>4. Descends(S, ends, next, size)
  BY <1>1 DEF Descends
<1>5. \E f \in [S -> Draining]: Is(f)
  <2> HIDE DEF S, size, ends, last, next, step
  <2>1. PICK f \in [S -> Draining]: Solves(f, S, ends, last, next, step)
    BY <1>2, <1>3, <1>4, RecursionExists
  <2>2. ASSUME NEW b \in S
        PROVE  f[b] = IF NextFrame(b) = 0 THEN [frames |-> <<>>, rest |-> b]
                      ELSE [frames |-> <<SubSeq(b, 1, NextFrame(b))>>
                                         \o f[SubSeq(b, NextFrame(b) + 1, Len(b))].frames,
                            rest |-> f[SubSeq(b, NextFrame(b) + 1, Len(b))].rest]
    <3>1. f[b] = IF b \in ends THEN last[b] ELSE step[<<b, f[next[b]]>>]
      BY <2>1 DEF Solves
    <3>2. next[b] = SubSeq(b, NextFrame(b) + 1, Len(b)) /\ next[b] \in S
      BY <1>2 DEF next
    <3>3. f[next[b]] \in Draining
      BY <3>2
    <3>4. step[<<b, f[next[b]]>>] = [frames |-> <<SubSeq(b, 1, NextFrame(b))>> \o f[next[b]].frames,
                                    rest |-> f[next[b]].rest]
      BY <3>3 DEF step
    <3>5. (b \in ends <=> NextFrame(b) = 0) /\ last[b] = [frames |-> <<>>, rest |-> b]
      BY DEF ends, last
    <3> QED
      BY <3>1, <3>2, <3>4, <3>5
  <2>3. f = [b \in S |-> f[b]]
    OBVIOUS
  <2>4. Is(f)
    BY <2>2, <2>3 DEF S
  <2> QED
    BY <2>4
<1>6. Drained = CHOOSE f: Is(f)
  BY DEF Drained
<1>7. PICK f \in [S -> Draining]: Is(f)
  BY <1>5
<1>8. Is(Drained)
  BY <1>6, <1>7
<1>9. \A b \in S: Drained[b] \in Draining
  <2> DEFINE T == {n \in Nat: \A b \in S: Len(b) < n => Drained[b] \in Draining}
  <2>1. 0 \in T
    OBVIOUS
  <2>2. ASSUME NEW n \in T PROVE n + 1 \in T
    <3> SUFFICES ASSUME NEW b \in S, Len(b) < n + 1 PROVE Drained[b] \in Draining
      OBVIOUS
    <3> DEFINE c == SubSeq(b, NextFrame(b) + 1, Len(b))
    <3>1. c \in S /\ SubSeq(b, 1, NextFrame(b)) \in S /\ (NextFrame(b) # 0 => Len(c) < Len(b))
      BY <1>1
    <3>2. Drained[b] = IF NextFrame(b) = 0 THEN [frames |-> <<>>, rest |-> b]
                       ELSE [frames |-> <<SubSeq(b, 1, NextFrame(b))>> \o Drained[c].frames,
                             rest |-> Drained[c].rest]
      BY <1>8
    <3>3. NextFrame(b) # 0 => Drained[c] \in Draining
      <4>1. NextFrame(b) # 0 => Len(c) < n
        <5> HIDE DEF c
        <5>1. Len(b) \in Nat /\ Len(c) \in Nat
          BY <3>1
        <5> QED
          BY <3>1, <5>1
      <4> HIDE DEF c
      <4> QED
        BY <4>1, <3>1
    <3>4. NextFrame(b) = 0 => last[b] \in Draining
      BY <1>2
    <3>5. NextFrame(b) # 0 => step[<<b, Drained[c]>>] \in Draining
      <4> HIDE DEF c, step, S
      <4> QED
        BY <1>3, <3>3
    <3>6. last[b] = [frames |-> <<>>, rest |-> b]
      OBVIOUS
    <3>7. NextFrame(b) # 0 =>
            step[<<b, Drained[c]>>] = [frames |-> <<SubSeq(b, 1, NextFrame(b))>> \o Drained[c].frames,
                                       rest |-> Drained[c].rest]
      <4> HIDE DEF c, S
      <4> QED
        BY <3>3
    <3> HIDE DEF c, step, last, S
    <3> QED
      BY <3>2, <3>4, <3>5, <3>6, <3>7
  <2> HIDE DEF T, S
  <2>3. T \in SUBSET Nat
    BY DEF T
  <2>4. \A n \in Nat: n \in T
    BY <2>1, <2>2, <2>3, AllNumbers
  <2>5. ASSUME NEW b \in S PROVE Drained[b] \in Draining
    <3>1. Len(b) \in Nat /\ Len(b) + 1 \in Nat /\ Len(b) < Len(b) + 1
      BY DEF S
    <3>2. Len(b) + 1 \in T
      BY <2>4, <3>1
    <3> QED
      BY <3>1, <3>2 DEF T
  <2> QED
    BY <2>5
<1> QED
  BY <1>8, <1>9
-----------------------------------------------------------------------------
(***************************************************************************)
(* Pieces laid one after the other, and where each of them lies            *)
(***************************************************************************)
LEMMA Slice ==
  ASSUME NEW S, NEW s \in Seq(S), NEW m \in 1..(Len(s) + 1), NEW n \in (m - 1)..Len(s)
  PROVE  /\ SubSeq(s, m, n) \in Seq(S)
         /\ Len(SubSeq(s, m, n)) = n - m + 1
         /\ \A j \in 1..(n - m + 1): SubSeq(s, m, n)[j] = s[m + j - 1]
<1>1. Len(s) \in Nat /\ m \in Int /\ n \in Int /\ \A i \in m..n: s[i] \in S
  OBVIOUS
<1>2. /\ SubSeq(s, m, n) \in Seq(S)
      /\ Len(SubSeq(s, m, n)) = IF m <= n THEN n - m + 1 ELSE 0
      /\ \A j \in 1..(n - m + 1): SubSeq(s, m, n)[j] = s[m + j - 1]
  BY <1>1, SubSeqProperties
<1> QED
  BY <1>1, <1>2

\* FlattenSeq, piece by piece.
LEMMA Flat ==
  ASSUME NEW S, NEW s \in Seq(Seq(S))
  PROVE  \E o \in [0..Len(s) -> Seq(S)]:
           /\ o[0] = <<>>
           /\ \A k \in 1..Len(s): o[k] = o[k - 1] \o s[k]
           /\ FlattenSeq(s) = o[Len(s)]
<1> DEFINE n == Len(s)
           I == 1..n
           V == Seq(S)
           size == [i \in I |-> i]
           ends == {i \in I: i = 1}
           last == [i \in I |-> s[i]]
           next == [i \in I |-> IF i = 1 THEN 1 ELSE i - 1]
           step == [p \in I \X V |-> p[2] \o s[p[1]]]
           Is(f) == f = [i \in I |-> IF i = 1 THEN s[i] ELSE f[i - 1] \o s[i]]
           flatten == CHOOSE f : Is(f)
<1>1. n \in Nat /\ \A k \in I: s[k] \in V
  OBVIOUS
<1>2. <<>> \in V
  OBVIOUS
<1>3. CASE n = 0
  <2>1. s = <<>> /\ FlattenSeq(s) = s
    BY <1>3 DEF FlattenSeq
  <2> DEFINE o == [k \in 0..n |-> <<>>]
  <2>2. o \in [0..n -> V] /\ o[0] = <<>> /\ o[n] = <<>> /\ I = {}
    BY <1>2, <1>3
  <2> HIDE DEF o
  <2> QED
    BY <2>1, <2>2
<1>4. CASE n > 0
  <2>1. /\ V # {} /\ size \in [I -> Nat] /\ ends \in SUBSET I
        /\ last \in [I -> V] /\ next \in [I -> I]
    BY <1>1, <1>2
  <2>2. step \in [I \X V -> V]
    BY <1>1, ConcatProperties
  <2>3. Descends(I, ends, next, size)
    BY <1>1 DEF Descends
  <2>4. \E f \in [I -> V]: Is(f)
    <3> HIDE DEF I, V, size, ends, last, next, step
    <3>1. PICK f \in [I -> V]: Solves(f, I, ends, last, next, step)
      BY <2>1, <2>2, <2>3, RecursionExists
    <3>2. ASSUME NEW i \in I PROVE f[i] = IF i = 1 THEN s[i] ELSE f[i - 1] \o s[i]
      <4>1. f[i] = IF i \in ends THEN last[i] ELSE step[<<i, f[next[i]]>>]
        BY <3>1 DEF Solves
      <4>2. next[i] = (IF i = 1 THEN 1 ELSE i - 1) /\ next[i] \in I
        BY <2>1 DEF next
      <4>3. step[<<i, f[next[i]]>>] = f[next[i]] \o s[i]
        BY <4>2 DEF step
      <4>4. (i \in ends <=> i = 1) /\ last[i] = s[i]
        BY DEF ends, last
      <4> QED
        BY <4>1, <4>2, <4>3, <4>4
    <3>3. f = [i \in I |-> f[i]]
      OBVIOUS
    <3>4. Is(f)
      BY <3>2, <3>3
    <3> QED
      BY <3>4
  <2>5. Is(flatten)
    BY <2>4
  <2>6. FlattenSeq(s) = flatten[n]
    BY <1>4 DEF FlattenSeq
  <2> HIDE DEF flatten
  <2>7. \A i \in I: flatten[i] = IF i = 1 THEN s[i] ELSE flatten[i - 1] \o s[i]
    BY <2>5
  <2>8. \A k \in Nat: k \in I => flatten[k] \in V
    <3> DEFINE T == {k \in Nat: k \in I => flatten[k] \in V}
    <3>1. 0 \in T
      OBVIOUS
    <3>2. ASSUME NEW k \in T PROVE k + 1 \in T
      <4> SUFFICES ASSUME k + 1 \in I PROVE flatten[k + 1] \in V
        OBVIOUS
      <4>1. k + 1 # 1 => k \in I
        BY <1>1
      <4>2. k + 1 # 1 => flatten[k] \in V
        BY <4>1
      <4>3. flatten[k + 1] = IF k + 1 = 1 THEN s[k + 1] ELSE flatten[k] \o s[k + 1]
        BY <2>7
      <4>4. s[k + 1] \in V
        BY <1>1
      <4> QED
        BY <4>2, <4>3, <4>4, ConcatProperties
    <3>3. T \in SUBSET Nat
      OBVIOUS
    <3> HIDE DEF T
    <3>4. \A k \in Nat: k \in T
      BY <3>1, <3>2, <3>3, AllNumbers
    <3> QED
      BY <3>4 DEF T
  <2> DEFINE o == [k \in 0..n |-> IF k = 0 THEN <<>> ELSE flatten[k]]
  <2>9. o \in [0..n -> V]
    BY <1>1, <1>2, <2>8
  <2>10. o[0] = <<>> /\ o[n] = flatten[n]
    BY <1>1, <1>4
  <2>11. \A k \in I: o[k] = o[k - 1] \o s[k]
    <3> TAKE k \in I
    <3>1. o[k] = flatten[k] /\ o[k - 1] = IF k = 1 THEN <<>> ELSE flatten[k - 1]
      BY <1>1
    <3>2. <<>> \o s[k] = s[k]
      BY <1>1, ConcatEmptySeq
    <3> HIDE DEF o
    <3> QED
      BY <2>7, <3>1, <3>2
  <2> HIDE DEF o
  <2> QED
    BY <2>6, <2>9, <2>10, <2>11
<1>5. n = 0 \/ n > 0
  BY <1>1
<1> HIDE DEF I, V, size, ends, last, next, step, Is, flatten
<1> QED
  BY <1>3, <1>4, <1>5

\* The first k pieces, laid one after the other.
Laid(s, k) == FlattenSeq(SubSeq(s, 1, k))
Cut(s, k) == Len(Laid(s, k))

LEMMA LaidIs ==
  ASSUME NEW S, NEW s \in Seq(Seq(S))
  PROVE  /\ \A k \in 0..Len(s): Laid(s, k) \in Seq(S)
         /\ Laid(s, 0) = <<>>
         /\ Laid(s, Len(s)) = FlattenSeq(s)
         /\ \A k \in 1..Len(s): Laid(s, k) = Laid(s, k - 1) \o s[k]
<1> DEFINE n == Len(s)
<1>1. n \in Nat /\ SubSeq(s, 1, n) = s
  BY SubSeqFull
<1>2. PICK o \in [0..n -> Seq(S)]: o[0] = <<>> /\ \A k \in 1..n: o[k] = o[k - 1] \o s[k]
  BY Flat
<1>3. ASSUME NEW k \in 0..n PROVE Laid(s, k) = o[k]
  <2> DEFINE t == SubSeq(s, 1, k)
  <2>1. k \in Nat /\ k <= n
    BY <1>1
  <2>2. t \in Seq(Seq(S)) /\ Len(t) = k /\ \A j \in 1..k: t[j] = s[j]
    BY <1>1, <2>1, Slice
  <2> HIDE DEF t
  <2>3. PICK p \in [0..k -> Seq(S)]: /\ p[0] = <<>>
                                     /\ \A j \in 1..k: p[j] = p[j - 1] \o t[j]
                                     /\ FlattenSeq(t) = p[k]
    BY <2>2, Flat
  <2> DEFINE T == {j \in Nat: j \in 0..k => p[j] = o[j]}
  <2>4. 0 \in T
    BY <1>2, <2>3
  <2>5. ASSUME NEW j \in T PROVE j + 1 \in T
    <3> SUFFICES ASSUME j + 1 \in 0..k PROVE p[j + 1] = o[j + 1]
      OBVIOUS
    <3>1. j \in Nat /\ j \in 0..k /\ j + 1 \in 1..k /\ j + 1 \in 1..n /\ (j + 1) - 1 = j
      BY <1>1, <2>1
    <3>2. p[j] = o[j]
      BY <3>1
    <3> QED
      BY <1>2, <2>2, <2>3, <3>1, <3>2
  <2>6. T \in SUBSET Nat
    OBVIOUS
  <2> HIDE DEF T
  <2>7. k \in T
    BY <2>1, <2>4, <2>5, <2>6, AllNumbers
  <2>8. p[k] = o[k]
    BY <2>1, <2>7 DEF T
  <2> QED
    BY <2>3, <2>8 DEF t, Laid
<1>4. 0 \in 0..n /\ n \in 0..n /\ \A k \in 1..n: k \in 0..n /\ k - 1 \in 0..n
  BY <1>1
<1> HIDE DEF n
<1> QED
  BY <1>1, <1>2, <1>3, <1>4 DEF Laid, n

LEMMA Cuts ==
  ASSUME NEW S, NEW s \in Seq(Seq(S))
  PROVE  /\ \A k \in 0..Len(s): Cut(s, k) \in Nat
         /\ Cut(s, 0) = 0
         /\ Cut(s, Len(s)) = Len(FlattenSeq(s))
         /\ FlattenSeq(s) \in Seq(S)
         /\ \A k \in 1..Len(s): Cut(s, k) = Cut(s, k - 1) + Len(s[k])
         /\ \A k, j \in 0..Len(s): k <= j => Cut(s, k) <= Cut(s, j)
         /\ \A k \in 1..Len(s): \A j \in 1..Len(s[k]):
              FlattenSeq(s)[Cut(s, k - 1) + j] = s[k][j]
<1> DEFINE n == Len(s)
<1>1. n \in Nat /\ \A k \in 1..n: s[k] \in Seq(S) /\ Len(s[k]) \in Nat
  OBVIOUS
<1>13. /\ \A k \in 0..n: Laid(s, k) \in Seq(S)
      /\ Laid(s, 0) = <<>>
      /\ Laid(s, n) = FlattenSeq(s)
      /\ \A k \in 1..n: Laid(s, k) = Laid(s, k - 1) \o s[k]
  BY LaidIs
<1>2. \A k \in 0..n: Laid(s, k) \in Seq(S) /\ Cut(s, k) \in Nat
  <2> TAKE k \in 0..n
  <2>1. Laid(s, k) \in Seq(S)
    BY <1>13
  <2> HIDE DEF n
  <2> QED
    BY <2>1, LenProperties DEF Cut
<1>3. Cut(s, 0) = 0 /\ Cut(s, n) = Len(FlattenSeq(s)) /\ FlattenSeq(s) \in Seq(S)
  <2>1. Laid(s, 0) = <<>> /\ Laid(s, n) = FlattenSeq(s) /\ Laid(s, n) \in Seq(S)
    BY <1>1, <1>13
  <2>2. Len(<<>>) = 0
    OBVIOUS
  <2> QED
    BY <2>1, <2>2 DEF Cut
<1>4. ASSUME NEW k \in 1..n
      PROVE  /\ Cut(s, k) = Cut(s, k - 1) + Len(s[k])
             /\ \A i \in 1..Cut(s, k - 1): Laid(s, k)[i] = Laid(s, k - 1)[i]
             /\ \A j \in 1..Len(s[k]): Laid(s, k)[Cut(s, k - 1) + j] = s[k][j]
  <2> DEFINE u == Laid(s, k - 1)
             v == s[k]
  <2>1. k \in 0..n /\ k - 1 \in 0..n
    BY <1>1
  <2>2. u \in Seq(S) /\ v \in Seq(S) /\ Len(u) \in Nat /\ Len(v) \in Nat
    BY <1>1, <1>2, <2>1
  <2>3. Laid(s, k) = u \o v
    BY <1>13
  <2> HIDE DEF u, v
  <2>4. /\ Len(u \o v) = Len(u) + Len(v)
        /\ \A i \in 1..(Len(u) + Len(v)):
             (u \o v)[i] = IF i <= Len(u) THEN u[i] ELSE v[i - Len(u)]
    BY <2>2, ConcatProperties
  <2>5. \A i \in 1..Len(u): (u \o v)[i] = u[i]
    BY <2>2, <2>4
  <2>6. \A j \in 1..Len(v): (u \o v)[Len(u) + j] = v[j]
    <3> TAKE j \in 1..Len(v)
    <3>1. Len(u) + j \in 1..(Len(u) + Len(v)) /\ ~(Len(u) + j <= Len(u)) /\ Len(u) + j - Len(u) = j
      BY <2>2
    <3> QED
      BY <2>4, <3>1
  <2> QED
    BY <2>3, <2>4, <2>5, <2>6 DEF Cut, u, v
<1> DEFINE Lies(m) ==
             /\ \A k \in 0..m: Cut(s, k) <= Cut(s, m)
             /\ \A k \in 1..m: \A j \in 1..Len(s[k]): Laid(s, m)[Cut(s, k - 1) + j] = s[k][j]
           T == {m \in Nat: m \in 0..n => Lies(m)}
<1>5. 0 \in T
  BY <1>3
<1>6. ASSUME NEW m \in T PROVE m + 1 \in T
  <2> HIDE DEF Lies
  <2> SUFFICES ASSUME m + 1 \in 0..n PROVE Lies(m + 1)
    OBVIOUS
  <2>1. m \in Nat /\ m \in 0..n /\ m + 1 \in 1..n /\ (m + 1) - 1 = m
    BY <1>1
  <2>2. /\ \A k \in 0..m: Cut(s, k) <= Cut(s, m)
        /\ \A k \in 1..m: \A j \in 1..Len(s[k]): Laid(s, m)[Cut(s, k - 1) + j] = s[k][j]
    BY <2>1 DEF Lies
  <2> HIDE DEF T, n
  <2>3. /\ Cut(s, m + 1) = Cut(s, m) + Len(s[m + 1])
        /\ \A i \in 1..Cut(s, m): Laid(s, m + 1)[i] = Laid(s, m)[i]
        /\ \A j \in 1..Len(s[m + 1]): Laid(s, m + 1)[Cut(s, m) + j] = s[m + 1][j]
    BY <1>4, <2>1
  <2>4. Cut(s, m) \in Nat /\ Cut(s, m + 1) \in Nat /\ Len(s[m + 1]) \in Nat
    BY <1>1, <1>2, <2>1
  <2>5. ASSUME NEW k \in 0..(m + 1) PROVE Cut(s, k) <= Cut(s, m + 1)
    <3>1. k \in 0..m \/ k = m + 1
      BY <2>1
    <3>2. k \in 0..m => Cut(s, k) \in Nat /\ Cut(s, k) <= Cut(s, m)
      BY <1>1, <1>2, <2>1, <2>2
    <3> QED
      BY <2>3, <2>4, <3>1, <3>2
  <2>6. ASSUME NEW k \in 1..(m + 1), NEW j \in 1..Len(s[k])
        PROVE  Laid(s, m + 1)[Cut(s, k - 1) + j] = s[k][j]
    <3>1. CASE k = m + 1
      BY <2>1, <2>3, <3>1
    <3>2. CASE k \in 1..m
      <4>1. k \in 1..n /\ k \in 0..n /\ k - 1 \in 0..n /\ k \in 0..m
        BY <1>1, <2>1, <3>2
      <4>2. Cut(s, k) = Cut(s, k - 1) + Len(s[k]) /\ Cut(s, k) <= Cut(s, m)
        BY <1>4, <2>2, <4>1
      <4>3. Cut(s, k) \in Nat /\ Cut(s, k - 1) \in Nat /\ Len(s[k]) \in Nat
        BY <1>1, <1>2, <4>1
      <4>4. Cut(s, k - 1) + j \in 1..Cut(s, m)
        <5> DEFINE a == Cut(s, k - 1)
                   l == Len(s[k])
        <5>1. a \in Nat /\ l \in Nat /\ a + l <= Cut(s, m) /\ j \in 1..l
          BY <4>2, <4>3
        <5> HIDE DEF a, l
        <5>2. a + j \in 1..Cut(s, m)
          BY <2>4, <5>1
        <5> QED
          BY <5>2 DEF a
      <4>5. Laid(s, m + 1)[Cut(s, k - 1) + j] = Laid(s, m)[Cut(s, k - 1) + j]
        BY <2>3, <4>4
      <4> QED
        BY <2>2, <3>2, <4>5
    <3>3. k = m + 1 \/ k \in 1..m
      BY <2>1
    <3> QED
      BY <3>1, <3>2, <3>3
  <2> QED
    BY <2>5, <2>6 DEF Lies
<1>7. T \in SUBSET Nat
  OBVIOUS
<1> HIDE DEF T
<1>8. \A m \in Nat: m \in T
  BY <1>5, <1>6, <1>7, AllNumbers
<1>9. \A m \in 0..n: /\ \A k \in 0..m: Cut(s, k) <= Cut(s, m)
                     /\ \A k \in 1..m: \A j \in 1..Len(s[k]):
                          Laid(s, m)[Cut(s, k - 1) + j] = s[k][j]
  <2> TAKE m \in 0..n
  <2>1. m \in Nat
    BY <1>1
  <2>2. m \in T
    BY <1>8, <2>1
  <2> QED
    BY <2>2 DEF T
<1>10. \A k, j \in 0..n: k <= j => Cut(s, k) <= Cut(s, j)
  <2> TAKE k, j \in 0..n
  <2>1. k <= j => k \in 0..j
    BY <1>1
  <2> QED
    BY <1>9, <2>1
<1>11. \A k \in 1..n: \A j \in 1..Len(s[k]): FlattenSeq(s)[Cut(s, k - 1) + j] = s[k][j]
  <2>1. n \in 0..n /\ Laid(s, n) = FlattenSeq(s)
    BY <1>1, <1>13
  <2> QED
    BY <1>9, <2>1
<1> QED
  BY <1>2, <1>3, <1>4, <1>10, <1>11
-----------------------------------------------------------------------------
(***************************************************************************)
(* A frame at the front of some bytes is found when all of it is there,    *)
(* and not before: nothing that follows makes it longer or shorter.        *)
(***************************************************************************)
\* m is where the first terminator of b starts.
FirstEnd(b, m) == TerminatorAt(b, m) > 0 /\ \A i \in 1..(m - 1): TerminatorAt(b, i) = 0

LEMMA FirstEndOf ==
  ASSUME NEW b \in Seq(STRING), NEW m \in 1..Len(b), FirstEnd(b, m)
  PROVE  NextFrame(b) = m - 1 + TerminatorAt(b, m)
<1> DEFINE ends == {i \in DOMAIN b: TerminatorAt(b, i) > 0}
<1>1. Len(b) \in Nat /\ ends \in SUBSET Nat /\ ends \subseteq 1..Len(b) /\ m \in ends
  BY DEF FirstEnd
<1>2. Min(ends) \in ends /\ \A y \in ends: Min(ends) <= y
  BY <1>1, MinOf
<1>3. Min(ends) <= m /\ Min(ends) \in 1..Len(b) /\ TerminatorAt(b, Min(ends)) > 0
  BY <1>1, <1>2
<1>4. NextFrame(b) = Min(ends) - 1 + TerminatorAt(b, Min(ends))
  BY <1>1 DEF NextFrame
<1> HIDE DEF ends
<1>5. Min(ends) = m
  <2> SUFFICES ASSUME Min(ends) < m PROVE FALSE
    BY <1>1, <1>3
  <2>1. Min(ends) \in 1..(m - 1)
    BY <1>1, <1>3
  <2>2. TerminatorAt(b, Min(ends)) = 0
    BY <2>1 DEF FirstEnd
  <2> QED
    BY <1>3, <2>2
<1> QED
  BY <1>4, <1>5

LEMMA FirstEndExists ==
  ASSUME NEW b \in Seq(STRING), NextFrame(b) # 0
  PROVE  \E m \in 1..Len(b): FirstEnd(b, m)
<1> DEFINE ends == {i \in 1..Len(b): TerminatorAt(b, i) > 0}
<1>1. Len(b) \in Nat /\ ends \in SUBSET Nat
  OBVIOUS
<1>2. PICK k \in 1..Len(b): TerminatorAt(b, k) # 0
  BY FrameLength
<1>3. TerminatorAt(b, k) > 0
  BY <1>2, EndIs
<1>4. k \in ends
  BY <1>2, <1>3
<1>5. PICK m \in ends: \A y \in ends: m <= y
  BY <1>1, <1>4, SmallestExists
<1>6. m \in 1..Len(b) /\ TerminatorAt(b, m) > 0
  BY <1>5
<1>7. ASSUME NEW i \in 1..(m - 1) PROVE TerminatorAt(b, i) = 0
  <2>1. i \in 1..Len(b) /\ ~(m <= i)
    BY <1>1, <1>6
  <2>2. i \notin ends
    BY <1>5, <2>1
  <2>3. ~(TerminatorAt(b, i) > 0)
    BY <2>1, <2>2
  <2>4. TerminatorAt(b, i) \in {0, 2, 4}
    BY <2>1, EndIs
  <2> QED
    BY <2>3, <2>4
<1> HIDE DEF ends
<1>8. FirstEnd(b, m)
  BY <1>6, <1>7 DEF FirstEnd
<1> QED
  BY <1>6, <1>8

IsFrame(f) == f \in Seq(STRING) /\ f # <<>> /\ NextFrame(f) = Len(f)

\* Two and four are the only lengths of a terminator, and they do not overlap.
LEMMA FrameEnds ==
  ASSUME NEW f, IsFrame(f)
  PROVE  /\ Len(f) \in Nat \ {0}
         /\ \E m \in 1..Len(f):
              /\ \A i \in 1..(m - 1): TerminatorAt(f, i) = 0
              /\ \/ /\ TerminatorAt(f, m) = 2 /\ Len(f) = m + 1
                    /\ f[m] = LF /\ f[m + 1] = LF
                 \/ /\ TerminatorAt(f, m) = 4 /\ Len(f) = m + 3
                    /\ f[m] = CR /\ f[m + 1] = LF /\ f[m + 2] = CR /\ f[m + 3] = LF
<1> USE DEF IsFrame
<1>1. f \in Seq(STRING) /\ Len(f) \in Nat \ {0}
  BY EmptySeq
<1>2. PICK m \in 1..Len(f): FirstEnd(f, m)
  BY <1>1, FirstEndExists
<1>3. Len(f) = m - 1 + TerminatorAt(f, m) /\ TerminatorAt(f, m) > 0
  BY <1>1, <1>2, FirstEndOf DEF FirstEnd
<1>4. /\ TerminatorAt(f, m) \in {0, 2, 4}
      /\ TerminatorAt(f, m) = 2 => f[m] = LF /\ f[m + 1] = LF
      /\ TerminatorAt(f, m) = 4 => f[m] = CR /\ f[m + 1] = LF /\ f[m + 2] = CR /\ f[m + 3] = LF
  BY <1>1, EndIs
<1>5. \A i \in 1..(m - 1): TerminatorAt(f, i) = 0
  BY <1>2 DEF FirstEnd
<1>6. \/ TerminatorAt(f, m) = 2 /\ Len(f) = m + 1
      \/ TerminatorAt(f, m) = 4 /\ Len(f) = m + 3
  BY <1>1, <1>3, <1>4
<1> QED
  BY <1>1, <1>4, <1>5, <1>6

LEMMA FrameFirst ==
  ASSUME NEW f, IsFrame(f), NEW b \in Seq(STRING), Len(f) <= Len(b),
         \A j \in 1..Len(f): b[j] = f[j]
  PROVE  NextFrame(b) = Len(f)
<1>1. Len(b) \in Nat /\ Len(f) \in Nat \ {0} /\ f \in Seq(STRING) /\ CR # LF
  BY FrameEnds DEF IsFrame, CR, LF
<1>2. PICK m \in 1..Len(f):
        /\ \A i \in 1..(m - 1): TerminatorAt(f, i) = 0
        /\ \/ /\ TerminatorAt(f, m) = 2 /\ Len(f) = m + 1
              /\ f[m] = LF /\ f[m + 1] = LF
           \/ /\ TerminatorAt(f, m) = 4 /\ Len(f) = m + 3
              /\ f[m] = CR /\ f[m + 1] = LF /\ f[m + 2] = CR /\ f[m + 3] = LF
  BY FrameEnds
<1>3. m \in 1..Len(b) /\ m \in Nat
  BY <1>1
<1>4. TerminatorAt(b, m) = TerminatorAt(f, m)
  <2>1. CASE TerminatorAt(f, m) = 2
    <3>1. b[m] = LF /\ b[m + 1] = LF /\ m + 1 <= Len(b)
      <4>1. Len(f) = m + 1 /\ f[m] = LF /\ f[m + 1] = LF
        BY <1>2, <2>1
      <4>2. m \in 1..Len(f) /\ m + 1 \in 1..Len(f)
        BY <1>1, <4>1
      <4> QED
        BY <1>1, <4>1, <4>2
    <3> QED
      BY <1>3, <2>1, <3>1, EndIs
  <2>2. CASE TerminatorAt(f, m) = 4
    <3>1. Len(f) = m + 3 /\ f[m] = CR /\ f[m + 1] = LF /\ f[m + 2] = CR /\ f[m + 3] = LF
      BY <1>2, <2>2
    <3>2. m \in 1..Len(f) /\ m + 1 \in 1..Len(f) /\ m + 2 \in 1..Len(f) /\ m + 3 \in 1..Len(f)
      BY <1>1, <3>1
    <3>3. b[m] = CR /\ b[m + 1] = LF /\ b[m + 2] = CR /\ b[m + 3] = LF /\ m + 3 <= Len(b)
      BY <1>1, <3>1, <3>2
    <3> QED
      BY <1>3, <2>2, <3>3, EndIs
  <2> QED
    BY <1>2, <2>1, <2>2
<1>5. ASSUME NEW i \in 1..(m - 1) PROVE TerminatorAt(b, i) = 0
  <2>1. i \in 1..Len(b) /\ i \in 1..Len(f) /\ i \in Nat /\ i < m
    BY <1>1, <1>3
  <2>2. TerminatorAt(f, i) = 0
    BY <1>2
  <2>3. TerminatorAt(b, i) # 2
    <3> SUFFICES ASSUME TerminatorAt(b, i) = 2 PROVE FALSE
      OBVIOUS
    <3>1. b[i] = LF /\ b[i + 1] = LF
      BY <2>1, EndIs
    <3>2. i + 1 \in 1..Len(f)
      BY <1>1, <2>1
    <3>3. f[i] = LF /\ f[i + 1] = LF
      BY <2>1, <3>1, <3>2
    <3>4. i + 1 <= Len(f)
      BY <3>2
    <3>5. TerminatorAt(f, i) = 2
      BY <1>1, <2>1, <3>3, <3>4, EndIs
    <3> QED
      BY <2>2, <3>5
  <2>4. TerminatorAt(b, i) # 4
    <3> SUFFICES ASSUME TerminatorAt(b, i) = 4 PROVE FALSE
      OBVIOUS
    <3>1. b[i] = CR /\ b[i + 1] = LF /\ b[i + 2] = CR /\ b[i + 3] = LF
      BY <2>1, EndIs
    <3>2. CASE i + 3 <= Len(f)
      <4>1. i + 1 \in 1..Len(f) /\ i + 2 \in 1..Len(f) /\ i + 3 \in 1..Len(f)
        BY <1>1, <2>1, <3>2
      <4>2. f[i] = CR /\ f[i + 1] = LF /\ f[i + 2] = CR /\ f[i + 3] = LF
        BY <2>1, <3>1, <4>1
      <4>3. TerminatorAt(f, i) = 4
        BY <1>1, <2>1, <3>2, <4>2, EndIs
      <4> QED
        BY <2>2, <4>3
    <3>3. CASE ~(i + 3 <= Len(f))
      <4>1. Len(f) = m + 1 /\ f[m + 1] = LF /\ i + 2 = m + 1
        <5>1. Len(f) # m + 3
          BY <1>1, <2>1, <3>3
        <5>2. Len(f) = m + 1 /\ f[m + 1] = LF
          BY <1>2, <5>1
        <5> QED
          BY <1>1, <1>3, <2>1, <3>3, <5>2
      <4>2. m + 1 \in 1..Len(f)
        BY <1>1, <1>3, <4>1
      <4>3. b[m + 1] = LF
        BY <4>1, <4>2
      <4> QED
        BY <1>1, <3>1, <4>1, <4>3
    <3> QED
      BY <3>2, <3>3
  <2>5. TerminatorAt(b, i) \in {0, 2, 4}
    BY <2>1, EndIs
  <2> QED
    BY <2>3, <2>4, <2>5
<1>6. FirstEnd(b, m)
  <2>1. TerminatorAt(b, m) > 0
    BY <1>2, <1>4
  <2> QED
    BY <1>5, <2>1 DEF FirstEnd
<1>7. NextFrame(b) = m - 1 + TerminatorAt(b, m)
  BY <1>3, <1>6, FirstEndOf
<1> QED
  BY <1>1, <1>2, <1>3, <1>4, <1>7

LEMMA NoFrameYet ==
  ASSUME NEW f, IsFrame(f), NEW b \in Seq(STRING), Len(b) < Len(f),
         \A j \in 1..Len(b): b[j] = f[j]
  PROVE  NextFrame(b) = 0
<1>1. Len(b) \in Nat /\ Len(f) \in Nat \ {0} /\ f \in Seq(STRING) /\ CR # LF
  BY FrameEnds DEF IsFrame, CR, LF
<1>2. PICK m \in 1..Len(f):
        /\ \A i \in 1..(m - 1): TerminatorAt(f, i) = 0
        /\ \/ /\ TerminatorAt(f, m) = 2 /\ Len(f) = m + 1
              /\ f[m] = LF /\ f[m + 1] = LF
           \/ /\ TerminatorAt(f, m) = 4 /\ Len(f) = m + 3
              /\ f[m] = CR /\ f[m + 1] = LF /\ f[m + 2] = CR /\ f[m + 3] = LF
  BY FrameEnds
<1>3. m \in Nat
  BY <1>1
<1>4. ASSUME NEW i \in 1..Len(b) PROVE TerminatorAt(b, i) = 0
  <2>1. i \in 1..Len(f) /\ i \in Nat
    BY <1>1
  <2>2. TerminatorAt(b, i) # 2
    <3> SUFFICES ASSUME TerminatorAt(b, i) = 2 PROVE FALSE
      OBVIOUS
    <3>1. b[i] = LF /\ b[i + 1] = LF /\ i + 1 <= Len(b)
      BY EndIs
    <3>2. i + 1 \in 1..Len(b) /\ i + 1 <= Len(f) /\ i + 1 < Len(f)
      BY <1>1, <2>1, <3>1
    <3>3. f[i] = LF /\ f[i + 1] = LF
      BY <3>1, <3>2
    <3>4. TerminatorAt(f, i) = 2
      BY <1>1, <2>1, <3>2, <3>3, EndIs
    <3>5. ~(i \in 1..(m - 1))
      BY <1>2, <3>4
    <3>6. i >= m
      BY <1>3, <2>1, <3>5
    <3>7. Len(f) = m + 3 /\ f[m] = CR /\ f[m + 2] = CR
      <4>1. Len(f) # m + 1
        BY <1>1, <1>3, <2>1, <3>2, <3>6
      <4> QED
        BY <1>2, <4>1
    <3>8. i = m \/ i + 1 = m + 2
      BY <1>1, <1>3, <2>1, <3>2, <3>6, <3>7
    <3> QED
      BY <1>1, <3>3, <3>7, <3>8
  <2>3. TerminatorAt(b, i) # 4
    <3> SUFFICES ASSUME TerminatorAt(b, i) = 4 PROVE FALSE
      OBVIOUS
    <3>1. b[i] = CR /\ b[i + 1] = LF /\ b[i + 2] = CR /\ b[i + 3] = LF /\ i + 3 <= Len(b)
      BY EndIs
    <3>2. /\ i + 1 \in 1..Len(b) /\ i + 2 \in 1..Len(b) /\ i + 3 \in 1..Len(b)
          /\ i + 3 <= Len(f) /\ i + 3 < Len(f)
      BY <1>1, <2>1, <3>1
    <3>3. f[i] = CR /\ f[i + 1] = LF /\ f[i + 2] = CR /\ f[i + 3] = LF
      BY <3>1, <3>2
    <3>4. TerminatorAt(f, i) = 4
      BY <1>1, <2>1, <3>2, <3>3, EndIs
    <3>5. ~(i \in 1..(m - 1))
      BY <1>2, <3>4
    <3> QED
      BY <1>1, <1>2, <1>3, <2>1, <3>2, <3>5
  <2>4. TerminatorAt(b, i) \in {0, 2, 4}
    BY EndIs
  <2> QED
    BY <2>2, <2>3, <2>4
<1> QED
  BY <1>4, FrameLength
-----------------------------------------------------------------------------
(***************************************************************************)
(* What the loop of feed takes out of the bytes that follow a frame        *)
(***************************************************************************)
\* How many of the pieces are among the first a bytes.
Complete(s, a) ==
  Max({0} \cup {k \in DOMAIN s: Len(FlattenSeq(SubSeq(s, 1, k))) <= a})

LEMMA CompleteIs ==
  ASSUME NEW S, NEW s \in Seq(Seq(S)), NEW a \in 0..Len(FlattenSeq(s))
  PROVE  /\ Complete(s, a) \in 0..Len(s)
         /\ Cut(s, Complete(s, a)) <= a
         /\ \A k \in 0..Len(s): Cut(s, k) <= a => k <= Complete(s, a)
         /\ Complete(s, a) < Len(s) => a < Cut(s, Complete(s, a) + 1)
         /\ Complete(s, a) = Len(s) => a = Len(FlattenSeq(s))
<1> DEFINE n == Len(s)
           C == {0} \cup {k \in DOMAIN s: Len(FlattenSeq(SubSeq(s, 1, k))) <= a}
<1>1. n \in Nat /\ DOMAIN s = 1..n
  OBVIOUS
<1>2. /\ \A k \in 0..n: Cut(s, k) \in Nat
      /\ Cut(s, 0) = 0
      /\ Cut(s, n) = Len(FlattenSeq(s))
      /\ FlattenSeq(s) \in Seq(S)
  BY Cuts
<1>3. Len(FlattenSeq(s)) \in Nat /\ a \in Nat /\ a <= Len(FlattenSeq(s))
  BY <1>2
<1>4. \A k \in 1..n: Len(FlattenSeq(SubSeq(s, 1, k))) = Cut(s, k)
  BY DEF Cut, Laid
<1>5. C = {k \in 0..n: Cut(s, k) <= a}
  <2>1. \A k \in 0..n: k = 0 \/ k \in 1..n
    BY <1>1
  <2>2. 0 \in 0..n /\ \A k \in 1..n: k \in 0..n
    BY <1>1
  <2>3. 0 <= a
    BY <1>3
  <2> QED
    BY <1>1, <1>2, <1>4, <2>1, <2>2, <2>3
<1> HIDE DEF C
<1>6. C \in SUBSET (0..n) /\ C # {}
  BY <1>1, <1>2, <1>3, <1>5
<1>7. Max(C) \in C /\ \A y \in C: y <= Max(C)
  BY <1>1, <1>6, MaxOf
<1>8. Complete(s, a) = Max(C)
  BY DEF Complete, C
<1>9. Max(C) \in 0..n /\ Cut(s, Max(C)) <= a /\ \A k \in 0..n: Cut(s, k) <= a => k <= Max(C)
  BY <1>5, <1>7
<1>10. Max(C) < n => a < Cut(s, Max(C) + 1)
  <2> SUFFICES ASSUME Max(C) < n PROVE a < Cut(s, Max(C) + 1)
    OBVIOUS
  <2>1. Max(C) + 1 \in 0..n /\ ~(Max(C) + 1 <= Max(C))
    BY <1>1, <1>9
  <2>2. ~(Cut(s, Max(C) + 1) <= a) /\ Cut(s, Max(C) + 1) \in Nat
    BY <1>2, <1>9, <2>1
  <2> QED
    BY <1>3, <2>2
<1>11. Max(C) = n => a = Len(FlattenSeq(s))
  BY <1>2, <1>3, <1>9
<1> QED
  BY <1>8, <1>9, <1>10, <1>11

(***************************************************************************)
(* However a stream was cut into chunks: what SseParser::feed takes from   *)
(* the bytes between the start of a frame and any later place is the       *)
(* frames that lie there in full, and what it keeps is the rest.           *)
(***************************************************************************)
THEOREM FramesTakenWhole ==
  ASSUME NEW s \in Seq(Seq(STRING)), \A k \in 1..Len(s): IsFrame(s[k]),
         NEW a \in 0..Len(FlattenSeq(s)), NEW k \in 0..Complete(s, a)
  PROVE  Drained[SubSeq(FlattenSeq(s), Cut(s, k) + 1, a)] =
           [frames |-> SubSeq(s, k + 1, Complete(s, a)),
            rest |-> SubSeq(FlattenSeq(s), Cut(s, Complete(s, a)) + 1, a)]
<1> DEFINE B == FlattenSeq(s)
           n == Len(s)
           m == Complete(s, a)
           c(j) == Cut(s, j)
           After(j) == SubSeq(B, c(j) + 1, a)
           Holds(j) == Drained[After(j)] = [frames |-> SubSeq(s, j + 1, m), rest |-> After(m)]
<1>1. n \in Nat /\ \A j \in 1..n: s[j] \in Seq(STRING) /\ Len(s[j]) \in Nat /\ IsFrame(s[j])
  OBVIOUS
<1>2. /\ \A j \in 0..n: c(j) \in Nat
      /\ c(n) = Len(B)
      /\ B \in Seq(STRING)
      /\ \A j \in 1..n: c(j) = c(j - 1) + Len(s[j])
      /\ \A i, j \in 0..n: i <= j => c(i) <= c(j)
      /\ \A j \in 1..n: \A i \in 1..Len(s[j]): B[c(j - 1) + i] = s[j][i]
  BY Cuts
<1>3. Len(B) \in Nat /\ a \in Nat /\ a <= Len(B)
  BY <1>2
<1>4. /\ m \in 0..n /\ c(m) <= a
      /\ m < n => a < c(m + 1)
      /\ m = n => a = Len(B)
  BY CompleteIs
<1> HIDE DEF B, n, m, c
<1>5. ASSUME NEW j \in 0..m
      PROVE  /\ j \in 0..n /\ c(j) \in Nat /\ c(j) <= a
             /\ After(j) \in Seq(STRING)
             /\ Len(After(j)) = a - c(j)
             /\ \A i \in 1..(a - c(j)): After(j)[i] = B[c(j) + i]
  <2>1. j \in 0..n /\ j <= m
    BY <1>1, <1>4
  <2>2. c(j) \in Nat /\ c(m) \in Nat /\ c(j) <= c(m)
    BY <1>2, <1>4, <2>1
  <2>3. c(j) <= a
    BY <1>3, <1>4, <2>2
  <2>4. c(j) + 1 \in 1..(Len(B) + 1) /\ a \in ((c(j) + 1) - 1)..Len(B)
    BY <1>3, <2>2, <2>3
  <2>5. /\ After(j) \in Seq(STRING)
        /\ Len(After(j)) = a - (c(j) + 1) + 1
        /\ \A i \in 1..(a - (c(j) + 1) + 1): After(j)[i] = B[(c(j) + 1) + i - 1]
    <3> DEFINE p == c(j) + 1
    <3>1. B \in Seq(STRING) /\ p \in 1..(Len(B) + 1) /\ a \in (p - 1)..Len(B)
      BY <1>2, <2>4
    <3>2. After(j) = SubSeq(B, p, a)
      OBVIOUS
    <3> HIDE DEF p, After
    <3>3. /\ After(j) \in Seq(STRING)
          /\ Len(After(j)) = a - p + 1
          /\ \A i \in 1..(a - p + 1): After(j)[i] = B[p + i - 1]
      BY <3>1, <3>2, Slice
    <3> QED
      BY <3>3 DEF p
  <2>6. a - (c(j) + 1) + 1 = a - c(j)
    BY <1>3, <2>2
  <2>7. \A i \in 1..(a - c(j)): (c(j) + 1) + i - 1 = c(j) + i
    BY <1>3, <2>2
  <2> HIDE DEF After
  <2> QED
    BY <2>1, <2>2, <2>3, <2>5, <2>6, <2>7
<1>6. Holds(m)
  <2>1. m \in 0..m /\ m \in Nat /\ m + 1 > m
    BY <1>1, <1>4
  <2>2. After(m) \in Seq(STRING) /\ Len(After(m)) = a - c(m) /\ c(m) \in Nat
        /\ \A i \in 1..(a - c(m)): After(m)[i] = B[c(m) + i]
    BY <1>5, <2>1
  <2> HIDE DEF After
  <2>3. NextFrame(After(m)) = 0
    <3>1. CASE m = n
      <4>1. Len(After(m)) = 0
        BY <1>2, <1>3, <1>4, <2>2, <3>1
      <4>2. NextFrame(After(m)) \in 0..Len(After(m))
        BY <2>2, FrameLength
      <4> QED
        BY <4>1, <4>2
    <3>2. CASE m < n
      <4>1. m + 1 \in 1..n /\ (m + 1) - 1 = m
        BY <1>1, <1>4, <3>2
      <4> DEFINE f == s[m + 1]
      <4>2. /\ c(m + 1) = c(m) + Len(f) /\ a < c(m + 1) /\ IsFrame(f) /\ Len(f) \in Nat
            /\ \A i \in 1..Len(f): B[c(m) + i] = f[i]
        BY <1>1, <1>2, <1>4, <3>2, <4>1
      <4> HIDE DEF f
      <4>3. Len(After(m)) < Len(f) /\ Len(After(m)) \in Nat
        BY <1>3, <1>4, <2>2, <4>2
      <4>4. \A i \in 1..Len(After(m)): After(m)[i] = f[i]
        <5> TAKE i \in 1..Len(After(m))
        <5>1. i \in 1..Len(f)
          BY <4>2, <4>3
        <5> QED
          BY <2>2, <4>2, <5>1
      <4> QED
        BY <2>2, <4>2, <4>3, <4>4, NoFrameYet
    <3> QED
      BY <1>1, <1>4, <3>1, <3>2
  <2>4. SubSeq(s, m + 1, m) = <<>>
    BY <2>1, SubSeqEmpty
  <2> QED
    BY <2>2, <2>3, <2>4, DrainedIs
<1>7. ASSUME NEW j \in 1..m, Holds(j) PROVE Holds(j - 1)
  <2>1. j \in 1..n /\ j - 1 \in 0..m /\ j \in 0..m /\ j \in Nat /\ (j - 1) + 1 = j
    BY <1>1, <1>4
  <2> DEFINE f == s[j]
             b == After(j - 1)
             rest == SubSeq(b, Len(f) + 1, Len(b))
  <2>2. /\ c(j) = c(j - 1) + Len(f) /\ IsFrame(f) /\ Len(f) \in Nat /\ f \in Seq(STRING)
        /\ \A i \in 1..Len(f): B[c(j - 1) + i] = f[i]
    BY <1>1, <1>2, <2>1
  <2>3. /\ c(j - 1) \in Nat /\ b \in Seq(STRING) /\ Len(b) = a - c(j - 1)
        /\ \A i \in 1..(a - c(j - 1)): b[i] = B[c(j - 1) + i]
    BY <1>5, <2>1
  <2>4. /\ c(j) \in Nat /\ c(j) <= a /\ After(j) \in Seq(STRING)
        /\ Len(After(j)) = a - c(j)
        /\ \A i \in 1..(a - c(j)): After(j)[i] = B[c(j) + i]
    BY <1>5, <2>1
  <2> HIDE DEF After, f, b
  <2>5. Len(f) <= Len(b) /\ Len(b) \in Nat /\ Len(b) - Len(f) = a - c(j)
    BY <1>3, <2>2, <2>3, <2>4
  <2>6. \A i \in 1..Len(f): b[i] = f[i]
    <3> TAKE i \in 1..Len(f)
    <3>1. i \in 1..(a - c(j - 1))
      BY <2>2, <2>3, <2>5
    <3> QED
      BY <2>2, <2>3, <3>1
  <2>7. NextFrame(b) = Len(f) /\ Len(f) # 0
    BY <2>2, <2>3, <2>5, <2>6, FrameFirst, FrameEnds
  <2>8. SubSeq(b, 1, Len(f)) = f
    <3> DEFINE u == SubSeq(b, 1, Len(f))
    <3>1. 1 \in 1..(Len(b) + 1) /\ Len(f) \in (1 - 1)..Len(b)
      BY <2>2, <2>5
    <3>2. /\ u \in Seq(STRING) /\ Len(u) = Len(f) - 1 + 1
          /\ \A i \in 1..(Len(f) - 1 + 1): u[i] = b[1 + i - 1]
      BY <2>3, <3>1, Slice
    <3> HIDE DEF u
    <3>3. Len(u) = Len(f) /\ \A i \in 1..Len(u): u[i] = f[i]
      BY <2>2, <2>6, <3>2
    <3>4. u = f
      BY <2>2, <3>2, <3>3, SeqEqual
    <3> QED
      BY <3>4 DEF u
  <2>9. rest = After(j)
    <3>1. Len(f) + 1 \in 1..(Len(b) + 1) /\ Len(b) \in ((Len(f) + 1) - 1)..Len(b)
      BY <2>2, <2>5
    <3>2. /\ rest \in Seq(STRING) /\ Len(rest) = Len(b) - (Len(f) + 1) + 1
          /\ \A i \in 1..(Len(b) - (Len(f) + 1) + 1): rest[i] = b[(Len(f) + 1) + i - 1]
      BY <2>3, <3>1, Slice
    <3> HIDE DEF rest
    <3>3. Len(rest) = a - c(j) /\ Len(b) - (Len(f) + 1) + 1 = a - c(j)
      BY <2>2, <2>5, <3>2
    <3>4. \A i \in 1..(a - c(j)): rest[i] = After(j)[i]
      <4> TAKE i \in 1..(a - c(j))
      <4>1. (Len(f) + 1) + i - 1 \in 1..(a - c(j - 1))
            /\ c(j - 1) + ((Len(f) + 1) + i - 1) = c(j) + i
        <5> DEFINE l == Len(f)
                   x == c(j - 1)
                   y == c(j)
        <5>1. l \in Nat /\ x \in Nat /\ y \in Nat /\ y = x + l /\ y <= a /\ i \in 1..(a - y)
          BY <2>2, <2>3, <2>4
        <5> HIDE DEF l, x, y
        <5>2. (l + 1) + i - 1 \in 1..(a - x) /\ x + ((l + 1) + i - 1) = y + i
          BY <1>3, <5>1
        <5> QED
          BY <5>2 DEF l, x, y
      <4>2. rest[i] = b[(Len(f) + 1) + i - 1]
        BY <3>2, <3>3
      <4>3. rest[i] = B[c(j) + i]
        BY <2>3, <4>1, <4>2
      <4> QED
        BY <2>4, <4>3
    <3> QED
      BY <2>4, <3>2, <3>3, <3>4, SeqEqual
  <2>10. Drained[b] = [frames |-> <<f>> \o Drained[After(j)].frames, rest |-> Drained[After(j)].rest]
    <3>1. Drained[b] = [frames |-> <<SubSeq(b, 1, NextFrame(b))>>
                                     \o Drained[SubSeq(b, NextFrame(b) + 1, Len(b))].frames,
                        rest |-> Drained[SubSeq(b, NextFrame(b) + 1, Len(b))].rest]
      BY <2>3, <2>7, DrainedIs
    <3>2. SubSeq(b, NextFrame(b) + 1, Len(b)) = After(j) /\ SubSeq(b, 1, NextFrame(b)) = f
      BY <2>7, <2>8, <2>9
    <3> QED
      BY <3>1, <3>2
  <2>11. Drained[After(j)].frames = SubSeq(s, j + 1, m) /\ Drained[After(j)].rest = After(m)
    <3> DEFINE taken == SubSeq(s, j + 1, m)
    <3>1. Drained[After(j)] = [frames |-> taken, rest |-> After(m)]
      BY <1>7
    <3> HIDE DEF taken
    <3>2. Drained[After(j)].frames = taken /\ Drained[After(j)].rest = After(m)
      BY <3>1
    <3> QED
      BY <3>2 DEF taken
  <2>12. <<f>> \o SubSeq(s, j + 1, m) = SubSeq(s, j, m)
    <3>1. j \in 1..Len(s) /\ m \in j..Len(s)
      BY <1>1, <1>4, <2>1 DEF n
    <3> QED
      BY <3>1, SubSeqRecursiveFirst DEF f
  <2> QED
    BY <2>1, <2>10, <2>11, <2>12 DEF b
<1> DEFINE T == {i \in Nat: i \in 0..m => Holds(m - i)}
<1>8. 0 \in T
  <2>1. m - 0 = m
    BY <1>1, <1>4
  <2> HIDE DEF Holds
  <2> QED
    BY <1>6, <2>1
<1>9. ASSUME NEW i \in T PROVE i + 1 \in T
  <2> HIDE DEF Holds
  <2> SUFFICES ASSUME i + 1 \in 0..m PROVE Holds(m - (i + 1))
    OBVIOUS
  <2>1. i \in 0..m /\ m - i \in 1..m /\ (m - i) - 1 = m - (i + 1)
    BY <1>1, <1>4
  <2> QED
    BY <1>7, <2>1
<1>10. T \in SUBSET Nat
  OBVIOUS
<1> HIDE DEF T
<1>11. m - k \in Nat /\ m - k \in 0..m /\ m - (m - k) = k
  BY <1>1, <1>4 DEF m
<1>12. m - k \in T
  BY <1>8, <1>9, <1>10, <1>11, AllNumbers
<1> HIDE DEF Holds
<1>13. Holds(k)
  BY <1>11, <1>12 DEF T
<1> QED
  BY <1>13 DEF Holds, B, m, c

-----------------------------------------------------------------------------
(***************************************************************************)
(* What has been seen after k frames                                       *)
(***************************************************************************)
Seen(d, s, k) == Observed(d, NothingSeen, SubSeq(s, 1, k))

\* One more frame.
LEMMA ObservedNext ==
  ASSUME NEW d \in Dialects, NEW seen \in Observers, NEW s \in Seq(Seq(STRING)),
         NEW t \in Seq(Seq(STRING)), Len(t) = Len(s) + 1,
         \A k \in 1..Len(s): t[k] = s[k]
  PROVE  Observed(d, seen, t) = Observe(d, Observed(d, seen, s), t[Len(t)])
<1> DEFINE n == Len(s)
<1>1. n \in Nat
  OBVIOUS
<1>2. PICK o \in [0..n -> Observers]:
        /\ o[0] = seen
        /\ \A k \in 1..n: o[k] = Observe(d, o[k - 1], s[k])
        /\ Observed(d, seen, s) = o[n]
  BY InTurn
<1>3. PICK p \in [0..(n + 1) -> Observers]:
        /\ p[0] = seen
        /\ \A k \in 1..(n + 1): p[k] = Observe(d, p[k - 1], t[k])
        /\ Observed(d, seen, t) = p[n + 1]
  <2>1. \E p \in [0..Len(t) -> Observers]:
          /\ p[0] = seen
          /\ \A k \in 1..Len(t): p[k] = Observe(d, p[k - 1], t[k])
          /\ Observed(d, seen, t) = p[Len(t)]
    BY InTurn
  <2> QED
    BY <2>1
<1> DEFINE T == {k \in Nat: k \in 0..n => p[k] = o[k]}
<1>4. 0 \in T
  BY <1>2, <1>3
<1>5. ASSUME NEW k \in T PROVE k + 1 \in T
  <2> SUFFICES ASSUME k + 1 \in 0..n PROVE p[k + 1] = o[k + 1]
    OBVIOUS
  <2>1. k \in 0..n /\ k + 1 \in 1..n /\ k + 1 \in 1..(n + 1) /\ (k + 1) - 1 = k
    BY <1>1
  <2>2. p[k] = o[k] /\ t[k + 1] = s[k + 1]
    BY <2>1
  <2> QED
    BY <1>2, <1>3, <2>1, <2>2
<1>6. T \in SUBSET Nat
  OBVIOUS
<1> HIDE DEF T
<1>7. n \in T
  BY <1>1, <1>4, <1>5, <1>6, AllNumbers
<1>8. p[n] = o[n]
  BY <1>1, <1>7 DEF T
<1>9. n + 1 \in 1..(n + 1) /\ (n + 1) - 1 = n /\ Len(t) = n + 1
  BY <1>1
<1> HIDE DEF n
<1>10. p[n + 1] = Observe(d, p[n], t[n + 1])
  BY <1>3, <1>9
<1> QED
  BY <1>2, <1>3, <1>8, <1>9, <1>10

LEMMA SeenIs ==
  ASSUME NEW d \in Dialects, NEW s \in Seq(Seq(STRING))
  PROVE  /\ Seen(d, s, 0) = NothingSeen
         /\ \A k \in 0..Len(s): Seen(d, s, k) \in Observers
         /\ \A k \in 1..Len(s): Seen(d, s, k) = Observe(d, Seen(d, s, k - 1), s[k])
<1> DEFINE n == Len(s)
           t(k) == SubSeq(s, 1, k)
<1>1. n \in Nat
  OBVIOUS
<1>2. ASSUME NEW k \in 0..n
      PROVE  t(k) \in Seq(Seq(STRING)) /\ Len(t(k)) = k /\ \A j \in 1..k: t(k)[j] = s[j]
  <2>1. 1 \in 1..(Len(s) + 1) /\ k \in (1 - 1)..Len(s) /\ k - 1 + 1 = k
    BY <1>1
  <2> QED
    BY <2>1, Slice
<1>3. \A k \in 0..n: Seen(d, s, k) \in Observers
  <2> TAKE k \in 0..n
  <2>1. PICK o \in [0..Len(t(k)) -> Observers]: Observed(d, NothingSeen, t(k)) = o[Len(t(k))]
    <3> HIDE DEF t
    <3> QED
      BY <1>2, InTurn, NothingSeenIs
  <2>2. Len(t(k)) \in 0..Len(t(k))
    BY <1>1, <1>2
  <2> HIDE DEF t
  <2>3. o[Len(t(k))] \in Observers
    BY <2>2
  <2> QED
    BY <2>1, <2>3 DEF Seen, t
<1>4. Seen(d, s, 0) = NothingSeen
  <2>1. t(0) \in Seq(Seq(STRING)) /\ Len(t(0)) = 0
    BY <1>1, <1>2
  <2>2. PICK o \in [0..Len(t(0)) -> Observers]:
          o[0] = NothingSeen /\ Observed(d, NothingSeen, t(0)) = o[Len(t(0))]
    <3> HIDE DEF t
    <3> QED
      BY <2>1, InTurn, NothingSeenIs
  <2> HIDE DEF t
  <2>3. Observed(d, NothingSeen, t(0)) = NothingSeen
    BY <2>1, <2>2
  <2> QED
    BY <2>3 DEF Seen, t
<1>5. ASSUME NEW k \in 1..n PROVE Seen(d, s, k) = Observe(d, Seen(d, s, k - 1), s[k])
  <2>1. k \in 0..n /\ k - 1 \in 0..n /\ k = (k - 1) + 1 /\ k \in 1..k
    BY <1>1
  <2>2. /\ t(k) \in Seq(Seq(STRING)) /\ t(k - 1) \in Seq(Seq(STRING))
        /\ Len(t(k)) = k /\ Len(t(k - 1)) = k - 1 /\ t(k)[k] = s[k]
    BY <1>2, <2>1
  <2>3. \A j \in 1..(k - 1): t(k)[j] = t(k - 1)[j]
    <3> TAKE j \in 1..(k - 1)
    <3>1. j \in 1..k
      BY <1>1
    <3> QED
      BY <1>2, <2>1, <3>1
  <2> HIDE DEF t
  <2>4. Observed(d, NothingSeen, t(k)) = Observe(d, Observed(d, NothingSeen, t(k - 1)), t(k)[Len(t(k))])
    BY <2>1, <2>2, <2>3, ObservedNext, NothingSeenIs
  <2> QED
    BY <2>2, <2>4 DEF Seen, t
<1> QED
  BY <1>3, <1>4, <1>5

\* The frames after the first i, seen after those.
LEMMA SeenOn ==
  ASSUME NEW d \in Dialects, NEW s \in Seq(Seq(STRING)),
         NEW i \in 0..Len(s), NEW j \in i..Len(s)
  PROVE  Observed(d, Seen(d, s, i), SubSeq(s, i + 1, j)) = Seen(d, s, j)
<1> DEFINE n == Len(s)
           t == SubSeq(s, i + 1, j)
<1>1. n \in Nat /\ i \in Nat /\ j \in Nat /\ i <= j /\ j <= n /\ j - i \in Nat
  OBVIOUS
<1>2. t \in Seq(Seq(STRING)) /\ Len(t) = j - i /\ \A k \in 1..(j - i): t[k] = s[i + k]
  <2>1. i + 1 \in 1..(Len(s) + 1) /\ j \in ((i + 1) - 1)..Len(s) /\ j - (i + 1) + 1 = j - i
        /\ \A k \in 1..(j - i): (i + 1) + k - 1 = i + k
    BY <1>1
  <2>2. /\ t \in Seq(Seq(STRING)) /\ Len(t) = j - (i + 1) + 1
        /\ \A k \in 1..(j - (i + 1) + 1): t[k] = s[(i + 1) + k - 1]
    BY <2>1, Slice
  <2> HIDE DEF t
  <2> QED
    BY <2>1, <2>2
<1>3. /\ Seen(d, s, i) \in Observers
      /\ \A k \in 1..n: Seen(d, s, k) = Observe(d, Seen(d, s, k - 1), s[k])
  BY SeenIs
<1> HIDE DEF t
<1>4. PICK o \in [0..(j - i) -> Observers]:
        /\ o[0] = Seen(d, s, i)
        /\ \A k \in 1..(j - i): o[k] = Observe(d, o[k - 1], t[k])
        /\ Observed(d, Seen(d, s, i), t) = o[j - i]
  <2>1. \E o \in [0..Len(t) -> Observers]:
          /\ o[0] = Seen(d, s, i)
          /\ \A k \in 1..Len(t): o[k] = Observe(d, o[k - 1], t[k])
          /\ Observed(d, Seen(d, s, i), t) = o[Len(t)]
    BY <1>2, <1>3, InTurn
  <2> QED
    BY <1>2, <2>1
<1> DEFINE T == {k \in Nat: k \in 0..(j - i) => o[k] = Seen(d, s, i + k)}
<1>5. 0 \in T
  BY <1>1, <1>4
<1>6. ASSUME NEW k \in T PROVE k + 1 \in T
  <2> SUFFICES ASSUME k + 1 \in 0..(j - i) PROVE o[k + 1] = Seen(d, s, i + (k + 1))
    OBVIOUS
  <2>1. /\ k \in 0..(j - i) /\ k + 1 \in 1..(j - i) /\ (k + 1) - 1 = k
        /\ i + (k + 1) \in 1..n /\ (i + (k + 1)) - 1 = i + k
    BY <1>1
  <2>2. o[k] = Seen(d, s, i + k)
    BY <2>1
  <2>3. o[k + 1] = Observe(d, o[k], s[i + (k + 1)])
    BY <1>2, <1>4, <2>1
  <2>4. Seen(d, s, i + (k + 1)) = Observe(d, Seen(d, s, i + k), s[i + (k + 1)])
    BY <1>3, <2>1
  <2> QED
    BY <2>2, <2>3, <2>4
<1>7. T \in SUBSET Nat
  OBVIOUS
<1> HIDE DEF T
<1>8. j - i \in T
  BY <1>1, <1>5, <1>6, <1>7, AllNumbers
<1>9. j - i \in 0..(j - i) /\ i + (j - i) = j
  BY <1>1
<1>10. o[j - i] = Seen(d, s, j)
  BY <1>8, <1>9 DEF T
<1> QED
  BY <1>4, <1>10 DEF t

\* More frames never say less.
LEMMA SeenGrows ==
  ASSUME NEW d \in Dialects, NEW s \in Seq(Seq(STRING)),
         NEW i \in 0..Len(s), NEW j \in i..Len(s)
  PROVE  /\ Seen(d, s, i).read <= Seen(d, s, j).read
         /\ Seen(d, s, i).creation <= Seen(d, s, j).creation
<1> DEFINE n == Len(s)
           More(k) == /\ Seen(d, s, i).read <= Seen(d, s, i + k).read
                      /\ Seen(d, s, i).creation <= Seen(d, s, i + k).creation
           T == {k \in Nat: k \in 0..(n - i) => More(k)}
<1>1. n \in Nat /\ i \in Nat /\ j \in Nat /\ i <= j /\ j <= n /\ j - i \in Nat /\ n - i \in Nat
  OBVIOUS
<1>2. /\ \A k \in 0..n: Seen(d, s, k) \in Observers
      /\ \A k \in 1..n: Seen(d, s, k) = Observe(d, Seen(d, s, k - 1), s[k])
  BY SeenIs
<1>3. \A k \in 0..n: Seen(d, s, k).read \in Nat /\ Seen(d, s, k).creation \in Nat
  BY <1>2 DEF Observers
<1>4. 0 \in T
  BY <1>1, <1>3
<1>5. ASSUME NEW k \in T PROVE k + 1 \in T
  <2> HIDE DEF More
  <2> SUFFICES ASSUME k + 1 \in 0..(n - i) PROVE More(k + 1)
    OBVIOUS
  <2>1. /\ k \in 0..(n - i) /\ i + (k + 1) \in 1..n /\ (i + (k + 1)) - 1 = i + k
        /\ i + k \in 0..n /\ i + (k + 1) \in 0..n
    BY <1>1
  <2>2. More(k)
    BY <2>1
  <2>3. Seen(d, s, i + (k + 1)) = Observe(d, Seen(d, s, i + k), s[i + (k + 1)])
    BY <1>2, <2>1
  <2>4. s[i + (k + 1)] \in Seq(STRING)
    BY <2>1
  <2>5. /\ Seen(d, s, i + (k + 1)).read >= Seen(d, s, i + k).read
        /\ Seen(d, s, i + (k + 1)).creation >= Seen(d, s, i + k).creation
    BY <1>2, <2>1, <2>3, <2>4, OneMore
  <2> DEFINE r(l) == Seen(d, s, l).read
             c(l) == Seen(d, s, l).creation
  <2>6. /\ r(i) \in Nat /\ r(i + k) \in Nat /\ r(i + (k + 1)) \in Nat
        /\ c(i) \in Nat /\ c(i + k) \in Nat /\ c(i + (k + 1)) \in Nat
    BY <1>1, <1>3, <2>1
  <2> QED
    BY <2>2, <2>5, <2>6 DEF More
<1>6. T \in SUBSET Nat
  OBVIOUS
<1> HIDE DEF T, More
<1>7. j - i \in T
  BY <1>1, <1>4, <1>5, <1>6, AllNumbers
<1>8. j - i \in 0..(n - i) /\ i + (j - i) = j
  BY <1>1
<1>9. More(j - i)
  BY <1>7, <1>8 DEF T
<1> QED
  BY <1>8, <1>9 DEF More
-----------------------------------------------------------------------------
(***************************************************************************)
(* One more chunk: the frames it completes are taken, and what follows the *)
(* last of them is held.                                                   *)
(***************************************************************************)
Held(s, a) == SubSeq(FlattenSeq(s), Cut(s, Complete(s, a)) + 1, a)

LEMMA FeedTakes ==
  ASSUME NEW d \in Dialects,
         NEW s \in Seq(Seq(STRING)), \A k \in 1..Len(s): IsFrame(s[k]),
         NEW a \in 0..Len(FlattenSeq(s)), NEW e \in a..Len(FlattenSeq(s))
  PROVE  LET taken == Drained[Held(s, a) \o SubSeq(FlattenSeq(s), a + 1, e)]
         IN  /\ taken.rest = Held(s, e)
             /\ Observed(d, Seen(d, s, Complete(s, a)), taken.frames)
                  = Seen(d, s, Complete(s, e))
             /\ Complete(s, a) \in 0..Complete(s, e)
<1> DEFINE B == FlattenSeq(s)
           n == Len(s)
           K == Complete(s, a)
           M == Complete(s, e)
           x == Cut(s, K)
<1>1. B \in Seq(STRING) /\ n \in Nat /\ Len(B) \in Nat
  BY Cuts, LenProperties
<1>2. e \in 0..Len(B) /\ a \in Nat /\ e \in Nat /\ a <= e
  BY <1>1
<1>3. K \in 0..n /\ x <= a
  BY CompleteIs
<1>4. M \in 0..n /\ \A k \in 0..n: Cut(s, k) <= e => k <= M
  BY <1>2, CompleteIs
<1>5. x \in Nat
  BY <1>3, Cuts
<1>6. K \in 0..M /\ M \in K..n
  <2>1. x <= e
    BY <1>2, <1>3, <1>5
  <2>2. K <= M
    BY <1>3, <1>4, <2>1
  <2> HIDE DEF K, M, n
  <2> QED
    BY <1>1, <1>3, <1>4, <2>2
<1>7. Held(s, a) \o SubSeq(B, a + 1, e) = SubSeq(B, x + 1, e)
  <2> DEFINE m == x + 1
  <2>1. m \in 1..(Len(B) + 1) /\ a \in (m - 1)..Len(B) /\ e \in a..Len(B)
    <3> HIDE DEF x, B
    <3> QED
      BY <1>1, <1>2, <1>3, <1>5
  <2> HIDE DEF m, B
  <2>2. SubSeq(B, m, a) \o SubSeq(B, a + 1, e) = SubSeq(B, m, e)
    BY <1>1, <2>1, ConcatAdjacentSubSeq
  <2> QED
    BY <2>2 DEF m, Held, B
<1>8. Drained[SubSeq(B, x + 1, e)] = [frames |-> SubSeq(s, K + 1, M), rest |-> Held(s, e)]
  BY <1>2, <1>6, FramesTakenWhole DEF Held
<1>9. Observed(d, Seen(d, s, K), SubSeq(s, K + 1, M)) = Seen(d, s, M)
  BY <1>3, <1>6, SeenOn
<1> DEFINE t == SubSeq(s, K + 1, M)
           h == Held(s, e)
           D == Drained[SubSeq(B, x + 1, e)]
<1>10. D = [frames |-> t, rest |-> h]
  BY <1>8
<1> HIDE DEF t, h, D
<1>11. D.frames = t /\ D.rest = h
  BY <1>10
<1> QED
  BY <1>6, <1>7, <1>9, <1>11 DEF t, h, D

\* What is held is the beginning of a frame that is longer.
LEMMA HeldIs ==
  ASSUME NEW s \in Seq(Seq(STRING)), NEW a \in 0..Len(FlattenSeq(s))
  PROVE  /\ Held(s, a) \in Seq(STRING) /\ Len(Held(s, a)) \in Nat
         /\ \/ Len(Held(s, a)) = 0
            \/ \E k \in DOMAIN s: Len(s[k]) \in Nat /\ Len(Held(s, a)) < Len(s[k])
<1> DEFINE B == FlattenSeq(s)
           n == Len(s)
           K == Complete(s, a)
           x == Cut(s, K)
           m == x + 1
           h == Held(s, a)
<1>1. B \in Seq(STRING) /\ n \in Nat /\ Len(B) \in Nat
  BY Cuts, LenProperties
<1>2. /\ K \in 0..n /\ x <= a
      /\ K < n => a < Cut(s, K + 1)
      /\ K = n => a = Len(B)
  BY CompleteIs
<1>3. x \in Nat /\ a \in Nat /\ a <= Len(B) /\ (K = n => x = Len(B))
  BY <1>1, <1>2, Cuts
<1>4. h \in Seq(STRING) /\ Len(h) = a - x
  <2>1. m \in 1..(Len(B) + 1) /\ a \in (m - 1)..Len(B) /\ a - m + 1 = a - x
    <3> HIDE DEF x, B
    <3> QED
      BY <1>1, <1>2, <1>3
  <2> HIDE DEF m, B, x
  <2>2. SubSeq(B, m, a) \in Seq(STRING) /\ Len(SubSeq(B, m, a)) = a - m + 1
    BY <1>1, <2>1, Slice
  <2> QED
    BY <2>1, <2>2 DEF m, Held, B, x
<1>5. CASE K = n
  <2> HIDE DEF x, B, h
  <2> QED
    BY <1>2, <1>3, <1>4, <1>5 DEF h
<1>6. CASE K < n
  <2>1. K + 1 \in 1..n /\ (K + 1) - 1 = K /\ K + 1 \in DOMAIN s
    <3> HIDE DEF K
    <3> QED
      BY <1>1, <1>2, <1>6
  <2>2. Cut(s, K + 1) = x + Len(s[K + 1]) /\ Len(s[K + 1]) \in Nat
    BY <2>1, Cuts
  <2>3. a < Cut(s, K + 1)
    BY <1>2, <1>6
  <2> HIDE DEF K, x, h
  <2>4. Len(h) < Len(s[K + 1]) /\ Len(h) \in Nat
    BY <1>2, <1>3, <1>4, <2>2, <2>3
  <2> QED
    BY <1>4, <2>1, <2>2, <2>4 DEF h
<1>7. K = n \/ K < n
  <2> HIDE DEF K
  <2> QED
    BY <1>1, <1>2
<1> QED
  BY <1>5, <1>6, <1>7

LEMMA StreamIs ==
  ASSUME NEW d \in Dialects, NEW s \in Streams[d]
  PROVE  s \in Seq(Seq(STRING)) /\ \A k \in 1..Len(s): IsFrame(s[k])
<1>1. s \in Seq(Seq(STRING))
  BY StreamAssumption
<1>2. ASSUME NEW k \in 1..Len(s) PROVE IsFrame(s[k])
  <2>1. s[k] \in Seq(STRING) /\ k \in DOMAIN s
    BY <1>1
  <2> QED
    BY <2>1, FrameAssumption DEF IsFrame
<1> QED
  BY <1>1, <1>2

Text == STRING \ {"none"}

LEMMA NoBodyIs == NoBody \notin Seq(Text)
<1> SUFFICES ASSUME NoBody \in Seq(Text) PROVE FALSE
  OBVIOUS
<1>1. Len(NoBody) = 1 /\ NoBody[1] = "none"
  BY DEF NoBody
<1>2. 1 \in 1..Len(NoBody)
  BY <1>1
<1>3. NoBody[1] \in Text
  BY <1>2, ElementOfSeq
<1> QED
  BY <1>1, <1>3 DEF Text

LEMMA BodyIs ==
  ASSUME NEW b \in Bodies
  PROVE  b \in Seq(Text) /\ FlattenSeq(<<b>>) = b
<1>1. b \in Seq(Text)
  BY StreamAssumption DEF Text
<1> DEFINE s == <<b>>
<1>2. s \in Seq(Seq(Text)) /\ Len(s) = 1 /\ s[1] = b
  BY <1>1
<1> HIDE DEF s
<1>3. /\ Laid(s, 0) = <<>>
      /\ Laid(s, Len(s)) = FlattenSeq(s)
      /\ \A k \in 1..Len(s): Laid(s, k) = Laid(s, k - 1) \o s[k]
  BY <1>2, LaidIs
<1>4. 1 \in 1..Len(s) /\ 1 - 1 = 0
  BY <1>2
<1>5. FlattenSeq(s) = <<>> \o b
  BY <1>2, <1>3, <1>4
<1>6. <<>> \o b = b
  BY <1>1, ConcatEmptySeq
<1> QED
  BY <1>1, <1>5, <1>6 DEF s
-----------------------------------------------------------------------------
(***************************************************************************)
(* The invariant                                                           *)
(***************************************************************************)
Done == Complete(frames, arrived)

Shaped ==
  /\ dialect \in Dialects
  /\ phase \in {"open", "ended", "failed", "dropped"}
  /\ overflowed \in BOOLEAN /\ recorded \in BOOLEAN /\ broken \in BOOLEAN
  /\ arrived \in 0..Len(Bytes)

\* An event stream: what was seen is what the frames say that have arrived in full, and
\* what is held is the rest; or a frame was too long, and nothing was seen since.
Watched ==
  EventStream =>
    /\ frames \in Streams[dialect]
    /\ ~overflowed => /\ buffer = Held(frames, arrived)
                      /\ observer = Seen(dialect, frames, Done)
                      /\ Len(buffer) <= MaxFrameBytes
    /\ overflowed => /\ buffer = <<>> /\ ~Moderate
                     /\ \E k \in 0..Done: observer = Seen(dialect, frames, k)

\* Any other body: its beginning, unless it has outgrown its bound.
Gathered ==
  ~EventStream =>
    /\ \E b \in Bodies: frames = <<b>>
    /\ buffer = <<>> /\ ~overflowed /\ observer = NothingSeen
    /\ buffered \in Seq(Text)
    /\ Len(buffered) <= MaxBufferedBody
    /\ Len(Bytes) <= MaxBufferedBody => buffered = SubSeq(Bytes, 1, arrived)

\* What Metrics has of the reply: nothing while it is open, and then what was seen, once.
Counted ==
  /\ ~recorded => /\ phase = "open" /\ ~broken
                  /\ metrics = [read |-> 0, creation |-> 0, errors |-> 0]
  /\ recorded => /\ phase # "open"
                 /\ \E cache \in IF EventStream THEN {CacheTokens} ELSE InBody:
                      metrics = [read |-> cache.read, creation |-> cache.creation,
                                 errors |-> Count(broken) + Count(observer.failure)]

StreamInv == Shaped /\ Watched /\ Gathered /\ Counted

LEMMA InitInv == Init => StreamInv
<1> SUFFICES ASSUME Init PROVE StreamInv
  OBVIOUS
<1> USE DEF Init
<1>1. CASE frames \in Streams[dialect] /\ buffered = NoBody
  <2>1. EventStream
    BY <1>1 DEF EventStream
  <2>2. frames \in Seq(Seq(STRING))
    BY <1>1, StreamIs
  <2>3. /\ Len(Bytes) \in Nat /\ Len(frames) \in Nat /\ Bytes \in Seq(STRING)
        /\ \A k \in 0..Len(frames): Cut(frames, k) \in Nat
    BY <2>2, Cuts, LenProperties DEF Bytes
  <2>4. 0 \in 0..Len(FlattenSeq(frames))
    BY <2>3 DEF Bytes
  <2>5. Complete(frames, 0) \in 0..Len(frames) /\ Cut(frames, Complete(frames, 0)) <= 0
    BY <2>2, <2>4, CompleteIs
  <2>6. Cut(frames, Complete(frames, 0)) = 0
    BY <2>3, <2>5
  <2>7. Held(frames, 0) = <<>>
    BY <2>6, SubSeqEmpty DEF Held
  <2>8. Seen(dialect, frames, Complete(frames, 0)) = NothingSeen
    <3> DEFINE K == Complete(frames, 0)
    <3>1. K = 0
      <4> SUFFICES ASSUME K # 0 PROVE FALSE
        OBVIOUS
      <4>0. K # 0
        OBVIOUS
      <4>1. K \in 1..Len(frames) /\ K - 1 \in 0..Len(frames)
        <5>1. K \in 0..Len(frames)
          BY <2>5
        <5> HIDE DEF K
        <5> QED
          BY <2>3, <4>0, <5>1
      <4>2. Cut(frames, K) = Cut(frames, K - 1) + Len(frames[K])
        BY <2>2, <4>1, Cuts
      <4>3. IsFrame(frames[K])
        BY <1>1, <4>1, StreamIs
      <4>4. Len(frames[K]) \in Nat \ {0}
        BY <4>3, FrameEnds
      <4>5. Cut(frames, K - 1) \in Nat
        BY <2>3, <4>1
      <4> HIDE DEF K
      <4> QED
        BY <2>6, <4>2, <4>4, <4>5 DEF K
    <3>2. Seen(dialect, frames, 0) = NothingSeen
      BY <2>2, SeenIs
    <3> QED
      BY <3>1, <3>2
  <2>9. Shaped
    <3>1. arrived \in 0..Len(Bytes)
      BY <2>3
    <3>2. dialect \in Dialects /\ phase = "open"
      OBVIOUS
    <3> QED
      BY <3>1, <3>2 DEF Shaped
  <2>10. Watched
    <3>1. Len(<<>>) = 0 /\ 0 <= MaxFrameBytes
      BY BoundAssumption
    <3> QED
      BY <1>1, <2>7, <2>8, <3>1 DEF Watched, Done
  <2>11. Gathered
    BY <2>1 DEF Gathered
  <2>12. Counted
    BY DEF Counted
  <2> QED
    BY <2>9, <2>10, <2>11, <2>12 DEF StreamInv
<1>2. CASE (\E b \in Bodies: frames = <<b>>) /\ buffered = <<>>
  <2>1. PICK b \in Bodies: frames = <<b>>
    BY <1>2
  <2>2. Bytes = b /\ b \in Seq(Text)
    BY <2>1, BodyIs DEF Bytes
  <2>3. Len(Bytes) \in Nat
    BY <2>2
  <2>4. ~EventStream /\ buffered \in Seq(Text) /\ Len(buffered) = 0
    <3>1. buffered \in Seq(Text) /\ Len(buffered) = 0
      BY <1>2, EmptySeq
    <3> QED
      BY <3>1, NoBodyIs DEF EventStream
  <2>5. SubSeq(Bytes, 1, 0) = <<>>
    BY SubSeqEmpty
  <2>6. Shaped
    <3>1. arrived \in 0..Len(Bytes)
      BY <2>3
    <3>2. dialect \in Dialects /\ phase = "open"
      OBVIOUS
    <3> QED
      BY <3>1, <3>2 DEF Shaped
  <2>7. Watched
    BY <2>4 DEF Watched
  <2>8. Gathered
    BY <1>2, <2>1, <2>4, <2>5, BoundAssumption DEF Gathered
  <2>9. Counted
    BY DEF Counted
  <2> QED
    BY <2>6, <2>7, <2>8, <2>9 DEF StreamInv
<1> QED
  BY <1>1, <1>2

\* A chunk of an event stream.
LEMMA FeedInv ==
  ASSUME StreamInv, EventStream, NEW n \in 1..(Len(Bytes) - arrived), Chunk(n)
  PROVE  Watched' /\ Gathered' /\ arrived' \in 0..Len(Bytes')
<1> DEFINE a == arrived
           e == arrived + n
           s == frames
           d == dialect
           chunk == SubSeq(Bytes, arrived + 1, arrived + n)
<1>1. /\ arrived' = e /\ frames' = s /\ dialect' = d /\ buffered' = buffered
      /\ Feed(chunk) /\ EventStream'
  BY DEF Chunk, EventStream
<1>2. Bytes' = Bytes /\ (Moderate' <=> Moderate)
  BY <1>1 DEF Bytes, Moderate
<1>3. /\ d \in Dialects /\ s \in Streams[d] /\ a \in 0..Len(FlattenSeq(s))
  BY DEF StreamInv, Shaped, Watched, Bytes
<1>4. s \in Seq(Seq(STRING)) /\ \A k \in 1..Len(s): IsFrame(s[k])
  BY <1>3, StreamIs
<1>5. Len(FlattenSeq(s)) \in Nat
  BY <1>4, Cuts, LenProperties
<1>6. e \in a..Len(FlattenSeq(s)) /\ e \in 0..Len(FlattenSeq(s))
  BY <1>3, <1>5 DEF Bytes
<1> DEFINE taken == Drained[Held(s, a) \o SubSeq(FlattenSeq(s), a + 1, e)]
           K == Complete(s, a)
           M == Complete(s, e)
<1>7. /\ taken.rest = Held(s, e)
      /\ Observed(d, Seen(d, s, K), taken.frames) = Seen(d, s, M)
      /\ K \in 0..M
  BY <1>3, <1>4, <1>6, FeedTakes
<1>8. M \in 0..Len(s) /\ K \in 0..Len(s)
  BY <1>3, <1>4, <1>6, CompleteIs
<1>9. Done = K /\ Done' = M
  BY <1>1 DEF Done
<1>10. Watched'
  <2>1. CASE overflowed
    <3>1. buffer' = buffer /\ overflowed' = overflowed /\ observer' = observer
      BY <1>1, <2>1 DEF Feed
    <3>2. buffer = <<>> /\ ~Moderate /\ \E k \in 0..K: observer = Seen(d, s, k)
      BY <1>9, <2>1 DEF StreamInv, Watched
    <3>3. \A k \in 0..K: k \in 0..M
      <4> HIDE DEF K, M
      <4> QED
        BY <1>7, <1>8
    <3>4. \E k \in 0..M: observer = Seen(d, s, k)
      BY <3>2, <3>3
    <3>5. frames' \in Streams[dialect'] /\ overflowed' /\ buffer' = <<>> /\ ~Moderate'
      BY <1>1, <1>2, <1>3, <2>1, <3>1, <3>2
    <3>6. \E k \in 0..Done': observer' = Seen(dialect', frames', k)
      BY <1>1, <1>9, <3>1, <3>4
    <3> QED
      BY <3>5, <3>6 DEF Watched
  <2>2. CASE ~overflowed
    <3>1. buffer = Held(s, a) /\ observer = Seen(d, s, K)
      BY <1>9, <2>2 DEF StreamInv, Watched
    <3>2. taken = Drained[buffer \o chunk]
      BY <3>1 DEF Bytes
    <3>3. /\ observer' = Observed(d, observer, taken.frames)
          /\ overflowed' = (Len(taken.rest) > MaxFrameBytes)
          /\ buffer' = IF overflowed' THEN <<>> ELSE taken.rest
      BY <1>1, <2>2, <3>2 DEF Feed
    <3> HIDE DEF taken
    <3>4. observer' = Seen(d, s, M)
      BY <1>7, <3>1, <3>3
    <3>5. /\ Len(Held(s, e)) \in Nat
          /\ \/ Len(Held(s, e)) = 0
             \/ \E k \in DOMAIN s: Len(s[k]) \in Nat /\ Len(Held(s, e)) < Len(s[k])
      BY <1>4, <1>6, HeldIs
    <3>6. M \in 0..M
      <4> HIDE DEF M
      <4> QED
        BY <1>8
    <3>7. CASE Len(Held(s, e)) > MaxFrameBytes
      <4>1. overflowed' /\ buffer' = <<>>
        BY <1>7, <3>3, <3>7
      <4>2. PICK k \in DOMAIN s: Len(s[k]) \in Nat /\ Len(Held(s, e)) < Len(s[k])
        BY <3>5, <3>7, BoundAssumption
      <4>3. ~(Len(s[k]) <= MaxFrameBytes)
        BY <3>5, <3>7, <4>2, BoundAssumption
      <4>4. ~Moderate
        BY <4>3 DEF Moderate
      <4>5. \E k2 \in 0..Done': observer' = Seen(dialect', frames', k2)
        BY <1>1, <1>9, <3>4, <3>6
      <4>6. ~Moderate' /\ frames' \in Streams[dialect']
        BY <1>1, <1>2, <1>3, <4>4
      <4> QED
        BY <4>1, <4>5, <4>6 DEF Watched
    <3>8. CASE ~(Len(Held(s, e)) > MaxFrameBytes)
      <4>1. ~overflowed' /\ buffer' = Held(s, e)
        BY <1>7, <3>3, <3>8
      <4>2. Len(buffer') <= MaxFrameBytes
        BY <3>5, <3>8, <4>1, BoundAssumption
      <4>3. buffer' = Held(frames', arrived') /\ observer' = Seen(dialect', frames', Done')
        BY <1>1, <1>9, <3>4, <4>1
      <4>4. frames' \in Streams[dialect']
        BY <1>1, <1>3
      <4> QED
        BY <4>1, <4>2, <4>3, <4>4 DEF Watched
    <3> QED
      BY <3>7, <3>8
  <2> QED
    BY <2>1, <2>2
<1>11. Gathered'
  BY <1>1 DEF Gathered
<1> QED
  BY <1>1, <1>2, <1>6, <1>10, <1>11 DEF Bytes

\* A chunk of any other body.
LEMMA AccumulateInv ==
  ASSUME StreamInv, ~EventStream, NEW n \in 1..(Len(Bytes) - arrived), Chunk(n)
  PROVE  Watched' /\ Gathered' /\ arrived' \in 0..Len(Bytes')
<1> DEFINE e == arrived + n
           chunk == SubSeq(Bytes, arrived + 1, arrived + n)
<1>1. /\ arrived' = e /\ frames' = frames /\ Accumulate(chunk)
      /\ buffer' = buffer /\ overflowed' = overflowed /\ observer' = observer
  BY DEF Chunk
<1>2. Bytes' = Bytes
  BY <1>1 DEF Bytes
<1>3. PICK b \in Bodies: frames = <<b>>
  BY DEF StreamInv, Gathered
<1>4. Bytes = b /\ Bytes \in Seq(Text) /\ Len(Bytes) \in Nat
  BY <1>3, BodyIs, LenProperties DEF Bytes
<1>5. arrived \in 0..Len(Bytes) /\ e \in 0..Len(Bytes) /\ e \in arrived..Len(Bytes)
      /\ arrived \in Nat /\ e = arrived + n /\ n \in Nat
  BY <1>4 DEF StreamInv, Shaped
<1>6. chunk \in Seq(Text) /\ Len(chunk) = n
  <2>1. arrived + 1 \in 1..(Len(Bytes) + 1) /\ e \in ((arrived + 1) - 1)..Len(Bytes)
        /\ e - (arrived + 1) + 1 = n
    BY <1>4, <1>5
  <2> QED
    BY <1>4, <2>1, Slice
<1>7. buffered \in Seq(Text) /\ Len(buffered) \in Nat /\ Len(buffered) <= MaxBufferedBody
  BY LenProperties DEF StreamInv, Gathered
<1>8. /\ buffered \o chunk \in Seq(Text)
      /\ Len(buffered \o chunk) = Len(buffered) + n
  <2> HIDE DEF chunk
  <2> QED
    BY <1>6, <1>7, ConcatProperties
<1>9. buffered' = IF Len(buffered) + n <= MaxBufferedBody THEN buffered \o chunk ELSE buffered
  BY <1>1, <1>6 DEF Accumulate
<1>10. Len(Bytes) <= MaxBufferedBody => buffered' = SubSeq(Bytes, 1, e)
  <2> SUFFICES ASSUME Len(Bytes) <= MaxBufferedBody PROVE buffered' = SubSeq(Bytes, 1, e)
    OBVIOUS
  <2>1. buffered = SubSeq(Bytes, 1, arrived)
    BY DEF StreamInv, Gathered
  <2>2. Len(buffered) = arrived
    <3>1. 1 \in 1..(Len(Bytes) + 1) /\ arrived \in (1 - 1)..Len(Bytes) /\ arrived - 1 + 1 = arrived
      BY <1>4, <1>5
    <3> QED
      BY <1>4, <2>1, <3>1, Slice
  <2>3. Len(buffered) + n <= MaxBufferedBody
    BY <1>4, <1>5, <2>2, BoundAssumption
  <2>4. SubSeq(Bytes, 1, arrived) \o SubSeq(Bytes, arrived + 1, e) = SubSeq(Bytes, 1, e)
    <3>1. 1 \in 1..(Len(Bytes) + 1) /\ arrived \in (1 - 1)..Len(Bytes)
      BY <1>4, <1>5
    <3> QED
      BY <1>4, <1>5, <3>1, ConcatAdjacentSubSeq
  <2> QED
    BY <1>9, <2>1, <2>3, <2>4
<1> HIDE DEF chunk, e
<1>11. buffered' \in Seq(Text) /\ Len(buffered') <= MaxBufferedBody
  <2>1. CASE Len(buffered) + n <= MaxBufferedBody
    BY <1>8, <1>9, <2>1
  <2>2. CASE ~(Len(buffered) + n <= MaxBufferedBody)
    BY <1>7, <1>9, <2>2
  <2> QED
    BY <2>1, <2>2
<1>12. ~EventStream'
  BY <1>11, NoBodyIs DEF EventStream
<1>13. Gathered'
  <2>1. buffer' = <<>> /\ ~overflowed' /\ observer' = NothingSeen
    BY <1>1 DEF StreamInv, Gathered
  <2>2. \E c \in Bodies: frames' = <<c>>
    BY <1>1, <1>3
  <2>3. Len(Bytes') <= MaxBufferedBody => buffered' = SubSeq(Bytes', 1, arrived')
    BY <1>1, <1>2, <1>10
  <2> QED
    BY <1>11, <2>1, <2>2, <2>3 DEF Gathered
<1>14. Watched'
  BY <1>12 DEF Watched
<1> QED
  BY <1>1, <1>2, <1>5, <1>13, <1>14

LEMMA ChunkInv ==
  ASSUME StreamInv, NEW n \in 1..(Len(Bytes) - arrived), Chunk(n)
  PROVE  StreamInv'
<1>1. Watched' /\ Gathered' /\ arrived' \in 0..Len(Bytes')
  BY FeedInv, AccumulateInv
<1>2. /\ phase = "open" /\ phase' = phase /\ recorded' = recorded /\ broken' = broken
      /\ metrics' = metrics /\ dialect' = dialect
  BY DEF Chunk
<1>3. overflowed' \in BOOLEAN
  <2>1. CASE EventStream
    <3> DEFINE over == Len(Drained[buffer \o SubSeq(Bytes, arrived + 1, arrived + n)].rest)
                         > MaxFrameBytes
    <3>1. overflowed' = overflowed \/ overflowed' = over
      BY <2>1 DEF Chunk, Feed
    <3>2. over \in BOOLEAN
      OBVIOUS
    <3>3. overflowed \in BOOLEAN
      BY DEF StreamInv, Shaped
    <3> HIDE DEF over
    <3> QED
      BY <3>1, <3>2, <3>3
  <2>2. CASE ~EventStream
    BY <2>2 DEF Chunk, StreamInv, Shaped
  <2> QED
    BY <2>1, <2>2
<1>4. Shaped'
  BY <1>1, <1>2, <1>3 DEF StreamInv, Shaped
<1>5. ~recorded
  BY <1>2 DEF StreamInv, Counted
<1>6. Counted'
  BY <1>2, <1>5 DEF StreamInv, Counted
<1> QED
  BY <1>1, <1>4, <1>6 DEF StreamInv

\* The last poll, and drop.
LEMMA LeaveInv ==
  ASSUME StreamInv, NEW to \in {"ended", "failed", "dropped"},
         phase # "dropped", phase = "open" \/ to = "dropped",
         NEW errors \in Nat, errors = Count(to = "failed"),
         Record(errors), Leave(to)
  PROVE  StreamInv'
<1>1. /\ phase' = to /\ broken' = (broken \/ to = "failed")
      /\ dialect' = dialect /\ frames' = frames /\ arrived' = arrived /\ buffered' = buffered
      /\ buffer' = buffer /\ overflowed' = overflowed /\ observer' = observer
  BY DEF Leave
<1>2. /\ Bytes' = Bytes /\ (EventStream' <=> EventStream) /\ (Moderate' <=> Moderate)
      /\ Done' = Done /\ CacheTokens' = CacheTokens /\ InBody' = InBody
      /\ Held(frames, arrived)' = Held(frames, arrived)
  BY <1>1 DEF Bytes, EventStream, Moderate, Done, CacheTokens, InBody
<1>3. recorded' = TRUE
  BY DEF Record
<1>4. Shaped'
  <2>1. broken' \in BOOLEAN
    BY <1>1 DEF StreamInv, Shaped
  <2> QED
    BY <1>1, <1>2, <1>3, <2>1 DEF StreamInv, Shaped
<1>5. Watched'
  BY <1>1, <1>2 DEF StreamInv, Watched
<1>6. Gathered'
  BY <1>1, <1>2 DEF StreamInv, Gathered
<1>7. Counted'
  <2> DEFINE caches == IF EventStream THEN {CacheTokens} ELSE InBody
             failure == Count(observer.failure)
  <2>0. failure \in {0, 1}
    BY CountIs
  <2>1. caches' = caches /\ failure' = failure
    BY <1>1, <1>2
  <2>2. CASE recorded
    <3>1. phase # "open" /\ to = "dropped"
      BY <2>2 DEF StreamInv, Counted
    <3>2. errors = 0 /\ broken' = broken
      BY <1>1, <3>1 DEF Count, StreamInv, Shaped
    <3>3. metrics' = [metrics EXCEPT !.errors = @ + errors]
      BY <2>2 DEF Record
    <3>4. PICK cache \in caches:
            metrics = [read |-> cache.read, creation |-> cache.creation,
                       errors |-> Count(broken) + failure]
      BY <2>2 DEF StreamInv, Counted
    <3> DEFINE was == Count(broken) + failure
    <3>5. was \in Nat
      BY <2>0, CountIs
    <3>6. was + 0 = was
      BY <3>5
    <3> HIDE DEF was, failure, caches
    <3>7. metrics = [read |-> cache.read, creation |-> cache.creation, errors |-> was]
      BY <3>4 DEF was
    <3>8. metrics' = [metrics EXCEPT !.errors = was]
      BY <3>2, <3>3, <3>6, <3>7
    <3>9. metrics' = [read |-> cache.read, creation |-> cache.creation, errors |-> was]
      BY <3>7, <3>8
    <3>10. metrics' = [read |-> cache.read, creation |-> cache.creation,
                       errors |-> Count(broken') + failure']
      BY <2>1, <3>2, <3>9 DEF was
    <3>11. phase' # "open"
      BY <1>1
    <3>12. \E c \in caches': metrics' = [read |-> c.read, creation |-> c.creation,
                                        errors |-> Count(broken') + failure']
      BY <2>1, <3>10
    <3> QED
      BY <1>3, <3>11, <3>12 DEF Counted, caches, failure
  <2>3. CASE ~recorded
    <3>1. phase = "open" /\ ~broken /\ metrics = [read |-> 0, creation |-> 0, errors |-> 0]
      BY <2>3 DEF StreamInv, Counted
    <3>2. PICK cache \in caches:
            metrics' = [read |-> metrics.read + cache.read,
                        creation |-> metrics.creation + cache.creation,
                        errors |-> metrics.errors + errors + failure]
      BY <2>3 DEF Record
    <3>3. cache.read \in Nat /\ cache.creation \in Nat
      <4>1. CASE EventStream
        <5>1. /\ dialect \in Dialects /\ frames \in Seq(Seq(STRING))
              /\ arrived \in 0..Len(FlattenSeq(frames))
          BY <4>1, StreamIs DEF StreamInv, Shaped, Watched, Bytes
        <5>2. Done \in 0..Len(frames)
          BY <5>1, CompleteIs DEF Done
        <5>3. \A k \in 0..Done: k \in 0..Len(frames)
          BY <5>1, <5>2
        <5>4. Done \in 0..Done
          BY <5>1, <5>2
        <5>5. \E k \in 0..Done: observer = Seen(dialect, frames, k)
          BY <4>1, <5>4 DEF StreamInv, Shaped, Watched
        <5>6. observer \in Observers
          BY <5>1, <5>3, <5>5, SeenIs
        <5>7. cache = [read |-> observer.read, creation |-> observer.creation]
          BY <4>1 DEF CacheTokens
        <5> QED
          BY <5>6, <5>7 DEF Observers
      <4>2. CASE ~EventStream
        <5>1. cache \in InBody
          BY <4>2
        <5>2. \E fields \in {ToSet(Bytes), {}}: cache = CacheFromUsage(fields)
          BY <5>1 DEF InBody
        <5> QED
          BY <5>2, CountIs DEF CacheFromUsage
      <4> QED
        BY <4>1, <4>2
    <3> DEFINE read == cache.read
               creation == cache.creation
    <3>4. errors = Count(broken')
      BY <1>1, <3>1 DEF Count
    <3>5. /\ metrics.read + read = read /\ metrics.creation + creation = creation
          /\ metrics.errors + errors + failure = errors + failure
      <4>1. metrics.read = 0 /\ metrics.creation = 0 /\ metrics.errors = 0
        BY <3>1
      <4> HIDE DEF read, creation, failure
      <4>2. read \in Nat /\ creation \in Nat
        BY <3>3 DEF read, creation
      <4> QED
        BY <2>0, <4>1, <4>2
    <3> HIDE DEF failure, caches
    <3>6. metrics' = [read |-> read, creation |-> creation, errors |-> errors + failure]
      BY <3>2, <3>5
    <3>7. metrics' = [read |-> cache.read, creation |-> cache.creation,
                      errors |-> Count(broken') + failure']
      BY <2>1, <3>4, <3>6
    <3>8. phase' # "open"
      BY <1>1
    <3>9. \E c \in caches': metrics' = [read |-> c.read, creation |-> c.creation,
                                       errors |-> Count(broken') + failure']
      BY <2>1, <3>7
    <3> QED
      BY <1>3, <3>8, <3>9 DEF Counted, caches, failure
  <2> QED
    BY <2>2, <2>3 DEF StreamInv, Shaped
<1> QED
  BY <1>4, <1>5, <1>6, <1>7 DEF StreamInv

LEMMA NextInv == StreamInv /\ [Next]_vars => StreamInv'
<1> SUFFICES ASSUME StreamInv, [Next]_vars PROVE StreamInv'
  OBVIOUS
<1>1. ASSUME NEW n \in 1..(Len(Bytes) - arrived), Chunk(n) PROVE StreamInv'
  BY <1>1, ChunkInv
<1>2. CASE Ends
  <2>1. 0 = Count("ended" = "failed")
    BY DEF Count
  <2> QED
    BY <1>2, <2>1, LeaveInv DEF Ends
<1>3. CASE Fails
  <2>1. 1 = Count("failed" = "failed")
    BY DEF Count
  <2> QED
    BY <1>3, <2>1, LeaveInv DEF Fails
<1>4. CASE Dropped
  <2>1. 0 = Count("dropped" = "failed")
    BY DEF Count
  <2> QED
    BY <1>4, <2>1, LeaveInv DEF Dropped
<1>5. CASE UNCHANGED vars
  BY <1>5 DEF vars, StreamInv, Shaped, Watched, Gathered, Counted, Bytes, EventStream, Moderate,
              Done, CacheTokens, InBody
<1> QED
  BY <1>1, <1>2, <1>3, <1>4, <1>5 DEF Next

\* Between two polls of ObservingStream: what is held, what was seen, what was counted.
THEOREM StreamInvariant == Spec => []StreamInv
  BY InitInv, NextInv, PTL DEF Spec

-----------------------------------------------------------------------------
(***************************************************************************)
(* What it says of the counters                                            *)
(***************************************************************************)
LEMMA ReportedIs ==
  ASSUME StreamInv, EventStream
  PROVE  /\ dialect \in Dialects /\ frames \in Seq(Seq(STRING))
         /\ Done \in 0..Len(frames)
         /\ Reported = Seen(dialect, frames, Done)
         /\ Reported \in Observers
<1>1. /\ dialect \in Dialects /\ frames \in Seq(Seq(STRING))
      /\ arrived \in 0..Len(FlattenSeq(frames))
  BY StreamIs DEF StreamInv, Shaped, Watched, Bytes
<1>2. Done \in 0..Len(frames)
  BY <1>1, CompleteIs DEF Done
<1>3. Reported = Seen(dialect, frames, Done)
  BY DEF Reported, Delivered, Seen, Done, Complete
<1> QED
  BY <1>1, <1>2, <1>3, SeenIs

LEMMA BodyReported ==
  ASSUME ~EventStream
  PROVE  /\ Reported.read = CacheFromUsage(ToSet(Bytes)).read
         /\ Reported.creation = CacheFromUsage(ToSet(Bytes)).creation
         /\ Reported.failure = FALSE
<1> DEFINE c == CacheFromUsage(ToSet(Bytes))
<1>1. Reported = WithCache(NothingSeen, ToSet(Bytes))
  BY DEF Reported
<1>2. /\ Reported.read = NothingSeen.read + c.read
      /\ Reported.creation = NothingSeen.creation + c.creation
      /\ Reported.failure = NothingSeen.failure
      /\ c.read \in {0, 1} /\ c.creation \in {0, 1}
  BY <1>1, CacheIsAdded, NothingSeenIs
<1>3. NothingSeen.read = 0 /\ NothingSeen.creation = 0 /\ NothingSeen.failure = FALSE
  BY DEF NothingSeen
<1> HIDE DEF c
<1> QED
  BY <1>2, <1>3 DEF c

\* What was seen of an event stream that keeps to the bounds is what was reported.
LEMMA SeenIsReported ==
  ASSUME StreamInv, EventStream
  PROVE  /\ observer.read <= Reported.read /\ observer.creation <= Reported.creation
         /\ Moderate => observer = Reported
<1>1. /\ dialect \in Dialects /\ frames \in Seq(Seq(STRING))
      /\ Done \in 0..Len(frames)
      /\ Reported = Seen(dialect, frames, Done)
      /\ Reported \in Observers
  BY ReportedIs
<1>2. Len(frames) \in Nat /\ Done \in 0..Done
  BY <1>1
<1>3. PICK k \in 0..Done: observer = Seen(dialect, frames, k)
  BY <1>2 DEF StreamInv, Shaped, Watched
<1>4. k \in 0..Len(frames) /\ Done \in k..Len(frames)
  BY <1>1, <1>2
<1>5. observer.read <= Reported.read /\ observer.creation <= Reported.creation
  BY <1>1, <1>3, <1>4, SeenGrows
<1>6. Moderate => ~overflowed
  BY DEF StreamInv, Shaped, Watched
<1>7. Moderate => observer = Reported
  BY <1>1, <1>6 DEF StreamInv, Watched
<1> QED
  BY <1>5, <1>7

\* What every reply leaves in Metrics: the usage of the frames that had arrived in full.
THEOREM UsageCountedHolds == Spec => []UsageCounted
<1>1. StreamInv => UsageCounted
  <2> SUFFICES ASSUME StreamInv, phase = "dropped"
               PROVE  /\ metrics.read <= Reported.read
                      /\ metrics.creation <= Reported.creation
                      /\ Moderate /\ EventStream => observer = Reported
                      /\ Moderate /\ (EventStream \/ arrived = Len(Bytes))
                             => /\ metrics.read = Reported.read
                                /\ metrics.creation = Reported.creation
    BY DEF UsageCounted
  <2>1. recorded
    BY DEF StreamInv, Shaped, Counted
  <2>2. PICK cache \in IF EventStream THEN {CacheTokens} ELSE InBody:
          metrics = [read |-> cache.read, creation |-> cache.creation,
                     errors |-> Count(broken) + Count(observer.failure)]
    BY <2>1 DEF StreamInv, Counted
  <2>3. metrics.read = cache.read /\ metrics.creation = cache.creation
    BY <2>2
  <2>4. CASE EventStream
    <3>1. cache.read = observer.read /\ cache.creation = observer.creation
      BY <2>4 DEF CacheTokens
    <3> QED
      BY <2>3, <2>4, <3>1, SeenIsReported
  <2>5. CASE ~EventStream
    <3> DEFINE c == CacheFromUsage(ToSet(Bytes))
               none == CacheFromUsage({})
    <3>1. Reported.read = c.read /\ Reported.creation = c.creation
      BY <2>5, BodyReported
    <3>2. c.read \in {0, 1} /\ c.creation \in {0, 1} /\ none.read = 0 /\ none.creation = 0
      BY CountIs DEF CacheFromUsage, Count
    <3>3. cache \in {c, none}
      BY <2>5 DEF InBody
    <3>4. Moderate /\ arrived = Len(Bytes) => cache = c
      <4> SUFFICES ASSUME Moderate, arrived = Len(Bytes) PROVE cache = c
        OBVIOUS
      <4>1. PICK b \in Bodies: frames = <<b>>
        BY <2>5 DEF StreamInv, Gathered
      <4>2. Bytes = b /\ b \in Seq(Text)
        BY <4>1, BodyIs DEF Bytes
      <4>3. buffered = SubSeq(Bytes, 1, Len(Bytes))
        BY <2>5 DEF StreamInv, Gathered, Moderate
      <4>4. buffered = Bytes
        BY <4>2, <4>3, SubSeqFull
      <4> QED
        BY <2>5, <4>4 DEF InBody, IsStrictPrefix
    <3> HIDE DEF c, none
    <3> QED
      BY <2>3, <2>5, <3>1, <3>2, <3>3, <3>4
  <2> QED
    BY <2>4, <2>5
<1> QED
  BY <1>1, StreamInvariant, PTL

\* A reply that ended in an error is counted as one, and no other is.
THEOREM FailureCountedHolds == Spec => []FailureCounted
<1>1. StreamInv => FailureCounted
  <2> SUFFICES ASSUME StreamInv, phase = "dropped", Moderate
               PROVE  /\ metrics.errors > 0 <=> broken \/ Reported.failure
                      /\ metrics.errors > 1 => broken /\ Reported.failure
    BY DEF FailureCounted
  <2>1. recorded
    BY DEF StreamInv, Shaped, Counted
  <2>2. metrics.errors = Count(broken) + Count(observer.failure)
    BY <2>1 DEF StreamInv, Counted
  <2>3. observer.failure = Reported.failure /\ Reported.failure \in BOOLEAN
    <3>1. CASE EventStream
      <4>1. observer = Reported /\ Reported \in Observers
        BY <3>1, SeenIsReported, ReportedIs
      <4> QED
        BY <4>1 DEF Observers
    <3>2. CASE ~EventStream
      <4>1. Reported.failure = FALSE
        BY <3>2, BodyReported
      <4>2. observer = NothingSeen
        BY <3>2 DEF StreamInv, Gathered
      <4> QED
        BY <4>1, <4>2 DEF NothingSeen
    <3> QED
      BY <3>1, <3>2
  <2>4. broken \in BOOLEAN
    BY DEF StreamInv, Shaped
  <2> QED
    BY <2>2, <2>3, <2>4 DEF Count
<1> QED
  BY <1>1, StreamInvariant, PTL

\* What the proxy holds of a reply between two chunks.
THEOREM HeldBytesBoundedHolds == Spec => []HeldBytesBounded
<1>1. StreamInv => HeldBytesBounded
  <2> SUFFICES ASSUME StreamInv PROVE HeldBytesBounded
    OBVIOUS
  <2>1. Len(<<>>) = 0 /\ 0 <= MaxFrameBytes
    BY BoundAssumption
  <2>2. Len(buffer) <= MaxFrameBytes
    BY <2>1 DEF StreamInv, Shaped, Watched, Gathered
  <2>3. ~EventStream => Len(buffered) <= MaxBufferedBody
    BY DEF StreamInv, Gathered
  <2> QED
    BY <2>2, <2>3 DEF HeldBytesBounded
<1> QED
  BY <1>1, StreamInvariant, PTL

-----------------------------------------------------------------------------
(***************************************************************************)
(* The relay of a WebSocket, for any frames, any number of them and any    *)
(* room in the sockets                                                     *)
(***************************************************************************)
(***************************************************************************)
(* A frame moves along a pipe of sequences without disturbing the order.   *)
(***************************************************************************)
LEMMA FirstTaken ==
  ASSUME NEW S, NEW r \in Seq(S), NEW o \in Seq(S), o # <<>>
  PROVE  /\ Append(r, Head(o)) \o Tail(o) = r \o o
         /\ <<Head(o)>> \o Tail(o) = o
  <1>1. Head(o) \in S /\ Tail(o) \in Seq(S)
    BY HeadTailProperties
  <1>2. <<Head(o)>> \in Seq(S)
    BY <1>1
  <1>3. <<Head(o)>> \o Tail(o) = o
    <2>1. Len(o) \in Nat \ {0}
      BY EmptySeq
    <2>2. <<Head(o)>> \o Tail(o) \in Seq(S) /\ Len(<<Head(o)>> \o Tail(o)) = Len(o)
      BY <1>1, <1>2, <2>1, HeadTailProperties, ConcatProperties
    <2>3. ASSUME NEW i \in 1..Len(o)
          PROVE  (<<Head(o)>> \o Tail(o))[i] = o[i]
      <3>1. Len(Tail(o)) = Len(o) - 1 /\ \A j \in 1..Len(Tail(o)): Tail(o)[j] = o[j + 1]
        BY HeadTailProperties
      <3>2. (<<Head(o)>> \o Tail(o))[i] = IF i <= 1 THEN <<Head(o)>>[i] ELSE Tail(o)[i - 1]
        BY <1>1, <1>2, <2>1, <3>1, ConcatProperties
      <3>3. QED
        BY <2>1, <3>1, <3>2
    <2>4. QED
      BY <2>2, <2>3, SeqEqual
  <1>4. Append(r, Head(o)) \o Tail(o) = (r \o <<Head(o)>>) \o Tail(o)
    BY <1>1, AppendIsConcat
  <1>5. (r \o <<Head(o)>>) \o Tail(o) = r \o (<<Head(o)>> \o Tail(o))
    BY <1>1, <1>2, ConcatAssociative
  <1>6. QED
    BY <1>3, <1>4, <1>5

LEMMA OneMoreBehind ==
  ASSUME NEW S, NEW r \in Seq(S), NEW o \in Seq(S), NEW f \in S
  PROVE  r \o Append(o, f) = Append(r \o o, f)
  <1>1. r \o Append(o, f) = r \o (o \o <<f>>)
    BY AppendIsConcat
  <1>2. <<f>> \in Seq(S) /\ r \o o \in Seq(S)
    BY ConcatProperties
  <1>3. r \o (o \o <<f>>) = (r \o o) \o <<f>>
    BY <1>2, ConcatAssociative
  <1>4. QED
    BY <1>1, <1>2, <1>3, AppendIsConcat

LEMMA PrefixHasRest ==
  ASSUME NEW S, NEW s \in Seq(S), NEW t \in Seq(S)
  PROVE  IsPrefix(s, t) <=> \E rest \in Seq(S): t = s \o rest
  <1>1. Len(s) \in Nat /\ Len(t) \in Nat
    BY LenProperties
  <1>2. ASSUME NEW rest \in Seq(S), t = s \o rest
        PROVE  IsPrefix(s, t)
    <2>1. Len(rest) \in Nat /\ Len(t) = Len(s) + Len(rest)
      BY <1>2, ConcatProperties, LenProperties
    <2>2. CASE Len(s) = 0
      BY <1>1, <2>1, <2>2, SubSeqEmpty DEF IsPrefix
    <2>3. CASE Len(s) # 0
      <3>1. SubSeq(t, 1, Len(s)) = SubSeq(s, 1, Len(s))
        BY <1>1, <1>2, <2>3, SubSeqOfConcat1
      <3>2. QED
        BY <1>1, <2>1, <3>1 DEF IsPrefix
    <2>4. QED
      BY <2>2, <2>3
  <1>3. ASSUME IsPrefix(s, t)
        PROVE  \E rest \in Seq(S): t = s \o rest
    <2> DEFINE rest == SubSeq(t, Len(s) + 1, Len(t))
    <2>1. Len(s) <= Len(t) /\ SubSeq(s, 1, Len(s)) = SubSeq(t, 1, Len(s))
      BY <1>3 DEF IsPrefix
    <2>2. rest \in Seq(S)
      <3>1. \A i \in Len(s) + 1 .. Len(t): t[i] \in S
        BY <1>1, ElementOfSeq
      <3>2. QED
        BY <1>1, <3>1, SubSeqProperties
    <2>3. SubSeq(t, 1, Len(s)) \o rest = SubSeq(t, 1, Len(t))
      <3>1. 1 \in 1..Len(t) + 1 /\ Len(s) \in 1 - 1 .. Len(t) /\ Len(t) \in Len(s)..Len(t)
        BY <1>1, <2>1
      <3>2. QED
        BY ONLY <3>1, ConcatAdjacentSubSeq, t \in Seq(S)
    <2>4. SubSeq(s, 1, Len(s)) = s /\ SubSeq(t, 1, Len(t)) = t
      BY SubSeqFull
    <2>5. QED
      BY <2>1, <2>2, <2>3, <2>4
  <1>4. QED
    BY <1>2, <1>3

\* The same of frames, as the steps of the relay use it.
LEMMA PipeOfFrames ==
  /\ \A r, o \in Seq(Frames): o # <<>> => Append(r, Head(o)) \o Tail(o) = r \o o
  /\ \A r, o \in Seq(Frames), f \in Frames: r \o Append(o, f) = (r \o o) \o <<f>>
  /\ \A r, o, i \in Seq(Frames): (r \o o) \o i = r \o (o \o i)
  <1>1. ASSUME NEW r \in Seq(Frames), NEW o \in Seq(Frames), NEW f \in Frames
        PROVE  r \o Append(o, f) = (r \o o) \o <<f>>
    <2>1. r \o o \in Seq(Frames)
      BY ConcatProperties
    <2>2. Append(r \o o, f) = (r \o o) \o <<f>>
      BY <2>1, AppendIsConcat
    <2>3. r \o Append(o, f) = Append(r \o o, f)
      BY OneMoreBehind
    <2>4. QED
      BY <2>2, <2>3
  <1>2. \A r, o \in Seq(Frames): o # <<>> => Append(r, Head(o)) \o Tail(o) = r \o o
    BY FirstTaken
  <1>3. \A r, o, i \in Seq(Frames): (r \o o) \o i = r \o (o \o i)
    BY ConcatAssociative
  <1>4. QED
    BY <1>1, <1>2, <1>3

-----------------------------------------------------------------------------
LEMMA NextPumpTypeOK == PumpTypeOK /\ TasksBorn /\ [PumpNext]_pumpVars => PumpTypeOK' /\ TasksBorn'
  <1> SUFFICES ASSUME PumpTypeOK, TasksBorn, [PumpNext]_pumpVars
               PROVE  PumpTypeOK' /\ TasksBorn'
    OBVIOUS
  <1> USE CloseAssumption, RoomAssumption DEF PumpTypeOK, TasksBorn, sides, Task, Doing
  <1>1. CASE Connect
    BY <1>1 DEF Connect
  <1>2. CASE ConnectFails
    BY <1>2 DEF ConnectFails
  <1>3. CASE Select
    BY <1>3 DEF Select
  <1>4. ASSUME NEW s \in Sides, NEW frame \in Frames, Says(s, frame)
        PROVE  PumpTypeOK' /\ TasksBorn'
    <2>1. said' \in [Sides -> Seq(Frames)] /\ inbox' \in [Sides -> Seq(Frames)]
      BY <1>4, AppendProperties DEF Says
    <2>2. QED
      BY <1>4, <2>1 DEF Says
  <1>5. ASSUME NEW s \in Sides, Takes(s)
        PROVE  PumpTypeOK' /\ TasksBorn'
    <2>1. /\ Head(outbox[s]) \in Frames /\ Tail(outbox[s]) \in Seq(Frames)
          /\ Len(Tail(outbox[s])) = Len(outbox[s]) - 1
      BY <1>5, HeadTailProperties DEF Takes
    <2>2. Append(received[s], Head(outbox[s])) \in Seq(Frames)
      BY <2>1, AppendProperties
    <2>3. Len(outbox[s]) \in Nat
      BY LenProperties
    <2>4. \A t \in Sides: Len(outbox'[t]) <= Room
      BY <1>5, <2>1, <2>3 DEF Takes
    <2>5. QED
      BY <1>5, <2>1, <2>2, <2>4 DEF Takes
  <1>6. ASSUME NEW s \in Sides, Vanishes(s)
        PROVE  PumpTypeOK' /\ TasksBorn'
    BY <1>6 DEF Vanishes
  <1>7. ASSUME NEW s \in Sides, Reads(s)
        PROVE  PumpTypeOK' /\ TasksBorn'
    <2>1. Head(inbox[s]) \in Frames /\ Tail(inbox[s]) \in Seq(Frames)
      BY <1>7, HeadTailProperties DEF Reads
    <2>2. closed' \in [Sides -> BOOLEAN]
      BY <1>7 DEF Reads
    <2>3. QED
      BY <1>7, <2>1, <2>2 DEF Reads
  <1>8. ASSUME NEW s \in Sides, ReadEnds(s) \/ SendFails(s)
        PROVE  PumpTypeOK' /\ TasksBorn'
    <2>1. /\ task' = [task EXCEPT ![s] = Doing("done")]
          /\ UNCHANGED <<relay, sides, inbox, closed, outbox, received>>
      BY <1>8 DEF ReadEnds, SendFails
    <2>2. relay # "connecting"
      BY <1>8 DEF ReadEnds, SendFails
    <2>3. QED
      BY <2>1, <2>2
  <1>9. ASSUME NEW s \in Sides, Sends(s)
        PROVE  PumpTypeOK' /\ TasksBorn'
    <2> DEFINE to == Peer(s)
    <2>1. to \in Sides
      BY DEF Peer, Sides
    <2>2. task[s].frame \in Frames
      BY <1>9 DEF Sends
    <2>3. /\ Append(outbox[to], task[s].frame) \in Seq(Frames)
          /\ Len(Append(outbox[to], task[s].frame)) = Len(outbox[to]) + 1
          /\ Len(outbox[to]) \in Nat
      BY <2>1, <2>2, AppendProperties, LenProperties
    <2>4. /\ outbox' \in [Sides -> Seq(Frames)]
          /\ \A t \in Sides: Len(outbox'[t]) <= Room
      BY <1>9, <2>1, <2>3 DEF Sends
    <2>5. closed' \in [Sides -> BOOLEAN]
      BY <1>9, <2>1 DEF Sends
    <2>6. QED
      BY <1>9, <2>4, <2>5 DEF Sends
  <1>10. CASE UNCHANGED pumpVars
    BY <1>10 DEF pumpVars
  <1>11. QED
    BY <1>1, <1>2, <1>3, <1>4, <1>5, <1>6, <1>7, <1>8, <1>9, <1>10
       DEF PumpNext, TaskStep

(***************************************************************************)
(* Each direction on its own: what NothingAstray says of the frames of one *)
(* side, the lost ones named.                                              *)
(***************************************************************************)
Kept(s) ==
    IF task[s].at # "done"
    THEN said[s] = SentTo(Peer(s)) \o (Hand(s) \o inbox[s])
    ELSE \E lost \in Seq(Frames): said[s] = SentTo(Peer(s)) \o lost

LEMMA PeersDiffer ==
  /\ \A s \in Sides: Peer(s) \in Sides /\ Peer(s) # s /\ Peer(Peer(s)) = s
  /\ \A s, t \in Sides: t = s \/ t = Peer(s)
  BY DEF Peer, Sides

LEMMA PartsAreSequences ==
  ASSUME PumpTypeOK, TasksBorn, NEW s \in Sides
  PROVE  /\ SentTo(s) \in Seq(Frames)
         /\ Hand(s) \in Seq(Frames)
         /\ Hand(s) \o inbox[s] \in Seq(Frames)
  <1>1. received[s] \in Seq(Frames) /\ outbox[s] \in Seq(Frames) /\ inbox[s] \in Seq(Frames)
    BY DEF PumpTypeOK
  <1>2. Hand(s) \in Seq(Frames)
    BY EmptySeq DEF Hand, TasksBorn
  <1>3. QED
    BY <1>1, <1>2, ConcatProperties DEF SentTo

LEMMA KeptIsNothingAstray ==
  ASSUME PumpTypeOK, TasksBorn
  PROVE  NothingAstray <=> \A s \in Sides: Kept(s)
  <1>1. ASSUME NEW s \in Sides
        PROVE  IsPrefix(SentTo(Peer(s)), said[s])
                  <=> \E lost \in Seq(Frames): said[s] = SentTo(Peer(s)) \o lost
    <2>1. SentTo(Peer(s)) \in Seq(Frames) /\ said[s] \in Seq(Frames)
      BY PeersDiffer, PartsAreSequences DEF PumpTypeOK
    <2>2. QED
      BY <2>1, PrefixHasRest
  <1>2. QED
    BY <1>1 DEF NothingAstray, Kept

LEMMA NextKept ==
  ASSUME PumpTypeOK, TasksBorn, [PumpNext]_pumpVars,
         NEW s \in Sides, NEW to \in Sides, to = Peer(s), Kept(s)
  PROVE  Kept(s)'
  <1>a. to # s /\ Peer(to) = s /\ Peer(s) = to
    BY PeersDiffer
  <1>b. Kept(s)
    OBVIOUS
  <1>c. /\ said[s] \in Seq(Frames) /\ inbox[s] \in Seq(Frames)
        /\ received[to] \in Seq(Frames) /\ outbox[to] \in Seq(Frames)
        /\ task \in [Sides -> Task]
    BY <1>a DEF PumpTypeOK
  <1>d. /\ SentTo(to) \in Seq(Frames) /\ Hand(s) \in Seq(Frames)
        /\ Hand(s) \o inbox[s] \in Seq(Frames)
    BY <1>a, PartsAreSequences
  <1>1. ASSUME UNCHANGED <<said[s], inbox[s], received[to], outbox[to], task[s]>>
        PROVE  Kept(s)'
    BY <1>1, <1>a, <1>b DEF Kept, SentTo, Hand
  <1>2. ASSUME UNCHANGED <<said[s], inbox[s], received[to], outbox[to]>>,
               task[s].at \notin {"send", "done"}, task'[s].at \notin {"send", "done"}
        PROVE  Kept(s)'
    BY <1>2, <1>a, <1>b DEF Kept, SentTo, Hand
  <1>3. CASE Connect
    <2>1. task[s].at = "unborn" /\ task'[s].at = "read"
      BY <1>3 DEF Connect, TasksBorn, Doing
    <2>2. QED
      BY <1>2, <1>3, <2>1 DEF Connect, sides
  <1>4. CASE ConnectFails \/ Select
    BY <1>1, <1>4 DEF ConnectFails, Select, sides
  <1>5. ASSUME NEW frame \in Frames, Says(s, frame)
        PROVE  Kept(s)'
    <2>1. said'[s] = Append(said[s], frame) /\ inbox'[s] = Append(inbox[s], frame)
      BY <1>5 DEF Says, PumpTypeOK
    <2>2. SentTo(to)' = SentTo(to) /\ Hand(s)' = Hand(s) /\ task' = task
      BY <1>5 DEF Says, SentTo, Hand
    <2>3. CASE task[s].at # "done"
      <3>1. Hand(s) \o Append(inbox[s], frame) = Append(Hand(s) \o inbox[s], frame)
        <4>1. Hand(s) \in Seq(Frames) /\ inbox[s] \in Seq(Frames)
          BY <1>c, <1>d
        <4> QED
          BY ONLY <4>1, frame \in Frames, OneMoreBehind
      <3>2. SentTo(to) \o Append(Hand(s) \o inbox[s], frame)
              = Append(SentTo(to) \o (Hand(s) \o inbox[s]), frame)
        <4>1. SentTo(to) \in Seq(Frames) /\ Hand(s) \o inbox[s] \in Seq(Frames)
          BY <1>d
        <4> QED
          BY ONLY <4>1, frame \in Frames, OneMoreBehind
      <3>3. said[s] = SentTo(to) \o (Hand(s) \o inbox[s])
        BY <1>a, <1>b, <2>3 DEF Kept
      <3>4. QED
        BY <1>a, <2>1, <2>2, <2>3, <3>1, <3>2, <3>3 DEF Kept
    <2>4. CASE task[s].at = "done"
      <3>1. PICK lost \in Seq(Frames): said[s] = SentTo(to) \o lost
        BY <1>a, <1>b, <2>4 DEF Kept
      <3>2. Append(lost, frame) \in Seq(Frames)
        BY AppendProperties
      <3>3. SentTo(to) \o Append(lost, frame) = Append(SentTo(to) \o lost, frame)
        BY <1>d, OneMoreBehind
      <3>4. QED
        BY <1>a, <2>1, <2>2, <2>4, <3>1, <3>2, <3>3 DEF Kept
    <2>5. QED
      BY <2>3, <2>4
  <1>6. ASSUME NEW frame \in Frames, Says(to, frame)
        PROVE  Kept(s)'
    BY <1>1, <1>6, <1>a DEF Says, PumpTypeOK
  <1>7. CASE Takes(to)
    <2>1. /\ received'[to] = Append(received[to], Head(outbox[to]))
          /\ outbox'[to] = Tail(outbox[to])
      BY <1>7, <1>a DEF Takes, PumpTypeOK
    <2>2. Append(received[to], Head(outbox[to])) \o Tail(outbox[to]) = received[to] \o outbox[to]
      <3>1. outbox[to] \in Seq(Frames) /\ outbox[to] # <<>> /\ received[to] \in Seq(Frames)
        BY <1>7, <1>c DEF Takes
      <3>2. QED
        BY <3>1, PipeOfFrames
    <2>3. QED
      BY <1>7, <1>a, <1>b, <2>1, <2>2 DEF Takes, Kept, Hand, SentTo
  <1>8. CASE Takes(s)
    BY <1>1, <1>8, <1>a DEF Takes, PumpTypeOK
  <1>9. CASE Vanishes(s) \/ Vanishes(to)
    BY <1>1, <1>9 DEF Vanishes
  <1>10. CASE Reads(s)
    <2>1. /\ inbox[s] # <<>> /\ task[s].at = "read"
          /\ task'[s] = [at |-> "send", frame |-> Head(inbox[s])]
          /\ inbox'[s] = Tail(inbox[s])
      BY <1>10, <1>c DEF Reads, PumpTypeOK
    <2>2. (Hand(s) \o inbox[s])' = <<Head(inbox[s])>> \o Tail(inbox[s])
      BY <2>1 DEF Hand
    <2>3. Hand(s) \o inbox[s] = inbox[s]
      BY <1>c, <2>1, ConcatEmptySeq DEF Hand
    <2>4. (Hand(s) \o inbox[s])' = Hand(s) \o inbox[s]
      BY <1>c, <2>1, <2>2, <2>3, FirstTaken
    <2>5. SentTo(to)' = SentTo(to) /\ said' = said
      BY <1>10 DEF Reads, SentTo, sides
    <2>6. task'[s].at # "done" /\ task[s].at # "done"
      BY <2>1
    <2>7. QED
      BY <1>a, <1>b, <2>4, <2>5, <2>6 DEF Kept
  <1>11. CASE ReadEnds(s) \/ SendFails(s)
    <2>1. /\ task[s].at # "done" /\ task'[s].at = "done"
          /\ UNCHANGED <<said, inbox, outbox, received>>
      BY <1>11, <1>c DEF ReadEnds, SendFails, Doing, sides
    <2>2. SentTo(to)' = SentTo(to)
      BY <2>1 DEF SentTo
    <2>3. said'[s] = SentTo(to)' \o (Hand(s) \o inbox[s])
      BY <1>a, <1>b, <2>1, <2>2 DEF Kept
    <2>4. QED
      BY <1>a, <1>d, <2>1, <2>2, <2>3 DEF Kept
  <1>12. CASE Sends(s)
    <2> DEFINE frame == task[s].frame
    <2>1. /\ task[s].at = "send" /\ task'[s].at = "read"
          /\ outbox'[to] = Append(outbox[to], frame)
          /\ UNCHANGED <<said, inbox, received>>
      BY <1>12, <1>a, <1>c DEF Sends, PumpTypeOK, Doing, sides
    <2>2. frame \in Frames
      BY <2>1 DEF TasksBorn
    <2>3. SentTo(to)' = SentTo(to) \o <<frame>>
      <3>1. received[to] \in Seq(Frames) /\ outbox[to] \in Seq(Frames)
        BY <1>c
      <3>2. received[to] \o Append(outbox[to], frame) = (received[to] \o outbox[to]) \o <<frame>>
        BY <2>2, <3>1, PipeOfFrames
      <3>3. QED
        BY <2>1, <3>2 DEF SentTo
    <2>4. (Hand(s) \o inbox[s])' = inbox[s]
      BY <1>c, <2>1, ConcatEmptySeq DEF Hand
    <2>5. Hand(s) = <<frame>>
      BY <2>1 DEF Hand
    <2>6. <<frame>> \in Seq(Frames)
      BY <1>d, <2>5
    <2>7. (SentTo(to) \o <<frame>>) \o inbox[s] = SentTo(to) \o (<<frame>> \o inbox[s])
      <3>1. SentTo(to) \in Seq(Frames) /\ inbox[s] \in Seq(Frames)
        BY <1>c, <1>d
      <3>2. QED
        BY <2>6, <3>1, PipeOfFrames
    <2>8. said[s] = SentTo(to) \o (Hand(s) \o inbox[s])
      BY <1>a, <1>b, <2>1 DEF Kept
    <2>9. QED
      BY <1>a, <2>1, <2>3, <2>4, <2>5, <2>7, <2>8 DEF Kept
  <1>13. CASE TaskStep(to)
    BY <1>1, <1>13, <1>a, <1>c
       DEF TaskStep, Reads, ReadEnds, Sends, SendFails, PumpTypeOK, sides
  <1>14. CASE UNCHANGED pumpVars
    BY <1>1, <1>14 DEF pumpVars
  <1>15. QED
    BY <1>3, <1>4, <1>5, <1>6, <1>7, <1>8, <1>9, <1>10, <1>11, <1>12, <1>13, <1>14,
       PeersDiffer, <1>a DEF PumpNext, TaskStep

-----------------------------------------------------------------------------
\* Frames in flight are accounted for in every reachable state.
THEOREM PipeInvariant == PumpSpec => []PumpInv
  <1>1. PumpInit => PumpInv
    <2> SUFFICES ASSUME PumpInit
                 PROVE  PumpInv
      OBVIOUS
    <2>1. PumpTypeOK /\ TasksBorn
      BY CloseAssumption, RoomAssumption, EmptySeq DEF PumpInit, PumpTypeOK, TasksBorn, Task, Doing
    <2>2. ASSUME NEW s \in Sides
          PROVE  /\ task[s].at # "done"
                 /\ said[s] = SentTo(Peer(s)) \o (Hand(s) \o inbox[s])
      <3>1. <<>> \o <<>> = <<>>
        BY ConcatEmptySeq, EmptySeq
      <3>2. /\ task[s].at = "unborn"
            /\ said[s] = <<>> /\ inbox[s] = <<>>
            /\ received[Peer(s)] = <<>> /\ outbox[Peer(s)] = <<>>
        BY PeersDiffer DEF PumpInit, Doing
      <3>3. QED
        BY <3>1, <3>2 DEF SentTo, Hand
    <2>3. QED
      BY <2>1, <2>2 DEF PumpInv, NothingAstray
  <1>2. PumpInv /\ [PumpNext]_pumpVars => PumpInv'
    <2> SUFFICES ASSUME PumpInv, [PumpNext]_pumpVars
                 PROVE  PumpInv'
      OBVIOUS
    <2>1. PumpTypeOK /\ TasksBorn /\ PumpTypeOK' /\ TasksBorn'
      BY NextPumpTypeOK DEF PumpInv
    <2>2. \A s \in Sides: Kept(s)'
      BY <2>1, KeptIsNothingAstray, NextKept, PeersDiffer DEF PumpInv
    <2>3. NothingAstray'
      <3>1. ASSUME NEW s \in Sides
            PROVE  SentTo(Peer(s))' \in Seq(Frames) /\ said'[s] \in Seq(Frames)
        BY <2>1, PeersDiffer, ConcatProperties DEF SentTo, PumpTypeOK
      <3>2. ASSUME NEW s \in Sides, \E lost \in Seq(Frames): said'[s] = SentTo(Peer(s))' \o lost
            PROVE  IsPrefix(SentTo(Peer(s))', said'[s])
        BY <3>1, <3>2, PrefixHasRest
      <3>3. QED
        BY <2>2, <3>2 DEF NothingAstray, Kept
    <2>4. QED
      BY <2>1, <2>3 DEF PumpInv
  <1>3. QED
    BY <1>1, <1>2, PTL DEF PumpSpec

(***************************************************************************)
(* The relay loses, repeats, reorders and invents nothing before the place *)
(* where it stops, in either direction and whatever dies on the way.       *)
(***************************************************************************)
THEOREM PipeIsFaithful == PumpSpec => []FaithfulPipe
  <1>1. ASSUME PumpInv, NEW s \in Sides
        PROVE  IsPrefix(SentTo(s), said[Peer(s)])
    <2> DEFINE from == Peer(s)
    <2>1. from \in Sides /\ Peer(from) = s
      BY PeersDiffer
    <2>2. SentTo(s) \in Seq(Frames) /\ Hand(from) \o inbox[from] \in Seq(Frames)
      BY <1>1, <2>1, PartsAreSequences DEF PumpInv
    <2>3. \E rest \in Seq(Frames): said[from] = SentTo(s) \o rest
      BY <1>1, <2>1, <2>2, KeptIsNothingAstray DEF PumpInv, Kept
    <2>4. said[from] \in Seq(Frames)
      BY <1>1, <2>1 DEF PumpInv, PumpTypeOK
    <2>5. QED
      BY <2>2, <2>3, <2>4, PrefixHasRest
  <1>2. PumpInv => FaithfulPipe
    BY <1>1 DEF FaithfulPipe, SentTo
  <1>3. QED
    BY <1>2, PipeInvariant, PTL
=============================================================================
