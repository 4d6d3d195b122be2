---------------------------- MODULE ProxyProofs ----------------------------
(***************************************************************************)
(* What Proxy keeps for any clients, requests, deployments, windows and    *)
(* bounds.  First three invariants that do not depend on each other: of    *)
(* the limiter, of the probes, and of the bytes that leave.  Then what the *)
(* operator is told: what was counted and let through, and which settings  *)
(* a request runs with.                                                    *)
(***************************************************************************)
EXTENDS Proxy, Integers, FiniteSetTheorems, TLAPS

-----------------------------------------------------------------------------
(***************************************************************************)
(* The limiter, apart from the proxy.  P[t] is how much was let through    *)
(* before tick t.  What was taken from the bucket since it was refilled    *)
(* and what is left of it make up the limit; nothing was let through once  *)
(* its window was over; and the window before it let no more through than  *)
(* the limit either, which is what bounds a stretch across two windows.    *)
(***************************************************************************)
Limited(P, tokens, refilled, limit, n) ==
  /\ P \in [Nat -> Nat] /\ tokens \in Nat /\ refilled \in Nat /\ limit \in Nat /\ n \in Nat
  /\ refilled <= n
  /\ \A s, t \in Nat : s <= t => P[s] <= P[t]
  /\ \A t \in Nat : t > n => P[t] = P[n + 1]
  /\ tokens + P[n + 1] = limit + P[refilled]
  /\ \A t \in Nat : t >= refilled + Window => P[t] = P[refilled + Window]
  /\ \A t \in Nat : P[t + Window] <= P[t] + 2 * limit
  /\ \A t \in Nat : t + Window >= refilled => P[refilled] <= P[t] + limit

\* A bucket that has just been filled, and nothing let through.
LEMMA LimitedAtStart ==
  ASSUME NEW limit \in Nat, NEW n \in Nat
  PROVE  Limited([t \in Nat |-> 0], limit, n, limit, n)
  BY WindowAssumption DEF Limited

\* Time passes.
LEMMA LimitedInTime ==
  ASSUME NEW P, NEW tokens, NEW refilled, NEW limit, NEW n, Limited(P, tokens, refilled, limit, n)
  PROVE  Limited(P, tokens, refilled, limit, n + 1)
  <1>1. P[n + 2] = P[n + 1]
    BY DEF Limited
  <1>2. \A t \in Nat : t > n + 1 => P[t] = P[n + 2]
    BY <1>1 DEF Limited
  <1>3. n + 1 \in Nat /\ (n + 1) + 1 = n + 2 /\ refilled <= n + 1
    BY DEF Limited
  <1>4. QED
    BY <1>1, <1>2, <1>3 DEF Limited

\* One or more whole windows are over: the bucket is full again.
LEMMA LimitedByRefill ==
  ASSUME NEW P, NEW tokens, NEW refilled, NEW limit, NEW n, Limited(P, tokens, refilled, limit, n),
         NEW later \in Nat, refilled + Window <= later, later <= n
  PROVE  Limited(P, limit, later, limit, n)
  <1> USE WindowAssumption
  <1>1. P[later] = P[refilled + Window] /\ P[n + 1] = P[refilled + Window]
    BY DEF Limited
  <1>2. \A t \in Nat : t >= later + Window => P[t] = P[later + Window]
    BY DEF Limited
  <1>3. ASSUME NEW t \in Nat, t + Window >= later
        PROVE  P[later] <= P[t] + limit
    <2>1. P[refilled] <= P[t]
      BY <1>3 DEF Limited
    <2>2. P[later] <= limit + P[refilled]
      BY <1>1 DEF Limited
    <2>3. QED
      BY <2>1, <2>2 DEF Limited
  <1>4. limit + P[n + 1] = limit + P[later]
    BY <1>1
  <1>5. QED
    BY <1>2, <1>3, <1>4 DEF Limited

\* A request is let through, in the window of the bucket.
LEMMA LimitedByTaking ==
  ASSUME NEW P, NEW tokens, NEW refilled, NEW limit, NEW n, Limited(P, tokens, refilled, limit, n),
         tokens > 0, n < refilled + Window
  PROVE  Limited([t \in Nat |-> P[t] + (IF t > n THEN 1 ELSE 0)], tokens - 1, refilled, limit, n)
  <1> USE WindowAssumption
  <1> DEFINE Q == [t \in Nat |-> P[t] + (IF t > n THEN 1 ELSE 0)]
  <1>1. \A t \in Nat : Q[t] = (IF t > n THEN P[t] + 1 ELSE P[t]) /\ Q[t] \in Nat /\ P[t] \in Nat
    BY DEF Limited
  <1>a. Q \in [Nat -> Nat]
    BY <1>1
  <1> HIDE DEF Q
  <1>2. ASSUME NEW s \in Nat, NEW t \in Nat, s <= t
        PROVE  Q[s] <= Q[t]
    <2>1. P[s] <= P[t] /\ n \in Nat
      BY <1>2 DEF Limited
    <2>2. (s > n => t > n) /\ P[s] \in Nat /\ P[t] \in Nat
      BY <1>1, <1>2, <2>1
    <2>3. QED
      BY <1>1, <2>1, <2>2
  <1>3. \A t \in Nat : t > n => Q[t] = Q[n + 1]
    BY <1>1 DEF Limited
  <1>4. (tokens - 1) + Q[n + 1] = limit + Q[refilled] /\ tokens - 1 \in Nat
    <2>1. n + 1 \in Nat /\ n + 1 > n /\ refilled \in Nat /\ ~(refilled > n)
      BY DEF Limited
    <2>2. Q[n + 1] = P[n + 1] + 1 /\ Q[refilled] = P[refilled] /\ P[n + 1] \in Nat /\ P[refilled] \in Nat
      BY <1>1, <2>1
    <2>3. tokens \in Nat /\ limit \in Nat /\ tokens + P[n + 1] = limit + P[refilled]
      BY DEF Limited
    <2>4. QED
      BY <2>2, <2>3
  <1>5. \A t \in Nat : t >= refilled + Window => Q[t] = Q[refilled + Window]
    BY <1>1 DEF Limited
  <1>6. ASSUME NEW t \in Nat
        PROVE  Q[t + Window] <= Q[t] + 2 * limit
    <2>1. CASE t > n \/ t + Window <= n
      BY <1>1, <2>1 DEF Limited
    <2>2. CASE t <= n /\ t + Window > n
      <3>1. t + Window \in Nat /\ n \in Nat /\ n + 1 \in Nat /\ refilled \in Nat /\ limit \in Nat
        BY DEF Limited
      <3>2. P[t + Window] = P[n + 1]
        BY <2>2, <3>1 DEF Limited
      <3>3. P[n + 1] \in Nat /\ P[refilled] \in Nat /\ P[t] \in Nat /\ P[t + Window] \in Nat
        BY <1>1, <3>1
      <3>4. P[n + 1] + 1 <= limit + P[refilled]
        BY <3>1, <3>3 DEF Limited
      <3>5. t + Window >= refilled
        BY <2>2, <3>1 DEF Limited
      <3>6. P[refilled] <= P[t] + limit
        BY <3>5 DEF Limited
      <3>7. Q[t + Window] = P[t + Window] + 1 /\ Q[t] = P[t]
        BY <1>1, <2>2, <3>1
      <3>8. QED
        BY <3>1, <3>2, <3>3, <3>4, <3>6, <3>7
    <2>3. QED
      BY <2>1, <2>2 DEF Limited
  <1>7. ASSUME NEW t \in Nat, t + Window >= refilled
        PROVE  Q[refilled] <= Q[t] + limit
    <2>1. P[refilled] <= P[t] + limit
      BY <1>7 DEF Limited
    <2>2. refilled \in Nat /\ limit \in Nat /\ ~(refilled > n)
      BY DEF Limited
    <2>3. Q[refilled] = P[refilled] /\ P[t] <= Q[t] /\ Q[t] \in Nat /\ P[t] \in Nat /\ P[refilled] \in Nat
      BY <1>1, <2>2
    <2>4. QED
      BY <2>1, <2>2, <2>3
  <1>8. QED
    BY <1>a, <1>2, <1>3, <1>4, <1>5, <1>6, <1>7 DEF Limited, Q

-----------------------------------------------------------------------------
(***************************************************************************)
(* What the process and its calls look like: a call is served by a process *)
(* that is up or draining, and by no other.                                *)
(***************************************************************************)
CallKinds == {"idle", "http", "admin", "probe", "peer"}

Fields == {"state", "run", "listen", "upstream", "limit", "known", "store", "limits", "memories",
           "linked", "ledger", "warned"}

UsedSettings ==
  [compression : BOOLEAN, verbosity : {"default", "terse", "full"}, stabilize : BOOLEAN]

Bodies ==
  [smaller : SUBSET Nat, note : {"default", "terse", "full"}, sorted : BOOLEAN, marked : BOOLEAN,
   added : SUBSET {"prompt_cache_key", "reasoning_effort"}]

HttpCalls ==
  [kind : {"http"}, request : load.requests, since : SUBSET UsedSettings, used : UsedSettings,
   body : Bodies, block : Nat, before : Nat, after : Nat, failed : SUBSET Nat,
   step : {"reading", "noting", "routing", "applying", "stabilizing", "shaping", "relaying",
           "forwarded"}]

\* A text is being compressed, and it is one of the request.
Placed(one) == one.step = "applying" => one.block \in DOMAIN one.request.blocks

ProbeCalls == [kind : {"probe"}, step : {"probing"}, at : Nat, links : SUBSET BOOLEAN]

KindOK(one) ==
  /\ one.kind \in CallKinds
  /\ one.kind = "http" => one \in HttpCalls /\ Placed(one)
  /\ one.kind = "admin" => one.values \in load.calls
  /\ one.kind = "probe" => one \in ProbeCalls

Shaped ==
  /\ load \in Workloads
  /\ proc = [field \in Fields |-> proc[field]]
  /\ proc.state \in {"down", "up", "draining", "refused"} /\ proc.run \in Nat
  /\ call = [c \in Clients |-> call[c]]
  /\ link \in BOOLEAN /\ now \in Nat
  /\ \A c \in Clients : KindOK(call[c]) /\ (~Serving => call[c] = Idle)

(***************************************************************************)
(* The limiter of the process: the tokens of its bucket are what the limit *)
(* leaves of what was let through, and a caller who was refused was        *)
(* refused at the limit.                                                   *)
(***************************************************************************)
Curve == [t \in Nat |-> LetThrough(t)]

AtTheLimit(reply) ==
  reply.status = 429 =>
    /\ reply.at \in 0..now
    /\ \E t \in 0..reply.at : /\ reply.at < t + Window
                              /\ Curve[reply.at + 1] >= Curve[t] + proc.limit

Buckets == [tokens : Nat, refilled : Nat]

Limiting ==
  /\ now \in 0..load.until
  /\ Numeric(overrides["RATE_LIMIT"])
  /\ admitted \in [0..(load.until + 1) -> Nat]
  /\ Serving => /\ proc.limit \in Nat \ {0} /\ bucket \in Buckets
                /\ Limited(Curve, bucket.tokens, bucket.refilled, proc.limit, now)
  /\ \A c \in Clients : Free(c) => AtTheLimit(call[c].reply)

(***************************************************************************)
(* The probes: a link was seen in the state that a probe will report since *)
(* the probe began, and in the one that is cached not longer before it was *)
(* cached than a probe may take.                                           *)
(***************************************************************************)
ProbeHolds(probe) ==
  /\ probe.at <= now /\ now <= probe.at + ProbeTimeout
  /\ \A up \in probe.links : seen[up] >= probe.at

Probing ==
  /\ seen \in [BOOLEAN -> Nat] /\ seen[link] = now /\ \A up \in BOOLEAN : seen[up] <= now
  /\ \A c \in Clients : call[c].kind = "probe" => ProbeHolds(call[c])
  /\ \A cached \in health : /\ cached.up \in BOOLEAN /\ cached.at \in Nat /\ cached.at <= now
                            /\ cached.at <= seen[cached.up] + ProbeTimeout
  /\ \A one, other \in health : one = other
  /\ ReachabilityRecent

(***************************************************************************)
(* The bytes: what is made of a request depends on the request, on what    *)
(* was in force when each step was made and on what the process pinned     *)
(* when it started, and on nothing else.                                   *)
(***************************************************************************)
Untouched(body) == body.smaller = {} /\ body.note = "default"
Unstable(body) == ~body.sorted /\ ~body.marked

\* The blocks among ns that their compressors make smaller.
Smaller(request, ns) == {n \in ns : Shrinks(request, request.blocks[n])}

Compressed(one) ==
  IF one.request.route \in Compressing /\ one.used.compression
  THEN /\ one.body.smaller = Smaller(one.request, DOMAIN one.request.blocks) \ one.failed
       /\ one.body.note = one.used.verbosity
  ELSE Untouched(one.body)

Stabilized(request, used, body) ==
  IF request.route \in Compressing
  THEN /\ body.sorted <=> used.stabilize
       /\ body.marked <=> used.stabilize /\ request.route = "messages" /\ Policy(request).cacheControl
  ELSE Unstable(body)

Shaping(request, body) ==
  body.added = IF request.route \in {"chat", "responses"} THEN Added(request) ELSE {}

HeadersOf(request) ==
  LET policy == HeaderPolicy(Policy(request))
  IN  RelayHeaders(ApplyForwarded(Sanitized(request.headers, policy), policy))

\* Where the loop over the blocks of a request has got to.
Partly(one) ==
  /\ one.block \in 1..(Len(one.request.blocks) + 1) /\ one.body.note = "default"
  /\ one.failed \subseteq 1..(one.block - 1)
  /\ one.body.smaller = Smaller(one.request, 1..(one.block - 1)) \ one.failed
  /\ ~one.used.compression => one.block = 1

\* How far the body of a call has got.
Underway(one) ==
  /\ one.step \in {"reading", "noting", "routing", "applying", "stabilizing"} =>
       Unstable(one.body) /\ one.body.added = {}
  /\ one.step \in {"reading", "noting"} => Untouched(one.body) /\ one.block = 1 /\ one.failed = {}
  /\ one.step \in {"routing", "applying"} => Partly(one)
  /\ one.step = "applying" => one.used.compression
  /\ one.step \in {"stabilizing", "shaping", "relaying", "forwarded"} => Compressed(one)
  /\ one.step \in {"shaping", "relaying", "forwarded"} =>
       Stabilized(one.request, one.used, one.body)
  /\ one.step \in {"relaying", "forwarded"} => Shaping(one.request, one.body)
  /\ one.step = "shaping" => one.body.added = {} /\ one.request.route # "messages"
  /\ one.step \in {"reading", "noting", "routing", "applying", "stabilizing", "shaping"} =>
       one.request.route \in Compressing

Leaves(s) ==
  /\ s.body \in Bodies
  /\ Compressed(s) /\ Stabilized(s.request, s.used, s.body)
  /\ Shaping(s.request, s.body)
  /\ s.headers = HeadersOf(s.request) /\ s.to \in proc.upstream

Determined ==
  /\ \A s \in sent : s.run \in Nat /\ s.run <= proc.run
  /\ \A url, other \in proc.upstream : url = other
  /\ \A s \in Relayed : Leaves(s)
  /\ \A c \in Clients : call[c].kind = "http" => Underway(call[c])

-----------------------------------------------------------------------------
LEMMA InitShaped == Init => Shaped
  <1> SUFFICES ASSUME Init PROVE Shaped
    OBVIOUS
  <1>1. Down = [field \in Fields |-> Down[field]] /\ Down.state = "down" /\ Down.run = 0
    BY DEF Down, Fields
  <1>2. QED
    BY <1>1 DEF Init, Shaped, Idle, NoReply, Serving, CallKinds, KindOK

\* A process that has just been started, by its fields.
LEMMA StartedProcess ==
  ASSUME NEW url, NEW listen
  PROVE  LET new == NewState(url, listen)
         IN  /\ new = [field \in Fields |-> new[field]]
             /\ new.state = "up" /\ new.run = proc.run + 1
             /\ new.limit = RateLimit(Env, overrides) /\ new.upstream = UpstreamClient(url)
  <1>1. DOMAIN NewState(url, listen) = Fields
    BY DEF NewState, Fields
  <1>2. QED
    BY <1>1 DEF NewState

\* A call in progress is served.
LEMMA CallIsServed ==
  ASSUME Shaped, NEW c \in Clients, call[c].kind # "idle"
  PROVE  Serving
  BY DEF Shaped, Idle

LEMMA StartShaped == Shaped /\ Start => Shaped'
  <1> SUFFICES ASSUME Shaped, Start
               PROVE  Shaped'
    OBVIOUS
  <1> USE DEF Shaped, Serving
  <1>1. proc'.run \in Nat /\ proc'.state \in {"up", "refused"} /\ proc' = [field \in Fields |-> proc'[field]]
    <2>1. CASE proc' = [proc EXCEPT !.state = "refused"]
      BY <2>1 DEF Fields
    <2>2. CASE proc' = NewState(UpstreamUrl(Env, overrides), ListenAddr(Env, overrides))
      BY <2>2, StartedProcess
    <2>3. QED
      BY <2>1, <2>2 DEF Start
  <1>2. UNCHANGED <<load, call>> /\ \A c \in Clients : call[c] = Idle
    BY DEF Start, outside
  <1>3. \A c \in Clients : KindOK(call[c])'
    BY <1>2 DEF KindOK, HttpCalls
  <1>4. UNCHANGED <<link, now>>
    BY DEF Start, outside
  <1>5. QED
    BY <1>1, <1>2, <1>3, <1>4

LEMMA GoneShaped == Shaped /\ Gone => Shaped'
  <1> SUFFICES ASSUME Shaped, Gone PROVE Shaped'
    OBVIOUS
  <1>1. DOMAIN proc' = Fields /\ proc'.state = "down" /\ proc'.run = proc.run
    BY DEF Gone, Down, Fields
  <1>2. proc' = [field \in Fields |-> proc'[field]]
    BY <1>1 DEF Gone, Down
  <1>3. call' = [c \in Clients |-> Idle] /\ UNCHANGED load
    BY DEF Gone, outside
  <1>4. QED
    BY <1>1, <1>2, <1>3 DEF Shaped, Serving, Idle, CallKinds, KindOK, Gone, outside

\* A step of a process that goes on, in which calls are answered and go on.
LEMMA ShapedOnward ==
  ASSUME Shaped, Serving, UNCHANGED <<load, proc>>, call' = [c \in Clients |-> call'[c]],
         \A c \in Clients : KindOK(call'[c]), link' \in BOOLEAN, now' \in Nat
  PROVE  Shaped'
  BY DEF Shaped, Serving, KindOK, HttpCalls

LEMMA LiveIsUsed == ASSUME NEW env, NEW settings PROVE Live(env, settings) \in UsedSettings
  BY DEF Live, UsedSettings, CompressionEnabled, Verbosity, StabilizationEnabled

LEMMA PolicyFlags ==
  ASSUME NEW request
  PROVE  LET policy == Policy(request)
         IN  policy.cacheKey \in BOOLEAN /\ policy.cacheControl \in BOOLEAN
  BY DEF Policy, PolicyFor

(***************************************************************************)
(* The steps of a handler, by what they do to the record of its call.      *)
(***************************************************************************)
Looping(one) == one.used.compression /\ one.block \in DOMAIN one.request.blocks

ReadCall(one) == [one EXCEPT !.step = "noting", !.used.compression = Current.compression]
NotedCall(one) == [one EXCEPT !.step = "routing", !.used.verbosity = Current.verbosity]
AttemptedCall(one) == [one EXCEPT !.step = "applying"]

\* What may become of a text: its compressor fails, makes it smaller or leaves it.
Applies(one, lost, more, gain) ==
  \/ lost = {one.block} /\ more = {} /\ gain = Size[TextOf(one)].before
  \/ /\ Shrinks(one.request, TextOf(one))
     /\ lost = {} /\ more = {one.block} /\ gain = Outcome(one.request, TextOf(one))
  \/ /\ ~Shrinks(one.request, TextOf(one))
     /\ lost = {} /\ more = {} /\ gain = Size[TextOf(one)].before

CountedCall(one) ==
  LET noted == one.used.compression /\ one.used.verbosity # "default"
  IN  [one EXCEPT !.step = "stabilizing",
                  !.body.note = IF noted THEN one.used.verbosity ELSE "default"]

StabilizedCall(one, anthropic) ==
  [one EXCEPT !.step = IF anthropic THEN "relaying" ELSE "shaping",
              !.used.stabilize = Current.stabilize, !.body.sorted = Current.stabilize,
              !.body.marked = /\ Current.stabilize /\ anthropic
                              /\ Policy(one.request).cacheControl]

ShapedCall(one) == [one EXCEPT !.step = "relaying", !.body.added = Added(one.request)]

Loops(one, new) ==
  \/ one.step = "routing" /\ Looping(one) /\ Attempted(one.request, TextOf(one)) /\ new = AttemptedCall(one)
  \/ /\ (one.step = "routing" /\ Looping(one)) \/ one.step = "applying"
     /\ \E lost, more, gain : Applies(one, lost, more, gain) /\ new = BlockDone(one, lost, more, gain)

Advances(one, new) ==
  \/ one.step = "reading" /\ one.request.route \in Compressing /\ new = ReadCall(one)
  \/ one.step = "noting" /\ one.request.route \in Compressing /\ new = NotedCall(one)
  \/ one.request.route \in Compressing /\ Loops(one, new)
  \/ one.step = "routing" /\ one.request.route \in Compressing /\ ~Looping(one) /\ new = CountedCall(one)
  \/ one.step = "stabilizing" /\ one.request.route = "messages" /\ new = StabilizedCall(one, TRUE)
  \/ /\ one.step = "stabilizing" /\ one.request.route \in {"chat", "responses"}
     /\ new = StabilizedCall(one, FALSE)
  \/ one.step = "shaping" /\ one.request.route \in {"chat", "responses"} /\ new = ShapedCall(one)

\* The sizes of a text of a request, whatever becomes of it.
LEMMA SizesAre ==
  ASSUME Shaped, NEW request \in load.requests, NEW n \in DOMAIN request.blocks
  PROVE  /\ Size[request.blocks[n]].before \in Nat
         /\ Outcome(request, request.blocks[n]) \in Nat
  <1>1. PICK text : text = request.blocks[n]
    OBVIOUS
  <1>2. text \in DOMAIN Size
    BY <1>1, SizeAssumption DEF Shaped
  <1>3. /\ Size[text].before \in Nat /\ Size[text].after \in Nat /\ Size[text].reformatted \in Nat
    BY <1>2, SizeAssumption
  <1>4. Outcome(request, text) \in {Size[text].before, Size[text].after, Size[text].reformatted}
    <2>1. CASE Attempted(request, text) /\ Routing(request, text) = "compress"
      BY <2>1 DEF Outcome
    <2>2. CASE Attempted(request, text) /\ Routing(request, text) = "lossless"
      BY <2>2 DEF Outcome
    <2>3. CASE ~Attempted(request, text)
      BY <2>3 DEF Outcome
    <2>4. QED
      BY <2>1, <2>2, <2>3 DEF Attempted
  <1>5. QED
    BY <1>1, <1>3, <1>4

\* A text has been dealt with.
LEMMA AppliedRecord ==
  ASSUME NEW one \in HttpCalls, NEW lost, NEW more, NEW gain
  PROVE  BlockDone(one, lost, more, gain)
           = [kind |-> one.kind, request |-> one.request, since |-> one.since, used |-> one.used,
              body |-> [one.body EXCEPT !.smaller = one.body.smaller \cup more],
              block |-> one.block + 1, before |-> one.before + Size[TextOf(one)].before,
              after |-> one.after + gain, failed |-> one.failed \cup lost, step |-> "routing"]
  <1>1. PICK failed, kept, b, a :
          /\ failed = one.failed \cup lost /\ kept = one.body.smaller \cup more
          /\ b = one.before + Size[TextOf(one)].before /\ a = one.after + gain
    OBVIOUS
  <1>2. BlockDone(one, lost, more, gain)
          = [one EXCEPT !.step = "routing", !.block = one.block + 1, !.failed = failed,
                        !.body.smaller = kept, !.before = b, !.after = a]
    BY <1>1 DEF BlockDone
  <1>3. PICK body : body = [one.body EXCEPT !.smaller = kept]
    OBVIOUS
  <1>4. BlockDone(one, lost, more, gain)
          = [one EXCEPT !.step = "routing", !.block = one.block + 1, !.failed = failed,
                        !.body = body, !.before = b, !.after = a]
    BY <1>2, <1>3 DEF HttpCalls
  <1>5. QED
    BY <1>1, <1>3, <1>4 DEF HttpCalls

LEMMA AdvancedCall ==
  ASSUME Shaped, NEW one \in HttpCalls, Placed(one), NEW new, Advances(one, new)
  PROVE  new \in HttpCalls /\ Placed(new) /\ new.request = one.request
  <1>1. Current \in UsedSettings
    BY LiveIsUsed DEF Current
  <1>2. CASE new = ReadCall(one) \/ new = NotedCall(one)
    <2>1. PICK used \in UsedSettings, step \in {"noting", "routing"} :
            new = [one EXCEPT !.step = step, !.used = used]
      <3>1. CASE new = ReadCall(one)
        <4>1. PICK used : used = [one.used EXCEPT !.compression = Current.compression]
          OBVIOUS
        <4>2. used \in UsedSettings
          BY <1>1, <4>1 DEF HttpCalls, UsedSettings
        <4>3. new = [one EXCEPT !.step = "noting", !.used = used]
          BY <3>1, <4>1 DEF ReadCall, HttpCalls
        <4>4. QED
          BY <4>2, <4>3
      <3>2. CASE new = NotedCall(one)
        <4>1. PICK used : used = [one.used EXCEPT !.verbosity = Current.verbosity]
          OBVIOUS
        <4>2. used \in UsedSettings
          BY <1>1, <4>1 DEF HttpCalls, UsedSettings
        <4>3. new = [one EXCEPT !.step = "routing", !.used = used]
          BY <3>2, <4>1 DEF NotedCall, HttpCalls
        <4>4. QED
          BY <4>2, <4>3
      <3>3. QED
        BY <1>2, <3>1, <3>2
    <2>2. new \in HttpCalls /\ new.request = one.request /\ new.step # "applying"
      BY <2>1 DEF HttpCalls
    <2>3. QED
      BY <2>2 DEF Placed
  <1>3. CASE new = AttemptedCall(one) /\ Looping(one)
    BY <1>3 DEF AttemptedCall, Looping, Placed, HttpCalls
  <1>5. ASSUME NEW lost, NEW more, NEW gain, Applies(one, lost, more, gain),
               new = BlockDone(one, lost, more, gain), one.step = "applying" \/ Looping(one)
        PROVE  new \in HttpCalls /\ Placed(new) /\ new.request = one.request
    <2>1. /\ Size[TextOf(one)].before \in Nat /\ Outcome(one.request, TextOf(one)) \in Nat
          /\ one.block \in Nat
      BY <1>5, SizesAre DEF Placed, Looping, TextOf, HttpCalls
    <2>2. lost \in SUBSET Nat /\ more \in SUBSET Nat /\ gain \in Nat
      BY <1>5, <2>1 DEF Applies
    <2>3. /\ new.failed = one.failed \cup lost
          /\ new.body = [one.body EXCEPT !.smaller = one.body.smaller \cup more]
          /\ new.before = one.before + Size[TextOf(one)].before /\ new.after = one.after + gain
          /\ new.block = one.block + 1
      <3>1. PICK n, b, a, failed, body :
              /\ n = one.block + 1 /\ b = one.before + Size[TextOf(one)].before /\ a = one.after + gain
              /\ failed = one.failed \cup lost
              /\ body = [one.body EXCEPT !.smaller = one.body.smaller \cup more]
        OBVIOUS
      <3>2. new = [kind |-> one.kind, request |-> one.request, since |-> one.since,
                   used |-> one.used, body |-> body, block |-> n, before |-> b, after |-> a,
                   failed |-> failed, step |-> "routing"]
        BY <1>5, <3>1, AppliedRecord
      <3>3. QED
        BY <3>1, <3>2
    <2>4. new.body \in Bodies
      BY <2>2, <2>3 DEF HttpCalls, Bodies
    <2>5. new.failed \in SUBSET Nat
      BY <2>2, <2>3 DEF HttpCalls
    <2>6. new.before \in Nat /\ new.after \in Nat /\ new.block \in Nat
      BY <2>1, <2>2, <2>3 DEF HttpCalls
    <2>7. /\ new.request = one.request /\ new.step = "routing"
          /\ new = [kind |-> "http", request |-> one.request, since |-> one.since,
                    used |-> one.used, body |-> new.body, block |-> new.block,
                    before |-> new.before, after |-> new.after, failed |-> new.failed,
                    step |-> "routing"]
      BY <1>5, <2>3, AppliedRecord DEF HttpCalls
    <2>8. new \in HttpCalls
      BY <2>4, <2>5, <2>6, <2>7 DEF HttpCalls
    <2>9. QED
      BY <2>7, <2>8 DEF Placed
  <1>6. CASE new = CountedCall(one)
    <2>1. PICK note \in {"default", "terse", "full"} :
            new = [one EXCEPT !.step = "stabilizing", !.body.note = note]
      BY <1>6 DEF CountedCall, HttpCalls, UsedSettings
    <2>2. new \in HttpCalls /\ new.request = one.request /\ new.step = "stabilizing"
      BY <2>1 DEF HttpCalls, Bodies
    <2>3. QED
      BY <2>2 DEF Placed
  <1>7. ASSUME NEW anthropic \in BOOLEAN, new = StabilizedCall(one, anthropic)
        PROVE  new \in HttpCalls /\ Placed(new) /\ new.request = one.request
    <2>1. PICK marked \in BOOLEAN, step \in {"relaying", "shaping"} :
            new = [one EXCEPT !.step = step, !.used.stabilize = Current.stabilize,
                              !.body.sorted = Current.stabilize, !.body.marked = marked]
      BY <1>1, <1>7, PolicyFlags DEF StabilizedCall
    <2>2. new \in HttpCalls /\ new.request = one.request /\ new.step = step
      BY <1>1, <2>1 DEF HttpCalls, UsedSettings, Bodies
    <2>3. QED
      BY <2>2 DEF Placed
  <1>8. CASE new = ShapedCall(one)
    <2>1. Added(one.request) \in SUBSET {"prompt_cache_key", "reasoning_effort"}
      BY DEF Added
    <2>2. new \in HttpCalls /\ new.request = one.request /\ new.step = "relaying"
      BY <1>8, <2>1 DEF ShapedCall, HttpCalls, Bodies
    <2>3. QED
      BY <2>2 DEF Placed
  <1>9. QED
    BY <1>2, <1>3, <1>5, <1>6, <1>7, <1>8 DEF Advances, Loops

LEMMA HandlerStep ==
  ASSUME Shaped, NEW c \in Clients, Messages(c) \/ ChatCompletions(c) \/ Responses(c)
  PROVE  /\ call[c] \in HttpCalls /\ call'[c] \in HttpCalls /\ Advances(call[c], call'[c])
         /\ Placed(call[c]) /\ Placed(call'[c])
         /\ call' = [call EXCEPT ![c] = call'[c]]
         /\ UNCHANGED <<outside, left, config, traffic, probing>>
  <1>1. call[c] \in HttpCalls /\ Placed(call[c]) /\ call = [d \in Clients |-> call[d]]
    BY DEF Shaped, KindOK, Messages, ChatCompletions, Responses, At
  <1> DEFINE Moves(new) == call' = [call EXCEPT ![c] = new]
                           /\ UNCHANGED <<outside, left, config, traffic, probing>>
  <1>2. ASSUME NEW new, Moves(new)
        PROVE  call'[c] = new /\ call' = [call EXCEPT ![c] = call'[c]]
    BY <1>1, <1>2
  <1>3. CASE ReadConfig(c)
    <2>1. Moves(ReadCall(call[c])) /\ call[c].step = "reading"
      BY <1>1, <1>3 DEF ReadConfig, ReadCall, Step
    <2>2. QED
      BY <1>1, <1>2, <2>1, AdvancedCall
      DEF Messages, ChatCompletions, Responses, At, Advances, Compressing
  <1>4. CASE ReadVerbosity(c)
    <2>1. Moves(NotedCall(call[c])) /\ call[c].step = "noting"
      BY <1>1, <1>4 DEF ReadVerbosity, NotedCall, Step
    <2>2. QED
      BY <1>1, <1>2, <2>1, AdvancedCall
      DEF Messages, ChatCompletions, Responses, At, Advances, Compressing
  <1>8. CASE RouteBlock(c)
    <2>1. call[c].step = "routing" /\ Looping(call[c])
      BY <1>8 DEF RouteBlock, InLoop, Looping, Step
    <2>2. CASE Attempted(call[c].request, TextOf(call[c])) /\ Proceeds(c, "applying")
      <3>1. Moves(AttemptedCall(call[c]))
        BY <1>1, <1>8, <2>2 DEF RouteBlock, AttemptedCall, Proceeds
      <3>2. QED
        BY <1>1, <1>2, <2>1, <2>2, <3>1, AdvancedCall
        DEF Messages, ChatCompletions, Responses, At, Advances, Loops, Compressing
    <2>3. CASE /\ ~Attempted(call[c].request, TextOf(call[c]))
               /\ call' = [call EXCEPT ![c] = BlockDone(call[c], {}, {}, Size[TextOf(call[c])].before)]
      <3>1. Moves(BlockDone(call[c], {}, {}, Size[TextOf(call[c])].before))
        BY <1>8, <2>3 DEF RouteBlock
      <3>2. Size[TextOf(call[c])].before \in Nat
        BY <1>1, <2>1, SizesAre DEF Looping, TextOf, HttpCalls
      <3>3. Applies(call[c], {}, {}, Size[TextOf(call[c])].before)
        BY <2>3, <3>2 DEF Applies, Shrinks, Outcome
      <3>4. QED
        BY <1>1, <1>2, <2>1, <3>1, <3>3, AdvancedCall
        DEF Messages, ChatCompletions, Responses, At, Advances, Loops, Compressing
    <2>4. QED
      BY <1>8, <2>2, <2>3 DEF RouteBlock
  <1>9. CASE ApplyBlock(c)
    <2>1. PICK lost, more, gain :
            /\ Applies(call[c], lost, more, gain)
            /\ call' = [call EXCEPT ![c] = BlockDone(call[c], lost, more, gain)]
      BY <1>9 DEF ApplyBlock, Applies
    <2>2. Moves(BlockDone(call[c], lost, more, gain)) /\ call[c].step = "applying"
      BY <1>9, <2>1 DEF ApplyBlock, Step
    <2>3. PICK new : new = BlockDone(call[c], lost, more, gain)
      OBVIOUS
    <2>4. Loops(call[c], new)
      BY <2>1, <2>2, <2>3 DEF Loops
    <2>5. Advances(call[c], new)
      BY <2>4 DEF Advances, Messages, ChatCompletions, Responses, At, Compressing
    <2>6. QED
      BY <1>1, <1>2, <2>2, <2>3, <2>5, AdvancedCall
  <1>10. CASE CountRequest(c, TRUE) \/ CountRequest(c, FALSE)
    <2>1. Moves(CountedCall(call[c])) /\ call[c].step = "routing" /\ ~Looping(call[c])
      BY <1>1, <1>10 DEF CountRequest, CountedCall, InLoop, Looping, Step
    <2>2. QED
      BY <1>1, <1>2, <2>1, AdvancedCall
      DEF Messages, ChatCompletions, Responses, At, Advances, Compressing
  <1>5. CASE Stabilize(c, TRUE) /\ call[c].request.route = "messages"
    <2>1. Moves(StabilizedCall(call[c], TRUE)) /\ call[c].step = "stabilizing"
      BY <1>1, <1>5 DEF Stabilize, StabilizedCall, Step
    <2>2. QED
      BY <1>1, <1>2, <1>5, <2>1, AdvancedCall DEF Advances
  <1>6. CASE Stabilize(c, FALSE) /\ call[c].request.route \in {"chat", "responses"}
    <2>1. Moves(StabilizedCall(call[c], FALSE)) /\ call[c].step = "stabilizing"
      BY <1>1, <1>6 DEF Stabilize, StabilizedCall, Step
    <2>2. QED
      BY <1>1, <1>2, <1>6, <2>1, AdvancedCall DEF Advances
  <1>7. CASE ShapeOpenAi(c) /\ call[c].request.route \in {"chat", "responses"}
    <2>1. Moves(ShapedCall(call[c])) /\ call[c].step = "shaping"
      BY <1>1, <1>7 DEF ShapeOpenAi, ShapedCall, Step
    <2>2. QED
      BY <1>1, <1>2, <1>7, <2>1, AdvancedCall DEF Advances
  <1>11. QED
    BY <1>3, <1>4, <1>5, <1>6, <1>7, <1>8, <1>9, <1>10
    DEF Messages, ChatCompletions, Responses, At, CompressRequest

LEMMA NextShaped == Shaped /\ [Next]_vars => Shaped'
  <1> SUFFICES ASSUME Shaped, [Next]_vars
               PROVE  Shaped'
    OBVIOUS
  <1> USE DEF outside, config
  <1> DEFINE Goes == /\ call' = [c \in Clients |-> call'[c]]
                     /\ \A c \in Clients : KindOK(call'[c])
             Stays == UNCHANGED <<load, proc, now, link>>
  <1>a. ASSUME Serving, Stays, Goes
        PROVE  Shaped'
    BY <1>a, ShapedOnward DEF Shaped
  <1>b. ASSUME Stays, UNCHANGED call
        PROVE  Shaped'
    BY <1>b DEF Shaped, Serving, KindOK, HttpCalls
  <1>c. ASSUME NEW c \in Clients, call[c].kind # "idle" \/ Running
        PROVE  Serving
    BY <1>c, CallIsServed DEF Running, Serving
  <1>d. ASSUME NEW c \in Clients, NEW one, call' = [call EXCEPT ![c] = one], KindOK(one)
        PROVE  Goes
    BY <1>d DEF Shaped
  <1>e. ASSUME NEW reply PROVE KindOK([Idle EXCEPT !.reply = reply])
    BY DEF KindOK, Idle, CallKinds
  <1>f. ASSUME NEW c \in Clients, NEW reply, Replies(c, reply)
        PROVE  Goes
    BY <1>d, <1>e, <1>f DEF Replies
  <1>1. ASSUME NEW c \in Clients, Accept(c) \/ AcceptPassthrough(c) \/ ForwardAny(c)
        PROVE  Shaped'
    <2>1. PICK request \in load.requests, step \in {"reading", "relaying"} : Received(c, request, step)
      BY <1>1 DEF Accept, AcceptPassthrough, ForwardAny
    <2> DEFINE one == [kind |-> "http", request |-> request, since |-> {Current}, used |-> Current,
                       block |-> 1, before |-> 0, after |-> 0, failed |-> {},
                       body |-> [smaller |-> {}, note |-> "default", sorted |-> FALSE,
                                 marked |-> FALSE, added |-> {}], step |-> step]
    <2>2. one \in HttpCalls /\ Placed(one)
      BY LiveIsUsed DEF HttpCalls, Bodies, Current, Placed
    <2>3. KindOK(one)
      BY <2>2 DEF KindOK, CallKinds
    <2>4. Goes
      BY <1>d, <2>1, <2>3 DEF Received
    <2>5. Stays /\ Running
      BY <1>1 DEF Accept, AcceptPassthrough, ForwardAny
    <2>6. QED
      BY <1>a, <1>c, <2>4, <2>5
  <1>2. ASSUME NEW c \in Clients, Messages(c) \/ ChatCompletions(c) \/ Responses(c)
        PROVE  Shaped'
    <2>1. /\ call[c] \in HttpCalls /\ call'[c] \in HttpCalls /\ Placed(call'[c])
          /\ call' = [call EXCEPT ![c] = call'[c]] /\ Stays
      BY <1>2, HandlerStep
    <2>2. KindOK(call'[c]) /\ call[c].kind # "idle"
      BY <2>1 DEF KindOK, CallKinds, HttpCalls
    <2>3. QED
      BY <1>a, <1>c, <1>d, <2>1, <2>2
  <1>3. ASSUME NEW c \in Clients, NoUpstream(c) \/ RateLimited(c) \/ Respond(c) \/ EndProbe(c) \/ Import(c)
        PROVE  Shaped'
    <2>1. Goes
      BY <1>3, <1>f DEF NoUpstream, RateLimited, Respond, EndProbe, Import, Refused, Returns
    <2>2. Stays /\ call[c].kind # "idle"
      BY <1>3 DEF NoUpstream, RateLimited, Respond, EndProbe, Import, Step
    <2>3. QED
      BY <1>a, <1>c, <2>1, <2>2
  <1>4. ASSUME NEW c \in Clients, Forward(c)
        PROVE  Shaped'
    <2>1. call[c] \in HttpCalls /\ Stays /\ call[c].kind # "idle"
      BY <1>4 DEF Forward, Step, Shaped, KindOK
    <2>2. [call[c] EXCEPT !.step = "forwarded"] \in HttpCalls
      BY <2>1 DEF HttpCalls
    <2>3. KindOK([call[c] EXCEPT !.step = "forwarded"])
      BY <2>1, <2>2 DEF KindOK, CallKinds, HttpCalls, Placed
    <2>4. call' = [call EXCEPT ![c] = [call[c] EXCEPT !.step = "forwarded"]]
      BY <1>4 DEF Forward, Proceeds, Shaped
    <2>5. QED
      BY <1>a, <1>c, <1>d, <2>1, <2>3, <2>4
  <1>5. ASSUME NEW c \in Clients, RelaySocket(c) \/ AnswerFromCache(c)
        PROVE  Shaped'
    BY <1>5, <1>b DEF RelaySocket, AnswerFromCache
  <1>6. ASSUME NEW c \in Clients, AdminCheck(c)
        PROVE  Shaped'
    <2>1. CASE UNCHANGED call
      BY <1>6, <1>b, <2>1 DEF AdminCheck
    <2>2. ASSUME NEW values \in load.calls,
                 call' = [call EXCEPT ![c] = [kind |-> "admin", step |-> "checked", values |-> values]]
          PROVE  Shaped'
      <3>1. KindOK([kind |-> "admin", step |-> "checked", values |-> values])
        BY DEF KindOK, CallKinds
      <3>2. Stays /\ Running
        BY <1>6 DEF AdminCheck
      <3>3. QED
        BY <1>a, <1>c, <1>d, <2>2, <3>1, <3>2
    <2>3. QED
      BY <1>6, <2>1, <2>2 DEF AdminCheck
  <1>7. ASSUME NEW c \in Clients, AdminApply(c)
        PROVE  Shaped'
    <2>1. Stays /\ call[c].kind # "idle"
      BY <1>7 DEF AdminApply, Step
    <2>2. ASSUME NEW d \in Clients PROVE KindOK(call'[d])
      <3>1. CASE d = c
        BY <1>7, <3>1 DEF AdminApply, Idle, KindOK, CallKinds
      <3>2. CASE d # c /\ call[d].kind # "http"
        BY <1>7, <3>2 DEF AdminApply, Shaped
      <3>3. CASE d # c /\ call[d].kind = "http"
        <4>1. call[d] \in HttpCalls /\ Placed(call[d])
          BY <3>3 DEF Shaped, KindOK
        <4>2. call'[d] = [call[d] EXCEPT !.since = @ \cup {Live(Env, overrides')}]
          BY <1>7, <3>3 DEF AdminApply
        <4>3. call'[d] \in HttpCalls
          BY <4>1, <4>2, LiveIsUsed DEF HttpCalls
        <4>5. Placed(call'[d])
          BY <4>1, <4>2 DEF Placed, HttpCalls
        <4>4. QED
          BY <4>3, <4>5 DEF KindOK, CallKinds, HttpCalls
      <3>4. QED
        BY <3>1, <3>2, <3>3
    <2>3. call' = [d \in Clients |-> call'[d]]
      BY <1>7 DEF AdminApply
    <2>4. QED
      BY <1>a, <1>c, <2>1, <2>2, <2>3
  <1>8. ASSUME NEW c \in Clients, BeginProbe(c) \/ Export(c)
        PROVE  Shaped'
    <2>1. PICK one : KindOK(one) /\ call' = [call EXCEPT ![c] = one]
      <3>1. CASE BeginProbe(c)
        <4>1. [kind |-> "probe", step |-> "probing", at |-> now, links |-> {link}] \in ProbeCalls
          BY DEF ProbeCalls, Shaped
        <4>2. QED
          BY <3>1, <4>1 DEF BeginProbe, KindOK, CallKinds
      <3>2. CASE Export(c)
        BY <3>2 DEF Export, KindOK, CallKinds
      <3>3. QED
        BY <1>8, <3>1, <3>2
    <2>2. Stays /\ Running
      BY <1>8 DEF BeginProbe, Export
    <2>3. QED
      BY <1>a, <1>c, <1>d, <2>1, <2>2
  <1>9. CASE ShutDown
    <2>1. UNCHANGED <<load, call, now, link>> /\ proc' = [proc EXCEPT !.state = "draining"] /\ Running
      BY <1>9 DEF ShutDown
    <2>2. proc' = [field \in Fields |-> proc'[field]] /\ proc'.state = "draining" /\ proc'.run = proc.run
      BY <2>1 DEF Shaped, Fields
    <2>3. \A c \in Clients : KindOK(call[c])'
      BY <2>1 DEF Shaped, KindOK, HttpCalls
    <2>4. QED
      BY <2>1, <2>2, <2>3 DEF Shaped, Serving
  <1>10. CASE Learn
    BY <1>10, <1>b DEF Learn
  <1>11. CASE Tick
    BY <1>11 DEF Tick, Shaped, Serving, KindOK, HttpCalls
  <1>12. CASE LinkChanges
    <2>1. UNCHANGED <<load, proc, now>> /\ link' \in BOOLEAN /\ call' = [c \in Clients |-> call'[c]]
      BY <1>12 DEF LinkChanges
    <2>2. ASSUME NEW c \in Clients
          PROVE  KindOK(call'[c]) /\ (~Serving => call'[c] = Idle)
      <3>1. CASE call[c].kind = "probe"
        <4>1. call'[c] = [call[c] EXCEPT !.links = @ \cup {link'}] /\ call[c] \in ProbeCalls
          BY <1>12, <3>1 DEF LinkChanges, Shaped, KindOK
        <4>2. call'[c] \in ProbeCalls
          BY <2>1, <4>1 DEF ProbeCalls
        <4>3. Serving
          BY <3>1, CallIsServed
        <4>4. QED
          BY <4>2, <4>3 DEF KindOK, CallKinds, ProbeCalls
      <3>2. CASE call[c].kind # "probe"
        BY <1>12, <3>2 DEF LinkChanges, Shaped
      <3>3. QED
        BY <3>1, <3>2
    <2>3. \A c \in Clients : KindOK(call[c])'
      BY <2>1, <2>2 DEF KindOK, HttpCalls
    <2>4. QED
      BY <2>1, <2>2, <2>3 DEF Shaped, Serving
  <1>13. CASE UNCHANGED vars
    BY <1>13, <1>b DEF vars
  <1>14. QED
    BY <1>1, <1>2, <1>3, <1>4, <1>5, <1>6, <1>7, <1>8, <1>9, <1>10, <1>11, <1>12, <1>13,
       StartShaped, GoneShaped
    DEF Next, Drained, Killed

-----------------------------------------------------------------------------
(***************************************************************************)
(* The limiter of the process.                                             *)
(***************************************************************************)
LEMMA WholeWindows ==
  ASSUME NEW a \in Nat, NEW w \in Nat \ {0}
  PROVE  a \div w \in Nat /\ w * (a \div w) <= a /\ a < w * (a \div w) + w
  OBVIOUS

LEMMA AtLeastOne == ASSUME NEW q \in Nat \ {0}, NEW w \in Nat PROVE w * q >= w /\ w * q \in Nat
  OBVIOUS

\* What is in force as the limit is a number, and not zero.
LEMMA LimitInForce ==
  ASSUME load \in Workloads, Numeric(overrides["RATE_LIMIT"])
  PROVE  RateLimit(Env, overrides) \in Nat \ {0}
  <1> DEFINE setting == Setting(Env, overrides, "RATE_LIMIT")
  <1>1. Numeric(setting)
    BY WorkloadAssumption DEF Setting, Env
  <1>2. Parsed(setting, DefaultRateLimit) \in Nat
    <2>1. CASE setting \subseteq {Garbled}
      BY <2>1, LimitAssumption DEF Parsed
    <2>2. CASE ~(setting \subseteq {Garbled})
      <3>1. PICK value \in setting : setting = {value} /\ value \in Nat
        BY <1>1, <2>2 DEF Numeric
      <3>2. (CHOOSE v \in setting : TRUE) = value
        BY <3>1
      <3>3. QED
        BY <2>2, <3>1, <3>2 DEF Parsed
    <2>3. QED
      BY <2>1, <2>2
  <1>3. QED
    BY <1>2, LimitAssumption DEF RateLimit

\* refill_if_due: the bucket is the one of the window that it is.
LEMMA RefilledInTime ==
  ASSUME NEW P, NEW one, NEW limit \in Nat \ {0}, NEW n \in Nat,
         one \in Buckets,
         Limited(P, one.tokens, one.refilled, limit, n)
  PROVE  LET full == Refilled(one, limit, n)
         IN  /\ full \in Buckets
             /\ Limited(P, full.tokens, full.refilled, limit, n)
             /\ n < full.refilled + Window
  <1> DEFINE q == Windows(one, n)
  <1>1. one.refilled \in Nat /\ one.tokens \in Nat /\ one.refilled <= n
    BY DEF Limited
  <1>2. n - one.refilled \in Nat
    BY <1>1
  <1>3. q \in Nat /\ Window * q <= n - one.refilled /\ n - one.refilled < Window * q + Window
    BY <1>2, WholeWindows, WindowAssumption DEF Windows
  <1> HIDE DEF q
  <1>4. CASE q = 0
    BY <1>1, <1>3, <1>4, WindowAssumption DEF Refilled, q, Buckets
  <1>5. CASE q # 0
    <2>1. Window * q >= Window /\ Window * q \in Nat
      BY <1>3, <1>5, AtLeastOne, WindowAssumption
    <2> DEFINE later == one.refilled + Window * q
    <2>2. later \in Nat /\ one.refilled + Window <= later /\ later <= n /\ n < later + Window
      BY <1>1, <1>3, <2>1, WindowAssumption
    <2>3. Limited(P, limit, later, limit, n)
      BY <2>2, LimitedByRefill
    <2>4. Refilled(one, limit, n) = [tokens |-> limit, refilled |-> later]
      BY <1>5 DEF Refilled, q
    <2> HIDE DEF later
    <2>5. QED
      BY <2>2, <2>3, <2>4 DEF Buckets
  <1>6. QED
    BY <1>4, <1>5

LEMMA CurveKept == UNCHANGED <<load, admitted>> => Curve' = Curve
  BY DEF Curve, LetThrough

LEMMA InitLimiting == Init => Limiting
  <1> SUFFICES ASSUME Init PROVE Limiting
    OBVIOUS
  <1>1. Numeric(overrides["RATE_LIMIT"])
    BY DEF Init, Numeric, NoOverrides, Known, StartupOnly
  <1>2. load.until \in Nat /\ now \in 0..load.until /\ admitted \in [0..(load.until + 1) -> Nat]
    BY WorkloadAssumption DEF Init
  <1>3. ~Serving
    BY DEF Init, Serving, Down
  <1>4. \A c \in Clients : AtTheLimit(call[c].reply)
    BY DEF Init, Idle, NoReply, RelayedResponse, AtTheLimit
  <1>5. QED
    BY <1>1, <1>2, <1>3, <1>4 DEF Limiting

\* A step in which nothing happens to the limiter, and nobody is refused by it.
LEMMA LimitingApart ==
  ASSUME Shaped, Limiting, UNCHANGED <<load, now, proc, bucket, admitted>>,
         Numeric(overrides'["RATE_LIMIT"]),
         \A c \in Clients : call'[c] = call[c] \/ call'[c].kind # "idle" \/ call'[c].reply.status # 429
  PROVE  Limiting'
  <1>1. Curve' = Curve
    BY CurveKept
  <1>2. ASSUME NEW c \in Clients, Free(c)'
        PROVE  AtTheLimit(call[c].reply)'
    BY <1>1, <1>2 DEF Limiting, AtTheLimit, Free
  <1>3. QED
    BY <1>1, <1>2 DEF Limiting, Serving

LEMMA StartLimiting == Shaped /\ Limiting /\ Start => Limiting'
  <1> SUFFICES ASSUME Shaped, Limiting, Start
               PROVE  Limiting'
    OBVIOUS
  <1>1. /\ UNCHANGED <<load, now, overrides, call>> /\ bucket' = FullBucket(proc'.limit, now)
        /\ admitted' = [t \in DOMAIN admitted |-> 0]
    BY DEF Start, outside
  <1>2. Curve' = [t \in Nat |-> 0] /\ admitted' \in [0..(load.until + 1) -> Nat]
    <2>1. load.until \in Nat /\ DOMAIN admitted = 0..(load.until + 1)
      BY WorkloadAssumption DEF Shaped, Limiting
    <2>2. ASSUME NEW t \in Nat PROVE (IF t <= load.until THEN t ELSE load.until + 1) \in DOMAIN admitted
      BY <2>1
    <2>3. QED
      BY <1>1, <2>1, <2>2 DEF Curve, LetThrough
  <1>3. ASSUME Serving'
        PROVE  proc'.limit \in Nat \ {0} /\ now' \in Nat
    <2>1. proc' # [proc EXCEPT !.state = "refused"]
      BY <1>3 DEF Shaped, Serving, Fields
    <2>2. QED
      BY <2>1, StartedProcess, LimitInForce, <1>1 DEF Start, Shaped, Limiting
  <1>4. bucket'.tokens = proc'.limit /\ bucket'.refilled = now
    BY <1>1 DEF FullBucket
  <1>5. Serving' => Limited(Curve, bucket.tokens, bucket.refilled, proc.limit, now)'
    BY <1>1, <1>2, <1>3, <1>4, LimitedAtStart
  <1>6. ASSUME NEW c \in Clients
        PROVE  AtTheLimit(call[c].reply)'
    BY <1>1 DEF Start, Shaped, Serving, Idle, NoReply, RelayedResponse, AtTheLimit
  <1>7. QED
    BY <1>1, <1>2, <1>3, <1>4, <1>5, <1>6 DEF Limiting, Buckets, FullBucket

LEMMA GoneLimiting == Shaped /\ Limiting /\ Gone => Limiting'
  <1> SUFFICES ASSUME Shaped, Limiting, Gone
               PROVE  Limiting'
    OBVIOUS
  <1>1. UNCHANGED <<load, now, admitted>> /\ overrides' = NoOverrides /\ bucket' = FullBucket(0, now)
    BY DEF Gone, outside
  <1>2. ~Serving' /\ \A c \in Clients : call'[c] = Idle
    BY DEF Gone, Serving, Down
  <1>3. ASSUME NEW c \in Clients
        PROVE  AtTheLimit(call[c].reply)'
    BY <1>2 DEF Idle, NoReply, RelayedResponse, AtTheLimit
  <1>4. QED
    BY <1>1, <1>2, <1>3 DEF Limiting, Numeric, NoOverrides, Known, StartupOnly, FullBucket

LEMMA TickLimiting == Shaped /\ Limiting /\ Tick => Limiting'
  <1> SUFFICES ASSUME Shaped, Limiting, Tick
               PROVE  Limiting'
    OBVIOUS
  <1>1. /\ UNCHANGED <<load, proc, overrides, bucket, admitted, call>>
        /\ now' = now + 1 /\ now < load.until
    BY DEF Tick, config, traffic
  <1>2. Curve' = Curve
    BY <1>1, CurveKept
  <1>3. load.until \in Nat /\ now \in Nat /\ now' \in 0..load.until
    BY <1>1, WorkloadAssumption DEF Shaped
  <1>4. Serving => Limited(Curve, bucket.tokens, bucket.refilled, proc.limit, now + 1)
    BY LimitedInTime DEF Limiting
  <1>5. Serving' => Limited(Curve, bucket.tokens, bucket.refilled, proc.limit, now)'
    BY <1>1, <1>2, <1>4 DEF Serving
  <1>6. ASSUME NEW c \in Clients, Free(c)'
        PROVE  AtTheLimit(call[c].reply)'
    BY <1>1, <1>2, <1>3, <1>6 DEF Limiting, AtTheLimit, Free
  <1>7. QED
    BY <1>1, <1>3, <1>5, <1>6 DEF Limiting, Serving

LEMMA RefusalLimiting ==
  ASSUME Shaped, Limiting, NEW c \in Clients, RateLimited(c)
  PROVE  Limiting'
  <1>1. /\ UNCHANGED <<load, now, proc, overrides, admitted>> /\ ~Allows(bucket, proc.limit, now)
        /\ bucket' = Taken(bucket, proc.limit, now) /\ call[c].kind # "idle"
    BY DEF RateLimited, Step, outside, config
  <1>2. Serving /\ Curve' = Curve
    BY <1>1, CallIsServed, CurveKept
  <1> DEFINE full == Refilled(bucket, proc.limit, now)
  <1>a. /\ Limited(Curve, bucket.tokens, bucket.refilled, proc.limit, now)
        /\ proc.limit \in Nat \ {0} /\ now \in Nat /\ bucket \in Buckets
    BY <1>2 DEF Limiting, Shaped
  <1>3. full \in Buckets /\ now < full.refilled + Window
    BY <1>a, RefilledInTime
  <1>4. full.tokens = 0 /\ full = bucket
    BY <1>1, <1>3, <1>a DEF Allows, Refilled, Buckets
  <1>5. bucket' = bucket /\ bucket.tokens = 0 /\ now < bucket.refilled + Window
    BY <1>1, <1>4, <1>a, <1>3, WindowAssumption DEF Taken, Buckets
  <1>6. call' = [call EXCEPT ![c] = [Idle EXCEPT !.reply =
                   [RelayedResponse(429, {"content-type"}) EXCEPT !.at = now]]]
    BY DEF RateLimited, Refused, Replies, StatusOf
  <1>7. call'[c].reply.at = now /\ \A d \in Clients : d # c => call'[d] = call[d]
    BY <1>6 DEF Idle, RelayedResponse, Shaped
  <1>8. /\ bucket.refilled \in 0..now
        /\ Curve[now + 1] >= Curve[bucket.refilled] + proc.limit
    BY <1>a, <1>5 DEF Limited
  <1>9. AtTheLimit(call[c].reply)'
    BY <1>1, <1>2, <1>5, <1>7, <1>8 DEF AtTheLimit, Shaped
  <1>10. ASSUME NEW d \in Clients, d # c, Free(d)'
         PROVE  AtTheLimit(call[d].reply)'
    BY <1>1, <1>2, <1>7, <1>10 DEF Limiting, AtTheLimit, Free
  <1>11. QED
    BY <1>1, <1>2, <1>5, <1>9, <1>10 DEF Limiting, Serving

LEMMA ForwardLimiting ==
  ASSUME Shaped, Limiting, NEW c \in Clients, Forward(c)
  PROVE  Limiting'
  <1>1. /\ UNCHANGED <<load, now, proc, overrides>> /\ Allows(bucket, proc.limit, now)
        /\ bucket' = Taken(bucket, proc.limit, now) /\ call[c].kind # "idle"
        /\ admitted' = [t \in DOMAIN admitted |-> admitted[t] + (IF t > now THEN 1 ELSE 0)]
    BY DEF Forward, Step, outside, config
  <1>2. Serving
    BY <1>1, CallIsServed
  <1>3. load.until \in Nat /\ now \in Nat /\ now <= load.until
    BY WorkloadAssumption DEF Limiting, Shaped
  <1>4. admitted' \in [0..(load.until + 1) -> Nat]
    BY <1>1 DEF Limiting
  <1>5. Curve' = [t \in Nat |-> Curve[t] + (IF t > now THEN 1 ELSE 0)]
    <2>1. ASSUME NEW t \in Nat
          PROVE  Curve'[t] = Curve[t] + (IF t > now THEN 1 ELSE 0)
      <3> DEFINE tick == IF t <= load.until THEN t ELSE load.until + 1
      <3>1. tick \in 0..(load.until + 1) /\ (tick > now <=> t > now)
        BY <1>3
      <3>2. Curve[t] = admitted[tick] /\ Curve'[t] = admitted'[tick]
        BY <1>1 DEF Curve, LetThrough
      <3>3. QED
        BY <1>1, <3>1, <3>2 DEF Limiting
    <2>2. QED
      BY <2>1 DEF Curve
  <1> DEFINE full == Refilled(bucket, proc.limit, now)
  <1>6. /\ full \in Buckets /\ now < full.refilled + Window
        /\ Limited(Curve, full.tokens, full.refilled, proc.limit, now)
    BY <1>2, RefilledInTime DEF Limiting, Shaped
  <1>7. full.tokens > 0
    BY <1>1, <1>6 DEF Allows, Buckets
  <1>8. bucket' = [tokens |-> full.tokens - 1, refilled |-> full.refilled]
    BY <1>1, <1>6, <1>7 DEF Taken, Buckets
  <1> HIDE DEF full
  <1>9. Limited(Curve', full.tokens - 1, full.refilled, proc.limit, now)
    BY <1>5, <1>6, <1>7, LimitedByTaking
  <1>10. Limited(Curve, bucket.tokens, bucket.refilled, proc.limit, now)'
    BY <1>1, <1>8, <1>9
  <1>11. ASSUME NEW d \in Clients, Free(d)', call'[d].reply.status = 429
         PROVE  AtTheLimit(call[d].reply)'
    <2>1. call'[d] = call[d] /\ Free(d)
      BY <1>11 DEF Forward, Proceeds, Shaped, Free, Step, KindOK, HttpCalls
    <2>2. PICK t \in 0..call[d].reply.at : /\ call[d].reply.at < t + Window
                                           /\ Curve[call[d].reply.at + 1] >= Curve[t] + proc.limit
      BY <1>11, <2>1 DEF Limiting, AtTheLimit
    <2>3. call[d].reply.at \in 0..now
      BY <1>11, <2>1 DEF Limiting, AtTheLimit
    <2>4. /\ Curve[call[d].reply.at + 1] \in Nat /\ Curve[t] \in Nat /\ proc.limit \in Nat
          /\ t \in Nat /\ call[d].reply.at + 1 \in Nat
      BY <2>3, <1>6 DEF Limited
    <2>5. /\ Curve'[t] = Curve[t]
          /\ Curve'[call[d].reply.at + 1] >= Curve[call[d].reply.at + 1]
      BY <1>3, <1>5, <2>2, <2>3, <2>4
    <2>6. Curve'[t] \in Nat /\ Curve'[call[d].reply.at + 1] \in Nat
      BY <1>9, <2>4 DEF Limited
    <2>7. Curve'[call[d].reply.at + 1] >= Curve'[t] + proc.limit
      BY <2>2, <2>4, <2>5, <2>6
    <2>8. QED
      BY <1>1, <2>1, <2>2, <2>3, <2>7 DEF AtTheLimit
  <1>12. bucket' \in Buckets
    BY <1>6, <1>7, <1>8 DEF Buckets
  <1>13. QED
    BY <1>1, <1>2, <1>4, <1>10, <1>11, <1>12 DEF Limiting, Serving, AtTheLimit

\* What the steps of the other calls answer, and what they do to nobody's answer.
LEMMA NextLimiting == Shaped /\ Limiting /\ [Next]_vars => Limiting'
  <1> SUFFICES ASSUME Shaped, Limiting, [Next]_vars
               PROVE  Limiting'
    OBVIOUS
  <1> USE DEF outside, config, traffic
  <1> DEFINE Stays == UNCHANGED <<load, now, proc, bucket, admitted>>
             Answers == \A c \in Clients : \/ call'[c] = call[c] \/ call'[c].kind # "idle"
                                           \/ call'[c].reply.status # 429
  <1>a. ASSUME Stays, UNCHANGED overrides, Answers
        PROVE  Limiting'
    BY <1>a, LimitingApart DEF Limiting
  <1>b. ASSUME NEW c \in Clients, NEW one, call' = [call EXCEPT ![c] = one],
               one.kind # "idle" \/ one.reply.status # 429
        PROVE  Answers
    BY <1>b DEF Shaped
  <1>c. ASSUME NEW c \in Clients, NEW reply, Replies(c, reply), reply.status # 429
        PROVE  Answers
    BY <1>b, <1>c DEF Replies, Idle
  <1>1. ASSUME NEW c \in Clients, Accept(c) \/ AcceptPassthrough(c) \/ ForwardAny(c)
        PROVE  Limiting'
    <2>1. PICK request, step : Received(c, request, step)
      BY <1>1 DEF Accept, AcceptPassthrough, ForwardAny
    <2>a. PICK one : one.kind = "http" /\ call' = [call EXCEPT ![c] = one]
      BY <2>1 DEF Received
    <2>b. Answers
      BY <1>b, <2>a
    <2>2. Stays /\ UNCHANGED overrides
      BY <1>1 DEF Accept, AcceptPassthrough, ForwardAny
    <2>3. QED
      BY <1>a, <2>b, <2>2
  <1>2. ASSUME NEW c \in Clients, Messages(c) \/ ChatCompletions(c) \/ Responses(c)
        PROVE  Limiting'
    <2>1. /\ call'[c] \in HttpCalls /\ call' = [call EXCEPT ![c] = call'[c]]
          /\ Stays /\ UNCHANGED overrides
      BY <1>2, HandlerStep
    <2>2. Answers
      BY <1>b, <2>1 DEF HttpCalls
    <2>3. QED
      BY <1>a, <2>1, <2>2
  <1>3. ASSUME NEW c \in Clients, NoUpstream(c) \/ Respond(c) \/ EndProbe(c) \/ Import(c)
        PROVE  Limiting'
    <2>1. Answers
      BY <1>3, <1>c DEF NoUpstream, Respond, EndProbe, Import, Refused, Returns, RelayedResponse,
                        StatusOf, NoReply
    <2>2. Stays /\ UNCHANGED overrides
      BY <1>3 DEF NoUpstream, Respond, EndProbe, Import
    <2>3. QED
      BY <1>a, <2>1, <2>2
  <1>4. ASSUME NEW c \in Clients, RelaySocket(c) \/ AnswerFromCache(c)
        PROVE  Limiting'
    BY <1>4, <1>a DEF RelaySocket, AnswerFromCache
  <1>5. ASSUME NEW c \in Clients, AdminCheck(c) \/ BeginProbe(c) \/ Export(c)
        PROVE  Limiting'
    <2>1. CASE UNCHANGED call
      BY <1>5, <1>a, <2>1 DEF AdminCheck, BeginProbe, Export
    <2>2. Stays /\ UNCHANGED overrides
      BY <1>5 DEF AdminCheck, BeginProbe, Export
    <2>3. ASSUME NEW one, one.kind # "idle", call' = [call EXCEPT ![c] = one]
          PROVE  Limiting'
      BY <1>a, <1>b, <2>2, <2>3
    <2>4. CASE AdminCheck(c)
      BY <2>1, <2>3, <2>4 DEF AdminCheck
    <2>5. CASE BeginProbe(c)
      BY <2>3, <2>5 DEF BeginProbe
    <2>6. CASE Export(c)
      BY <2>3, <2>6 DEF Export
    <2>7. QED
      BY <1>5, <2>4, <2>5, <2>6
  <1>6. ASSUME NEW c \in Clients, AdminApply(c)
        PROVE  Limiting'
    <2>1. Stays /\ call[c].values \in load.calls
      BY <1>6 DEF AdminApply, Step, Shaped, KindOK
    <2>2. Numeric(overrides'["RATE_LIMIT"])
      BY <1>6, <2>1, WorkloadAssumption DEF AdminApply, Overridden, Known, StartupOnly, Limiting, Shaped
    <2>3. ASSUME NEW d \in Clients
          PROVE  \/ call'[d] = call[d] \/ call'[d].kind # "idle" \/ call'[d].reply.status # 429
      <3>1. CASE d = c
        BY <1>6, <3>1 DEF AdminApply, Idle, NoReply, RelayedResponse
      <3>2. CASE d # c /\ call[d].kind = "http"
        BY <1>6, <3>2 DEF AdminApply, Shaped, KindOK, HttpCalls
      <3>3. CASE d # c /\ call[d].kind # "http"
        BY <1>6, <3>3 DEF AdminApply
      <3>4. QED
        BY <3>1, <3>2, <3>3
    <2>4. QED
      BY <2>1, <2>2, <2>3, LimitingApart
  <1>7. CASE ShutDown
    <2>1. /\ UNCHANGED <<load, now, overrides, bucket, admitted, call>> /\ Running
          /\ proc' = [proc EXCEPT !.state = "draining"]
      BY <1>7 DEF ShutDown
    <2>2. proc'.limit = proc.limit /\ Serving
      BY <2>1 DEF Shaped, Fields, Running, Serving
    <2>3. Curve' = Curve
      BY <2>1, CurveKept
    <2>4. QED
      BY <2>1, <2>2, <2>3 DEF Limiting, AtTheLimit, Free
  <1>8. CASE Learn
    BY <1>8, <1>a DEF Learn
  <1>9. CASE LinkChanges
    <2>1. ASSUME NEW c \in Clients, call[c].kind = "probe"
          PROVE  call'[c].kind # "idle"
      BY <1>9, <2>1 DEF LinkChanges, Shaped, KindOK, ProbeCalls
    <2>2. \A c \in Clients : call[c].kind # "probe" => call'[c] = call[c]
      BY <1>9 DEF LinkChanges
    <2>3. Answers
      BY <2>1, <2>2
    <2>4. Stays /\ UNCHANGED overrides
      BY <1>9 DEF LinkChanges
    <2>5. QED
      BY <1>a, <2>3, <2>4
  <1>10. CASE UNCHANGED vars
    BY <1>10, <1>a DEF vars
  <1>11. QED
    BY <1>1, <1>2, <1>3, <1>4, <1>5, <1>6, <1>7, <1>8, <1>9, <1>10, StartLimiting, GoneLimiting,
       TickLimiting, RefusalLimiting, ForwardLimiting
    DEF Next, Drained, Killed

-----------------------------------------------------------------------------
(***************************************************************************)
(* The probes.                                                             *)
(***************************************************************************)
LEMMA InitProbing == Init => Probing
  BY ProbeAssumption DEF Init, Probing, Idle, NoAnswer, ReachabilityRecent

\* A step in which no probe begins, ends or sees the link change.
LEMMA ProbingApart ==
  ASSUME Probing, UNCHANGED <<now, link, seen, health, answer>>,
         \A c \in Clients : call'[c] = call[c] \/ call'[c].kind # "probe"
  PROVE  Probing'
  <1>1. ASSUME NEW c \in Clients, call'[c].kind = "probe"
        PROVE  ProbeHolds(call[c])'
    BY <1>1 DEF Probing, ProbeHolds
  <1>2. QED
    BY <1>1 DEF Probing, ReachabilityRecent

LEMMA NextProbing == Shaped /\ Probing /\ [Next]_vars => Probing'
  <1> SUFFICES ASSUME Shaped, Probing, [Next]_vars
               PROVE  Probing'
    OBVIOUS
  <1> USE DEF outside, probing
  <1> DEFINE Stays == UNCHANGED <<now, link, seen, health, answer>>
             Others == \A c \in Clients : call'[c] = call[c] \/ call'[c].kind # "probe"
  <1>a. ASSUME NEW c \in Clients, NEW one, call' = [call EXCEPT ![c] = one], one.kind # "probe"
        PROVE  Others
    BY <1>a DEF Shaped
  <1>b. ASSUME NEW c \in Clients, NEW reply, Replies(c, reply)
        PROVE  Others
    BY <1>a, <1>b DEF Replies, Idle
  <1>c. seen \in [BOOLEAN -> Nat] /\ now \in Nat /\ link \in BOOLEAN
    BY DEF Shaped, Probing
  <1>1. ASSUME NEW c \in Clients, Accept(c) \/ AcceptPassthrough(c) \/ ForwardAny(c)
        PROVE  Probing'
    <2>1. PICK request, step : Received(c, request, step)
      BY <1>1 DEF Accept, AcceptPassthrough, ForwardAny
    <2>2. PICK one : one.kind = "http" /\ call' = [call EXCEPT ![c] = one]
      BY <2>1 DEF Received
    <2>3. Stays /\ Others
      BY <1>1, <1>a, <2>2 DEF Accept, AcceptPassthrough, ForwardAny
    <2>4. QED
      BY <2>3, ProbingApart
  <1>2. ASSUME NEW c \in Clients, Messages(c) \/ ChatCompletions(c) \/ Responses(c)
        PROVE  Probing'
    <2>1. call'[c] \in HttpCalls /\ call' = [call EXCEPT ![c] = call'[c]] /\ UNCHANGED <<outside, probing>>
      BY <1>2, HandlerStep
    <2>2. Stays /\ Others
      BY <1>a, <2>1 DEF HttpCalls
    <2>3. QED
      BY <2>2, ProbingApart
  <1>3. ASSUME NEW c \in Clients, NoUpstream(c) \/ RateLimited(c) \/ Respond(c) \/ Import(c)
        PROVE  Probing'
    <2>1. Stays /\ Others
      BY <1>3, <1>b DEF NoUpstream, RateLimited, Respond, Import, Refused, Returns
    <2>2. QED
      BY <2>1, ProbingApart
  <1>4. ASSUME NEW c \in Clients, Forward(c)
        PROVE  Probing'
    <2>1. Stays /\ Others
      BY <1>4 DEF Forward, Step, Proceeds, Shaped, KindOK, HttpCalls
    <2>2. QED
      BY <2>1, ProbingApart
  <1>5. ASSUME NEW c \in Clients, RelaySocket(c)
        PROVE  Probing'
    BY <1>5, ProbingApart DEF RelaySocket
  <1>6. ASSUME NEW c \in Clients, AdminCheck(c)
        PROVE  Probing'
    <2>1. CASE UNCHANGED call
      BY <1>6, <2>1, ProbingApart DEF AdminCheck
    <2>2. ASSUME NEW values,
                 call' = [call EXCEPT ![c] = [kind |-> "admin", step |-> "checked", values |-> values]]
          PROVE  Probing'
      BY <1>6, <1>a, <2>2, ProbingApart DEF AdminCheck
    <2>3. QED
      BY <1>6, <2>1, <2>2 DEF AdminCheck
  <1>7. ASSUME NEW c \in Clients, AdminApply(c)
        PROVE  Probing'
    <2>1. ASSUME NEW d \in Clients
          PROVE  call'[d] = call[d] \/ call'[d].kind # "probe"
      <3>1. CASE d = c
        BY <1>7, <3>1 DEF AdminApply, Idle
      <3>2. CASE d # c /\ call[d].kind = "http"
        BY <1>7, <3>2 DEF AdminApply, Shaped, KindOK, HttpCalls
      <3>3. CASE d # c /\ call[d].kind # "http"
        BY <1>7, <3>3 DEF AdminApply
      <3>4. QED
        BY <3>1, <3>2, <3>3
    <2>2. QED
      BY <1>7, <2>1, ProbingApart DEF AdminApply
  <1>8. ASSUME NEW c \in Clients, AnswerFromCache(c)
        PROVE  Probing'
    <2>1. PICK cached \in health : Answered(cached.up)
      BY <1>8 DEF AnswerFromCache
    <2>2. UNCHANGED <<now, link, seen, health, call>>
      BY <1>8 DEF AnswerFromCache
    <2>3. now - cached.at < ProbeCache
      BY <1>8 DEF AnswerFromCache, Fresh, Probing
    <2>4. /\ cached.up \in BOOLEAN /\ cached.at \in Nat /\ seen[cached.up] \in Nat
          /\ cached.at <= seen[cached.up] + ProbeTimeout
      BY <1>c DEF Probing
    <2>5. answer'.age = now - seen[cached.up] /\ answer'.age < ProbeCache + ProbeTimeout
      BY <1>c, <2>1, <2>3, <2>4, ProbeAssumption DEF Answered
    <2>6. ASSUME NEW d \in Clients, call[d].kind = "probe"
          PROVE  ProbeHolds(call[d])'
      BY <2>2, <2>6 DEF Probing, ProbeHolds
    <2>7. QED
      BY <2>2, <2>5, <2>6 DEF Probing, ReachabilityRecent
  <1>9. ASSUME NEW c \in Clients, BeginProbe(c)
        PROVE  Probing'
    <2>1. call' = [call EXCEPT ![c] = [kind |-> "probe", step |-> "probing", at |-> now, links |-> {link}]]
      BY <1>9 DEF BeginProbe
    <2>2. Stays
      BY <1>9 DEF BeginProbe
    <2>3. ASSUME NEW d \in Clients, call'[d].kind = "probe"
          PROVE  ProbeHolds(call[d])'
      BY <1>c, <2>1, <2>2, <2>3, ProbeAssumption DEF Shaped, Probing, ProbeHolds
    <2>4. QED
      BY <2>2, <2>3 DEF Probing, ReachabilityRecent
  <1>10. ASSUME NEW c \in Clients, EndProbe(c)
         PROVE  Probing'
    <2>1. call[c] \in ProbeCalls /\ ProbeHolds(call[c]) /\ UNCHANGED <<now, link, seen>>
      BY <1>10 DEF EndProbe, Step, Shaped, KindOK, Probing
    <2>2. PICK up \in call[c].links : Answered(up) /\ health' = {[at |-> now, up |-> up]}
      BY <1>10 DEF EndProbe
    <2>3. up \in BOOLEAN /\ seen[up] \in Nat /\ seen[up] <= now /\ now <= seen[up] + ProbeTimeout
      BY <1>c, <2>1, ProbeAssumption DEF ProbeCalls, ProbeHolds, Probing
    <2>4. answer'.age = now - seen[up] /\ answer'.age < ProbeCache + ProbeTimeout
      BY <1>c, <2>2, <2>3, ProbeAssumption DEF Answered
    <2>5. Others
      BY <1>10, <1>b DEF EndProbe, Returns
    <2>6. ASSUME NEW d \in Clients, call'[d].kind = "probe"
          PROVE  ProbeHolds(call[d])'
      BY <2>1, <2>5, <2>6 DEF Probing, ProbeHolds
    <2>7. QED
      BY <1>c, <2>1, <2>2, <2>3, <2>4, <2>6 DEF Probing, ReachabilityRecent
  <1>11. ASSUME NEW c \in Clients, Export(c)
         PROVE  Probing'
    <2>1. PICK one : one.kind = "peer" /\ call' = [call EXCEPT ![c] = one]
      BY <1>11 DEF Export
    <2>2. QED
      BY <1>11, <1>a, <2>1, ProbingApart DEF Export
  <1>12. CASE Start \/ ShutDown \/ Learn
    BY <1>12, ProbingApart DEF Start, ShutDown, Learn
  <1>13. CASE Gone
    BY <1>13, ProbeAssumption DEF Gone, Probing, Idle, NoAnswer, ReachabilityRecent
  <1>14. CASE Tick
    <2>1. /\ now' = now + 1 /\ seen' = [seen EXCEPT ![link] = now + 1]
          /\ UNCHANGED <<link, health, answer, call>>
          /\ \A c \in Clients : call[c].kind = "probe" => now < call[c].at + ProbeTimeout
      BY <1>14 DEF Tick
    <2>2. \A up \in BOOLEAN : seen'[up] \in Nat /\ seen'[up] >= seen[up] /\ seen'[up] <= now'
      BY <1>c, <2>1 DEF Probing
    <2>3. ASSUME NEW c \in Clients, call[c].kind = "probe"
          PROVE  ProbeHolds(call[c])'
      <3>1. call[c] \in ProbeCalls /\ ProbeHolds(call[c])
        BY <2>3 DEF Shaped, KindOK, Probing
      <3>2. call[c].at \in Nat /\ call[c].links \subseteq BOOLEAN
        BY <3>1 DEF ProbeCalls
      <3>3. \A up \in call[c].links : seen'[up] >= call[c].at
        BY <1>c, <2>2, <3>1, <3>2 DEF ProbeHolds
      <3>4. QED
        BY <1>c, <2>1, <2>3, <3>1, <3>2, <3>3, ProbeAssumption DEF ProbeHolds
    <2>4. ASSUME NEW cached \in health
          PROVE  /\ cached.up \in BOOLEAN /\ cached.at \in Nat /\ cached.at <= now'
                 /\ cached.at <= seen'[cached.up] + ProbeTimeout
      BY <1>c, <2>1, <2>2, ProbeAssumption DEF Probing
    <2>5. QED
      BY <1>c, <2>1, <2>2, <2>3, <2>4 DEF Probing, ReachabilityRecent
  <1>15. CASE LinkChanges
    <2>1. /\ link' = ~link /\ seen' = [seen EXCEPT ![link'] = now]
          /\ UNCHANGED <<now, health, answer>>
      BY <1>15 DEF LinkChanges
    <2>2. \A up \in BOOLEAN : seen'[up] \in Nat /\ seen'[up] >= seen[up] /\ seen'[up] <= now
      BY <1>c, <2>1 DEF Probing
    <2>3. ASSUME NEW c \in Clients, call'[c].kind = "probe"
          PROVE  ProbeHolds(call[c])'
      <3>1. call[c].kind = "probe" /\ call'[c] = [call[c] EXCEPT !.links = @ \cup {link'}]
        BY <1>15, <2>3 DEF LinkChanges
      <3>2. call[c] \in ProbeCalls /\ ProbeHolds(call[c])
        BY <3>1 DEF Shaped, KindOK, Probing
      <3>3. call'[c].at = call[c].at /\ call'[c].links = call[c].links \cup {link'}
        BY <3>1, <3>2 DEF ProbeCalls
      <3>4. call[c].at \in Nat /\ call[c].links \subseteq BOOLEAN /\ seen'[link'] = now
        BY <1>c, <2>1, <3>2 DEF ProbeCalls
      <3>5. \A up \in call'[c].links : seen'[up] >= call[c].at
        BY <1>c, <2>2, <3>2, <3>3, <3>4 DEF ProbeHolds
      <3>6. QED
        BY <2>1, <3>2, <3>3, <3>5 DEF ProbeHolds
    <2>4. ASSUME NEW cached \in health
          PROVE  /\ cached.up \in BOOLEAN /\ cached.at \in Nat /\ cached.at <= now
                 /\ cached.at <= seen'[cached.up] + ProbeTimeout
      BY <1>c, <2>2, ProbeAssumption DEF Probing
    <2>5. seen' \in [BOOLEAN -> Nat] /\ seen'[link'] = now /\ link' \in BOOLEAN
      BY <1>c, <2>1
    <2>6. QED
      BY <2>1, <2>2, <2>3, <2>4, <2>5 DEF Probing, ReachabilityRecent
  <1>16. CASE UNCHANGED vars
    BY <1>16, ProbingApart DEF vars
  <1>17. QED
    BY <1>1, <1>2, <1>3, <1>4, <1>5, <1>6, <1>7, <1>8, <1>9, <1>10, <1>11, <1>12, <1>13, <1>14,
       <1>15, <1>16
    DEF Next, Drained, Killed

-----------------------------------------------------------------------------
(***************************************************************************)
(* The bytes.                                                              *)
(***************************************************************************)
LEMMA SameOutcome ==
  ASSUME proc'.limits = proc.limits, proc'.known = proc.known, NEW request, NEW text
  PROVE  Outcome(request, text)' = Outcome(request, text)
  BY DEF Outcome, Attempted, Routing, RoutingOf

LEMMA SameSmaller ==
  ASSUME proc'.limits = proc.limits, proc'.known = proc.known, NEW request, NEW ns
  PROVE  Smaller(request, ns)' = Smaller(request, ns)
  <1>1. ASSUME NEW n \in ns
        PROVE  Shrinks(request, request.blocks[n])' <=> Shrinks(request, request.blocks[n])
    <2>1. PICK text : text = request.blocks[n]
      OBVIOUS
    <2>2. Outcome(request, text)' = Outcome(request, text)
      BY SameOutcome
    <2>3. QED
      BY <2>1, <2>2 DEF Shrinks
  <1>2. QED
    BY <1>1 DEF Smaller

LEMMA SameCompressed ==
  ASSUME proc'.limits = proc.limits, proc'.known = proc.known, NEW one
  PROVE  Compressed(one)' <=> Compressed(one)
  <1>1. PICK request, ns : request = one.request /\ ns = DOMAIN one.request.blocks
    OBVIOUS
  <1>2. Smaller(request, ns)' = Smaller(request, ns)
    BY SameSmaller
  <1>3. QED
    BY <1>1, <1>2 DEF Compressed

LEMMA SameUnderway ==
  ASSUME proc'.limits = proc.limits, proc'.known = proc.known, NEW one
  PROVE  Underway(one)' <=> Underway(one)
  <1>1. PICK request, ns : request = one.request /\ ns = 1..(one.block - 1)
    OBVIOUS
  <1>2. Smaller(request, ns)' = Smaller(request, ns)
    BY SameSmaller
  <1>3. Partly(one)' <=> Partly(one)
    BY <1>1, <1>2 DEF Partly
  <1>4. Compressed(one)' <=> Compressed(one)
    BY SameCompressed
  <1>5. QED
    BY <1>3, <1>4 DEF Underway

LEMMA SameLeaves ==
  ASSUME proc'.limits = proc.limits, proc'.known = proc.known, UNCHANGED <<load>>,
         proc'.upstream = proc.upstream, NEW s, Leaves(s)
  PROVE  Leaves(s)'
  BY SameCompressed DEF Leaves

LEMMA BlocksAre ==
  ASSUME Shaped, NEW request \in load.requests
  PROVE  Len(request.blocks) \in Nat /\ DOMAIN request.blocks = 1..Len(request.blocks)
  <1>1. request.blocks \in Seq(DOMAIN Size)
    BY SizeAssumption DEF Shaped
  <1>2. QED
    BY <1>1

\* One block more has been dealt with.
LEMMA SmallerByOne ==
  ASSUME NEW request, NEW n \in Nat \ {0}
  PROVE  /\ Smaller(request, 1..(n - 1)) \subseteq 1..(n - 1)
         /\ Smaller(request, 1..n) = Smaller(request, 1..(n - 1))
              \cup (IF Shrinks(request, request.blocks[n]) THEN {n} ELSE {})
  <1>1. 1..n = 1..(n - 1) \cup {n}
    OBVIOUS
  <1>2. Smaller(request, 1..n) = Smaller(request, 1..(n - 1)) \cup Smaller(request, {n})
    BY <1>1 DEF Smaller
  <1>3. Smaller(request, {n}) = IF Shrinks(request, request.blocks[n]) THEN {n} ELSE {}
    BY DEF Smaller
  <1>4. QED
    BY <1>2, <1>3 DEF Smaller

\* Where a loop has got to that has dealt with one block more.
LEMMA PartlyByOne ==
  ASSUME Shaped, NEW one \in HttpCalls, Partly(one), one.used.compression,
         one.block \in DOMAIN one.request.blocks, NEW new, NEW lost, NEW more, NEW gain,
         Applies(one, lost, more, gain),
         new.request = one.request, new.used = one.used, new.block = one.block + 1,
         new.body.note = one.body.note,
         new.failed = one.failed \cup lost, new.body.smaller = one.body.smaller \cup more
  PROVE  Partly(new)
  <1> DEFINE n == one.block
             shrinks == Shrinks(one.request, one.request.blocks[one.block])
  <1>1. n \in Nat \ {0} /\ n <= Len(one.request.blocks) /\ Len(one.request.blocks) \in Nat
    BY BlocksAre DEF HttpCalls
  <1>2. /\ Smaller(one.request, 1..(n - 1)) \subseteq 1..(n - 1)
        /\ Smaller(one.request, 1..n) = Smaller(one.request, 1..(n - 1)) \cup (IF shrinks THEN {n} ELSE {})
    BY <1>1, SmallerByOne
  <1>3. one.failed \subseteq 1..(n - 1) /\ one.body.smaller = Smaller(one.request, 1..(n - 1)) \ one.failed
    BY DEF Partly
  <1>4. n \notin 1..(n - 1) /\ 1..(n - 1) \subseteq 1..n /\ n \in 1..n /\ n + 1 - 1 = n
        /\ n + 1 \in 1..(Len(one.request.blocks) + 1)
    BY <1>1
  <1>5. new.body.smaller = Smaller(one.request, 1..n) \ new.failed
    <2> HIDE DEF n, shrinks
    <2>1. \/ lost = {n} /\ more = {}
          \/ lost = {} /\ shrinks /\ more = {n}
          \/ lost = {} /\ ~shrinks /\ more = {}
      BY DEF n, shrinks, Applies, TextOf
    <2>2. CASE shrinks
      BY <1>2, <1>3, <1>4, <2>1, <2>2
    <2>3. CASE ~shrinks
      BY <1>2, <1>3, <1>4, <2>1, <2>3
    <2>4. QED
      BY <2>2, <2>3
  <1>6. new.failed \subseteq 1..n
    BY <1>3, <1>4 DEF Applies
  <1>7. QED
    BY <1>4, <1>5, <1>6 DEF Partly

\* A step of a handler brings the body one step further.
LEMMA UnderwayAdvances ==
  ASSUME Shaped, NEW one \in HttpCalls, Placed(one), NEW new, Advances(one, new), Underway(one)
  PROVE  Underway(new)
  <1> USE DEF Compressing
  <1>1. Current \in UsedSettings
    BY LiveIsUsed DEF Current
  <1>2. CASE one.step = "reading" /\ one.request.route \in Compressing /\ new = ReadCall(one)
    <2>1. /\ new.step = "noting" /\ new.request = one.request /\ new.body = one.body
          /\ new.block = one.block /\ new.failed = one.failed
      BY <1>2 DEF ReadCall, HttpCalls, UsedSettings
    <2>2. QED
      BY <1>2, <2>1 DEF Underway
  <1>3. CASE one.step = "noting" /\ one.request.route \in Compressing /\ new = NotedCall(one)
    <2>1. /\ new.step = "routing" /\ new.request = one.request /\ new.body = one.body
          /\ new.block = one.block /\ new.failed = one.failed
      BY <1>3 DEF NotedCall, HttpCalls, UsedSettings
    <2>2. /\ one.block = 1 /\ one.failed = {} /\ one.body.smaller = {} /\ one.body.note = "default"
          /\ Unstable(one.body) /\ one.body.added = {}
      BY <1>3 DEF Underway, Untouched
    <2>3. 1..(1 - 1) = {} /\ 1 \in 1..(Len(one.request.blocks) + 1)
      BY BlocksAre DEF HttpCalls
    <2>4. Smaller(one.request, {}) = {}
      BY DEF Smaller
    <2>5. Partly(new)
      BY <2>1, <2>2, <2>3, <2>4 DEF Partly
    <2>6. QED
      BY <1>3, <2>1, <2>2, <2>5 DEF Underway
  <1>4. CASE /\ one.step = "routing" /\ one.request.route \in Compressing
             /\ Looping(one) /\ new = AttemptedCall(one)
    <2>1. /\ new.step = "applying" /\ new.request = one.request /\ new.body = one.body
          /\ new.used = one.used /\ new.block = one.block /\ new.failed = one.failed
      BY <1>4 DEF AttemptedCall, HttpCalls
    <2>2. Partly(new)
      BY <1>4, <2>1 DEF Underway, Partly
    <2>3. QED
      BY <1>4, <2>1, <2>2 DEF Underway, Looping
  <1>6. ASSUME NEW lost, NEW more, NEW gain, Applies(one, lost, more, gain),
               (one.step = "routing" /\ Looping(one)) \/ one.step = "applying", one.request.route \in Compressing, new = BlockDone(one, lost, more, gain)
        PROVE  Underway(new)
    <2>1. PICK kept : kept = one.body.smaller \cup more
      OBVIOUS
    <2>3. /\ new.step = "routing" /\ new.request = one.request
          /\ new.used = one.used /\ new.block = one.block + 1 /\ new.failed = one.failed \cup lost
          /\ new.body = [one.body EXCEPT !.smaller = kept]
      <3>1. PICK n, b, a, failed, body :
              /\ n = one.block + 1 /\ b = one.before + Size[TextOf(one)].before /\ a = one.after + gain
              /\ failed = one.failed \cup lost
              /\ body = [one.body EXCEPT !.smaller = one.body.smaller \cup more]
        OBVIOUS
      <3>2. new = [kind |-> one.kind, request |-> one.request, since |-> one.since,
                   used |-> one.used, body |-> body, block |-> n, before |-> b, after |-> a,
                   failed |-> failed, step |-> "routing"]
        BY <1>6, <3>1, AppliedRecord
      <3>3. QED
        BY <3>1, <3>2, <2>1
    <2>4. /\ new.body.smaller = kept /\ new.body.note = one.body.note
          /\ new.body.sorted = one.body.sorted /\ new.body.marked = one.body.marked
          /\ new.body.added = one.body.added
      BY <2>3 DEF HttpCalls, Bodies
    <2>6. Partly(new)
      <3>1. Partly(one) /\ one.block \in DOMAIN one.request.blocks /\ one.used.compression
        BY <1>6 DEF Underway, Placed, Looping
      <3>2. QED
        BY <1>6, <2>1, <2>3, <2>4, <3>1, PartlyByOne
    <2>7. Unstable(new.body) /\ new.body.added = {}
      BY <1>6, <2>4 DEF Underway, Unstable
    <2>8. QED
      BY <1>6, <2>3, <2>6, <2>7 DEF Underway
  <1>7. CASE /\ one.step = "routing" /\ one.request.route \in Compressing
             /\ ~Looping(one) /\ new = CountedCall(one)
    <2> DEFINE on == one.used.compression
    <2>1. /\ new.step = "stabilizing" /\ new.request = one.request /\ new.used = one.used
          /\ new.failed = one.failed /\ new.body.smaller = one.body.smaller
          /\ new.body.sorted = one.body.sorted /\ new.body.marked = one.body.marked
          /\ new.body.added = one.body.added
          /\ new.body.note = (IF on /\ one.used.verbosity # "default" THEN one.used.verbosity ELSE "default")
      BY <1>7 DEF CountedCall, HttpCalls, Bodies
    <2>2. Partly(one) /\ Unstable(one.body) /\ one.body.added = {}
      BY <1>7 DEF Underway
    <2>3. Len(one.request.blocks) \in Nat /\ DOMAIN one.request.blocks = 1..Len(one.request.blocks)
      BY BlocksAre DEF HttpCalls
    <2>4. CASE on
      <3>1. one.block = Len(one.request.blocks) + 1
        BY <1>7, <2>2, <2>3, <2>4 DEF Partly, Looping
      <3>2. 1..(one.block - 1) = DOMAIN one.request.blocks
        BY <2>3, <3>1
      <3>3. one.body.smaller = Smaller(one.request, DOMAIN one.request.blocks) \ one.failed
        BY <2>2, <3>2 DEF Partly
      <3>4. new.body.note = one.used.verbosity
        BY <2>1, <2>4
      <3>5. QED
        BY <1>7, <2>1, <2>2, <2>4, <3>3, <3>4 DEF Underway, Compressed, Unstable
    <2>5. CASE ~on
      <3>1. one.block = 1 /\ 1..(1 - 1) = {}
        BY <2>2, <2>5 DEF Partly
      <3>2. one.body.smaller = {}
        BY <2>2, <3>1 DEF Partly, Smaller
      <3>3. QED
        BY <1>7, <2>1, <2>2, <2>5, <3>2 DEF Underway, Compressed, Untouched, Unstable
    <2>6. QED
      BY <2>4, <2>5
  <1>8. ASSUME NEW anthropic \in BOOLEAN, one.step = "stabilizing", new = StabilizedCall(one, anthropic),
               one.request.route \in Compressing, anthropic <=> one.request.route = "messages"
        PROVE  Underway(new)
    <2>1. /\ new.step = (IF anthropic THEN "relaying" ELSE "shaping") /\ new.request = one.request
          /\ new.used.compression = one.used.compression /\ new.used.verbosity = one.used.verbosity
          /\ new.used.stabilize = Current.stabilize /\ new.failed = one.failed
          /\ new.body.smaller = one.body.smaller /\ new.body.note = one.body.note
          /\ new.body.added = one.body.added /\ new.body.sorted = Current.stabilize
      BY <1>8 DEF StabilizedCall, HttpCalls, UsedSettings, Bodies
    <2>2. new.body.marked <=> /\ Current.stabilize /\ anthropic
                              /\ Policy(one.request).cacheControl
      BY <1>8 DEF StabilizedCall, HttpCalls, UsedSettings, Bodies
    <2>3. Compressed(new)
      BY <1>8, <2>1 DEF Underway, Compressed, Untouched
    <2>4. Stabilized(new.request, new.used, new.body)
      BY <1>8, <2>1, <2>2 DEF Stabilized
    <2>5. new.body.added = {}
      BY <1>8, <2>1 DEF Underway
    <2>6. QED
      BY <1>8, <2>1, <2>3, <2>4, <2>5 DEF Underway, Shaping
  <1>9. CASE /\ one.step = "shaping" /\ one.request.route \in {"chat", "responses"}
             /\ new = ShapedCall(one)
    <2>1. /\ new.step = "relaying" /\ new.request = one.request /\ new.used = one.used
          /\ new.failed = one.failed
          /\ new.body.smaller = one.body.smaller /\ new.body.note = one.body.note
          /\ new.body.sorted = one.body.sorted /\ new.body.marked = one.body.marked
          /\ new.body.added = Added(one.request)
      BY <1>9 DEF ShapedCall, HttpCalls, Bodies
    <2>2. Compressed(new) /\ Stabilized(new.request, new.used, new.body)
      BY <1>9, <2>1 DEF Underway, Compressed, Stabilized, Untouched, Unstable
    <2>3. QED
      BY <1>9, <2>1, <2>2 DEF Underway, Shaping
  <1>10. QED
    BY <1>2, <1>3, <1>4, <1>6, <1>7, <1>8, <1>9 DEF Advances, Loops

HttpUnderway(c) == call[c].kind = "http" => Underway(call[c])

LEMMA InitDetermined == Init => Determined
  BY DEF Init, Determined, Idle, Down, Relayed, Serving

\* A step of a process that goes on, in which only sockets leave.
LEMMA DeterminedOnward ==
  ASSUME Shaped, Determined, UNCHANGED <<load, proc>>,
         \A s \in sent' : s \in sent \/ (s.over # "http" /\ s.run = proc.run),
         \A c \in Clients : call'[c] = call[c] \/ HttpUnderway(c)'
  PROVE  Determined'
  <1>1. ASSUME NEW s \in Relayed'
        PROVE  Leaves(s)'
    <2>1. s \in Relayed
      BY <1>1 DEF Relayed, Serving
    <2>2. QED
      BY <2>1, SameLeaves DEF Determined
  <1>2. ASSUME NEW c \in Clients, call'[c].kind = "http"
        PROVE  HttpUnderway(c)'
    <2>1. CASE call'[c] = call[c]
      BY <1>2, <2>1, SameUnderway DEF Determined, HttpUnderway
    <2>2. QED
      BY <2>1
  <1>3. \A s \in sent' : s.run \in Nat /\ s.run <= proc'.run
    BY DEF Determined, Shaped
  <1>4. QED
    BY <1>1, <1>2, <1>3 DEF Determined, HttpUnderway

LEMMA StartDetermined == Shaped /\ Determined /\ Start => Determined'
  <1> SUFFICES ASSUME Shaped, Determined, Start
               PROVE  Determined'
    OBVIOUS
  <1>1. UNCHANGED <<load, sent, call>> /\ \A c \in Clients : call[c] = Idle
    BY DEF Start, Shaped, Serving, outside, traffic
  <1>2. /\ proc'.run \in Nat /\ \A s \in sent : s.run <= proc'.run
        /\ Relayed' = {}
        /\ \A url, other \in proc'.upstream : url = other
    <2>1. CASE proc' = [proc EXCEPT !.state = "refused"]
      <3>1. proc'.run = proc.run /\ proc'.upstream = proc.upstream /\ proc'.state = "refused"
        BY <2>1 DEF Shaped, Fields
      <3>2. QED
        BY <3>1 DEF Shaped, Determined, Relayed, Serving
    <2>2. CASE proc' = NewState(UpstreamUrl(Env, overrides), ListenAddr(Env, overrides))
      <3>1. proc'.run = proc.run + 1 /\ proc'.upstream = UpstreamClient(UpstreamUrl(Env, overrides))
        BY <2>2, StartedProcess
      <3>2. QED
        BY <1>1, <3>1 DEF Shaped, Determined, Relayed, UpstreamClient
    <2>3. QED
      BY <2>1, <2>2 DEF Start
  <1>3. \A s \in sent' : s.run \in Nat /\ s.run <= proc'.run
    BY <1>1, <1>2 DEF Determined
  <1>4. ASSUME NEW c \in Clients
        PROVE  HttpUnderway(c)'
    BY <1>1 DEF Idle, HttpUnderway
  <1>5. QED
    BY <1>2, <1>3, <1>4 DEF Determined, HttpUnderway

LEMMA ForwardDetermined ==
  ASSUME Shaped, Determined, NEW c \in Clients, Forward(c)
  PROVE  Determined'
  <1>1. /\ UNCHANGED <<load, proc>> /\ sent' = sent \cup {Outgoing(c, url) : url \in proc.upstream}
        /\ call' = [call EXCEPT ![c].step = "forwarded"]
        /\ call[c] \in HttpCalls /\ call[c].step = "relaying"
    BY DEF Forward, Proceeds, Step, Shaped, KindOK, outside, config
  <1>2. Underway(call[c])
    BY <1>1 DEF Determined, HttpCalls
  <1>3. ASSUME NEW url \in proc.upstream
        PROVE  Leaves(Outgoing(c, url)) /\ Outgoing(c, url).run = proc.run
    <2>1. PICK s : s = Outgoing(c, url)
      OBVIOUS
    <2>2. /\ s.request = call[c].request /\ s.used = call[c].used /\ s.body = call[c].body
          /\ s.failed = call[c].failed /\ s.headers = HeadersOf(s.request) /\ s.to = url
          /\ s.run = proc.run
      BY <2>1 DEF Outgoing, HeadersOf
    <2>3. /\ Compressed(call[c]) /\ Shaping(call[c].request, call[c].body)
          /\ Stabilized(call[c].request, call[c].used, call[c].body)
      BY <1>1, <1>2 DEF Underway
    <2>4. Compressed(s)
      BY <2>2, <2>3 DEF Compressed
    <2>5. s.body \in Bodies
      BY <1>1, <2>2 DEF HttpCalls
    <2>6. Leaves(s) /\ s.run = proc.run
      BY <2>2, <2>3, <2>4, <2>5 DEF Leaves
    <2>7. QED
      BY <2>1, <2>6
  <1>4. ASSUME NEW s \in Relayed'
        PROVE  Leaves(s)'
    <2>1. s \in Relayed \/ \E url \in proc.upstream : s = Outgoing(c, url)
      BY <1>1, <1>4 DEF Relayed, Serving
    <2>2. Leaves(s)
      BY <1>3, <2>1 DEF Determined
    <2>3. QED
      BY <1>1, <2>2, SameLeaves
  <1>5. \A s \in sent' : s.run \in Nat /\ s.run <= proc'.run
    BY <1>1, <1>3 DEF Determined, Shaped
  <1>6. ASSUME NEW d \in Clients, call'[d].kind = "http"
        PROVE  HttpUnderway(d)'
    <2>1. CASE d # c
      <3>1. call'[d] = call[d]
        BY <1>1, <2>1 DEF Shaped
      <3>2. Underway(call[d])
        BY <1>6, <3>1 DEF Determined
      <3>3. PICK one : one = call[d]
        OBVIOUS
      <3>4. Underway(one)'
        BY <1>1, <3>2, <3>3, SameUnderway
      <3>5. QED
        BY <3>1, <3>3, <3>4 DEF HttpUnderway
    <2>2. CASE d = c
      <3>1. PICK one : one = [call[c] EXCEPT !.step = "forwarded"]
        OBVIOUS
      <3>2. call'[c] = one
        BY <1>1, <3>1 DEF Shaped
      <3>3. /\ one.request = call[c].request /\ one.used = call[c].used /\ one.failed = call[c].failed
            /\ one.body = call[c].body /\ one.step = "forwarded"
        BY <1>1, <3>1 DEF HttpCalls
      <3>4. Compressed(one)
        BY <1>1, <1>2, <3>3 DEF Underway, Compressed
      <3>5. Underway(one)
        BY <1>1, <1>2, <3>3, <3>4 DEF Underway
      <3>6. Underway(one)'
        BY <1>1, <3>5, SameUnderway
      <3>7. QED
        BY <2>2, <3>2, <3>6 DEF HttpUnderway
    <2>3. QED
      BY <2>1, <2>2
  <1>7. QED
    BY <1>1, <1>4, <1>5, <1>6 DEF Determined, HttpUnderway

LEMMA NextDetermined == Shaped /\ Determined /\ [Next]_vars => Determined'
  <1> SUFFICES ASSUME Shaped, Determined, [Next]_vars
               PROVE  Determined'
    OBVIOUS
  <1> USE DEF outside, config, traffic
  <1> DEFINE Stays == UNCHANGED <<load, proc, sent>>
             Others == \A c \in Clients : call'[c] = call[c] \/ HttpUnderway(c)'
  <1>a. ASSUME Stays, Others
        PROVE  Determined'
    <2>1. \A s \in sent' : s \in sent \/ (s.over # "http" /\ s.run = proc.run)
      BY <1>a
    <2>2. QED
      BY <1>a, <2>1, DeterminedOnward
  <1>b. ASSUME NEW c \in Clients, NEW one, call' = [call EXCEPT ![c] = one], one.kind # "http"
        PROVE  Others
    BY <1>b DEF Shaped, HttpUnderway
  <1>c. ASSUME NEW c \in Clients, NEW reply, Replies(c, reply)
        PROVE  Others
    <2>1. PICK one : one = [Idle EXCEPT !.reply = reply]
      OBVIOUS
    <2>2. one.kind # "http" /\ call' = [call EXCEPT ![c] = one]
      BY <1>c, <2>1 DEF Replies, Idle
    <2>3. QED
      BY <1>b, <2>2
  <1>d. ASSUME NEW c \in Clients, NEW one, call' = [call EXCEPT ![c] = one], UNCHANGED proc,
               Underway(one)
        PROVE  Others
    <2>1. Underway(one)'
      BY <1>d, SameUnderway
    <2>2. call'[c] = one /\ \A d \in Clients : d # c => call'[d] = call[d]
      BY <1>d DEF Shaped
    <2>3. QED
      BY <2>1, <2>2 DEF HttpUnderway
  <1>1. ASSUME NEW c \in Clients, Accept(c) \/ AcceptPassthrough(c) \/ ForwardAny(c)
        PROVE  Determined'
    <2>1. PICK request \in load.requests, step \in {"reading", "relaying"} :
            /\ Received(c, request, step)
            /\ step = "reading" <=> request.route \in Compressing
      BY <1>1 DEF Accept, AcceptPassthrough, ForwardAny, Compressing, Stateful
    <2> DEFINE body == [smaller |-> {}, note |-> "default", sorted |-> FALSE, marked |-> FALSE,
                        added |-> {}]
    <2>2. PICK one :
            one = [kind |-> "http", request |-> request, since |-> {Current}, used |-> Current,
                   block |-> 1, before |-> 0, after |-> 0, failed |-> {}, body |-> body, step |-> step]
      OBVIOUS
    <2>3. call' = [call EXCEPT ![c] = one]
      BY <2>1, <2>2 DEF Received
    <2>6. /\ one.request = request /\ one.step = step /\ one.block = 1 /\ one.failed = {}
          /\ one.body.smaller = {} /\ one.body.note = "default" /\ ~one.body.sorted
          /\ ~one.body.marked /\ one.body.added = {}
      BY <2>2
    <2>7. Underway(one)
      <3>1. CASE step = "reading"
        BY <2>1, <2>6, <3>1 DEF Underway, Untouched, Unstable, Compressing
      <3>2. CASE step = "relaying"
        BY <2>1, <2>6, <3>2
        DEF Underway, Untouched, Unstable, Compressed, Stabilized, Shaping, Compressing
      <3>3. QED
        BY <3>1, <3>2
    <2>4. Stays
      BY <1>1 DEF Accept, AcceptPassthrough, ForwardAny
    <2>5. QED
      BY <1>a, <1>d, <2>3, <2>4, <2>7
  <1>2. ASSUME NEW c \in Clients, Messages(c) \/ ChatCompletions(c) \/ Responses(c)
        PROVE  Determined'
    <2>1. /\ call[c] \in HttpCalls /\ Placed(call[c]) /\ Advances(call[c], call'[c])
          /\ call' = [call EXCEPT ![c] = call'[c]] /\ Stays
      BY <1>2, HandlerStep
    <2>2. Underway(call[c])
      BY <2>1 DEF Determined, HttpCalls
    <2>3. PICK new : new = call'[c]
      OBVIOUS
    <2>4. Underway(new)
      BY <2>1, <2>2, <2>3, UnderwayAdvances
    <2>5. QED
      BY <1>a, <1>d, <2>1, <2>3, <2>4
  <1>3. ASSUME NEW c \in Clients, NoUpstream(c) \/ RateLimited(c) \/ Respond(c) \/ EndProbe(c) \/ Import(c)
        PROVE  Determined'
    BY <1>3, <1>a, <1>c DEF NoUpstream, RateLimited, Respond, EndProbe, Import, Refused, Returns
  <1>4. ASSUME NEW c \in Clients, RelaySocket(c)
        PROVE  Determined'
    <2>1. UNCHANGED <<load, proc, call>>
      BY <1>4 DEF RelaySocket
    <2>2. \A s \in sent' : s \in sent \/ (s.over # "http" /\ s.run = proc.run)
      BY <1>4 DEF RelaySocket
    <2>3. Others
      BY <2>1
    <2>4. QED
      BY <2>1, <2>2, <2>3, DeterminedOnward
  <1>5. ASSUME NEW c \in Clients, AnswerFromCache(c)
        PROVE  Determined'
    BY <1>5, <1>a DEF AnswerFromCache
  <1>6. ASSUME NEW c \in Clients, AdminCheck(c) \/ BeginProbe(c) \/ Export(c)
        PROVE  Determined'
    <2>1. Stays
      BY <1>6 DEF AdminCheck, BeginProbe, Export
    <2>2. ASSUME NEW one, one.kind # "http", call' = [call EXCEPT ![c] = one]
          PROVE  Determined'
      BY <1>a, <1>b, <2>1, <2>2
    <2>3. CASE AdminCheck(c)
      BY <1>a, <2>1, <2>2, <2>3 DEF AdminCheck
    <2>4. CASE BeginProbe(c)
      BY <2>2, <2>4 DEF BeginProbe
    <2>5. CASE Export(c)
      BY <2>2, <2>5 DEF Export
    <2>6. QED
      BY <1>6, <2>3, <2>4, <2>5
  <1>7. ASSUME NEW c \in Clients, AdminApply(c)
        PROVE  Determined'
    <2>1. ASSUME NEW d \in Clients
          PROVE  call'[d] = call[d] \/ HttpUnderway(d)'
      <3>1. CASE d = c
        BY <1>7, <3>1 DEF AdminApply, Idle, HttpUnderway
      <3>2. CASE d # c /\ call[d].kind = "http"
        <4>1. call[d] \in HttpCalls
          BY <3>2 DEF Shaped, KindOK
        <4>2. PICK one : one = [call[d] EXCEPT !.since = @ \cup {Live(Env, overrides')}]
          OBVIOUS
        <4>3. /\ one.request = call[d].request /\ one.used = call[d].used /\ one.body = call[d].body
              /\ one.block = call[d].block /\ one.failed = call[d].failed /\ one.step = call[d].step
          BY <4>1, <4>2 DEF HttpCalls
        <4>4. Underway(call[d])
          BY <3>2 DEF Determined
        <4>5. Partly(one) <=> Partly(call[d])
          BY <4>3 DEF Partly
        <4>6. Compressed(one) <=> Compressed(call[d])
          BY <4>3 DEF Compressed
        <4>7. Underway(one)
          BY <4>3, <4>4, <4>5, <4>6 DEF Underway
        <4>8. Underway(one)'
          BY <1>7, <4>7, SameUnderway DEF AdminApply
        <4>9. call'[d] = one
          BY <1>7, <3>2, <4>2 DEF AdminApply
        <4>10. QED
          BY <4>8, <4>9 DEF HttpUnderway
      <3>3. CASE d # c /\ call[d].kind # "http"
        BY <1>7, <3>3 DEF AdminApply
      <3>4. QED
        BY <3>1, <3>2, <3>3
    <2>2. QED
      BY <1>7, <1>a, <2>1 DEF AdminApply
  <1>8. CASE ShutDown
    <2>1. UNCHANGED <<load, sent, call>> /\ proc' = [proc EXCEPT !.state = "draining"] /\ Running
      BY <1>8 DEF ShutDown
    <2>2. /\ proc'.limits = proc.limits /\ proc'.known = proc.known /\ proc'.upstream = proc.upstream
          /\ proc'.run = proc.run /\ Serving
      BY <2>1 DEF Shaped, Fields, Running, Serving
    <2>3. ASSUME NEW s \in Relayed'
          PROVE  Leaves(s)'
      <3>1. s \in Relayed
        BY <2>1, <2>2, <2>3 DEF Relayed
      <3>2. QED
        BY <2>1, <2>2, <3>1, SameLeaves DEF Determined
    <2>4. ASSUME NEW c \in Clients, call[c].kind = "http"
          PROVE  HttpUnderway(c)'
      <3>1. PICK one : one = call[c]
        OBVIOUS
      <3>2. Underway(one)'
        BY <2>2, <2>4, <3>1, SameUnderway DEF Determined
      <3>3. QED
        BY <2>1, <3>1, <3>2 DEF HttpUnderway
    <2>5. QED
      BY <2>1, <2>2, <2>3, <2>4 DEF Determined, HttpUnderway
  <1>9. CASE Gone
    <2>1. /\ proc'.upstream = {} /\ proc'.run = proc.run /\ proc'.state = "down" /\ UNCHANGED sent
          /\ \A c \in Clients : call'[c] = Idle
      BY <1>9 DEF Gone, Down
    <2>2. Relayed' = {}
      BY <2>1 DEF Relayed, Serving
    <2>3. QED
      BY <2>1, <2>2 DEF Determined, Idle
  <1>10. CASE Learn \/ Tick
    BY <1>10, <1>a DEF Learn, Tick
  <1>11. CASE LinkChanges
    <2>1. ASSUME NEW c \in Clients
          PROVE  call'[c] = call[c] \/ HttpUnderway(c)'
      <3>1. CASE call[c].kind = "probe"
        BY <1>11, <3>1 DEF LinkChanges, Shaped, KindOK, ProbeCalls, HttpUnderway
      <3>2. CASE call[c].kind # "probe"
        BY <1>11, <3>2 DEF LinkChanges
      <3>3. QED
        BY <3>1, <3>2
    <2>2. QED
      BY <1>11, <1>a, <2>1 DEF LinkChanges
  <1>12. CASE UNCHANGED vars
    BY <1>12, <1>a DEF vars
  <1>13. QED
    BY <1>1, <1>2, <1>3, <1>4, <1>5, <1>6, <1>7, <1>8, <1>9, <1>10, <1>11, <1>12,
       StartDetermined, ForwardDetermined
    DEF Next, Drained, Killed

-----------------------------------------------------------------------------
IInv == Shaped /\ Limiting /\ Probing /\ Determined

THEOREM ProxyInvariant == Spec => []IInv
  <1>1. Init => IInv
    BY InitShaped, InitLimiting, InitProbing, InitDetermined DEF IInv
  <1>2. IInv /\ [Next]_vars => IInv'
    BY NextShaped, NextLimiting, NextProbing, NextDetermined DEF IInv
  <1>3. QED
    BY <1>1, <1>2, PTL DEF Spec

(***************************************************************************)
(* What /healthz/upstream answers was so not longer ago than a probe may   *)
(* take and its answer is kept, for any timing of probes that overlap.     *)
(***************************************************************************)
THEOREM AnswersAreRecent == Spec => []ReachabilityRecent
  BY ProxyInvariant, PTL DEF IInv, Probing

(***************************************************************************)
(* Within one process a request under the same settings leaves as the same *)
(* bytes, with the same headers and for the same upstream, whatever else   *)
(* is served and learned, where the same of its compressors failed.        *)
(***************************************************************************)
THEOREM BytesAreTheSame == Spec => []SameBytes
  <1>1. Determined => SameBytes
    <2> SUFFICES ASSUME Determined, NEW s \in Relayed, NEW t \in Relayed,
                        s.request = t.request, s.used = t.used, s.failed = t.failed
                 PROVE  s.body = t.body /\ s.headers = t.headers /\ s.to = t.to
      BY DEF SameBytes
    <2>1. Leaves(s) /\ Leaves(t)
      BY DEF Determined
    <2>2. s.headers = t.headers /\ s.to = t.to
      BY <2>1 DEF Leaves, Determined
    <2>3. s.body \in Bodies /\ t.body \in Bodies
      BY <2>1 DEF Leaves
    <2>4. s.body.smaller = t.body.smaller /\ s.body.note = t.body.note
      BY <2>1, <2>3 DEF Leaves, Compressed, Untouched, Bodies
    <2>5. s.body.sorted = t.body.sorted /\ s.body.marked = t.body.marked /\ s.body.added = t.body.added
      BY <2>1, <2>3 DEF Leaves, Stabilized, Unstable, Shaping, Bodies
    <2>6. s.body = t.body
      BY <2>3, <2>4, <2>5 DEF Bodies
    <2>7. QED
      BY <2>2, <2>6
  <1>2. QED
    BY <1>1, ProxyInvariant, PTL DEF IInv

(***************************************************************************)
(* In any traffic and after any pause, no stretch of a window's length     *)
(* lets more than twice the limit through, n windows in a row no more than *)
(* n times the limit, and nobody is refused who is not at the limit.       *)
(***************************************************************************)
THEOREM LimiterHolds == Spec => []WithinBurst
  <1>1. Shaped /\ Limiting => WithinBurst
    <2> SUFFICES ASSUME Shaped, Limiting, Serving PROVE WithinBurst
      BY DEF WithinBurst
    <2>1. /\ Limited(Curve, bucket.tokens, bucket.refilled, proc.limit, now)
          /\ now \in Nat /\ bucket \in Buckets /\ proc.limit \in Nat
      BY DEF Limiting, Shaped
    <2>2. \A t \in Nat : LetThrough(t) = Curve[t] /\ Curve[t] \in Nat
      BY <2>1 DEF Curve, Limited
    <2>3. ASSUME NEW t \in 0..now
          PROVE  Between(t, t + Window) <= 2 * proc.limit
      <3>1. t \in Nat /\ t + Window \in Nat
        BY <2>1, WindowAssumption
      <3>2. Curve[t + Window] <= Curve[t] + 2 * proc.limit
        BY <2>1, <3>1 DEF Limited
      <3>3. QED
        BY <2>1, <2>2, <3>1, <3>2 DEF Between
    <2>4. bucket.tokens + Between(bucket.refilled, now + 1) <= proc.limit
      <3>1. bucket.tokens \in Nat /\ bucket.refilled \in Nat /\ now + 1 \in Nat
        BY <2>1 DEF Buckets
      <3>2. bucket.tokens + Curve[now + 1] = proc.limit + Curve[bucket.refilled]
        BY <2>1 DEF Limited
      <3>3. QED
        BY <2>1, <2>2, <3>1, <3>2 DEF Between
    <2>5. ASSUME NEW c \in Clients, Free(c), call[c].reply.status = 429
          PROVE  \E t \in 0..call[c].reply.at : /\ call[c].reply.at < t + Window
                                                /\ Between(t, call[c].reply.at + 1) >= proc.limit
      <3>1. call[c].reply.at \in Nat
        BY <2>1, <2>5 DEF Limiting, AtTheLimit
      <3>2. PICK t \in 0..call[c].reply.at :
              /\ call[c].reply.at < t + Window
              /\ Curve[call[c].reply.at + 1] >= Curve[t] + proc.limit
        BY <2>5 DEF Limiting, AtTheLimit
      <3>3. Between(t, call[c].reply.at + 1) >= proc.limit
        BY <2>1, <2>2, <3>1, <3>2 DEF Between
      <3>4. QED
        BY <3>2, <3>3
    <2>6. QED
      BY <2>3, <2>4, <2>5 DEF WithinBurst
  <1>2. QED
    BY <1>1, ProxyInvariant, PTL DEF IInv

-----------------------------------------------------------------------------
(***************************************************************************)
(* The counters of /metrics and of the ledger.                             *)
(***************************************************************************)
Counts ==
  [requests : Nat, compressed : Nat, expanded : Nat, passthrough : Nat, before : Nat, after : Nat,
   routing : [RoutingReasons -> Nat], ledger : [requests : Nat, before : Nat, after : Nat]]

Balanced(n) ==
  /\ n \in Counts
  /\ n.requests = n.compressed + n.expanded + n.passthrough
  /\ n.ledger.requests <= n.requests /\ n.ledger.before <= n.before
  /\ n.expanded = 0 => /\ n.after <= n.before /\ n.ledger.after <= n.ledger.before
                       /\ n.ledger.before + n.after <= n.before + n.ledger.after

\* A proxy that has just been started has balanced books.
LEMMA NothingCounted == Balanced(NoCounts)
  BY DEF NoCounts, Balanced, Counts

\* A record of counters, by its fields.
LEMMA CountsAre ==
  ASSUME NEW n \in Counts
  PROVE  n = [requests |-> n.requests, compressed |-> n.compressed, expanded |-> n.expanded,
              passthrough |-> n.passthrough, before |-> n.before, after |-> n.after,
              routing |-> n.routing, ledger |-> n.ledger]
  BY DEF Counts

Tallied ==
  {"requests", "compressed", "expanded", "passthrough", "before", "after", "routing", "ledger"}

LEMMA TalliedAlike == ASSUME NEW n \in Counts PROVE DOMAIN n = Tallied
  BY DEF Counts, Tallied

LEMMA CountsByField ==
  ASSUME NEW m, m = [field \in Tallied |-> m[field]],
         m.requests \in Nat, m.compressed \in Nat, m.expanded \in Nat, m.passthrough \in Nat,
         m.before \in Nat, m.after \in Nat, m.routing \in [RoutingReasons -> Nat],
         m.ledger \in [requests : Nat, before : Nat, after : Nat]
  PROVE  m \in Counts
  BY DEF Counts, Tallied

\* A block was routed.
LEMMA RoutedOnce ==
  ASSUME Balanced(metrics), NEW reason
  PROVE  /\ Balanced(RecordRouting(reason))
         /\ RecordRouting(reason).requests = metrics.requests
  <1>1. PICK slot \in RoutingReasons : slot = IF reason \in RoutingReasons THEN reason ELSE "other"
    BY DEF RoutingReasons
  <1>2. PICK new : new = [metrics EXCEPT !.routing[slot] = @ + 1]
    OBVIOUS
  <1>3. metrics \in Counts
    BY DEF Balanced
  <1>4. PICK routing : routing = [metrics.routing EXCEPT ![slot] = @ + 1]
    OBVIOUS
  <1>5. metrics.routing \in [RoutingReasons -> Nat]
    BY <1>3 DEF Counts
  <1>6. routing \in [RoutingReasons -> Nat]
    BY <1>4, <1>5
  <1>7. /\ new \in Counts
        /\ new.requests = metrics.requests /\ new.compressed = metrics.compressed
        /\ new.expanded = metrics.expanded /\ new.passthrough = metrics.passthrough
        /\ new.before = metrics.before /\ new.after = metrics.after /\ new.ledger = metrics.ledger
    <2>1. new = [metrics EXCEPT !.routing = routing]
      BY <1>2, <1>3, <1>4, CountsAre
    <2>2. QED
      BY <1>3, <1>6, <2>1 DEF Counts
  <1>8. Balanced(new)
    BY <1>7 DEF Balanced
  <1>9. RecordRouting(reason) = new
    BY <1>1, <1>2 DEF RecordRouting
  <1>10. QED
    BY <1>7, <1>8, <1>9

\* A request passed through, or one with a block that was attempted, in /metrics alone or in the ledger too.
LEMMA PassedThrough ==
  ASSUME NEW n, Balanced(n)
  PROVE  /\ Balanced(Passthrough(n)) /\ Passthrough(n).requests = n.requests + 1
         /\ Balanced(RecordSavings(Passthrough(n), 0, 0))
         /\ RecordSavings(Passthrough(n), 0, 0).requests = n.requests + 1
  <1>1. PICK m : m = Passthrough(n)
    OBVIOUS
  <1>2. n \in Counts
    BY DEF Balanced
  <1>3. /\ m \in Counts /\ m.routing = n.routing
        /\ m.requests = n.requests + 1 /\ m.compressed = n.compressed
        /\ m.expanded = n.expanded /\ m.passthrough = n.passthrough + 1
        /\ m.before = n.before /\ m.after = n.after /\ m.ledger = n.ledger
    <2>1. m = [n EXCEPT !.requests = @ + 1, !.passthrough = @ + 1]
      BY <1>1 DEF Passthrough
    <2>2. m = [field \in Tallied |-> m[field]]
      BY <1>2, <2>1, TalliedAlike
    <2>3. /\ m.routing = n.routing
          /\ m.requests = n.requests + 1 /\ m.compressed = n.compressed
          /\ m.expanded = n.expanded /\ m.passthrough = n.passthrough + 1
          /\ m.before = n.before /\ m.after = n.after /\ m.ledger = n.ledger
      BY <1>2, <2>1 DEF Counts
    <2>4. /\ n.routing \in [RoutingReasons -> Nat] /\ n.requests \in Nat /\ n.compressed \in Nat
          /\ n.expanded \in Nat /\ n.passthrough \in Nat /\ n.before \in Nat /\ n.after \in Nat
          /\ n.ledger \in [requests : Nat, before : Nat, after : Nat]
      BY <1>2 DEF Counts
    <2>5. m \in Counts
      BY <2>2, <2>3, <2>4, CountsByField
    <2>6. QED
      BY <2>3, <2>5
  <1>5. /\ n.requests \in Nat /\ n.compressed \in Nat /\ n.expanded \in Nat /\ n.passthrough \in Nat
        /\ n.before \in Nat /\ n.after \in Nat
        /\ n.ledger \in [requests : Nat, before : Nat, after : Nat]
    BY <1>2 DEF Counts
  <1>6. Balanced(m)
    BY <1>3, <1>5 DEF Balanced
  <1>7. PICK d : d = RecordSavings(m, 0, 0)
    OBVIOUS
  <1>8. CASE d = m
    BY <1>1, <1>3, <1>6, <1>7, <1>8
  <1>9. CASE d = [m EXCEPT !.ledger = [requests |-> @.requests + 1, before |-> @.before + 0,
                                       after |-> @.after + 0]]
    <2>1. PICK ledger : ledger = [requests |-> n.ledger.requests + 1, before |-> n.ledger.before + 0,
                                  after |-> n.ledger.after + 0]
      OBVIOUS
    <2>2. /\ ledger \in [requests : Nat, before : Nat, after : Nat]
          /\ ledger.requests = n.ledger.requests + 1 /\ ledger.before = n.ledger.before
          /\ ledger.after = n.ledger.after
      BY <1>5, <2>1
    <2>3. d = [m EXCEPT !.ledger = ledger]
      BY <1>3, <1>9, <2>1
    <2>4. /\ d \in Counts /\ d.routing = m.routing /\ d.ledger = ledger
          /\ d.requests = m.requests /\ d.compressed = m.compressed
          /\ d.expanded = m.expanded /\ d.passthrough = m.passthrough
          /\ d.before = m.before /\ d.after = m.after
      BY <1>3, <2>2, <2>3 DEF Counts
    <2>5. Balanced(d)
      BY <1>3, <1>5, <1>6, <2>2, <2>4 DEF Balanced
    <2>6. QED
      BY <1>1, <1>3, <1>6, <1>7, <2>4, <2>5
  <1>10. QED
    BY <1>7, <1>8, <1>9 DEF RecordSavings

\* A request was rewritten, in /metrics alone or in the ledger too.
LEMMA WasRewritten ==
  ASSUME NEW n, Balanced(n), NEW before \in Nat, NEW after \in Nat
  PROVE  /\ Balanced(Rewritten(n, before, after))
         /\ Rewritten(n, before, after).requests = n.requests + 1
         /\ Balanced(RecordSavings(Rewritten(n, before, after), before, after))
         /\ RecordSavings(Rewritten(n, before, after), before, after).requests = n.requests + 1
  <1>1. PICK m : m = Rewritten(n, before, after)
    OBVIOUS
  <1>2. n \in Counts
    BY DEF Balanced
  <1>3. PICK grew \in {0, 1}, shrank \in {0, 1} :
          /\ grew = (IF after > before THEN 1 ELSE 0) /\ shrank = (IF after > before THEN 0 ELSE 1)
    OBVIOUS
  <1>4. grew + shrank = 1 /\ (grew = 0 => after <= before)
    BY <1>3
  <1>5. m = [n EXCEPT !.requests = @ + 1, !.before = @ + before, !.after = @ + after,
                      !.expanded = @ + grew, !.compressed = @ + shrank]
    BY <1>1, <1>3 DEF Rewritten
  <1>6. /\ m \in Counts /\ m.routing = n.routing
        /\ m.requests = n.requests + 1 /\ m.compressed = n.compressed + shrank
        /\ m.expanded = n.expanded + grew /\ m.passthrough = n.passthrough
        /\ m.before = n.before + before /\ m.after = n.after + after /\ m.ledger = n.ledger
    <2>2. m = [field \in Tallied |-> m[field]]
      BY <1>2, <1>5, TalliedAlike
    <2>3. /\ m.routing = n.routing
          /\ m.requests = n.requests + 1 /\ m.compressed = n.compressed + shrank
          /\ m.expanded = n.expanded + grew /\ m.passthrough = n.passthrough
          /\ m.before = n.before + before /\ m.after = n.after + after /\ m.ledger = n.ledger
      BY <1>2, <1>5 DEF Counts
    <2>4. /\ n.routing \in [RoutingReasons -> Nat] /\ n.requests \in Nat /\ n.compressed \in Nat
          /\ n.expanded \in Nat /\ n.passthrough \in Nat /\ n.before \in Nat /\ n.after \in Nat
          /\ n.ledger \in [requests : Nat, before : Nat, after : Nat]
      BY <1>2 DEF Counts
    <2>5. /\ m.requests \in Nat /\ m.compressed \in Nat /\ m.expanded \in Nat
          /\ m.passthrough \in Nat /\ m.before \in Nat /\ m.after \in Nat
      BY <1>3, <2>3, <2>4
    <2>6. m \in Counts
      BY <2>2, <2>3, <2>4, <2>5, CountsByField
    <2>7. QED
      BY <2>3, <2>6
  <1>8. /\ n.requests \in Nat /\ n.compressed \in Nat /\ n.expanded \in Nat /\ n.passthrough \in Nat
        /\ n.before \in Nat /\ n.after \in Nat
        /\ n.ledger \in [requests : Nat, before : Nat, after : Nat]
    BY <1>2 DEF Counts
  <1>9. Balanced(m)
    BY <1>3, <1>4, <1>6, <1>8 DEF Balanced
  <1>10. PICK d : d = RecordSavings(m, before, after)
    OBVIOUS
  <1>11. CASE d = m
    BY <1>1, <1>6, <1>9, <1>10, <1>11
  <1>12. CASE d = [m EXCEPT !.ledger = [requests |-> @.requests + 1, before |-> @.before + before,
                                        after |-> @.after + after]]
    <2>1. PICK ledger : ledger = [requests |-> n.ledger.requests + 1, before |-> n.ledger.before + before,
                                  after |-> n.ledger.after + after]
      OBVIOUS
    <2>2. /\ ledger \in [requests : Nat, before : Nat, after : Nat]
          /\ ledger.requests = n.ledger.requests + 1 /\ ledger.before = n.ledger.before + before
          /\ ledger.after = n.ledger.after + after
      BY <1>8, <2>1
    <2>3. d = [m EXCEPT !.ledger = ledger]
      BY <1>6, <1>12, <2>1
    <2>4. /\ d \in Counts /\ d.routing = m.routing /\ d.ledger = ledger
          /\ d.requests = m.requests /\ d.compressed = m.compressed
          /\ d.expanded = m.expanded /\ d.passthrough = m.passthrough
          /\ d.before = m.before /\ d.after = m.after
      BY <1>6, <2>2, <2>3 DEF Counts
    <2>5. Balanced(d)
      BY <1>3, <1>4, <1>6, <1>8, <1>9, <2>2, <2>4 DEF Balanced
    <2>6. QED
      BY <1>1, <1>6, <1>9, <1>10, <2>4, <2>5
  <1>13. QED
    BY <1>10, <1>11, <1>12 DEF RecordSavings

(***************************************************************************)
(* A step of a handler routes a block, counts the request, or leaves the   *)
(* counters alone.                                                         *)
(***************************************************************************)
LEMMA HandlerTallies ==
  ASSUME Shaped, NEW c \in Clients, Messages(c) \/ ChatCompletions(c) \/ Responses(c)
  PROVE  \/ /\ UNCHANGED metrics \/ \E reason : metrics' = RecordRouting(reason)
            /\ ~(call[c].step = "routing" /\ ~Looping(call[c]))
         \/ CountRequest(c, TRUE) \/ CountRequest(c, FALSE)
  <1>1. CASE RouteBlock(c)
    BY <1>1 DEF RouteBlock, InLoop, Looping
  <1>2. CASE ReadConfig(c) \/ ReadVerbosity(c) \/ ApplyBlock(c)
    BY <1>2 DEF ReadConfig, ReadVerbosity, ApplyBlock, Step, tallies
  <1>3. CASE Stabilize(c, TRUE) \/ Stabilize(c, FALSE) \/ ShapeOpenAi(c)
    BY <1>3 DEF Stabilize, ShapeOpenAi, Step, tallies
  <1>4. QED
    BY <1>1, <1>2, <1>3 DEF Messages, ChatCompletions, Responses, CompressRequest

\* Counting counts one request, whatever came of it.
LEMMA CountingCounts ==
  ASSUME Shaped, Balanced(metrics), NEW c \in Clients,
         CountRequest(c, TRUE) \/ CountRequest(c, FALSE)
  PROVE  Balanced(metrics') /\ metrics'.requests = metrics.requests + 1
  <1>1. call[c] \in HttpCalls
    BY DEF CountRequest, Step, Shaped, KindOK
  <1>2. PICK b \in Nat, a \in Nat : b = call[c].before /\ a = call[c].after
    BY <1>1 DEF HttpCalls
  <1>3. PICK noted : noted = (call[c].used.compression /\ call[c].used.verbosity # "default")
    OBVIOUS
  <1>4. PICK size \in Nat : size = a + (IF noted THEN NoteSize ELSE 0)
    BY <1>2, SizeAssumption
  <1>5. \/ metrics' = RecordSavings(Rewritten(metrics, b, size), b, size)
        \/ metrics' = Rewritten(metrics, b, size)
        \/ metrics' = RecordSavings(Passthrough(metrics), 0, 0)
        \/ metrics' = Passthrough(metrics)
    BY <1>2, <1>3, <1>4 DEF CountRequest
  <1>6. PICK n : n = metrics
    OBVIOUS
  <1>7. /\ Balanced(Rewritten(n, b, size)) /\ Rewritten(n, b, size).requests = n.requests + 1
        /\ Balanced(RecordSavings(Rewritten(n, b, size), b, size))
        /\ RecordSavings(Rewritten(n, b, size), b, size).requests = n.requests + 1
    BY <1>6, WasRewritten
  <1>8. /\ Balanced(Passthrough(n)) /\ Passthrough(n).requests = n.requests + 1
        /\ Balanced(RecordSavings(Passthrough(n), 0, 0))
        /\ RecordSavings(Passthrough(n), 0, 0).requests = n.requests + 1
    BY <1>6, PassedThrough
  <1>9. PICK new : new = metrics'
    OBVIOUS
  <1>10. Balanced(new) /\ new.requests = n.requests + 1
    BY <1>5, <1>6, <1>7, <1>8, <1>9
  <1>11. QED
    BY <1>6, <1>9, <1>10

-----------------------------------------------------------------------------
(***************************************************************************)
(* What was let through has been counted: a request is counted when it is  *)
(* compressed or passed through, and let through later or not at all.      *)
(***************************************************************************)
Waits(one) == one.kind = "http" /\ one.step \in {"stabilizing", "shaping", "relaying"}

Waiting == {c \in Clients : Waits(call[c])}

CountedFirst ==
  /\ Balanced(metrics)
  /\ Serving => IsFiniteSet(Waiting) /\ Curve[now + 1] + Cardinality(Waiting) <= metrics.requests

\* What is counted, in numbers.
LEMMA Numbers ==
  ASSUME Shaped, Limiting, CountedFirst, Serving
  PROVE  /\ Curve[now + 1] \in Nat /\ Cardinality(Waiting) \in Nat /\ metrics.requests \in Nat
         /\ IsFiniteSet(Waiting) /\ Curve[now + 1] + Cardinality(Waiting) <= metrics.requests
  <1>1. IsFiniteSet(Waiting) /\ Curve[now + 1] + Cardinality(Waiting) <= metrics.requests
    BY DEF CountedFirst
  <1>2. metrics.requests \in Nat
    BY DEF CountedFirst, Balanced, Counts
  <1>3. Curve[now + 1] \in Nat
    <2>1. Curve \in [Nat -> Nat]
      BY DEF Limiting, Limited
    <2>2. now + 1 \in Nat
      BY DEF Shaped
    <2>3. QED
      BY <2>1, <2>2
  <1>4. QED
    BY <1>1, <1>2, <1>3, FS_CardinalityType

\* A step that counts no request, and after which nobody waits to be let through who did not before.
LEMMA CountedFirstAlike ==
  ASSUME Shaped, Limiting, CountedFirst, UNCHANGED <<load, now, admitted>>, Serving' => Serving,
         Balanced(metrics'), metrics'.requests = metrics.requests,
         \A c \in Clients : Waits(call'[c]) => Waits(call[c])
  PROVE  CountedFirst'
  <1>1. ASSUME Serving'
        PROVE  IsFiniteSet(Waiting') /\ Curve'[now' + 1] + Cardinality(Waiting') <= metrics'.requests
    <2>1. Curve' = Curve /\ now' = now
      BY CurveKept
    <2>2. PICK W, V : W = Waiting /\ V = Waiting'
      OBVIOUS
    <2>3. V \subseteq W
      BY <2>2 DEF Waiting
    <2>4. IsFiniteSet(V) /\ Cardinality(V) <= Cardinality(W) /\ Cardinality(V) \in Nat
      BY <1>1, <2>2, <2>3, Numbers, FS_Subset, FS_CardinalityType
    <2>5. QED
      BY <1>1, <2>1, <2>2, <2>4, Numbers
  <1>2. QED
    BY <1>1 DEF CountedFirst

LEMMA CountedFirstApart ==
  ASSUME Shaped, Limiting, CountedFirst, UNCHANGED <<load, now, admitted, metrics>>, Serving' => Serving,
         \A c \in Clients : Waits(call'[c]) => Waits(call[c])
  PROVE  CountedFirst'
  <1>1. Balanced(metrics') /\ metrics'.requests = metrics.requests
    BY DEF CountedFirst
  <1>2. QED
    BY <1>1, CountedFirstAlike

\* A step that counts one request, and after which one more may wait.
LEMMA CountedFirstOnce ==
  ASSUME Shaped, Limiting, CountedFirst, UNCHANGED <<load, now, admitted>>, Serving, NEW c \in Clients,
         Balanced(metrics'), metrics'.requests = metrics.requests + 1,
         \A d \in Clients : d # c /\ Waits(call'[d]) => Waits(call[d])
  PROVE  CountedFirst'
  <1>1. Curve' = Curve /\ now' = now
    BY CurveKept
  <1>2. PICK W, V : W = Waiting /\ V = Waiting'
    OBVIOUS
  <1>3. V \subseteq W \cup {c}
    BY <1>2 DEF Waiting
  <1>4. /\ IsFiniteSet(W \cup {c}) /\ Cardinality(W \cup {c}) <= Cardinality(W) + 1
        /\ Cardinality(W \cup {c}) \in Nat
    <2>1. IsFiniteSet(W) /\ Cardinality(W) \in Nat
      BY <1>2, Numbers
    <2>2. /\ IsFiniteSet(W \cup {c})
          /\ Cardinality(W \cup {c}) = IF c \in W THEN Cardinality(W) ELSE Cardinality(W) + 1
      BY <2>1, FS_AddElement
    <2>3. QED
      BY <2>1, <2>2
  <1>5. IsFiniteSet(V) /\ Cardinality(V) <= Cardinality(W \cup {c}) /\ Cardinality(V) \in Nat
    BY <1>3, <1>4, FS_Subset, FS_CardinalityType
  <1>6. IsFiniteSet(Waiting') /\ Curve'[now' + 1] + Cardinality(Waiting') <= metrics'.requests
    BY <1>1, <1>2, <1>4, <1>5, Numbers
  <1>7. QED
    BY <1>6 DEF CountedFirst

\* A step of a handler that is not the one that counts the request.
LEMMA StillWaits ==
  ASSUME NEW one \in HttpCalls, NEW new, Advances(one, new), Waits(new),
         ~(one.step = "routing" /\ ~Looping(one))
  PROVE  Waits(one)
  <1>1. CASE new = ReadCall(one) \/ new = NotedCall(one) \/ new = AttemptedCall(one)
    BY <1>1 DEF ReadCall, NotedCall, AttemptedCall, Waits, HttpCalls
  <1>3. ASSUME NEW lost, NEW more, NEW gain, new = BlockDone(one, lost, more, gain)
        PROVE  FALSE
    <2>1. new.step = "routing"
      BY <1>3 DEF BlockDone, HttpCalls
    <2>2. QED
      BY <2>1 DEF Waits
  <1>4. CASE one.step \in {"stabilizing", "shaping"}
    BY <1>4 DEF Waits, HttpCalls
  <1>5. QED
    BY <1>1, <1>3, <1>4 DEF Advances, Loops

LEMMA StartCountedFirst == Shaped /\ Limiting /\ CountedFirst /\ Start => CountedFirst'
  <1> SUFFICES ASSUME Shaped, Limiting, CountedFirst, Start
               PROVE  CountedFirst'
    OBVIOUS
  <1>1. /\ UNCHANGED <<load, now, call, metrics>> /\ admitted' = [t \in DOMAIN admitted |-> 0]
        /\ \A c \in Clients : call[c] = Idle
    BY DEF Start, outside, tallies, Shaped, Serving
  <1>2. Curve'[now' + 1] = 0
    <2>1. load.until \in Nat /\ DOMAIN admitted = 0..(load.until + 1) /\ now + 1 \in Nat
      BY WorkloadAssumption DEF Shaped, Limiting
    <2>2. PICK t \in Nat : t = now + 1
      BY <2>1
    <2>3. (IF t <= load.until THEN t ELSE load.until + 1) \in DOMAIN admitted
      BY <2>1
    <2>4. Curve'[t] = 0
      BY <1>1, <2>3 DEF Curve, LetThrough
    <2>5. QED
      BY <1>1, <2>2, <2>4
  <1>3. Waiting' = {}
    BY <1>1 DEF Waiting, Waits, Idle
  <1>4. metrics'.requests \in Nat /\ Balanced(metrics')
    BY <1>1 DEF CountedFirst, Balanced, Counts
  <1>5. QED
    BY <1>2, <1>3, <1>4, FS_EmptySet DEF CountedFirst

LEMMA ForwardCountedFirst ==
  ASSUME Shaped, Limiting, CountedFirst, NEW c \in Clients, Forward(c)
  PROVE  CountedFirst'
  <1>1. /\ UNCHANGED <<load, now, metrics>> /\ call[c] \in HttpCalls /\ call[c].step = "relaying"
        /\ admitted' = [t \in DOMAIN admitted |-> admitted[t] + (IF t > now THEN 1 ELSE 0)]
    BY DEF Forward, Step, outside, tallies, Shaped, KindOK
  <1>2. Serving
    BY <1>1, CallIsServed DEF HttpCalls
  <1>3. Curve'[now' + 1] = Curve[now + 1] + 1
    <2>1. load.until \in Nat /\ now \in Nat /\ now <= load.until
      BY WorkloadAssumption DEF Limiting, Shaped
    <2>2. PICK tick \in 0..(load.until + 1) :
            tick = (IF now + 1 <= load.until THEN now + 1 ELSE load.until + 1) /\ tick > now
      BY <2>1
    <2>3. Curve[now + 1] = admitted[tick] /\ Curve'[now' + 1] = admitted'[tick]
      BY <1>1, <2>1, <2>2 DEF Curve, LetThrough
    <2>4. QED
      BY <1>1, <2>2, <2>3 DEF Limiting
  <1>4. PICK W, V : W = Waiting /\ V = Waiting'
    OBVIOUS
  <1>5. c \in W /\ V \subseteq W \ {c}
    <2>1. c \in W
      BY <1>1, <1>4 DEF Waiting, Waits, HttpCalls
    <2>2. call'[c].step = "forwarded" /\ \A d \in Clients : d # c => call'[d] = call[d]
      BY <1>1 DEF Forward, Proceeds, Shaped, HttpCalls
    <2>3. QED
      BY <1>4, <2>1, <2>2 DEF Waiting, Waits
  <1>6. /\ IsFiniteSet(W \ {c}) /\ Cardinality(W \ {c}) = Cardinality(W) - 1
        /\ Cardinality(W \ {c}) \in Nat
    BY <1>2, <1>4, <1>5, Numbers, FS_RemoveElement, FS_CardinalityType
  <1>7. IsFiniteSet(V) /\ Cardinality(V) <= Cardinality(W \ {c}) /\ Cardinality(V) \in Nat
    BY <1>5, <1>6, FS_Subset, FS_CardinalityType
  <1>8. IsFiniteSet(Waiting') /\ Curve'[now' + 1] + Cardinality(Waiting') <= metrics'.requests
    BY <1>1, <1>2, <1>3, <1>4, <1>6, <1>7, Numbers
  <1>9. QED
    BY <1>1, <1>8 DEF CountedFirst

LEMMA TickCountedFirst == Shaped /\ Limiting /\ CountedFirst /\ Tick => CountedFirst'
  <1> SUFFICES ASSUME Shaped, Limiting, CountedFirst, Tick
               PROVE  CountedFirst'
    OBVIOUS
  <1>1. UNCHANGED <<load, proc, metrics, admitted, call>> /\ now' = now + 1
    BY DEF Tick, config, tallies, traffic
  <1>2. Curve' = Curve /\ Waiting' = Waiting
    BY <1>1, CurveKept DEF Waiting
  <1>3. ASSUME Serving
        PROVE  Curve'[now' + 1] = Curve[now + 1]
    <2>1. now \in Nat /\ \A t \in Nat : t > now => Curve[t] = Curve[now + 1]
      BY <1>3 DEF Limiting, Limited, Shaped
    <2>2. PICK t \in Nat : t = now' + 1 /\ t > now
      BY <1>1, <2>1
    <2>3. QED
      BY <1>2, <2>1, <2>2
  <1>4. QED
    BY <1>1, <1>2, <1>3 DEF CountedFirst, Serving
\* Whatever happens, a request is counted before it is let through.
LEMMA NextCountedFirst == Shaped /\ Limiting /\ CountedFirst /\ [Next]_vars => CountedFirst'
  <1> SUFFICES ASSUME Shaped, Limiting, CountedFirst, [Next]_vars
               PROVE  CountedFirst'
    OBVIOUS
  <1> USE DEF outside, config, tallies, traffic
  <1> DEFINE Stays == UNCHANGED <<load, now, admitted>>
             Others(c) == \A d \in Clients : d # c => call'[d] = call[d]
  <1>a. ASSUME NEW c \in Clients, NEW one, call' = [call EXCEPT ![c] = one]
        PROVE  call'[c] = one /\ Others(c)
    BY <1>a DEF Shaped
  <1>b. ASSUME NEW c \in Clients, NEW one, call' = [call EXCEPT ![c] = one], ~Waits(one),
               Stays, UNCHANGED <<proc, metrics>>
        PROVE  CountedFirst'
    BY <1>a, <1>b, CountedFirstApart DEF Serving
  <1>c. ASSUME NEW c \in Clients, NEW reply, Replies(c, reply), Stays, UNCHANGED <<proc, metrics>>
        PROVE  CountedFirst'
    <2>1. PICK one : one = [Idle EXCEPT !.reply = reply]
      OBVIOUS
    <2>2. ~Waits(one) /\ call' = [call EXCEPT ![c] = one]
      BY <1>c, <2>1 DEF Replies, Idle, Waits
    <2>3. QED
      BY <1>b, <1>c, <2>2
  <1>d. ASSUME UNCHANGED call, Stays, UNCHANGED <<proc, metrics>>
        PROVE  CountedFirst'
    BY <1>d, CountedFirstApart DEF Serving
  <1>e. Balanced(metrics)
    BY DEF CountedFirst
  <1>1. ASSUME NEW c \in Clients, Accept(c)
        PROVE  CountedFirst'
    <2>1. PICK request, step : Received(c, request, step) /\ step = "reading"
      BY <1>1 DEF Accept
    <2>2. call'[c].step = "reading" /\ \A d \in Clients : d # c => call'[d] = call[d]
      BY <2>1 DEF Received, Shaped
    <2>3. \A d \in Clients : Waits(call'[d]) => Waits(call[d])
      BY <2>2 DEF Waits
    <2>4. QED
      BY <1>1, <2>3, CountedFirstApart DEF Accept, Serving
  <1>2. ASSUME NEW c \in Clients, AcceptPassthrough(c) \/ ForwardAny(c)
        PROVE  CountedFirst'
    <2>1. PICK request, step : Received(c, request, step)
      BY <1>2 DEF AcceptPassthrough, ForwardAny
    <2>2. \A d \in Clients : d # c => call'[d] = call[d]
      BY <2>1 DEF Received, Shaped
    <2>3. metrics' = Passthrough(metrics) /\ Stays /\ Serving
      BY <1>2 DEF AcceptPassthrough, ForwardAny, Running, Serving
    <2>4. Balanced(metrics') /\ metrics'.requests = metrics.requests + 1
      BY <1>e, <2>3, PassedThrough
    <2>5. QED
      BY <2>2, <2>3, <2>4, CountedFirstOnce
  <1>3. ASSUME NEW c \in Clients, Messages(c) \/ ChatCompletions(c) \/ Responses(c)
        PROVE  CountedFirst'
    <2>1. /\ call[c] \in HttpCalls /\ Advances(call[c], call'[c])
          /\ call' = [call EXCEPT ![c] = call'[c]] /\ Stays /\ UNCHANGED proc
      BY <1>3, HandlerStep
    <2>2. Others(c)
      BY <2>1 DEF Shaped
    <2>3. ASSUME Balanced(metrics'), metrics'.requests = metrics.requests,
                 ~(call[c].step = "routing" /\ ~Looping(call[c]))
          PROVE  CountedFirst'
      <3>1. PICK new : new = call'[c]
        OBVIOUS
      <3>2. Waits(new) => Waits(call[c])
        BY <2>1, <2>3, <3>1, StillWaits
      <3>3. \A d \in Clients : Waits(call'[d]) => Waits(call[d])
        BY <2>2, <3>1, <3>2
      <3>4. QED
        BY <2>1, <2>3, <3>3, CountedFirstAlike DEF Serving
    <2>4. CASE CountRequest(c, TRUE) \/ CountRequest(c, FALSE)
      <3>1. Balanced(metrics') /\ metrics'.requests = metrics.requests + 1
        BY <1>e, <2>4, CountingCounts
      <3>2. Serving
        BY <2>1, CallIsServed DEF HttpCalls
      <3>3. QED
        BY <2>1, <2>2, <3>1, <3>2, CountedFirstOnce
    <2>5. ASSUME NEW reason, metrics' = RecordRouting(reason)
          PROVE  Balanced(metrics') /\ metrics'.requests = metrics.requests
      BY <1>e, <2>5, RoutedOnce
    <2>6. UNCHANGED metrics => Balanced(metrics') /\ metrics'.requests = metrics.requests
      BY <1>e
    <2>7. QED
      BY <1>3, <2>3, <2>4, <2>5, <2>6, HandlerTallies
  <1>4. ASSUME NEW c \in Clients, NoUpstream(c) \/ RateLimited(c) \/ Respond(c) \/ EndProbe(c) \/ Import(c)
        PROVE  CountedFirst'
    BY <1>4, <1>c DEF NoUpstream, RateLimited, Respond, EndProbe, Import, Refused, Returns
  <1>5. ASSUME NEW c \in Clients, RelaySocket(c)
        PROVE  CountedFirst'
    <2>1. metrics' = Passthrough(metrics) /\ Stays /\ Serving /\ UNCHANGED call
      BY <1>5 DEF RelaySocket, Running, Serving
    <2>2. Balanced(metrics') /\ metrics'.requests = metrics.requests + 1
      BY <1>e, <2>1, PassedThrough
    <2>3. QED
      BY <2>1, <2>2, CountedFirstOnce
  <1>6. ASSUME NEW c \in Clients, AnswerFromCache(c)
        PROVE  CountedFirst'
    BY <1>6, <1>d DEF AnswerFromCache
  <1>7. ASSUME NEW c \in Clients, AdminCheck(c) \/ BeginProbe(c) \/ Export(c)
        PROVE  CountedFirst'
    <2>1. Stays /\ UNCHANGED <<proc, metrics>>
      BY <1>7 DEF AdminCheck, BeginProbe, Export
    <2>2. ASSUME NEW one, one.kind # "http", call' = [call EXCEPT ![c] = one]
          PROVE  CountedFirst'
      BY <1>b, <2>1, <2>2 DEF Waits
    <2>3. CASE AdminCheck(c)
      BY <1>d, <2>1, <2>2, <2>3 DEF AdminCheck
    <2>4. CASE BeginProbe(c)
      BY <2>2, <2>4 DEF BeginProbe
    <2>5. CASE Export(c)
      BY <2>2, <2>5 DEF Export
    <2>6. QED
      BY <1>7, <2>3, <2>4, <2>5
  <1>8. ASSUME NEW c \in Clients, AdminApply(c)
        PROVE  CountedFirst'
    <2>1. ASSUME NEW d \in Clients, Waits(call'[d])
          PROVE  Waits(call[d])
      <3>1. CASE d = c
        BY <1>8, <2>1, <3>1 DEF AdminApply, Idle, Waits
      <3>2. CASE d # c /\ call[d].kind = "http"
        BY <1>8, <2>1, <3>2 DEF AdminApply, Shaped, KindOK, HttpCalls, Waits
      <3>3. CASE d # c /\ call[d].kind # "http"
        BY <1>8, <2>1, <3>3 DEF AdminApply
      <3>4. QED
        BY <3>1, <3>2, <3>3
    <2>2. QED
      BY <1>8, <2>1, CountedFirstApart DEF AdminApply, Serving
  <1>9. CASE ShutDown
    <2>1. Serving
      BY <1>9 DEF ShutDown, Running, Serving
    <2>2. QED
      BY <1>9, <2>1, CountedFirstApart DEF ShutDown
  <1>10. CASE Learn
    BY <1>10, <1>d DEF Learn
  <1>11. CASE Gone
    <2>1. metrics' = NoCounts /\ ~Serving'
      BY <1>11 DEF Gone, Serving, Down
    <2>2. QED
      BY <2>1, NothingCounted DEF CountedFirst
  <1>12. CASE LinkChanges
    <2>1. ASSUME NEW d \in Clients, Waits(call'[d])
          PROVE  Waits(call[d])
      <3>1. CASE call[d].kind = "probe"
        BY <1>12, <2>1, <3>1 DEF LinkChanges, Shaped, KindOK, ProbeCalls, Waits
      <3>2. CASE call[d].kind # "probe"
        BY <1>12, <2>1, <3>2 DEF LinkChanges
      <3>3. QED
        BY <3>1, <3>2
    <2>2. QED
      BY <1>12, <2>1, CountedFirstApart DEF LinkChanges, Serving
  <1>13. CASE UNCHANGED vars
    BY <1>13, <1>d DEF vars
  <1>14. QED
    BY <1>1, <1>2, <1>3, <1>4, <1>5, <1>6, <1>7, <1>8, <1>9, <1>10, <1>11, <1>12, <1>13,
       StartCountedFirst, ForwardCountedFirst, TickCountedFirst
    DEF Next, Drained, Killed

-----------------------------------------------------------------------------
(***************************************************************************)
(* The settings a request runs with.                                       *)
(***************************************************************************)
Among(used, since) ==
  /\ \E live \in since : used.compression = live.compression
  /\ \E live \in since : used.verbosity = live.verbosity
  /\ \E live \in since : used.stabilize = live.stabilize

UpToDate ==
  \A c \in Clients : call[c].kind = "http" =>
    Current \in call[c].since /\ Among(call[c].used, call[c].since)

\* A handler that goes on reads at most one of its settings anew.
LEMMA SettingsRead ==
  ASSUME NEW one \in HttpCalls, Current \in one.since, Among(one.used, one.since),
         NEW new, Advances(one, new)
  PROVE  new.since = one.since /\ Among(new.used, new.since)
  <1>1. Current \in UsedSettings
    BY LiveIsUsed DEF Current
  <1>2. PICK live : live = Current
    OBVIOUS
  <1>3. CASE new = ReadCall(one)
    <2>1. /\ new.since = one.since /\ new.used.compression = live.compression
          /\ new.used.verbosity = one.used.verbosity /\ new.used.stabilize = one.used.stabilize
      BY <1>2, <1>3 DEF ReadCall, HttpCalls, UsedSettings
    <2>2. QED
      BY <1>2, <2>1 DEF Among
  <1>4. CASE new = NotedCall(one)
    <2>1. /\ new.since = one.since /\ new.used.compression = one.used.compression
          /\ new.used.verbosity = live.verbosity /\ new.used.stabilize = one.used.stabilize
      BY <1>2, <1>4 DEF NotedCall, HttpCalls, UsedSettings
    <2>2. QED
      BY <1>2, <2>1 DEF Among
  <1>5. ASSUME NEW anthropic, new = StabilizedCall(one, anthropic)
        PROVE  new.since = one.since /\ Among(new.used, new.since)
    <2>1. PICK step, marked :
            new = [one EXCEPT !.step = step, !.used.stabilize = live.stabilize,
                              !.body.sorted = live.stabilize, !.body.marked = marked]
      BY <1>2, <1>5 DEF StabilizedCall
    <2>2. /\ new.since = one.since /\ new.used.compression = one.used.compression
          /\ new.used.verbosity = one.used.verbosity /\ new.used.stabilize = live.stabilize
      BY <2>1 DEF HttpCalls, UsedSettings
    <2>3. QED
      BY <1>2, <2>2 DEF Among
  <1>6. CASE new \in {AttemptedCall(one), CountedCall(one), ShapedCall(one)}
    <2>1. new.since = one.since /\ new.used = one.used
      BY <1>6 DEF AttemptedCall, CountedCall, ShapedCall, HttpCalls
    <2>2. QED
      BY <2>1
  <1>7. ASSUME NEW lost, NEW more, NEW gain, new = BlockDone(one, lost, more, gain)
        PROVE  new.since = one.since /\ Among(new.used, new.since)
    <2>1. new.since = one.since /\ new.used = one.used
      BY <1>7 DEF BlockDone, HttpCalls
    <2>2. QED
      BY <2>1
  <1>8. QED
    BY <1>3, <1>4, <1>5, <1>6, <1>7 DEF Advances, Loops

\* A step that leaves the settings and the requests alone.
LEMMA UpToDateApart ==
  ASSUME UpToDate, UNCHANGED <<load, overrides>>,
         \A c \in Clients : call'[c] = call[c] \/ call'[c].kind # "http"
  PROVE  UpToDate'
  BY DEF UpToDate, Current, Env

\* A step of a handler takes a setting from what is in force.
LEMMA NextUpToDate == Shaped /\ UpToDate /\ [Next]_vars => UpToDate'
  <1> SUFFICES ASSUME Shaped, UpToDate, [Next]_vars
               PROVE  UpToDate'
    OBVIOUS
  <1> USE DEF outside, config
  <1> DEFINE Stays == UNCHANGED <<load, overrides>>
  <1>a. ASSUME NEW c \in Clients, NEW one, call' = [call EXCEPT ![c] = one], one.kind # "http", Stays
        PROVE  UpToDate'
    BY <1>a, UpToDateApart DEF Shaped
  <1>b. ASSUME NEW c \in Clients, NEW reply, Replies(c, reply), Stays
        PROVE  UpToDate'
    <2>1. PICK one : one = [Idle EXCEPT !.reply = reply]
      OBVIOUS
    <2>2. one.kind # "http" /\ call' = [call EXCEPT ![c] = one]
      BY <1>b, <2>1 DEF Replies, Idle
    <2>3. QED
      BY <1>a, <1>b, <2>2
  <1>c. ASSUME UNCHANGED call, Stays
        PROVE  UpToDate'
    BY <1>c, UpToDateApart
  <1>d. ASSUME NEW c \in Clients, call' = [call EXCEPT ![c] = call'[c]], Stays,
               Current \in call'[c].since, Among(call'[c].used, call'[c].since)
        PROVE  UpToDate'
    <2>1. Current' = Current
      BY <1>d DEF Current, Env
    <2>2. \A d \in Clients : d # c => call'[d] = call[d]
      BY <1>d DEF Shaped
    <2>3. QED
      BY <1>d, <2>1, <2>2 DEF UpToDate
  <1>1. ASSUME NEW c \in Clients, Accept(c) \/ AcceptPassthrough(c) \/ ForwardAny(c)
        PROVE  UpToDate'
    <2>1. PICK request, step : Received(c, request, step)
      BY <1>1 DEF Accept, AcceptPassthrough, ForwardAny
    <2>2. /\ call'[c].since = {Current} /\ call'[c].used = Current
          /\ call' = [call EXCEPT ![c] = call'[c]]
      BY <2>1 DEF Received, Shaped
    <2>3. Among(call'[c].used, call'[c].since)
      BY <2>2 DEF Among
    <2>4. Stays
      BY <1>1 DEF Accept, AcceptPassthrough, ForwardAny
    <2>5. QED
      BY <1>d, <2>2, <2>3, <2>4
  <1>2. ASSUME NEW c \in Clients, Messages(c) \/ ChatCompletions(c) \/ Responses(c)
        PROVE  UpToDate'
    <2>1. /\ call[c] \in HttpCalls /\ Advances(call[c], call'[c])
          /\ call' = [call EXCEPT ![c] = call'[c]] /\ Stays
      BY <1>2, HandlerStep
    <2>2. Current \in call[c].since /\ Among(call[c].used, call[c].since)
      BY <2>1 DEF UpToDate, HttpCalls
    <2>3. PICK new : new = call'[c]
      OBVIOUS
    <2>4. new.since = call[c].since /\ Among(new.used, new.since)
      BY <2>1, <2>2, <2>3, SettingsRead
    <2>5. QED
      BY <1>d, <2>1, <2>2, <2>3, <2>4
  <1>3. ASSUME NEW c \in Clients, NoUpstream(c) \/ RateLimited(c) \/ Respond(c) \/ EndProbe(c) \/ Import(c)
        PROVE  UpToDate'
    BY <1>3, <1>b DEF NoUpstream, RateLimited, Respond, EndProbe, Import, Refused, Returns
  <1>4. ASSUME NEW c \in Clients, Forward(c)
        PROVE  UpToDate'
    <2>1. Stays /\ call[c] \in HttpCalls
      BY <1>4 DEF Forward, Step, Shaped, KindOK
    <2>2. /\ call'[c].since = call[c].since /\ call'[c].used = call[c].used
          /\ call' = [call EXCEPT ![c] = call'[c]]
      BY <1>4, <2>1 DEF Forward, Proceeds, Shaped, HttpCalls
    <2>3. Current \in call[c].since /\ Among(call[c].used, call[c].since)
      BY <2>1 DEF UpToDate, HttpCalls
    <2>4. QED
      BY <1>d, <2>1, <2>2, <2>3
  <1>5. ASSUME NEW c \in Clients, RelaySocket(c) \/ AnswerFromCache(c)
        PROVE  UpToDate'
    BY <1>5, <1>c DEF RelaySocket, AnswerFromCache
  <1>6. ASSUME NEW c \in Clients, AdminCheck(c) \/ BeginProbe(c) \/ Export(c)
        PROVE  UpToDate'
    <2>1. Stays
      BY <1>6 DEF AdminCheck, BeginProbe, Export
    <2>2. ASSUME NEW one, one.kind # "http", call' = [call EXCEPT ![c] = one]
          PROVE  UpToDate'
      BY <1>a, <2>1, <2>2
    <2>3. CASE AdminCheck(c)
      BY <1>c, <2>1, <2>2, <2>3 DEF AdminCheck
    <2>4. CASE BeginProbe(c)
      BY <2>2, <2>4 DEF BeginProbe
    <2>5. CASE Export(c)
      BY <2>2, <2>5 DEF Export
    <2>6. QED
      BY <1>6, <2>3, <2>4, <2>5
  <1>7. ASSUME NEW c \in Clients, AdminApply(c)
        PROVE  UpToDate'
    <2>1. ASSUME NEW d \in Clients, call'[d].kind = "http"
          PROVE  Current' \in call'[d].since /\ Among(call'[d].used, call'[d].since)
      <3>1. CASE d = c
        BY <1>7, <2>1, <3>1 DEF AdminApply, Idle
      <3>2. CASE d # c /\ call[d].kind # "http"
        BY <1>7, <2>1, <3>2 DEF AdminApply
      <3>3. CASE d # c /\ call[d].kind = "http"
        <4>1. call[d] \in HttpCalls
          BY <3>3 DEF Shaped, KindOK
        <4>2. PICK live : live = Live(Env, overrides')
          OBVIOUS
        <4>3. Current' = live
          BY <1>7, <4>2 DEF AdminApply, Current, Env
        <4>4. call'[d] = [call[d] EXCEPT !.since = @ \cup {live}]
          BY <1>7, <3>3, <4>2 DEF AdminApply
        <4>5. call'[d].since = call[d].since \cup {live} /\ call'[d].used = call[d].used
          BY <4>1, <4>4 DEF HttpCalls
        <4>6. Among(call[d].used, call[d].since)
          BY <3>3 DEF UpToDate
        <4>7. Among(call[d].used, call[d].since \cup {live})
          BY <4>6 DEF Among
        <4>8. QED
          BY <4>3, <4>5, <4>7
      <3>4. QED
        BY <3>1, <3>2, <3>3
    <2>2. QED
      BY <2>1 DEF UpToDate
  <1>8. CASE Start \/ ShutDown \/ Learn \/ Tick
    BY <1>8, <1>c DEF Start, ShutDown, Learn, Tick
  <1>9. CASE Gone
    BY <1>9 DEF Gone, UpToDate, Idle
  <1>10. CASE LinkChanges
    <2>1. ASSUME NEW d \in Clients
          PROVE  call'[d] = call[d] \/ call'[d].kind # "http"
      <3>1. CASE call[d].kind = "probe"
        BY <1>10, <3>1 DEF LinkChanges, Shaped, KindOK, ProbeCalls
      <3>2. CASE call[d].kind # "probe"
        BY <1>10, <3>2 DEF LinkChanges
      <3>3. QED
        BY <3>1, <3>2
    <2>2. QED
      BY <1>10, <2>1, UpToDateApart DEF LinkChanges
  <1>11. CASE UNCHANGED vars
    BY <1>11, <1>c DEF vars
  <1>12. QED
    BY <1>1, <1>2, <1>3, <1>4, <1>5, <1>6, <1>7, <1>8, <1>9, <1>10, <1>11
    DEF Next, Drained, Killed

-----------------------------------------------------------------------------
(***************************************************************************)
(* What the operator is told.                                              *)
(***************************************************************************)
LEMMA Rendered ==
  ASSUME metrics \in Counts
  PROVE  /\ Render.requests = metrics.requests /\ Render.compressed = metrics.compressed
         /\ Render.expanded = metrics.expanded /\ Render.passthrough = metrics.passthrough
         /\ Render.before = metrics.before /\ Render.routing = metrics.routing
         /\ Render.ledger = metrics.ledger /\ Render.saved = TokensSaved(metrics)
  <1>1. DOMAIN metrics = Tallied
    BY TalliedAlike
  <1>2. PICK saved : saved = TokensSaved(metrics)
    OBVIOUS
  <1>3. Render = [field \in Tallied \cup {"saved"} |-> IF field = "saved" THEN saved ELSE metrics[field]]
    BY <1>1, <1>2 DEF Render, Labelled
  <1>4. QED
    BY <1>2, <1>3 DEF Tallied

LEMMA InitTold == Init => CountedFirst /\ UpToDate
  BY NothingCounted DEF Init, CountedFirst, UpToDate, Idle, Serving, Down

(***************************************************************************)
(* What /health and /metrics say of a proxy is so, and a request runs with *)
(* no older settings than those in force when it came in: for any traffic, *)
(* blocks, failures, imports, retunings, kills and restarts.               *)
(***************************************************************************)
THEOREM OperatorIsToldTheTruth == Spec => []OperatorIsTold
  <1>1. Init => Shaped /\ Limiting /\ CountedFirst /\ UpToDate
    BY InitShaped, InitLimiting, InitTold
  <1>2. /\ Shaped /\ Limiting /\ CountedFirst /\ UpToDate /\ [Next]_vars
        => (Shaped /\ Limiting /\ CountedFirst /\ UpToDate)'
    BY NextShaped, NextLimiting, NextCountedFirst, NextUpToDate
  <1>3. ASSUME IInv, CountedFirst, UpToDate
        PROVE  OperatorIsTold
    <2>1. Shaped /\ Limiting /\ Determined /\ metrics \in Counts /\ Balanced(metrics)
      BY <1>3 DEF IInv, CountedFirst, Balanced
    <2>2. \A s \in Relayed : HealthReport.upstream = {s.to} /\ UpstreamReport.active = {s.to}
      <3>1. ASSUME NEW s \in Relayed
            PROVE  proc.upstream = {s.to}
        BY <2>1 DEF Determined, Leaves
      <3>2. HealthReport.upstream = proc.upstream /\ UpstreamReport.active = proc.upstream
        BY DEF HealthReport, UpstreamReport
      <3>3. QED
        BY <3>1, <3>2
    <2>3. /\ Render.requests = metrics.requests /\ Render.compressed = metrics.compressed
          /\ Render.expanded = metrics.expanded /\ Render.passthrough = metrics.passthrough
          /\ Render.before = metrics.before /\ Render.routing = metrics.routing
          /\ Render.ledger = metrics.ledger /\ Render.saved = TokensSaved(metrics)
      BY <2>1, Rendered
    <2>4. /\ metrics.requests = metrics.compressed + metrics.expanded + metrics.passthrough
          /\ metrics.ledger.requests <= metrics.requests /\ metrics.ledger.before <= metrics.before
          /\ metrics.expanded = 0 =>
               /\ metrics.after <= metrics.before /\ metrics.ledger.after <= metrics.ledger.before
               /\ metrics.ledger.before + metrics.after <= metrics.before + metrics.ledger.after
      BY <2>1 DEF Balanced
    <2>5. LetThrough(now + 1) <= Render.requests \/ ~Serving
      <3>1. ASSUME Serving PROVE LetThrough(now + 1) <= metrics.requests
        <4>1. /\ Curve[now + 1] \in Nat /\ Cardinality(Waiting) \in Nat /\ metrics.requests \in Nat
              /\ Curve[now + 1] + Cardinality(Waiting) <= metrics.requests
          BY <1>3, <2>1, <3>1, Numbers
        <4>2. now + 1 \in Nat
          BY <2>1 DEF Shaped
        <4>3. Curve[now + 1] = LetThrough(now + 1)
          BY <4>2 DEF Curve
        <4>4. QED
          BY <4>1, <4>3
      <3>2. QED
        BY <2>3, <3>1
    <2>7. Render.expanded = 0 => Render.saved >= TokensSaved(Render.ledger)
      <3>1. ASSUME metrics.expanded = 0 PROVE TokensSaved(metrics) >= TokensSaved(metrics.ledger)
        <4>1. /\ metrics.after \in Nat /\ metrics.before \in Nat
              /\ metrics.ledger.after \in Nat /\ metrics.ledger.before \in Nat
          BY <2>1 DEF Counts
        <4>2. QED
          BY <2>4, <3>1, <4>1 DEF TokensSaved
      <3>2. QED
        BY <2>3, <3>1
    <2>10. ASSUME NEW c \in Clients, call[c].kind = "http", NEW name \in DOMAIN Current
           PROVE  \E live \in call[c].since : call[c].used[name] = live[name]
      <3>1. name \in {"compression", "verbosity", "stabilize"}
        BY <2>10, LiveIsUsed DEF Current, UsedSettings
      <3>2. Among(call[c].used, call[c].since)
        BY <1>3, <2>10 DEF UpToDate
      <3>3. QED
        BY <3>1, <3>2 DEF Among
    <2>11. Render.requests = Render.compressed + Render.expanded + Render.passthrough
           /\ Render.ledger.requests <= Render.requests /\ Render.ledger.before <= Render.before
      BY <2>3, <2>4
    <2>12. QED
      BY <2>2, <2>5, <2>7, <2>10, <2>11 DEF OperatorIsTold
  <1>4. QED
    BY <1>1, <1>2, <1>3, ProxyInvariant, PTL DEF Spec
=============================================================================
