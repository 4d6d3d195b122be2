------------------------------- MODULE Proxy -------------------------------
(***************************************************************************)
(* The proxy as a process (headroom-proxy: server.rs, openai.rs, admin.rs, *)
(* health.rs, upstream.rs, headers.rs, metrics.rs, toin.rs): it is started *)
(* and stopped, its handlers interleave wherever they read the             *)
(* configuration or wait, and an operator retunes it, asks it how it is    *)
(* and feeds it what other proxies have learned.                           *)
(*                                                                         *)
(* What compression makes of a body is in Compression; here a request      *)
(* carries the texts of its live blocks, and each of them gets smaller, is *)
(* declined, fails or is not attempted.                                    *)
(***************************************************************************)
EXTENDS Settings, AuthMode, Telemetry, TLC

CONSTANTS
  Clients,       \* who calls, one call at a time each
  Size,          \* Size[text] in tokens: [before], what its compressor makes of it, [after],
                 \* and the reformatter, [reformatted]
  Compressible,  \* the texts of a type that has a compressor
  Typed,         \* prose that is not the output of a tool: routed, and left alone
  Fails,         \* the texts whose compressor or store may fail
  NoteSize,      \* the tokens of a note
  ProbeCache,    \* UPSTREAM_PROBE_CACHE, in ticks
  ProbeTimeout,  \* PROBE_TIMEOUT, in ticks
  MinSamples,    \* the floor an operator gives to headroom learn
  Workloads      \* what an instance consists of

\* The value of a setting that is a number: unset, a number, or not one.
Numeric(setting) ==
  setting = {} \/ \E value \in setting : setting = {value} /\ (value = Garbled \/ value \in Nat)

ASSUME ProbeAssumption == ProbeCache \in Nat \ {0} /\ ProbeTimeout \in Nat \ {0}
ASSUME LimitAssumption == DefaultRateLimit \in Nat \ {0}
ASSUME WorkloadAssumption ==
  \A w \in Workloads :
    /\ w.until \in Nat /\ Numeric(w.env["RATE_LIMIT"])
    /\ \A values \in w.calls : "RATE_LIMIT" \in DOMAIN values => Numeric(values["RATE_LIMIT"])

ASSUME SizeAssumption ==
  /\ NoteSize \in Nat
  /\ \A text \in DOMAIN Size : Size[text] \in [before : Nat, after : Nat, reformatted : Nat]
  /\ \A w \in Workloads : \A request \in w.requests : request.blocks \in Seq(DOMAIN Size)

VARIABLES
  load,        \* the workload: environment, what opens, what may be asked, and the bounds
  left,        \* left[kind]: how much more of each kind may happen
  now,         \* the monotonic clock
  proc,        \* the process: what it read when it started
  overrides,   \* OVERRIDES
  bucket,      \* the rate limiter's
  health,      \* the cached answer of a probe, if there is one
  aggregate,   \* the TOIN aggregate
  metrics,     \* the request counters
  published,   \* the recommendations file
  link,        \* does the provider answer?
  call,        \* call[c]: what the handler of c's call has got to
  sent,        \* every request that went to a provider, and every socket
  admitted,    \* admitted[t]: requests this process let through before tick t
  seen,        \* seen[b]: when link last was b
  answer       \* the last answer of /healthz/upstream

config  == <<proc, overrides>>
outside == <<load, now, published, link, seen>>
tallies == <<aggregate, metrics>>
traffic == <<sent, admitted, bucket>>
probing == <<health, answer>>
vars == <<outside, left, config, tallies, traffic, probing, call>>

Env == load.env
Current == Live(Env, overrides)

\* RelayedResponse, before its body is consumed.
RelayedResponse(status, headers) == [status |-> status, headers |-> headers, at |-> 0]
NoReply == RelayedResponse(0, {})
Idle == [kind |-> "idle", step |-> "idle", reply |-> NoReply]
Free(c) == call[c].kind = "idle"
Running == proc.state = "up"
Serving == proc.state \in {"up", "draining"}
Budget(kind) == left[kind] > 0 /\ left' = [left EXCEPT ![kind] = @ - 1]

Step(c, kind, step) == call[c].kind = kind /\ call[c].step = step
Replies(c, reply) == call' = [call EXCEPT ![c] = [Idle EXCEPT !.reply = reply]]
Returns(c) == Replies(c, NoReply)
Proceeds(c, step) == call' = [call EXCEPT ![c].step = step]

(* Routing::REASONS, and a slot for one that this build does not know.     *)
RoutingReasons ==
  {"compress", "lossless", "policy_forbids", "unsafe", "no_compressor", "measured_useless", "other"}

NoCounts ==
  [requests |-> 0, compressed |-> 0, expanded |-> 0, passthrough |-> 0, before |-> 0, after |-> 0,
   routing |-> [reason \in RoutingReasons |-> 0], ledger |-> [requests |-> 0, before |-> 0, after |-> 0]]
NoAnswer == [up |-> FALSE, age |-> 0]
Down == [state |-> "down", run |-> 0, listen |-> DefaultListen, upstream |-> {}, limit |-> 0,
         known |-> Unlearned, store |-> "memory", limits |-> DefaultLimits,
         memories |-> 0, linked |-> "off", ledger |-> FALSE, warned |-> FALSE]

Init ==
  /\ load \in Workloads
  /\ left = load.left /\ now = 0 /\ proc = Down /\ overrides = NoOverrides
  /\ bucket = FullBucket(0, 0) /\ health = {} /\ aggregate = Unlearned /\ metrics = NoCounts
  /\ published = Unlearned /\ link = TRUE /\ call = [c \in Clients |-> Idle] /\ sent = {}
  /\ admitted = [t \in 0..(load.until + 1) |-> 0]
  /\ seen = [b \in BOOLEAN |-> 0] /\ answer = NoAnswer

-----------------------------------------------------------------------------
\* Config::recommendations and Config::memories: a file that is unset or missing holds nothing.
RecommendationsRead ==
  IF Setting(Env, overrides, "RECOMMENDATIONS") = {} THEN Unlearned ELSE published

MemoriesRead == IF Setting(Env, overrides, "MEMORY") = {} THEN 0 ELSE MemoryLimit(Env, overrides)

\* Compressors: the store, what is known and what is remembered, pinned for the process.
Compressors ==
  [known |-> RecommendationsRead, limits |-> SafetyLimits(Env, overrides), memories |-> MemoriesRead,
   store |-> CcrStoreKind(Env, overrides, load.opens),
   linked |-> LinkedMemory(Env, overrides, load.opens)]

\* Upstream::new, of which there is none without TLS roots.
UpstreamClient(url) == IF load.tls THEN {url} ELSE {}

(***************************************************************************)
(* AppState::new: every setting of StartupOnly is read here and nowhere    *)
(* else, but for the upstream of a socket.                                 *)
(***************************************************************************)
NewState(url, listen) ==
  LET pinned == Compressors
  IN  [state |-> "up", run |-> proc.run + 1, listen |-> listen, upstream |-> UpstreamClient(url),
       limit |-> RateLimit(Env, overrides), known |-> pinned.known, store |-> pinned.store,
       limits |-> pinned.limits, memories |-> pinned.memories, linked |-> pinned.linked,
       ledger |-> Setting(Env, overrides, "SAVINGS") # {},
       warned |-> ~SurvivesRestart(pinned.store) /\ PersistentStoreRequested(Env, overrides)]

\* serve: a proxy that would be its own upstream is not started.
Start ==
  LET url    == UpstreamUrl(Env, overrides)
      listen == ListenAddr(Env, overrides)
  IN  /\ proc.state = "down" /\ Budget("start")
      /\ proc' = IF SelfReferential(url, listen) THEN [proc EXCEPT !.state = "refused"]
                 ELSE NewState(url, listen)
      /\ bucket' = FullBucket(proc'.limit, now)
      /\ admitted' = [t \in DOMAIN admitted |-> 0]
      /\ UNCHANGED <<outside, overrides, tallies, sent, probing, call>>

(* The process ends.  What is left is what is on disk: the recommendations *)
(* that were published.                                                    *)
Gone ==
  /\ proc' = [Down EXCEPT !.run = proc.run]
  /\ overrides' = NoOverrides /\ health' = {} /\ aggregate' = Unlearned /\ metrics' = NoCounts
  /\ call' = [c \in Clients |-> Idle] /\ bucket' = FullBucket(0, now) /\ answer' = NoAnswer
  /\ UNCHANGED <<outside, sent, admitted>>

\* shutdown_signal: nothing more is accepted, and what was is served to its end.
ShutDown ==
  /\ Running /\ Budget("stop")
  /\ proc' = [proc EXCEPT !.state = "draining"]
  /\ UNCHANGED <<outside, overrides, tallies, traffic, probing, call>>

Drained == proc.state = "draining" /\ (\A c \in Clients : Free(c)) /\ Gone /\ UNCHANGED left

\* The process is killed, whatever it was doing.
Killed == Serving /\ Budget("kill") /\ Gone

-----------------------------------------------------------------------------
(***************************************************************************)
(* A request over HTTP.  Three routes are compressed, three that describe  *)
(* the state of a conversation never, and every other path is forwarded as *)
(* it came.  since is every setting in force since the request came in.    *)
(***************************************************************************)
Compressing == {"messages", "chat", "responses"}
Stateful == {"conversations"}
Sockets == {"ws", "realtime"}

\* record_passthrough and record_rewritten: a request that grew is counted apart.
Passthrough(counts) == [counts EXCEPT !.requests = @ + 1, !.passthrough = @ + 1]

Rewritten(counts, before, after) ==
  [counts EXCEPT !.requests = @ + 1, !.before = @ + before, !.after = @ + after,
                 !.expanded = @ + (IF after > before THEN 1 ELSE 0),
                 !.compressed = @ + (IF after > before THEN 0 ELSE 1)]

\* record_savings and record_savings_passthrough: the ledger, if there is one.
RecordSavings(counts, before, after) ==
  IF proc.ledger
  THEN [counts EXCEPT !.ledger = [requests |-> @.requests + 1, before |-> @.before + before,
                                  after |-> @.after + after]]
  ELSE counts

\* record_routing, for each block that is looked at.
RecordRouting(reason) ==
  [metrics EXCEPT !.routing[IF reason \in RoutingReasons THEN reason ELSE "other"] = @ + 1]

(* is_websocket_upgrade: both headers, in whatever case and list.          *)
IsWebsocketUpgrade(headers) == {"upgrade: websocket", "connection: upgrade"} \subseteq headers

(* MaybeUpgrade: a client may ask for an upgrade without the rest of the   *)
(* handshake, and the extractor then finds none.                           *)
Extracts(headers) == IsWebsocketUpgrade(headers) /\ "sec-websocket-key" \in headers

Received(c, request, step) ==
  call' = [call EXCEPT ![c] =
             [kind |-> "http", request |-> request, since |-> {Current}, used |-> Current,
              block |-> 1, before |-> 0, after |-> 0, failed |-> {},
              body |-> [smaller |-> {}, note |-> "default", sorted |-> FALSE,
                        marked |-> FALSE, added |-> {}], step |-> step]]

Accept(c) ==
  /\ Running /\ Free(c) /\ Budget("http")
  /\ \E request \in load.requests :
       request.route \in Compressing /\ Received(c, request, "reading")
  /\ UNCHANGED <<outside, config, tallies, traffic, probing>>

\* openai::passthrough, which does not look for an upgrade.
AcceptPassthrough(c) ==
  /\ Running /\ Free(c) /\ Budget("http")
  /\ \E request \in load.requests :
       request.route \in Stateful /\ Received(c, request, "relaying")
  /\ metrics' = Passthrough(metrics)
  /\ UNCHANGED <<outside, config, aggregate, traffic, probing>>

(* forward_any, also where an upgrade was asked for and not extracted: the *)
(* provider is to state what is wrong with it.                             *)
ForwardAny(c) ==
  /\ Running /\ Free(c) /\ Budget("http")
  /\ \E request \in load.requests :
       /\ request.route \notin Compressing \cup Stateful \cup Sockets /\ ~Extracts(request.headers)
       /\ Received(c, request, "relaying")
  /\ metrics' = Passthrough(metrics)
  /\ UNCHANGED <<outside, config, aggregate, traffic, probing>>

\* FAULT for ReadConfig: the value the process was started with.
ReadConfigAtStartup(c) ==
  /\ Step(c, "http", "reading")
  /\ call' = [call EXCEPT ![c].step = "noting",
                          ![c].used.compression = CompressionEnabled(Env, NoOverrides)]
  /\ UNCHANGED <<outside, left, config, tallies, traffic, probing>>

\* The arguments of compress_dialect, one after the other.
ReadConfig(c) ==
  /\ Step(c, "http", "reading")
  /\ call' = [call EXCEPT ![c].step = "noting", ![c].used.compression = Current.compression]
  /\ UNCHANGED <<outside, left, config, tallies, traffic, probing>>

ReadVerbosity(c) ==
  /\ Step(c, "http", "noting")
  /\ call' = [call EXCEPT ![c].step = "routing", ![c].used.verbosity = Current.verbosity]
  /\ UNCHANGED <<outside, left, config, tallies, traffic, probing>>

Policy(request) == PolicyFor(ClassifyAuthMode(request.credential))
KeyFor(request, text) == KeyOf(ClassifyAuthMode(request.credential), request.model, text)

(* Orchestrator::route: too large, then what the credential permits, then  *)
(* what has a compressor, then what was read at the start.                 *)
RoutingOf(request, text, recommendations) ==
  LET policy == Policy(request)
      large  == Size[text].before > proc.limits.bytes
  IN  CASE large -> "unsafe"
        [] ~large /\ ~policy.lossy ->
             IF policy.lossless THEN "lossless" ELSE "policy_forbids"
        [] ~large /\ policy.lossy /\ text \notin Compressible -> "no_compressor"
        [] OTHER -> IF WorthCompressing(recommendations, KeyFor(request, text))
                    THEN "compress" ELSE "measured_useless"

\* FAULT for Routing: what was learned since is consulted.
RoutingByHistory(request, text) == RoutingOf(request, text, Recommendations(aggregate, MinSamples))

Routing(request, text) == RoutingOf(request, text, proc.known)

\* transform_for_block: what compresses prose is not for what somebody typed.
Attempted(request, text) ==
  \/ Routing(request, text) = "lossless"
  \/ Routing(request, text) = "compress" /\ text \notin Typed

\* validated_apply, where nothing fails: what the text comes to.
Outcome(request, text) ==
  LET size == Size[text]
  IN  CASE Attempted(request, text) /\ Routing(request, text) = "compress" -> size.after
        [] Attempted(request, text) /\ Routing(request, text) = "lossless" -> size.reformatted
        [] OTHER -> size.before

Shrinks(request, text) == Outcome(request, text) < Size[text].before

(* observe_shape: what was attempted is observed, with what it saved or as *)
(* a decline.                                                              *)
ObserveShape(request, text) ==
  LET key == KeyFor(request, text)
  IN  IF Shrinks(request, text)
      THEN Recorded(aggregate, key, Size[text].before, Outcome(request, text))
      ELSE Declined(aggregate, key)

(***************************************************************************)
(* compress_dialect, block by block: the reason is recorded of each, and   *)
(* what is attempted is observed unless it fails.  Then the request is     *)
(* counted by what became of its whole body, the note included.            *)
(***************************************************************************)
InLoop(c) ==
  /\ Step(c, "http", "routing") /\ call[c].used.compression
  /\ call[c].block \in DOMAIN call[c].request.blocks

\* The text that is looked at.
TextOf(one) == one.request.blocks[one.block]

\* It is done with: lost and smaller have its place if its compressor failed or made it smaller.
BlockDone(one, lost, smaller, after) ==
  [one EXCEPT !.step = "routing", !.block = @ + 1, !.failed = @ \cup lost,
              !.body.smaller = @ \cup smaller,
              !.before = @ + Size[TextOf(one)].before, !.after = @ + after]

\* FAULT for RouteBlock: the reason is recorded once a request.
RouteBlockOnce(c) ==
  LET one  == call[c]
      text == TextOf(one)
  IN  /\ InLoop(c)
      /\ metrics' = IF one.block = 1 THEN RecordRouting(Routing(one.request, text)) ELSE metrics
      /\ \/ Attempted(one.request, text) /\ Proceeds(c, "applying")
         \/ /\ ~Attempted(one.request, text)
            /\ call' = [call EXCEPT ![c] = BlockDone(one, {}, {}, Size[text].before)]
      /\ UNCHANGED <<outside, left, config, aggregate, traffic, probing>>

RouteBlock(c) ==
  LET one  == call[c]
      text == TextOf(one)
  IN  /\ InLoop(c)
      /\ metrics' = RecordRouting(Routing(one.request, text))
      /\ \/ Attempted(one.request, text) /\ Proceeds(c, "applying")
         \/ /\ ~Attempted(one.request, text)
            /\ call' = [call EXCEPT ![c] = BlockDone(one, {}, {}, Size[text].before)]
      /\ UNCHANGED <<outside, left, config, aggregate, traffic, probing>>

ApplyBlock(c) ==
  LET one  == call[c]
      text == TextOf(one)
      Becomes(lost, smaller, after) ==
        call' = [call EXCEPT ![c] = BlockDone(one, lost, smaller, after)]
  IN  /\ Step(c, "http", "applying")
      /\ \/ /\ text \in Fails
            /\ Becomes({one.block}, {}, Size[text].before) /\ UNCHANGED aggregate
         \/ /\ Shrinks(one.request, text) /\ aggregate' = ObserveShape(one.request, text)
            /\ Becomes({}, {one.block}, Outcome(one.request, text))
         \/ /\ ~Shrinks(one.request, text) /\ aggregate' = ObserveShape(one.request, text)
            /\ Becomes({}, {}, Size[text].before)
      /\ UNCHANGED <<outside, left, config, metrics, traffic, probing>>

CountRequest(c, recorded) ==
  LET Durable(counts, before, after) ==
        IF recorded THEN RecordSavings(counts, before, after) ELSE counts
      one   == call[c]
      noted == one.used.compression /\ one.used.verbosity # "default"
      size  == one.after + (IF noted THEN NoteSize ELSE 0)
  IN  /\ Step(c, "http", "routing") /\ ~InLoop(c)
      /\ call' = [call EXCEPT ![c].step = "stabilizing",
                              ![c].body.note = IF noted THEN one.used.verbosity ELSE "default"]
      /\ metrics' = IF one.body.smaller # {} \/ noted
                    THEN Durable(Rewritten(metrics, one.before, size), one.before, size)
                    ELSE Durable(Passthrough(metrics), 0, 0)
      /\ UNCHANGED <<outside, left, config, aggregate, traffic, probing>>

CompressRequest(c, recorded) ==
  ReadConfig(c) \/ ReadVerbosity(c) \/ RouteBlock(c) \/ ApplyBlock(c) \/ CountRequest(c, recorded)

(* stabilize, if it is switched on: the tools of any request are sorted,  *)
(* the messages of an Anthropic one that may be are marked.                *)
Stabilize(c, anthropic) ==
  /\ Step(c, "http", "stabilizing")
  /\ call' = [call EXCEPT ![c] =
                [@ EXCEPT !.step = IF anthropic THEN "relaying" ELSE "shaping",
                          !.used.stabilize = Current.stabilize,
                          !.body.sorted = Current.stabilize,
                          !.body.marked = /\ Current.stabilize /\ anthropic
                                          /\ Policy(call[c].request).cacheControl]]
  /\ UNCHANGED <<outside, left, config, tallies, traffic, probing>>

(* shape_openai, stabilization switched on or not: of the members that the *)
(* client has not set and that follow from its request, those its          *)
(* credential permits.                                                     *)
Added(request) ==
  LET policy == Policy(request)
  IN  request.lacks \cap ((IF policy.cacheKey THEN {"prompt_cache_key"} ELSE {})
                            \cup (IF policy.lossy THEN {"reasoning_effort"} ELSE {}))

ShapeOpenAi(c) ==
  /\ Step(c, "http", "shaping")
  /\ call' = [call EXCEPT ![c] = [@ EXCEPT !.step = "relaying",
                                           !.body.added = Added(call[c].request)]]
  /\ UNCHANGED <<outside, left, config, tallies, traffic, probing>>

(***************************************************************************)
(* The three handlers.  Only the first has what it saves recorded.         *)
(***************************************************************************)
At(c, route) == call[c].kind = "http" /\ call[c].request.route = route

Messages(c) ==
  /\ At(c, "messages")
  /\ CompressRequest(c, TRUE) \/ Stabilize(c, TRUE)

ChatCompletions(c) ==
  /\ At(c, "chat")
  /\ CompressRequest(c, FALSE) \/ Stabilize(c, FALSE) \/ ShapeOpenAi(c)

Responses(c) ==
  /\ At(c, "responses")
  /\ CompressRequest(c, FALSE) \/ Stabilize(c, FALSE) \/ ShapeOpenAi(c)

-----------------------------------------------------------------------------
(***************************************************************************)
(* What a request leaves with, by classes of header: what is the proxy's   *)
(* own or of this hop is dropped, and where the credential permits it the  *)
(* client is named and its accept-encoding taken away.                     *)
(***************************************************************************)
Internal == {"x-headroom"}
HopByHop ==
  {"connection", "connection: upgrade", "upgrade", "upgrade: websocket", "transfer-encoding"}
RebuiltPerHop == {"host", "content-length"}

HeaderPolicy(policy) == [forwarded |-> policy.forwarded, strip |-> policy.stripEncoding]

\* sanitize
Sanitized(headers, policy) ==
  headers \ (Internal \cup HopByHop \cup (IF policy.strip THEN {"accept-encoding"} ELSE {})
                \cup (IF policy.forwarded THEN {} ELSE {"x-forwarded-for"}))

\* apply_forwarded, with the address the connection comes from.
ApplyForwarded(headers, policy) ==
  IF policy.forwarded THEN headers \cup {"x-forwarded-for"} ELSE headers

RelayHeaders(headers) == headers \ RebuiltPerHop

\* forwarded_target: the path with its query.
ForwardedTarget(request) == <<request.route, request.query>>

\* relay_to, and forward of the client it ends in.
Outgoing(c, url) ==
  LET request == call[c].request
      policy  == HeaderPolicy(Policy(request))
  IN  [run |-> proc.run, over |-> "http", to |-> url, target |-> ForwardedTarget(request),
       request |-> request, used |-> call[c].used, failed |-> call[c].failed, body |-> call[c].body,
       headers |-> RelayHeaders(ApplyForwarded(Sanitized(request.headers, policy), policy))]

\* RelayError::status: a gateway failed, or the caller is to back off.
StatusOf(error) == IF error = "rate_limited" THEN 429 ELSE 502

\* RelayError::into_response
Refused(c, error) ==
  Replies(c, [RelayedResponse(StatusOf(error), {"content-type"}) EXCEPT
                !.at = IF error = "rate_limited" THEN now ELSE 0])

\* response_headers: the framing of the provider's reply is not the framing of this one.
ResponseHeaders(headers) ==
  headers \ {"content-length", "transfer-encoding", "connection", "keep-alive"}

(* relay: no client, no token, or on to the provider.  A refused request   *)
(* has been counted and observed all the same.                             *)
NoUpstream(c) ==
  /\ Step(c, "http", "relaying") /\ proc.upstream = {}
  /\ Refused(c, "invalid_url")
  /\ UNCHANGED <<outside, left, config, tallies, traffic, probing>>

RateLimited(c) ==
  /\ Step(c, "http", "relaying") /\ proc.upstream # {} /\ ~Allows(bucket, proc.limit, now)
  /\ bucket' = Taken(bucket, proc.limit, now)
  /\ Refused(c, "rate_limited")
  /\ UNCHANGED <<outside, left, config, tallies, sent, admitted, probing>>

Forward(c) ==
  /\ Step(c, "http", "relaying") /\ proc.upstream # {} /\ Allows(bucket, proc.limit, now)
  /\ bucket' = Taken(bucket, proc.limit, now)
  /\ admitted' = [t \in DOMAIN admitted |-> admitted[t] + (IF t > now THEN 1 ELSE 0)]
  /\ sent' = sent \cup {Outgoing(c, url) : url \in proc.upstream}
  /\ Proceeds(c, "forwarded")
  /\ UNCHANGED <<outside, left, config, tallies, probing>>

(* The provider's answer, whatever its status, is streamed back.  If the   *)
(* connection fails the request is not tried again.                        *)
Respond(c) ==
  /\ Step(c, "http", "forwarded")
  /\ \/ Replies(c, RelayedResponse(200,
                      ResponseHeaders({"content-type", "content-length", "connection"})))
     \/ Refused(c, "transport")
  /\ UNCHANGED <<outside, left, config, tallies, traffic, probing>>

(***************************************************************************)
(* relay_socket, of /ws, /v1/realtime and every other path that brings a   *)
(* whole upgrade: not limited, not sanitized, and to the upstream that is  *)
(* configured now, whatever path the client asked for.  On the first two   *)
(* anything else is rejected and leaves no trace.                          *)
(***************************************************************************)
RelaySocket(c) ==
  /\ Running /\ Free(c) /\ Budget("socket")
  /\ \E request \in load.requests :
       request.route \notin Compressing \cup Stateful /\ Extracts(request.headers)
  /\ sent' = sent \cup {[run |-> proc.run, over |-> "socket",
                         to |-> WebsocketUrl(UpstreamUrl(Env, overrides)), target |-> <<>>]}
  /\ metrics' = Passthrough(metrics)
  /\ UNCHANGED <<outside, config, aggregate, bucket, admitted, probing, call>>

-----------------------------------------------------------------------------
(***************************************************************************)
(* POST /admin/runtime-env, refused to a caller elsewhere: the             *)
(* configuration as it would be is checked, the overrides stored after it. *)
(***************************************************************************)
AdminCheck(c) ==
  /\ Running /\ Free(c) /\ Budget("admin")
  /\ \E values \in load.calls, local \in BOOLEAN :
       LET preview == Overridden(overrides, values)
       IN  IF ~local \/ SelfReferential(UpstreamUrl(Env, preview), ListenAddr(Env, preview))
           THEN UNCHANGED call
           ELSE call' = [call EXCEPT ![c] = [kind |-> "admin", step |-> "checked", values |-> values]]
  /\ UNCHANGED <<outside, config, tallies, traffic, probing>>

AdminApply(c) ==
  /\ Step(c, "admin", "checked")
  /\ overrides' = Overridden(overrides, call[c].values)
  /\ call' = [d \in Clients |->
                IF d = c THEN Idle
                ELSE IF call[d].kind = "http"
                     THEN [call[d] EXCEPT !.since = @ \cup {Live(Env, overrides')}]
                     ELSE call[d]]
  /\ UNCHANGED <<outside, left, proc, tallies, traffic, probing>>

\* GET /health and GET /admin/upstream
HealthReport ==
  [upstream |-> proc.upstream, compression |-> Current.compression,
   status |-> IF proc.upstream = {} THEN "degraded" ELSE "ok",
   store |-> proc.store, persistent |-> SurvivesRestart(proc.store)]

UpstreamReport ==
  [configured |-> UpstreamUrl(Env, overrides), active |-> proc.upstream,
   restart |-> proc.upstream # {UpstreamUrl(Env, overrides)}]

\* A record, and one more field.
Labelled(record, name, value) ==
  [field \in DOMAIN record \cup {name} |-> IF field = name THEN value ELSE record[field]]

\* GET /metrics
TokensSaved(counts) == IF counts.after < counts.before THEN counts.before - counts.after ELSE 0
Render == Labelled(metrics, "saved", TokensSaved(metrics))

-----------------------------------------------------------------------------
(***************************************************************************)
(* GET /healthz/upstream: from the cache while it is fresh, or by a probe  *)
(* for which the lock is not held.  A probe sees what the link was at some *)
(* moment while it was under way, and its answer is cached as of now.      *)
(***************************************************************************)
Answered(up) == answer' = [up |-> up, age |-> now - seen[up]]

Fresh == \E cached \in health : now - cached.at < ProbeCache

\* FAULT for AnswerFromCache: every reader makes the cached answer young again.
AnswerFromCacheRenewed(c) ==
  /\ Running /\ Free(c) /\ Budget("probe")
  /\ proc.upstream # {} /\ Fresh
  /\ \E cached \in health : Answered(cached.up) /\ health' = {[at |-> now, up |-> cached.up]}
  /\ UNCHANGED <<outside, config, tallies, traffic, call>>

AnswerFromCache(c) ==
  /\ Running /\ Free(c) /\ Budget("probe")
  /\ proc.upstream # {} /\ Fresh
  /\ \E cached \in health : Answered(cached.up)
  /\ UNCHANGED <<outside, config, tallies, traffic, health, call>>

BeginProbe(c) ==
  /\ Running /\ Free(c) /\ Budget("probe")
  /\ proc.upstream # {} /\ ~Fresh
  /\ call' = [call EXCEPT ![c] = [kind |-> "probe", step |-> "probing", at |-> now, links |-> {link}]]
  /\ UNCHANGED <<outside, config, tallies, traffic, probing>>

EndProbe(c) ==
  /\ Step(c, "probe", "probing")
  /\ \E up \in call[c].links : Answered(up) /\ health' = {[at |-> now, up |-> up]}
  /\ Returns(c)
  /\ UNCHANGED <<outside, left, config, tallies, traffic>>

-----------------------------------------------------------------------------
(***************************************************************************)
(* TOIN over HTTP.  What a peer exports is imported here at some later     *)
(* time, and so is what this proxy itself has exported.                    *)
(***************************************************************************)
Snapshot == aggregate

\* GET /v1/toin/patterns, and its alias /v1/telemetry/tools
Patterns == {Labelled(Snapshot[key], "key", key) : key \in DOMAIN Snapshot}

\* GET /v1/toin/pattern/{prefix}, the prefix being an auth mode.
Pattern(mode) == {pattern \in Patterns : pattern.key[1] = mode}

\* GET /v1/toin/stats
Stats ==
  LET Total(field(_)) == MapThenSumSet(field, Patterns)
  IN  [shapes |-> Cardinality(DOMAIN Snapshot), samples |-> Total(LAMBDA p : p.samples),
       declines |-> Total(LAMBDA p : p.declines), before |-> Total(LAMBDA p : p.before),
       after |-> Total(LAMBDA p : p.after)]

Export(c) ==
  /\ Running /\ Free(c) /\ Budget("export")
  /\ \E observations \in load.exports \cup {Snapshot} :
       call' = [call EXCEPT ![c] = [kind |-> "peer", step |-> "exported", observations |-> observations]]
  /\ UNCHANGED <<outside, config, tallies, traffic, probing>>

Import(c) ==
  /\ Step(c, "peer", "exported")
  /\ aggregate' = Merged(aggregate, call[c].observations)
  /\ Returns(c)
  /\ UNCHANGED <<outside, left, config, metrics, traffic, probing>>

\* headroom learn, on a corpus of requests, and a file an operator puts in place.
Learn ==
  /\ Budget("learn")
  /\ \E corpus \in load.exports : published' = Recommendations(corpus, MinSamples)
  /\ UNCHANGED <<load, now, link, seen, config, tallies, traffic, probing, call>>

\* The network between the proxy and the provider.
LinkChanges ==
  /\ Budget("link")
  /\ link' = ~link /\ seen' = [seen EXCEPT ![link'] = now]
  /\ call' = [c \in Clients |-> IF call[c].kind = "probe"
                                THEN [call[c] EXCEPT !.links = @ \cup {link'}] ELSE call[c]]
  /\ UNCHANGED <<load, now, published, config, tallies, traffic, probing>>

\* A probe that has not answered in time has failed: the link was not what it takes to answer.
Tick ==
  /\ now < load.until
  /\ \A c \in Clients : call[c].kind = "probe" => now < call[c].at + ProbeTimeout
  /\ now' = now + 1 /\ seen' = [seen EXCEPT ![link] = now']
  /\ UNCHANGED <<load, published, link, left, config, tallies, traffic, probing, call>>

Next ==
  \/ Start \/ ShutDown \/ Drained \/ Killed \/ Learn \/ LinkChanges \/ Tick
  \/ \E c \in Clients :
       \/ Accept(c) \/ AcceptPassthrough(c) \/ ForwardAny(c)
       \/ Messages(c) \/ ChatCompletions(c) \/ Responses(c)
       \/ NoUpstream(c) \/ RateLimited(c) \/ Forward(c) \/ Respond(c)
       \/ RelaySocket(c) \/ AdminCheck(c) \/ AdminApply(c)
       \/ AnswerFromCache(c) \/ BeginProbe(c) \/ EndProbe(c)
       \/ Export(c) \/ Import(c)

Spec == Init /\ [][Next]_vars

-----------------------------------------------------------------------------
Relayed == {s \in sent : s.over = "http" /\ s.run = proc.run /\ Serving}

TypeOK ==
  /\ proc.state \in {"down", "up", "draining", "refused"} /\ now \in 0..load.until
  /\ bucket.tokens \in 0..proc.limit /\ bucket.refilled \in 0..now
  /\ \A name \in Known : Cardinality(overrides[name]) <= 1
  /\ \A c \in Clients : call[c].kind \in {"idle", "http", "admin", "probe", "peer"}

(***************************************************************************)
(* The limiter "protects the provider" from a loop that relays every       *)
(* attempt with the customer's credential (guard.rs:27): windows count     *)
(* from when the process started, and whatever the traffic, however long   *)
(* it paused, no stretch as long as a window lets more than twice the      *)
(* limit through, and n windows in a row no more than n times the limit.   *)
(* Nobody is answered 429 but where the limit was used up within the       *)
(* window before.                                                          *)
(***************************************************************************)
LetThrough(t) == admitted[IF t <= load.until THEN t ELSE load.until + 1]

\* From tick s on and before tick t.
Between(s, t) == LetThrough(t) - LetThrough(s)

WithinBurst ==
  Serving =>
    /\ \A t \in 0..now : Between(t, t + Window) <= 2 * proc.limit
    /\ bucket.tokens + Between(bucket.refilled, now + 1) <= proc.limit
    /\ \A c \in Clients : Free(c) /\ call[c].reply.status = 429 =>
         \E t \in 0..call[c].reply.at : /\ call[c].reply.at < t + Window
                                        /\ Between(t, call[c].reply.at + 1) >= proc.limit

(***************************************************************************)
(* An operator must not have to guess (health.rs:30, admin.rs:218): what   *)
(* /health and /admin/upstream name is where the requests of this process  *)
(* went; every one of them is among the requests of /metrics, each of      *)
(* which is counted once, and the durable ledger has no more than they     *)
(* have.  And a request runs with each live setting as it was at some      *)
(* moment since the request came in, never with an older value.            *)
(***************************************************************************)
OperatorIsTold ==
  /\ \A s \in Relayed : HealthReport.upstream = {s.to} /\ UpstreamReport.active = {s.to}
  /\ Render.requests = Render.compressed + Render.expanded + Render.passthrough
  /\ LetThrough(now + 1) <= Render.requests \/ ~Serving
  /\ Render.ledger.requests <= Render.requests /\ Render.ledger.before <= Render.before
  /\ Render.expanded = 0 => Render.saved >= TokensSaved(Render.ledger)
  /\ \A c \in Clients : call[c].kind = "http" =>
       \A name \in DOMAIN Current : \E live \in call[c].since : call[c].used[name] = live[name]

(***************************************************************************)
(* The reason is recorded "whether or not a compressor runs"               *)
(* (compression.rs:361) and what was attempted is observed after it, and   *)
(* an operator reads the two side by side: while nothing is imported, a    *)
(* sample of an auth mode is a block that was routed to a compressor, or   *)
(* to the reformatter, under it, in whatever order the blocks of several   *)
(* requests are routed, fail and are observed; no sample is declined       *)
(* twice, and none that was kept had grown.                                *)
(***************************************************************************)
SamplesOf(mode) == MapThenSumSet(LAMBDA p : p.samples, Pattern(mode))

LearnedWasTried ==
  left["export"] = load.left["export"] =>
    /\ SamplesOf("payg") <= Render.routing["compress"]
    /\ SamplesOf("oauth") <= Render.routing["lossless"]
    /\ Stats.samples = SamplesOf("payg") + SamplesOf("oauth")
    /\ \A p \in Patterns : p.declines <= p.samples /\ p.after <= p.before

(***************************************************************************)
(* /healthz/upstream answers what was so not longer ago than a probe may   *)
(* take and its answer is kept (server.rs:236), also when two probes       *)
(* overlap and the older answer is written over the newer one.             *)
(***************************************************************************)
ReachabilityRecent == answer.age < ProbeCache + ProbeTimeout

(***************************************************************************)
(* I4 and I9: within one process the same request under the same settings  *)
(* leaves as the same bytes, whatever was served, observed, imported or    *)
(* published in between, but for a block whose compressor failed once.     *)
(***************************************************************************)
SameBytes ==
  \A s, t \in Relayed : s.request = t.request /\ s.used = t.used /\ s.failed = t.failed
                          => s.body = t.body /\ s.headers = t.headers /\ s.to = t.to

(***************************************************************************)
(* "A proxy pointed at itself forwards every request to itself forever"    *)
(* (admin.rs:124), and the guard of the endpoint is there so that no call  *)
(* brings it about.  It fails: HOST and PORT are checked as they would be  *)
(* after a restart, and a socket goes to the new upstream at once.         *)
(***************************************************************************)
NeverItself == \A s \in sent : s.run = proc.run /\ Running => ~Reaches(s.to, proc.listen)

(***************************************************************************)
(* "These are read once at startup ... Reporting them as applied and       *)
(* nothing more is a lie an operator acts on" (admin.rs:161): what was     *)
(* stored and is not named as in need of a restart is in force.  It fails  *)
(* for MAX_BYTES and MAX_LINES, which are read once and not on the list.   *)
(***************************************************************************)
AppliedIsInForce ==
  Running /\ {"MAX_BYTES", "MAX_LINES"} \cap StartupOnly = {} => proc.limits = SafetyLimits(Env, overrides)

(***************************************************************************)
(* "The durable half, written beside the in-process counter so the two     *)
(* cannot describe different traffic" (server.rs:557).  It fails: the two  *)
(* OpenAI handlers, passthrough and sockets count in /metrics alone.       *)
(***************************************************************************)
LedgerDescribesTraffic == Running /\ proc.ledger => metrics.ledger.requests = metrics.requests
=============================================================================
