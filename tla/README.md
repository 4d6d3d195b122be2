# A verification development for headroom

headroom is a proxy between an LLM client and its provider. It shrinks the
context of a request, keeps the originals it took out so that the model can ask
for them, and passes the reply through while counting what it says. This
directory holds TLA+ modules of the parts of it where order, time, failure and
bookkeeping matter, TLC configurations that check them on small instances, and
TLAPS proofs of what matters most.

    tlc -workers 2 -config MCFileCcrStore.cfg MCFileCcrStore     # one run
    tlapm SavingsLedgerProofs.tla                                # the proofs of one module

`PROJECT.json` lists the components, the runs, the source lines each definition
translates, the hazards, and the disagreements between the code and what its
comments say. Every definition is translated from the code under
`src/crates/`; a definition marked *external* there (file system, Redis, clock,
sockets, provider, client, operator) is taken as that code uses it. Operators
headed `FAULT` are variants of the definition after them that a plausible bug
would give; no specification uses them, and each breaks the property it is
paired with in `PROJECT.json`.

## 1. The system

| Part | Source (`src/crates/`) | State | Operations | Hard because | Module |
|---|---|---|---|---|---|
| CCR in-memory store | `headroom-core/src/ccr/in_memory.rs` | a map behind a mutex | put, get, purge_expired | the clock is read before the lock is taken | `InMemoryCcrStore` |
| CCR file store | `.../ccr/persistent.rs` | a directory: bodies, sidecars with expiries, temporaries | put, get, purge_expired | no lock; several processes; a crash between any two calls | `FileCcrStore` |
| CCR redis store | `.../ccr/redis_store.rs` | a connection per worker, keys at the server | put, get, one retry | an operation that may have been applied is repeated; workers die | `RedisCcrStore` |
| Retrieval, markers | `.../ccr/retrieve.rs`, `headroom-proxy/src/ccr_api.rs` | none | retrieve one, retrieve a batch, compress a block | a marker must not outrun its original | `Compression` |
| Live zone, frozen floor | `headroom-core/src/live_zone.rs`, `headroom-proxy/src/frozen.rs` | none | which blocks of a request may change | a relation between *different* requests | `PromptCache`, `RequestBody` |
| Compression of a request | `headroom-proxy/src/compression.rs`, `body.rs` | the store | read the conversation, rewrite live blocks, splice bytes | the provider's cache breaks on one changed byte | `RequestBody`, `Compression` |
| Stabilization, cache keys | `headroom-proxy/src/stabilization.rs`, `openai.rs`, `volatile.rs` | none | place breakpoints, name cache partitions, order tools, warn | the client never sees what was placed | `PromptCache`, `HotZone` |
| Memory, output shaping | `headroom-core/src/memory.rs`, `output_shaping.rs`, `headroom-proxy/src/linked_memory.rs` | facts of a file, or a database | recall, append a note to the newest user text | must not reach what is cached | `Memories`, `RequestBody` |
| Orchestrator, detection, validation | `headroom-core/src/pipeline/`, `detection/`, `validate.rs`, `transform.rs` | none | route a block, apply a transform, accept or reject | gates of many kinds in an order that matters | `Content`, `Pipeline` |
| Compressors | `log_compressor.rs`, `search_compressor.rs`, `diff_compressor.rs`, `code_compressor.rs`, `text_crusher.rs`, `smart_crusher/`, `signals/`, `relevance.rs` | none | shorten a content of one type | budgets, caps and elisions counted in several places | one each, below |
| Response observation | `headroom-proxy/src/observe.rs`, `sse/` | a frame buffer, an observer, counters | poll_next, drop | chunks cut anywhere; ended by either side anywhere | `ResponseStream` |
| WebSocket relay | `headroom-proxy/src/websocket.rs` | two tasks, two sockets | read, send, select | back pressure, half-dead connections, detached tasks | `WebSocketRelay` |
| Request path | `headroom-proxy/src/server.rs`, `openai.rs`, `upstream.rs`, `headers.rs`, `health.rs` | process, client of the upstream, probe cache | handlers, relay, health | handlers interleave wherever they read or wait | `Proxy` |
| Rate limiter, loop guard | `headroom-proxy/src/guard.rs` | a token bucket | allow, is_self_referential | window boundaries; addresses that change meaning | `Guard` |
| Configuration, admin | `headroom-proxy/src/config.rs`, `admin.rs` | overrides behind a lock | runtime_env, from_env, reports | checked before it is applied; read setting by setting; half of it fixed at start | `Settings` |
| TOIN telemetry | `headroom-core/src/telemetry.rs`, `auth_mode.rs`, `headroom-proxy/src/toin.rs` | an aggregate, a file of recommendations | record, decline, export, import, learn | what is learned must not change what a request becomes | `Telemetry`, `AuthMode` |
| Metrics | `headroom-proxy/src/metrics.rs` | counters | record, render | two tallies of one traffic | `Proxy`, `ResponseStream` |
| Savings ledger | `headroom-core/src/savings.rs`, `headroom-proxy/src/ledger.rs` | hourly buckets, one file | record, flush, load | killed anywhere, restarted, I/O errors | `SavingsLedger` |
| MCP server | `headroom-mcp/src/` | a session, statistics, a store | one line after the other | a client that counts replies; shares Redis with the proxies | `McpServer` |
| Agent settings | `headroom-cli/src/wrap.rs`, `commands.rs` | a settings file and its backup | wrap, unwrap, recover, mcp install and uninstall | killed between two writes; edited meanwhile | `SettingsWrap` |
| Tokenizers, embedding, bindings, simulators | `headroom-core/src/tokenizer/`, `headroom-embed`, `headroom-py`, `headroom-parity`, `headroom-simulators` | none | counting, vectors, conversion | | section 7 |

How they meet: a handler of the request path (`Proxy`) reads the configuration
(`Settings`), hands the body to *compression* (`Compression` over
`RequestBody`), which asks the *live zone* what it may touch, has each block
looked at by the *pipeline* (`Pipeline` over `Content` and the compressors),
puts originals into the *CCR store*, appends notes from *memory*, and lets
*stabilization* mark the result (`PromptCache`, `HotZone`). The relay asks the
*rate limiter* and sends it off. The reply comes back through *response
observation*; what was saved is counted, observed by *TOIN* and recorded in the
*ledger*, whose task flushes it. The model redeems a marker through the
retrieval API of any worker or through the *MCP server*, which use the same
Redis. The *CLI* points an agent at the proxy by editing the agent's settings.

What makes each part correct is stated where the part is modelled (section 3);
`PROJECT.json` has, under `hazards`, the places in the code where it could go
wrong and the properties that would notice.

## 2. The plan

Done, in the order of what a user loses when it is wrong:

1. what was taken out of a prompt can be had back: `CcrPromise`, its three
   implementations `InMemoryCcrStore`, `FileCcrStore`, `RedisCcrStore`, and
   `Compression` with `McpServer` on top of the last, with proofs;
2. what the provider cached is forwarded unchanged: `PromptCache`, `HotZone`,
   `RequestBody`;
3. what a summary shows is permitted, accounted for and misses nothing that
   matters: `Content`, the compressors, `Pipeline`;
4. what passes through passes unchanged and is counted: `WebSocketRelay`,
   `ResponseStream`;
5. what an operator does and is told agrees with what happens: `Proxy` over
   `Settings`, `Guard`, `AuthMode`, `Telemetry`;
6. what is kept on disk survives: `SavingsLedger` and `SettingsWrap`, with proofs;
7. proofs of what the other runs check: the file store, the relay, a reply's
   counters, the prompt cache, the proxy, a block's way through the pipeline and
   a request's through the compression.

Left, in order:

8. an atomic register of settings as the abstract specification of `Settings`
   with its admin endpoint, and a durable counter as that of `SavingsLedger`;
9. `Pipeline` in place of the four classes of text of `Compression`, and
   `ResponseStream` in place of the single `Respond` of `Proxy`, once the state
   spaces allow it;
10. the lossless text crusher, `SharedContext` and `find_markers`, when
    something calls them on the request path.

## 3. The modules

### CcrPromise, the contract of a store

`CcrStore` (`ccr/mod.rs`) promises that what `put` acknowledged is "retrievable
for at least ttl". `held[h]` is until when, `offered` the originals somebody has
begun to store, `asked` the latest lookup of every reader. A lookup may answer
*found* only for something offered, and *miss* only if what was owed when it
began has run out when it ends. The clock moves by itself. There is no purge
here: an implementation may forget whatever it owes to nobody.

### InMemoryCcrStore

`entries` is the map, reduced to the expiry of each entry; `call[t]` is what
thread `t` is in the middle of and the time it has read. `put`, `get` and
`purge_expired` are two actions each, `PutBegin`/`PutInsert` and so on, because
each reads `Instant::now()` and then waits for the mutex. `held` and `asked`
are history variables that the refinement `ImplementsPromise` maps to the
contract's; `Offered` is derived.

Two puts of one original may be in flight together, in the run and in the
theorems. The one with the older reading can then insert last and shorten the
life that the other has given the entry (`RefreshNeverShortens` says that this
cannot happen, and fails: section 6). What such puts promise together is
therefore no more than the expiry of the oldest of them that is still in flight
(`Oldest`, `Promised`): off by the time a thread waits for the mutex. That much
is kept.

### FileSystem and FileCcrStore

`FileSystem` is the part of `std::fs` that three modules use: create truncates,
a write fills and closes, a rename replaces and moves open handles with the
file, unlink removes a name.

In `FileCcrStore` every call is an action: after `PutBegin`, which reads the
clock, `PutCreate`, `PutWrite`, `PutRename`, `PutTruncateSidecar` and `PutStamp`
are the five visible moments of a put (`fs::write` of the sidecar is two of
them); `GetExists`, `GetExpiry`, `GetNow` and `GetBody` or `GetFails` those of a
get. A sweep takes its reading of the clock and of the directory first, then
decides file by file and removes what it decided, one unlink after another; a
body whose sidecar it could not read it dates later, in two writes of its own
(`PurgeTruncateSidecar`, `PurgeStamp`). `PutAbort` and `PurgeCrash` may happen at
any of them.
`sweep.todo` is a set: `read_dir` gives no order, so every order is explored.
Times are in ticks, `Second` ticks make a second, and `EpochSecs` is the
truncation the sidecar makes: a promise is kept to the whole second below it,
and the refinement says so.

Puts overlap puts of the same original, and sweeps overlap everything. What can
then be claimed is said by four histories:

- `shared` holds the originals whose temporary two puts have had at once
  (`put.sole` is what a put knows of it), until a put that has had it to itself
  renames it. A reader may be handed half of such an original, which is what the
  run `file_store_torn` shows; of any other it never is (`TornOnlyWhileShared`).
- `promised` is what the acknowledged puts of an original have promised: the
  expiry of the oldest of them that is still in flight, as in memory, because the
  last of them to write the sidecar decides.
- `put.unswept` is lost to a put that meets a sweep. Such a put promises nothing:
  a sweep that has read an expired sidecar removes the body, and the sidecar, that
  the put has renewed since, and the put returns Ok. `AcknowledgedIsThere` says
  that this cannot happen, and fails (section 6). What was promised before stays
  promised, and a sweep may overlap any get.
- `sweep.alone` marks a sweep that no put and no other sweep overlapped, the only
  kind of which `SweepCleans` can speak.

### RedisCcrStore

The workers of a deployment share one server: `keys[h]` is when its entry
expires, `conn[w]` whether the connection in worker `w`'s mutex is alive, `call[c]`
the operation of a caller, which runs in worker `at[c]`. An operation waits for
the mutex (`Lock`), tries, reconnects and tries once more; the guard lives until
the operation is over, so the reconnecting worker keeps its other callers
waiting. A command whose answer never came was applied, or is `late` in the
dropped connection and applied at any later time (`LateApplies`), or is gone
(`Fates`). Only the server has a clock, and `SET EX` takes whole seconds and
refuses zero (`Expiry`). A worker may die with an operation half done and come
back with a fresh connection. Failures of all kinds together are bounded by
`MaxFaults`. The server is taken not to lose what it has acknowledged, which the
code assumes and cannot see.

### Memories, RequestBody, Compression, McpServer

`Memories` is the store of facts: which lines of the file count, what
corroborates what, the total order of recall, and the linked database, which
wins over the file when there is one.

`RequestBody` is a request as bytes and as a conversation. A body is its
members, its options and its messages; a message says how its content is
written (one string, an array of blocks, a tool's output) and whether its
whitespace is still the client's; a text is a sequence of pieces, the client's
own words or a summary of them followed by what the proxy appended.
`Conversation` is the readers of the three dialects, `FrozenFloor`, `LiveZone`,
`ConversationQuery` and `TailFor` are the functions of those names, `Rebuild` is
the splice with its path by path rewriting, and `ShapeOpenAi` adds the cache key
and the effort. That a rewritten message loses the client's whitespace is in
`spaced`.

`Compression` walks a request through `compress_dialect`. `Begin` computes floor
and zone or passes the bytes through, `Compress`/`Compressed` store an original
and judge the result, `NothingStored` is every other outcome of a block,
`Finish` appends the notes, drops what would be below the floor and forwards.
Storing is an operation of `RedisCcrStore`, which this module extends, so a
request is interleaved with the other worker, with time and with failures.
`CompressBlock` is the compress endpoint, `Retrieve` the retrieval API at any
worker, for any marker somebody has seen (`Told`). Texts are of four kinds:
smaller after compression (`Smaller`), stored in vain (`NotSmaller`), shortened
by their whitespace only (`Tidier`), or untouched. `Lost` is the death of a
worker under its request.

`McpServer` is the child process that talks to one client line by line. `Hear`
answers a line that needs no store at once; the others wait for the store
(`CompressShared`, `RetrieveShared`) or have one of their own (`CompressAlone`,
`RetrieveAlone`), as `main` decides (`StoreOf`). `PurgeThread` runs beside.
A line that is not UTF-8 ends the process without a reply (`Undecodable`), and
the client starts another (`Restarted`). `session.replies` is what was flushed,
in order, and `session.given` until when each original was promised to the
client. The three stores are the shared Redis, a directory that survives a
restart, and memory that does not. A line with one of the two marks of a
notification and without the other (no id, a method under `notifications/`) is
*undecided*: the code goes by the method and its documents by the id, so
`SessionKeepsCount` allows a reply and does not ask for one, and
`NotificationsUnanswered` states what the documents say, and fails (section 6).

### PromptCache and HotZone

The state is what the client has: `messages`, the `marks` it set, the `head`
before them, whether stabilization is on. The state the properties are about is
`watched`: one prefix that some earlier request made the provider cache, with
the bytes then forwarded, chosen once and at any time, so that a run compares
every pair of requests of a conversation. `Next` is one request
(`MessagesHandler`): the same conversation again, the next turn, or another turn
after going back to an earlier message, with any markers and, while the
conversation is short, another serialization of the head. `FrozenFloor`,
`LiveZone`, `Query`, `NoteAt`, `Compressed` and `Breakpoints` are the functions
of those names, as operators of the request. A block is reduced to its kind, a
compressor to "depends on the block and, for tool output, on the query": two
forwarded blocks are equal exactly when the code forwards the same bytes. The
breakpoints that the client itself sets on its system prompt and tools are
`Pinned`: the code neither moves nor counts them.

`HotZone` is what precedes the messages: the tools, their order and the order of
the keys of their schemas (`Normalized`), and the scan for volatile values
(`Scan`) that warns about what normalizing cannot help. What else varies in a
head has a form and a class, of which `Volatile` are those the scan knows;
`HeadMissIsReported` speaks of heads that differ in such values (`Places`) and in
the order of tools and keys, and of no others: a client may vary anything, and
nobody reports a value of no known kind. The stable sort by name is
stated by places: a tool comes after as many as `NotAfter` counts, those with a
smaller name and those with its own that came before it.

### Content, the compressors, Pipeline

A content is a sequence of lines, each a record of what the code asks of a line
(how it starts, the path it names, its tokens, terms, keywords and braces), or a
JSON document with records and prose leaves. `Content` has the detection, the
size floors and the safety limits. Each compressor is an operator from a content
to an *offer*, a sequence of parts that are lines kept, groups, gaps and counts:

- `LogCompressor`: templates, their examples, and the lines with a severity;
- `SearchCompressor`: hits under their file, caps per file and in all;
- `DiffCompressor`: hunks without far context, lockfiles and whitespace churn;
- `CodeCompressor`: bodies by braces or by indentation;
- `TextSummarizer`: anchors, tag pairs, keywords, tiers, the budget of lines and
  the lines that bear on the query;
- `SmartCrusher`: statistics of the fields, the four outlier scores, field
  classes, the plan and the records that stand out.

`Pipeline` takes one block through it: `RouteBlock` (safety, policy, compressor,
recommendation, kind of block), `Refuse`, `Reformat`, `Offer`, or `BeginCrush`,
`ShrinkLeaf` and `Crush` for a document, whose prose leaves are stored and
shortened before the pass over its records; then `StoreAndMark` or `StoreFails`,
and `Validate`, which goes back to the original unless the result is smaller.

### Proxy, Settings, Guard, AuthMode, Telemetry

`Proxy` is one process and its surroundings. `proc` is what it read when it
started, `overrides` what the admin endpoint has stored since, `call[c]` the
handler of client `c`. `Start` refuses an upstream that is the proxy itself and
pins the store, the limits, the memories and the recommendations; `ShutDown`
drains, `Killed` does not, and either leaves only what is on disk. A request
carries the texts of its live blocks. A compressed route is `Accept`,
`ReadConfig`, `ReadVerbosity`, then `RouteBlock` and `ApplyBlock` for one block
after the other, `CountRequest`, `Stabilize` and `ShapeOpenAi`, because the
handler reads the configuration at several of these moments and other handlers
count and observe in between; `since` holds every setting in force since the
request came in. A block is made smaller, declined (both are observed), fails
(which is not), or is routed and never tried, by its kind or its policy
(`Attempted`). `ShapeOpenAi` adds a cache key and an effort where the client has
set none (`Added`). Then `NoUpstream`, `RateLimited` or `Forward`, and `Respond`,
which is the provider's answer or a transport error that is not retried.
`RelaySocket` is an upgrade; a request that has some of an upgrade's headers and
not all is forwarded as HTTP (`Extracts`, `ForwardAny`). `AdminCheck` and
`AdminApply` are the endpoint's two halves. `AnswerFromCache`, `BeginProbe`
and `EndProbe` are `/healthz/upstream`, whose lock is not held while it probes.
`Export`, `Import` and `Learn` move what TOIN observed between processes. `sent`
is every request that has left, with headers by classes of header.

`Settings` has every setting with its default, its parsing and the moment it is
read; `Guard` the bucket and the loop guard, with `Reaches` as what the network
would do; `AuthMode` how a credential is classified and what that permits;
`Telemetry` shapes, families, keys, sums and recommendations.

### WebSocketRelay

`task[s]` is the spawned task that reads from side `s`: at `read`, or at `send`
holding a frame. A frame that has been read is in no socket until it is sent,
which is where a loss would happen. `outbox` holds at most `Room` frames, so a
send can block. `Select` returns from `pump` and touches nothing else, because
dropping a `JoinHandle` detaches a task. The two `to_*_frame` conversions keep
kind and payload, and text, binary and Close are distinct frames.

### ResponseStream

A reply is a sequence of frames and arrives as chunks cut anywhere, down to
single bytes and through a line terminator. `Chunk`, `Ends` and `Fails` are the
branches of `poll_next`, `Dropped` is `drop`, which may come first. `NextFrame`
and `Drained` are the loop of the parser, `StreamObserver`, `OpenAiObserver` and
`ResponsesObserver` the three vocabularies reduced to what moves a counter:
usage and failure. A body that is no event stream is buffered and read at the
end.

### SavingsLedger

A bucket is the count of its hour. `record` and the prune-and-clone of a flush
are atomic because the code holds the mutex for all of each; the save after it
is three file calls, with the clone carried in `flush[p].text`. `Stop` is a kill
and a graceful shutdown, which does not flush either. `FlushFails` is an error of
any call. `recorded` and `flushed` are histories; `unread` records that a load
failed on a file that was there, the one case that loses history by design of
`load`. `Overlap` would let a successor start while its predecessor drains: both
write one temporary path, and both `NeverHalfWritten` and `TotalsSpanRestarts`
then fail. No document promises otherwise, so the run keeps it FALSE and the
hazard is listed.

### SettingsWrap

`files` holds the settings and the backup; the text of a file is the number of
the operator's latest edit it contains and what headroom added. A command is
`op` with its next call in `step`; `fs::write` is two steps. `Killed` ends a
command anywhere. The operator edits between commands, but not while the file is
wrapped, since unwrap is documented to restore the file as it was. `spoiled` is
set where the code does lose an edit: killed while the backup is half written,
killed while mcp install or uninstall rewrites the file, and unwrap after mcp
install, whose backup is older than the file. `EditKept` says that there is no
other place.

## 4. The runs

| Run | Instance | Distinct states | What it shows |
|---|---|---|---|
| `in_memory` | 2 threads, 2 originals, ttl 1, clock to 2 | 785,000 | promises are kept, a purge removes only what has expired, and the store implements `CcrPromise`, puts of one original that overlap included |
| `file_store` | 2 putters, a reader, a sweeper; one original; clock from 1 to 2 | 2,367,000 | half is read of no original but one whose temporary two puts have shared, a quiet sweep cleans up after every crash, and the refinement of `CcrPromise` |
| `file_store_torn` | two putters, one reader | | *violated*: `NoTornRead` |
| `prompt_cache` | both dialects, up to 7 messages, one marker anywhere, clients with and without markers on their head, 7 and 4 heads | 52,200 | cached prefixes asked for by the client's own markers stay as they were; automatic caching loses only the newest message; anchors stay; the note never meets the floor; tools that are in order leave as one head or the difference is reported |
| `compression` | 11,000 requests of up to 3 messages in three dialects; then one request with a second caller, two workers, a clock and two failures; then MCP sessions of two lines of eleven kinds beside failures and restarts | 724,000 | a marker that has left can be redeemed at every worker; only live text changes, and how; the session's replies and statistics add up; all of it together implements `CcrPromise` |
| `pipeline` | 31,000 contents and blocks | 153,000 | redeemable, permitted, accounted for, and missing nothing that matters |
| `proxy` | seven deployments with two clients | 807,000 | the burst bound, the truth of what an operator is told, nothing learned that was not tried, the age of a reachability answer, and same request, same bytes |
| `proxy_loop` | the same | | *violated*: `NeverItself` |
| `websocket` | 2 frames a side, room for 1 | 48,600 | order, no loss, delivery without waiting for the other side, Close arrives, the relay ends |
| `response_stream` | up to 3 frames of 3 vocabularies, and bodies | 166,000 | the counters depend on what arrived in full, not on chunks or on who ended the reply; what is held is bounded |
| `ledger` | a proxy and its successors, 4 hours, retention 1, 3 records, 1 error | 55,000 | totals span restarts, nothing is counted twice, the file is bounded, records reach the disk |
| `wrap` | all commands, 3 edits | 5,100 | the last edit survives, a wrap can be undone, an uninstall keeps edits |

Each property is the conjunction a reader would want to argue about, not one
guard restated; the comment above it names the line of the code, or of its
documents, that it speaks of. The type invariants (`TypeOK`) and the inductive
invariants (`IInv`, `RedisIInv`) are definitions of their modules and no
properties of the runs, so that a run is spent on what could be wrong; TLC finds
them invariant when `INVARIANT TypeOK` or `INVARIANT IInv` is added to the
configuration of the module's run. Those that section 5 names are proved.

### Why the bounds are enough

- *in_memory*: a store operation touches one original, and what can go wrong is
  one thread between its two steps while another runs; the proofs remove the
  bound.
- *file_store*: the three files of an original have no relation to those of
  another. Two putters, a reader and a sweeper give every overlap of two puts, a
  get and a sweep, with each of them aborted anywhere. The putters do the same
  things, so they are symmetric (`Alike`); a lookup changes nothing that anybody
  else sees, so what happens after its answer happens in a behaviour without it,
  and is explored there (`UntilAnswered`). The clock starts at 1 and goes to 2 in
  seconds of two ticks: a time and its whole second differ, and the promises of
  two puts differ; what is stored at 1 runs out at 2 and can be stored again
  then, under a get or a sweep that has read the older date. The proofs remove
  the bounds.
- *prompt_cache*: the anchors at 2 and 4 are the first two of the code's
  `[1, 3, 7, 15]` (positions here count from 1), with a limit of two breakpoints
  instead of four, so a conversation goes past the last anchor and has room for
  a turn behind it; four messages is the code's minimum for placing any.
  `Pinned = {0, 2}`: a client has no breakpoints on its system prompt and tools,
  or as many as are allowed in all. `MaxVaried = 1` varies the
  head only while there is one message: head and messages are forwarded
  independently, so a head of a longer conversation shows nothing new.
- *compression*: every message of a dialect in every sequence of up to three
  gives each order of marked, live, frozen and tool messages, twice over what
  the floor and the zone look at (the newest user text, the newest tool output,
  what is before them). One request at a time is enough for the body; the store
  needs the second caller, and of a failure and a late command there is one each
  (`MaxFaults = 2`), with `Ttl = 1` and two ticks so that an entry expires and is
  stored again. Workers are alike: the handler is in a chosen one, the other
  caller in either. Where the MCP server runs there is no request beside it,
  because the two share nothing but the store, whose contract the other instance
  covers. Two lines (`MaxLines = 2`) are the least in which an order exists, and
  they are of every kind that the loop or the properties tell apart, among them
  one that is not UTF-8 and one without an id.
- *pipeline*: the caps of every compressor (`MCLimits`, examples, matches,
  context, budget, ranks) are one or two, and contents have four to six lines,
  or two files of up to six changed lines for a diff, so that each cap is passed
  and missed by one. The floors
  (`MCFloor`) are low enough for such contents to be looked at and high enough
  for some to be declined. Each type of content is enumerated alone, as the
  code treats it alone; every kind of block, mode and recommendation is met by
  the small set of contents that the gates tell apart.
- *proxy*: each workload bounds what may happen of each kind, and together they
  meet every action: seven requests on a limit of two over two windows, three
  admin calls against two requests, four probes of a link that changes three
  times, three requests of one to three blocks that shrink, are declined, fail or
  are never tried, half and whole upgrades, and a second process after a stop or a
  kill. Clients are symmetric.
- *websocket*: with room for one, a socket is full with one frame on the way and
  another in the task's hands, on both sides at once.
- *response_stream*: `MAX_FRAME_BYTES` and `MAX_BUFFERED_BODY` are at sizes that
  one frame or body exceeds and another meets.
- *ledger*: four hours with a retention of one, so buckets leave the window while
  flushes of them are on the way, before and after a restart.
- *wrap*: one edit before a command, one between two and one after.

`CHECK_DEADLOCK FALSE` is set where the system ends: a relay, a reply, a request
or a block that is done, and a proxy whose workload is used up. Bounds on clocks,
records, errors, edits, frames and lines are conjuncts of the guards and named in
the modules.

### Fairness

Two specifications state it, as their liveness properties need it.

- `Fairness` of `WebSocketRelay`, a conjunct of `PumpSpec`: the connection attempt ends, tokio polls a task
  that can go on (`TaskStep` is enabled exactly when its await can resolve),
  `select!` returns when a handle is ready, and a program that is there reads
  its socket. Nothing obliges a program to send, close or vanish, and the leak
  of section 6 is found under this fairness.
- `FairSpec` of `SavingsLedger`: the flush task of a running proxy is scheduled. Each
  tick ends in a rename, an error or the end of the process; errors are finite in
  the instance, which is what "a failed flush is made good by the next" needs.

The other specifications are about safety and state none: nothing in the code
obliges a client, an operator or a provider to go on.

## 5. What is proved

Eight modules hold the proofs; two of them speak of two components each. Every
safety invariant and every action property that a passing run checks, but one, is
the statement of a theorem; `LearnedWasTried` and the four liveness properties
stay with TLC.

`PipelineProofs`, first about the in-memory store, for every set of originals and
threads, every positive ttl and every bound on the clock:

- `TypeCorrect`: `Spec => []TypeOK`.
- `PurgeIsSafe`: `Spec => OnlyExpiredLeave`. A purge compares with a reading of
  the clock that may be old; it is never ahead (`ReadingsNotAhead`), so what it
  takes for expired is expired now.
- `Retention`: `Spec => []IInv`, and from it `AcknowledgedIsHeld`
  (`HeldUntilPromised`) and `MissesAreHonest` (`PromiseKept`).
- `Implementation`: `Spec => ImplementsPromise`: initial states map to initial
  states and every step to a step of `CcrPromise` or to a stutter.

*The argument.* `HeldUntilPromised` alone is not inductive: a `PutInsert` may
carry an older expiry than the one in the map, because the clock is read before
the lock is taken (`in_memory.rs:54`). So a put that is acknowledged may promise
no more than the oldest put of that original still in flight will write
(`Promised`), and `PutsInOrder` says that it does not: no insertion to come is
earlier than what is owed. Once nothing of that original is in flight, its last
put promises all of its ttl. A purge keeps `HeldUntilPromised` by
`ReadingsNotAhead`. For a get, `LookupsInProgress` ties the
history to the thread's state, so that what is owed at the end of a lookup was
held at its beginning: either the entry is still there and live at the older
reading the get uses, or the promise has run out. `OnlyPromisedStored` gives
*found* its meaning in the refinement.

Then about a block and the pipeline, for any contents, policies and limits:

- `BlockInvariant` (`PipelineSpec => []BlockInv`), and from it `RedeemableHolds`
  (`Redeemable`) and `OnlyWhatIsAllowedHolds` (`OnlyWhatIsAllowed`).

*The argument.* What a block may show follows from how far it has come. `Decided`
ties each stage to what the gates before it have let through, `Unchanged` keeps the
original in sight until a stage that may replace it, and `Changed` says for each
form of a change what must have been stored and which transform was chosen; what
the choice says of policy, kind and content is the lemma `RoutedIs`.

- `AccountedHolds` (`Accounted`): every line, hit and record of a content is in its
  summary or in a number the summary gives, and nothing is counted twice.
  `SummaryAccounts` says it of what the six compressors offer, the invariant
  `FromCompressor` that a summary is such an offer for the very content that came in
  (for a document, with the leaves that were shortened).

*The argument.* Each part a compressor writes tells of some lines: the one it
shows, or those its number stands for. A writing pass accounts for everything when
its parts tell of disjoint sets that together are all there is, and `Accounts...`
adds up the numbers of such pieces. What remains is to name, for each compressor,
the set behind each number: the lines left out since the last kept one, the run of
one kind of noise, the hits of a file past its share, the lines of one template.
The recursions of the model are functions over prefixes; for the induction the
provers lack, `NumbersUpTo` takes the set of lengths for which a claim holds, and the
sums, orders and flattened sequences get their lemmas from it.

- `NothingThatMattersHolds` (`NothingThatMatters`): a summary tells a log's failures
  up to their cap, shows a diff's changes but for churn, leaves out of a program what
  is in the bodies of its definitions and nothing else, keeps every tag of prose and
  no line that matters less than one left out, shows the records with an error
  that others lack, and says of all records only what is so of each.
  `SummaryKeepsWhatMatters` says it of what the compressors offer, and the same
  `FromCompressor` carries it to the block.

*The argument* differs from one content to the next.

- *A program.* `BodyLines` walks from definition to definition, and skips all the
  rest after one that is followed by no opening brace; `BodiesOneByOne`, which the
  property is about, looks at every definition. They agree because the definitions
  that are skipped are followed by no opening brace either, and have no body to
  leave out (`WalksAgree`, `NoBraceNoBody`).
- *Prose.* A tag that was opened is on the stack of its name or already protected
  with its partner, whatever comes after it, and what is left on the stacks at the
  end is protected as well (`TagStepProtects`, `TagsAreProtected`). The other lines
  are taken in the order of their weight, so one that is taken matters no less than
  one that is not (`KeptMatterMore`, `RankedIs`).
- *Records.* The statistics cover every field (`StatsAre`), so what a field plan
  says of all is so of each (`SaidIsSo`). An error that at least one record in a
  thousand lacks has a weight of at least a thousandth, which is what its record
  needs to stand out (`RareIs`, `ErrorStandsOut`). If fewer lack it the weight is
  rounded to nothing, and section 6 lists that.
- *Logs and diffs.* The failures that are quoted are the first of them in order
  (`FailuresAreTold`), and a line of a diff that goes is context, churn of white
  space, or of a lockfile (`ChangesAreShown`).

The code tries its conditions in turn, and where they overlap the modules have
IF ... ELSE: a CASE whose guards overlap leaves open which one is taken.
`LogCaps`, `SearchCaps` and `TextCaps` say that the caps are naturals,
`NamesInOrder` that the order of the fields is a sequence of names, and
`CasesAreContents` that a block holds lines or a document whose records have no
field without a place in that order.

`CompressionProofs`, for any originals, workers and callers, any ttl (zero
included) and any number of failures. Its first half is about the store alone:

- `SharedByWorkers`: what a put at any worker has acknowledged is at the server
  until its time is up (`HeldAtServer`), and no worker answers a miss before
  (`PromiseKept`), by the inductive `RedisIInv`.
- `RedisImplementation`: `RedisSpec => ImplementsPromise`.

*The argument.* A command that fails may do anything a command may do, at any
time; what makes that harmless is that it can only extend a life: every stored
expiry is one of a moment that has been, and the server's clock does not run
back (`NothingFromTheFuture`), so a late or repeated `SET` never sets an expiry
earlier than one that was acknowledged (`FateExtends`). `CallsMeanIt` ties an
answer to the key it speaks of, `LookupsPending` and `OnlyLookups` the history to
the call. A put promises the whole of its ttl here whatever overlaps it, unlike in
the process: one clock, at the server, is read when the command is applied.

The second half is about what uses the store:

- `ProxiesKeepThePromise`: requests, the compress endpoint, the retrieval API, an
  MCP server and dying workers together implement `CcrPromise`. The lemma
  `UsesTheStore` shows that each action of `Compression` is a step of
  `RedisCcrStore` or leaves it alone (`McpUsesTheStore` for the MCP server), and
  `RedisImplementation` does the rest.
- `SummariesAreBacked` (`Spec => []IInv`) and, from it, `MarkersAreRedeemable`
  (`MarkersRedeemable`): a marker anybody outside has seen was acknowledged and is
  at the server until its time is up; an MCP server with a store of its own still
  has what it gave away within the last ttl.

*The argument.* A marker leaves in a body, in an answer of the endpoint or in a
line of the session, long after its original was put, so what left is not
inductive by itself. `RequestBacked`, `BlockBacked` and `SessionBacked` follow a
summary from the put's acknowledgement through every hand it passes: an edit is
backed when it is made, `Rebuild` and the notes add no summary that is not among
the edits (`RebuiltBacked`, `NotesBacked`), and a request arrives in the client's
own words. Promises only grow (`PromisesGrow`) and no step
forgets an acknowledgement (`StepsKeepPuts`), so what was backed stays backed.
`WhatArrives` says that a workload consists of bodies a client can send and
`LineForms` that a line is of one of the forms the loop tells apart; a ttl is a
natural number.

Two results are about the requests and the sessions themselves:

- `OnlyLiveTextIsChanged` (`OnlyLiveTextChanges`): what leaves differs from what
  came in texts of the live zone alone, each replaced by a summary of itself or
  followed by the proxy's notes, in the messages' own order;
- `SessionsKeepCount` (`SessionKeepsCount`): as long as the server lives, every
  line that is due a reply by the protocol has it, in order, nothing that is no
  line's is said, and the statistics a session reports are those of its replies. A
  line without an id whose method is not under `notifications/` is nobody's due
  and is answered all the same; the property says of it only that at most one
  reply is its (`Undecided`), and section 6 has the sentence that is not kept.

*The argument.* For the first, `LiveEdits`: while a request is under way, what is
still to be looked at and what has become of it are places above the floor that
hold text or a tool's output (`Places`), and each edit is a summary of that place's
text, or the text tidied, as the mode of the request allows (`Edit`). The zone is a
sequence of places because `InOrder` numbers a finite set of them without a gap
(`PlacesInOrder`), and what is read at a place is what is rewritten there
(`ReadPlace`, `RewrittenTexts`), in all three dialects. `NoTextIsWide` is assumed:
the "none" of a message without text is no text that could be tidied. For the
second, `SessionCounts` says which lines the code answers, those due and those
answered all the same, and what a line in hand still owes: a call is counted when
it is read and a compression when it has come to a summary, so while the thread
waits for the store (`Pending`) the counts are ahead of the replies. What is
answered is more than what is due, and `CountsHold` takes the difference off.

`FileCcrStoreProofs`, for any originals, threads, processes, ticks in a second and
bounds, puts and sweeps dying between any two calls:

- `TypeCorrect`: `Spec => [](TypeOK /\ AtWork)`;
- `SweepsClean` (`SweepCleans`), overlapping puts included;
- `WholeOrNothing` (`TornOnlyWhileShared`): half an original is handed only to
  readers of one whose temporary two puts have had at once, and only until a put
  that had it to itself has renamed it;
- `Implements` (`ImplementsPromise`): every promise is kept, where a put promises
  what the oldest put of that original in flight will write, in whole seconds, and
  a put that has met a sweep promises nothing.

None of them assumes anything of who overlaps whom. What the second half of
`Implements` gives away is the code's: a sweep may remove a body whose date is being
refreshed, and section 6 has the sentence (`AcknowledgedIsThere`).

*The argument.* `AtWork` says what may be open: a put that has opened its
temporary may find it renamed to the body by another put of the same original, and
nothing else moves under anybody. Every proof below rests on it, as a write fills
whatever the handle is on. `OneFileCreated`, `OneFileWritten`, `OneFileRenamed`
and `OneFileRemoved` say what a call leaves alone.

*Nothing is torn* but what is shared, because the temporary of a put that no other
put has met (`sole`) is its own from its creation to its rename (`OwnTemporary`):
it is open and still has its name, or a sweep has removed it and it is not there;
by the rename it is whole or gone. A put that has met another makes its original
one of `shared`, and the next put to rename alone replaces whatever was there. So
bodies that are not shared are whole (`WholeBodies`).

*A sweep cleans* because each file is in one of few places (`Cleaning`): still to
be looked at, about to be removed, about to be dated, or as it should be. The
order matters to nobody: a sidecar seen before its body is left for it, one seen
after the body was doomed goes with it, and a body that is being removed leaves
its sidecar in the list. A body that gets the recovery expiry outlives the sweep,
because `RECOVERY_TTL` is not less than a ttl and a ttl not less than a second,
which is all that truncation can take.

*Promises are kept* although every answer and every removal rests on something
read before: `Kept` is what a promise means on disk, the body there and no earlier
expiry than the one owed. A put removes no body, erases only an expiry it is about
to replace by one no earlier (`PutOwes`), and where its acknowledgement promises
anything no sweep was about since it began (`unswept`). A sweep has in its list only what had run out
(`SweepSpares`): an expiry it read was not earlier than what was owed, and it was
over. What it dates, it dates later than any promise made before it began. A lookup
is judged by what was owed at its start, and promises only grow.

`Second` is positive, a ttl is at least a second and `RECOVERY_TTL` at least a ttl
(both are a day in the code); no path is `NoPath`, no content `NoFile`, no thread
both puts and sweeps at once.

`SavingsLedgerProofs`, for every set of proxies of which one runs at a time
(`Overlap = FALSE`), every retention and all bounds:

- `LedgerInvariant`: `Spec => []IInv`, and from it
- `OldOrNew` (`NeverHalfWritten`), `TotalsSurvive` (`TotalsSpanRestarts`),
  `NothingTwice` (`CountedOnce`) and `GrowthIsBounded` (`FileBounded`).

*The argument.* A rename publishes whatever is at the temporary path, so
`NeverHalfWritten` needs `SavesThroughTemporary`: before the rename that file is
the whole clone, and no other file is ever open. That holds because nobody else
writes there, which is `OneRuns` with `StoppedHoldNothing`. The file is replaced
and not added to, so `TotalsSpanRestarts` needs `MemoryAhead`: what is on disk is
also in memory and in the clone on its way, from the first hour of the retention
window on; the window only moves forward (`FloorRises`) and pruning touches
nothing inside it. `CountedOnce` needs the same bound for the clone. The
assumptions are that a truncated file is not a ledger and that the bounds are
naturals.

`RelayProofs`, first about the WebSocket relay, for any frames, any number of them
and any room:

- `PipeInvariant`: `PumpSpec => []PumpInv`, and from it `PipeIsFaithful`
  (`FaithfulPipe`): what one end has taken is the beginning of what the other has
  said, in its order, nothing twice and nothing changed.

*The argument.* A frame is in a socket, in the hands of a task or delivered.
`NothingAstray` puts these in a row: received, then the outbox, then what the
task holds, then the inbox is the whole of what was said, as long as the task
lives, and the beginning of it after. Each step moves one frame across one of
the borders; `TasksBorn` says a task has nothing in hand before it exists.

Then about `ResponseStream`, for any frames and bodies of the three vocabularies,
any cuts into chunks and any bounds:

- `FramesTakenWhole`: fed whatever has arrived since, the parser takes exactly
  the frames that have arrived in full and holds the part of the next one;
- `StreamInvariant` (`Spec => []StreamInv`), and from it `UsageCountedHolds`
  (`UsageCounted`), `FailureCountedHolds` (`FailureCounted`) and
  `HeldBytesBoundedHolds` (`HeldBytesBounded`).

*The argument.* `Drained` is a recursion over bytes, and a chunk may end anywhere,
inside a line terminator too. `FrameAssumption` says what the frames of an
instance are: each ends in its first blank line. From it `FrameFirst` and
`NoFrameYet` say where the parser finds the end of a frame that is followed by
others, or none; `Held` and `Complete` are functions of the bytes that have
arrived and of nothing else, and `FeedTakes` is one call of the parser in these
terms. In `StreamInv`, `Watched` says so of an event stream that has not
overflowed, `Gathered` of any other body, and `Counted` that the counters hold
nothing while the reply is open and afterwards, once, what the observer had seen.

`SettingsWrapProofs`, for any settings, paths and commands and any number of
edits and kills:

- `WrapInvariant`: `Spec => []IInv`, and from it `LatestEditKept` (`EditKept`),
  `WrapIsUndoable` (`WrapCanBeUndone`) and `UninstallIsAnEdit`
  (`UninstallKeepsEdits`).

*The argument.* Between two of its writes a command is the only place that holds
the latest edit, so `InHand` ties each step to the command it can belong to, the file it has open and
the settings it has in hand. Unless `spoiled`, whole settings are the latest edit
(`SettingsLatest`), so is what a command has read of them (`OriginalLatest`), and
so is the backup of a wrap from when it is whole until it is removed
(`BackupLatest`); in each state one of the three is at hand. `TextAssumption` keeps an empty file and a missing
one apart from settings, `PathAssumption` no path from a path.

`PromptCacheProofs`, for any conversations, floors, markers, anchors and heads of
both dialects:

- `CacheInvariant`: `Spec => []IInv`, and from it `MarkersProtectTheCache`
  (`MarkedPrefixStaysCached`), `AutomaticCachingKept` (`OnlyNewestMissed`),
  `AnchorsAreKept` (`AnchorsStay`) and `NotesStayAboveTheFloor`
  (`NoteNeverMeetsFloor`);
- `MissesAreReported` (`HeadMissIsReported`): of two requests with the same tools,
  whose heads are the same but for a value of a kind the scan recognises in either, both
  leave alike or the difference is reported. What the scan does not recognise
  is no part of the claim, and is a miss nobody reports.

*The argument.* The properties compare two requests of which the earlier one is
history. `WatchedWasSent` keeps how the watched bytes came about: what a client
marked was below the floor of the request that had it cached and left as it came;
where caching is automatic, what left is what compression makes of the client's
messages, of which only the newest is live. A later request that asks for the
prefix has it below its own floor, and one that goes on repeats the messages, so
in either case the same function is applied to the same blocks. Anchors are
positions, and a request that is at least as long as an earlier one gets the same. `AnswerAssumption`,
that an assistant's message holds no tool output, is used for the note alone:
providers refuse such a message. For the head, two requests with the same tools in
different orders have to leave alike, although the code writes nothing where the
sort changes nothing: with names that differ, the place of a tool depends on the
set of names alone (`SameRank`), so both sorts end in one sequence
(`SortedAlike`), and a request that was left alone was in that order already
(`CanonicalIsSorted`).

`ProxyProofs`, for any clients, requests, deployments, limits, windows and bounds:

- `ProxyInvariant`: `Spec => []IInv`, whose parts do not need each other but for
  `Shaped`, the shapes of the process and its calls (a call is served by a process
  that is up or draining);
- `LimiterHolds` (`WithinBurst`), from `Limiting`;
- `AnswersAreRecent` (`ReachabilityRecent`), from `Probing`;
- `BytesAreTheSame` (`SameBytes`), from `Determined`;
- `OperatorIsToldTheTruth` (`OperatorIsTold`), from `CountedFirst` and `UpToDate`.

*The argument for the limiter.* That a stretch lets no more than twice the limit
through is not inductive: it does not say what the bucket may still give. `Limited`
speaks of the curve of all that was let through before each tick: tokens and what
was let through since the refill make up the limit; nothing was let through once
that window was over, because the bucket is refilled before a token is taken from
it; and any stretch that ends in the refill let no more than one limit through. A
stretch across the refill is then one limit before it and one after. The four
lemmas `Limited...` keep this through a start, time, a refill by whole windows
and a token taken, and know nothing of the proxy.

*For the probes*, the link was in the state a probe will report at some moment
since the probe began, and in the one that is cached no longer before it was
cached than a probe may take (`ProbeHolds`); a probe that is written late over a
newer answer is covered, as its own beginning bounds its age.

*For the bytes*, `Underway` says at each step of a handler which part of the body
has been decided, and by what: the request, the setting as the handler read it at
that step, and what the process pinned at its start. Nothing else can enter, so
two requests that agree in those, and whose same blocks have failed, agree in the
body; headers and target are
functions of the request and of the process.

*For what the operator is told*, one invariant for each thing that is told.
`CountedFirst`: the requests that were let through and those that still wait are no
more than the requests counted, because a request is counted before it asks the
bucket. Its other half is `Balanced`, the books of `/metrics` and the ledger, which
still balance within a step that has routed a block and not yet counted its
request. `UpToDate`: the settings a handler has read are among those in force at
some moment since its request came in. Nothing is assumed of what is imported: TOIN
takes any document of the right form, and what it has learned is no part of this.

`SizeAssumption` says that sizes are naturals and that the blocks of a request have
them. `LimitAssumption` is a default limit above zero, which the code has as a
constant; a limit that is configured may be anything and `rate_limit` makes it
positive. `WorkloadAssumption` says that `RATE_LIMIT` is unset, a number or
garbage, `WindowAssumption` and `ProbeAssumption` that durations are positive.

*Only model-checked*, and why:

- `LearnedWasTried`: it compares counters that different steps of several requests
  write with sums over the patterns learned so far. Sums over a set that grows
  take an induction over its elements for each of them; they are left to TLC, for
  which one to three blocks in each of three requests are small;
- `EveryFrameArrives`, `CloseArrives` and `EitherEndEndsRelay` of the relay and
  `RecordsReachDisk` of the ledger: liveness under fairness is beyond the prover.

## 6. Where the code and its documents disagree

Two runs show a violation; `findings` in `PROJECT.json` describes them. They are
the temporary file that two puts of one original share (`file_store_torn`) and
the guard against a proxy that is its own upstream, which a socket gets round
(`proxy_loop`).

These properties are stated in their modules, quote the sentence they are about,
and fail; add one to the configuration of the module's run to see how:

| Property | Module | The sentence | What the code does |
|---|---|---|---|
| `WithinBreakpointLimit` | `PromptCache` | `stabilization.rs:161` a breakpoint on every anchor "stays within the provider's limit" | only breakpoints on messages are counted; a client that has its own on system prompt or tools gets more than the limit |
| `RefreshNeverShortens` | `InMemoryCcrStore` | `mod.rs:62` "retrievable for at least `ttl`", of every put by itself | the clock is read before the lock, so a put that overlaps may write an older expiry over a newer one |
| `AcknowledgedIsThere` | `FileCcrStore` | `mod.rs:62` the same, of a put that returned while a sweep was under way | a put that finds the body only writes its sidecar; a sweep that has seen the old one removes both |
| `NotificationsUnanswered` | `McpServer` | `protocol.rs:19` an id is "absent for notifications, which expect no reply" | only methods under `notifications/` go unanswered; any other line without an id gets a reply with a null id |
| `AnchoredPrefixStaysCached` | `PromptCache` | `stabilization.rs:111` "every prefix that was cached stays cached" | breakpoints are placed on the forwarded body only; the next request comes without them and its live zone may reach before an anchor |
| `SameToolsSameHead` | `PromptCache` | `stabilization.rs:4` a client "serialized its tool array in a different order, or emitted JSON Schema keys differently" | the comparison at line 96 ignores the order of keys, so tools that are in order by name leave as they came; tools of chat completions have no name at the top level and are never sorted |
| `KeyNamesConversation` | `PromptCache` | `openai.rs:143` the key "has to be identical across the turns of one conversation" | it hashes every message but the newest, and a turn adds to those |
| `FirstTearsDownOther` | `WebSocketRelay` | `websocket.rs:27` "the first one to finish tears down the other" | dropping a tokio `JoinHandle` detaches its task |
| `KilledWrapLosesNothing` | `SettingsWrap` | `commands.rs:1702` recover "restores agent settings a killed `wrap` left behind" | killed inside the write of the backup, wrap leaves half a backup, which is restored over intact settings |
| `SubscriptionUntouched` | `Compression` | `README.md:126` "a subscription session token gets nothing" | the verbosity note is appended in every mode (`compression.rs:445`) |
| `AppliedIsInForce` | `Proxy` | `admin.rs:161` settings read once are reported as in need of a restart | `MAX_BYTES` and `MAX_LINES` are read once and not on the list (`config.rs:118`) |
| `LedgerDescribesTraffic` | `Proxy` | `server.rs:557` the two counts "cannot describe different traffic" | the OpenAI handlers, passthrough and sockets count in `/metrics` alone |

Noticed while translating, and modelled as the code has it:

- two proxies on one ledger write one temporary, and a shutdown does not flush;
- runtime overrides are lost at a restart, and `AdminApply` applies what was
  checked against a configuration that may have changed since;
- a socket is neither limited nor sanitized, and loses the request's path;
- a token bucket that is reset in whole windows lets twice its capacity through
  across a boundary (`WithinBurst` states the bound that does hold);
- `headroom_tokens_saved_total` is exported as a counter and can fall, because a
  request that grows is subtracted;
- `merge` adds, so an import that is retried counts everything again;
- a backend failure of the store is reported as an expired marker
  (`retrieve.rs`), and a rewritten message loses the client's whitespace
  (`body.rs`);
- an error field that every record has and no two share is an identifier to the
  planner, so "error fields are always preserved verbatim" has an exception
  (`NothingThatMatters` says which); of more than a thousand records, so has one
  that all but a few of them have, whose weight is rounded to nothing
  (`outliers.rs:244`, and `:174` drops what has none);
- the hunks of a deletion (`+++ /dev/null`) belong to the file named before them
  in the diff compressor, and are dropped as churn if that was a lockfile;
- where the opening brace of a body has a line of its own, the code compressor
  elides that line with the body and keeps the closing one;
- a line to the MCP server that is not UTF-8 ends the process (`main.rs:135`), where
  any other line it cannot read gets an error reply (`main.rs:142`);
- usage in a last frame without its blank line is lost, since the relay never
  calls `finish`.

## 7. What is not modelled

- *Tokenizers*: counting by vocabulary tables and estimates. The models speak of
  token counts as given sizes; a property of the counts would hold by the shape
  of the model. The registry's prefix lookup keeps no state.
- *Arithmetic of relevance*: of BM25 the rarity of a term is kept and the
  logarithm, saturation and length are not; confidences of detection are what
  detection decides by; embeddings are an external model.
- *Recognition inside a line*: which characters make a timestamp, a stack frame,
  a keyword or a tag. A line is a record of the answers.
- *Code no request reaches*: the lossless `TextCrusher`, `find_markers`, `SharedContext`, `analyzer::classify` and
  `Shape`, `is_removable`, `keep_most_important`, `breaks_markup`. They keep no
  state.
- *I/O shells*: the queries of the linked database, the launcher, the doctor,
  report and benchmark commands, the agents' environment, the schemas of the MCP
  tools, the Python bindings.
- *Test tooling*: parity, simulators, scripts.
- Inside modelled parts: hashes are taken as injective; prices and models of the
  ledger are left out; the handshake of a WebSocket is one step; headers are
  classes of header; the size limit of a body, TLS and connection pools are the
  environment; disks obey `rename` as POSIX describes it, and power loss (as
  opposed to the death of a process) is not considered, although the code calls
  `sync_all`.
