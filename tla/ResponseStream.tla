---------------------------- MODULE ResponseStream ----------------------------
(***************************************************************************)
(* One reply of a provider on its way to the client, watched as it passes: *)
(* ObservingStream (headroom-proxy/src/observe.rs), the frame parser and   *)
(* the observers under src/sse, and the counters of Metrics they feed.     *)
(*                                                                         *)
(* The provider sends frames; what arrives are chunks, cut anywhere.  The  *)
(* client may go away between any two polls, the transport may fail, and   *)
(* the provider may stop after any byte.  What the proxy counted once the  *)
(* reply is gone must not depend on any of that, but only on the frames    *)
(* that had arrived in full.                                               *)
(*                                                                         *)
(* A byte is a line terminator or a piece of a line.  Every count a        *)
(* provider reports is 1.                                                  *)
(***************************************************************************)
EXTENDS Naturals, Sequences, SequencesExt, FiniteSetsExt

CONSTANTS
    Dialects,         \* the vocabularies: "anthropic", "chat", "responses"
    Streams,          \* Streams[d]: the event streams a provider may send, as frames
    Bodies,           \* the replies that are no event stream, as bytes
    MaxFrameBytes,    \* MAX_FRAME_BYTES
    MaxBufferedBody   \* MAX_BUFFERED_BODY

CR == "CR"
LF == "LF"

ASSUME DialectAssumption == Dialects \subseteq {"anthropic", "chat", "responses"}
\* "none" is no byte: it marks that there is no body (NoBody below).
ASSUME StreamAssumption ==
    /\ Streams \in [Dialects -> SUBSET Seq(Seq(STRING))]
    /\ Bodies \subseteq Seq(STRING \ {"none"})
ASSUME BoundAssumption == MaxFrameBytes \in Nat /\ MaxBufferedBody \in Nat

VARIABLES
    dialect,     \* Observer::for_path
    frames,      \* what the provider sends: its frames, or one that is the whole body
    arrived,     \* how many bytes of it have been yielded to the client
    phase,       \* the reply is open, has ended, has failed, or was dropped
    buffered,    \* the body so far; NoBody for an event stream
    buffer,      \* SseParser: the bytes of the frame that is not complete
    overflowed,  \* SseParser: has it given up?
    observer,    \* StreamObserver, OpenAiObserver or ResponsesObserver
    recorded,    \* has record run?
    metrics,     \* the counters of Metrics this reply has moved
    broken       \* history: did the transport fail?

vars == <<dialect, frames, arrived, phase, buffered, buffer, overflowed,
          observer, recorded, metrics, broken>>

NoBody == <<"none">>
EventStream == buffered = NoBody
Bytes == FlattenSeq(frames)

NothingSeen ==
    [read |-> 0, creation |-> 0,    \* tokens of the prompt cache
     prose |-> 0, thinking |-> 0,   \* deltas, told apart
     calls |-> {},                  \* the tool calls, by index
     completed |-> FALSE, failure |-> FALSE,
     unknown |-> {}]                \* unknown_types, each once

TypeOK ==
    /\ dialect \in Dialects
    /\ arrived \in 0..Len(Bytes)
    /\ phase \in {"open", "ended", "failed", "dropped"}
    /\ EventStream \/ buffered \in Seq(STRING)
    /\ {overflowed, recorded, broken} \subseteq BOOLEAN
    /\ overflowed => buffer = <<>>
    /\ DOMAIN observer = DOMAIN NothingSeen
    /\ metrics \in [read: Nat, creation: Nat, errors: Nat]

\* with_framing: what the content-type of the reply says is taken to be so.
Init ==
    /\ dialect \in Dialects
    /\ \/ frames \in Streams[dialect] /\ buffered = NoBody
       \/ \E b \in Bodies: frames = <<b>> /\ buffered = <<>>
    /\ arrived = 0 /\ phase = "open"
    /\ buffer = <<>> /\ overflowed = FALSE
    /\ observer = NothingSeen
    /\ recorded = FALSE /\ broken = FALSE
    /\ metrics = [read |-> 0, creation |-> 0, errors |-> 0]

-----------------------------------------------------------------------------
(***************************************************************************)
(* The frames of a stream                                                  *)
(***************************************************************************)
\* The length of the terminator that starts at i, or 0.
TerminatorAt(b, i) ==
    CASE IsPrefix(<<LF, LF>>, SubSeq(b, i, Len(b))) -> 2
      [] IsPrefix(<<CR, LF, CR, LF>>, SubSeq(b, i, Len(b))) -> 4
      [] OTHER -> 0

\* next_frame: the length of the first complete frame, or 0.
NextFrame(b) ==
    LET ends == {i \in DOMAIN b: TerminatorAt(b, i) > 0}
    IN  IF ends = {} THEN 0 ELSE Min(ends) - 1 + TerminatorAt(b, Min(ends))

\* What a provider sends as a frame has its blank line at the end and none before.
ASSUME FrameAssumption ==
    \A d \in Dialects: \A s \in Streams[d]: \A k \in DOMAIN s:
        s[k] # <<>> /\ NextFrame(s[k]) = Len(s[k])

\* The loop of feed: every complete frame is taken off the front.
Drained[b \in Seq(STRING)] ==
    LET n == NextFrame(b)
    IN  IF n = 0 THEN [frames |-> <<>>, rest |-> b]
        ELSE LET after == Drained[SubSeq(b, n + 1, Len(b))]
             IN  [frames |-> <<SubSeq(b, 1, n)>> \o after.frames, rest |-> after.rest]

\* parse_frame: the fields of a frame.  Comments are none, and a keep-alive has no other.
Fields(frame) == ToSet(frame) \ {CR, LF, ":"}

Count(P) == IF P THEN 1 ELSE 0

\* cache_from_usage: a field that is absent reads as none, and counts as zero.
CacheFromUsage(fields) ==
    [read |-> Count("read" \in fields), creation |-> Count("creation" \in fields)]

WithCache(seen, fields) ==
    [seen EXCEPT !.read = @ + CacheFromUsage(fields).read,
                 !.creation = @ + CacheFromUsage(fields).creation]

\* What is content of an event, and no name of one.
Payload ==
    {"read", "creation", "null usage", "text", "thinking", "signature", "input_json",
     "citations", "novel delta", "call 0", "call 1"}

Names(event) == event \ Payload

(***************************************************************************)
(* Anthropic: the usage of the cache opens the message; the deltas of a    *)
(* block are of six kinds and two of them are counted.                     *)
(***************************************************************************)
AnthropicEvents ==
    {"message_start", "content_block_start", "content_block_delta",
     "content_block_stop", "message_delta", "message_stop", "ping", "error"}

StreamObserver(seen, event) ==
    LET opened == IF "message_start" \in event THEN WithCache(seen, event) ELSE seen
        Delta(kind) == Count({"content_block_delta", kind} \subseteq event)
    IN  [opened EXCEPT
            !.prose = @ + Delta("text"), !.thinking = @ + Delta("thinking"),
            !.completed = @ \/ event \cap {"message_stop", "[DONE]"} # {},
            !.failure = @ \/ "error" \in event,
            !.unknown = @ \cup (Names(event) \ (AnthropicEvents \cup {"[DONE]"}))]

(***************************************************************************)
(* Chat completions: an error is looked for first, then a usage that is an *)
(* object and not null, and only then content.  No event has a name.       *)
(***************************************************************************)
OpenAiEvent(event) ==
    IF "[DONE]" \in event THEN "done"
    ELSE IF "error" \in event THEN "error"
    ELSE IF "usage" \in event THEN "usage"
    ELSE IF "choices" \in event THEN "chunk" ELSE "other"

OpenAiObserver(seen, event) ==
    CASE OpenAiEvent(event) = "done" -> [seen EXCEPT !.completed = TRUE]
      [] OpenAiEvent(event) = "error" -> [seen EXCEPT !.failure = TRUE]
      [] OpenAiEvent(event) = "usage" -> WithCache(seen, event)
      [] OpenAiEvent(event) = "chunk" ->
            [seen EXCEPT !.prose = @ + Count("text" \in event),
                         !.calls = @ \cup (event \cap {"call 0", "call 1"})]
      [] OTHER -> seen

(***************************************************************************)
(* Responses: the usage comes with the terminal event, also when that says *)
(* failed, incomplete or cancelled, which is over and no success.          *)
(***************************************************************************)
Terminated == {"response.failed", "response.incomplete", "response.cancelled"}

ResponsesEvents ==
    Terminated \cup
    {"response.created", "response.completed", "response.output_text.delta",
     "response.output_text.done", "response.reasoning_summary_text.delta",
     "response.function_call_arguments.delta", "response.function_call_arguments.done",
     "response.output_item.added", "response.error", "error"}

ResponsesObserver(seen, event) ==
    LET over == event \cap (Terminated \cup {"response.completed"}) # {}
        ended == IF over THEN WithCache(seen, event) ELSE seen
    IN  [ended EXCEPT
            !.completed = @ \/ over,
            !.failure = @ \/ event \cap (Terminated \cup {"response.error", "error"}) # {},
            !.prose = @ + Count("response.output_text.delta" \in event),
            !.thinking = @ + Count("response.reasoning_summary_text.delta" \in event),
            !.calls = @ \cup IF "response.function_call_arguments.delta" \in event
                             THEN event \cap {"call 0", "call 1"} ELSE {},
            !.unknown = @ \cup (Names(event) \ ResponsesEvents)]

(***************************************************************************)
(* Observer::observe for one frame.  A keep-alive has no fields and is no  *)
(* event.                                                                  *)
(***************************************************************************)
Observe(vocabulary, seen, frame) ==
    LET event == Fields(frame)
    IN  CASE event = {} -> seen
          [] event # {} /\ vocabulary = "anthropic" -> StreamObserver(seen, event)
          [] event # {} /\ vocabulary = "chat" -> OpenAiObserver(seen, event)
          [] event # {} /\ vocabulary = "responses" -> ResponsesObserver(seen, event)

\* The loop over the events of a feed.
Observed(vocabulary, seen, events) ==
    FoldLeft(LAMBDA before, frame: Observe(vocabulary, before, frame), seen, events)

-----------------------------------------------------------------------------
(***************************************************************************)
(* poll_next and drop                                                      *)
(***************************************************************************)
\* FAULT for Feed: the bound is applied before the complete frames are taken out.
FeedBounded(chunk) ==
    LET b == buffer \o chunk
        over == overflowed \/ Len(b) > MaxFrameBytes
        taken == Drained[b]
    IN  /\ overflowed' = over
        /\ observer' = IF over THEN observer ELSE Observed(dialect, observer, taken.frames)
        /\ buffer' = IF over THEN <<>> ELSE taken.rest

(***************************************************************************)
(* SseParser::feed and the loop over its events.  After an overflow every  *)
(* feed is a no-op.                                                        *)
(***************************************************************************)
Feed(chunk) ==
    IF overflowed THEN UNCHANGED <<buffer, overflowed, observer>>
    ELSE LET taken == Drained[buffer \o chunk]
         IN  /\ observer' = Observed(dialect, observer, taken.frames)
             /\ overflowed' = (Len(taken.rest) > MaxFrameBytes)
             /\ buffer' = IF overflowed' THEN <<>> ELSE taken.rest

\* FAULT for Accumulate: the length is compared before the chunk is added.
AccumulateLate(chunk) ==
    buffered' = IF Len(buffered) <= MaxBufferedBody THEN buffered \o chunk ELSE buffered

\* A chunk that does not fit is left out, and the next one may fit again.
Accumulate(chunk) ==
    buffered' = IF Len(buffered) + Len(chunk) <= MaxBufferedBody
                THEN buffered \o chunk ELSE buffered

(***************************************************************************)
(* cache_tokens_in_body: a whole body says its usage, a beginning of one   *)
(* is not JSON, and one with a hole in it may be or not.                   *)
(***************************************************************************)
InBody ==
    LET reported == CacheFromUsage(ToSet(Bytes))
    IN  CASE buffered = Bytes -> {reported}
          [] IsStrictPrefix(buffered, Bytes) -> {CacheFromUsage({})}
          [] OTHER -> {reported, CacheFromUsage({})}

CacheTokens == [read |-> observer.read, creation |-> observer.creation]

\* record, at most once, after `errors` have been counted.
Record(errors) ==
    /\ recorded' = TRUE
    /\ IF recorded THEN metrics' = [metrics EXCEPT !.errors = @ + errors]
       ELSE \E cache \in IF EventStream THEN {CacheTokens} ELSE InBody:
               metrics' = [read |-> metrics.read + cache.read,
                           creation |-> metrics.creation + cache.creation,
                           errors |-> metrics.errors + errors + Count(observer.failure)]

Leave(to) ==
    /\ phase' = to
    /\ broken' = (broken \/ to = "failed")
    /\ UNCHANGED <<dialect, frames, arrived, buffered, buffer, overflowed, observer>>

\* Some(Ok(bytes)): observed, and yielded as it came.
Chunk(n) ==
    LET chunk == SubSeq(Bytes, arrived + 1, arrived + n)
    IN  /\ phase = "open"
        /\ arrived' = arrived + n
        /\ IF EventStream
           THEN Feed(chunk) /\ UNCHANGED buffered
           ELSE Accumulate(chunk) /\ UNCHANGED <<buffer, overflowed, observer>>
        /\ UNCHANGED <<dialect, frames, phase, recorded, metrics, broken>>

\* None: the provider has closed, perhaps in the middle of a frame.
Ends == phase = "open" /\ Record(0) /\ Leave("ended")

\* FAULT for Fails: only what the provider said counts as a failure.
FailsUncounted == phase = "open" /\ Record(0) /\ Leave("failed")

\* Some(Err(err)): a stream error, whatever the provider had said.
Fails == phase = "open" /\ Record(1) /\ Leave("failed")

\* drop: at the end, or because the client has gone away.
Dropped == phase # "dropped" /\ Record(0) /\ Leave("dropped")

Next ==
    \/ \E n \in 1..(Len(Bytes) - arrived): Chunk(n)
    \/ Ends \/ Fails \/ Dropped

Spec == Init /\ [][Next]_vars

-----------------------------------------------------------------------------
\* The frames of which every byte has arrived, and what they say.
Delivered ==
    SubSeq(frames, 1, Max({0} \cup {k \in DOMAIN frames:
                                       Len(FlattenSeq(SubSeq(frames, 1, k))) <= arrived}))

Reported ==
    IF EventStream THEN Observed(dialect, NothingSeen, Delivered)
    ELSE WithCache(NothingSeen, ToSet(Bytes))

\* The replies the two bounds do not touch.
Moderate ==
    IF EventStream THEN \A k \in DOMAIN frames: Len(frames[k]) <= MaxFrameBytes
    ELSE Len(Bytes) <= MaxBufferedBody

(***************************************************************************)
(* "A cancelled stream still counts" and no stream counts twice            *)
(* (observe.rs:22): when a reply is gone, however it was cut into chunks   *)
(* and whoever ended it where, Metrics has the usage of the frames that    *)
(* had arrived in full, once, and never more, also past the bounds.  So    *)
(* has the observer all they said: the deltas, the tool calls, whether the *)
(* reply was complete, and what was not understood.  The usage of a body   *)
(* is there if all of it arrived.                                          *)
(***************************************************************************)
UsageCounted ==
    phase = "dropped" =>
        /\ metrics.read <= Reported.read
        /\ metrics.creation <= Reported.creation
        /\ Moderate /\ EventStream => observer = Reported
        /\ Moderate /\ (EventStream \/ arrived = Len(Bytes))
               => /\ metrics.read = Reported.read
                  /\ metrics.creation = Reported.creation

(***************************************************************************)
(* A stream that ended in an error is never invisible, and one that did    *)
(* not is never counted as one (observe.rs:108, metrics.rs:152).  One that *)
(* reports an error and then breaks as well is counted twice.              *)
(***************************************************************************)
FailureCounted ==
    phase = "dropped" /\ Moderate =>
        /\ metrics.errors > 0 <=> broken \/ Reported.failure
        /\ metrics.errors > 1 => broken /\ Reported.failure

(***************************************************************************)
(* What a reply makes the proxy hold between two chunks is bounded, however*)
(* long its frames are and however many bytes come (framing.rs:48).        *)
(***************************************************************************)
HeldBytesBounded ==
    /\ Len(buffer) <= MaxFrameBytes
    /\ ~EventStream => Len(buffered) <= MaxBufferedBody
=============================================================================
