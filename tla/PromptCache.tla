---------------------------- MODULE PromptCache ----------------------------
(***************************************************************************)
(* One conversation on its way through the proxy, request by request, and  *)
(* the prompt cache the provider keeps of what the proxy forwarded.        *)
(*                                                                         *)
(* The client resends its whole conversation with every request and never  *)
(* sees what the proxy made of it, so nothing the proxy did to an earlier  *)
(* request is in the next one.  compress_dialect rewrites blocks of the    *)
(* live zone, memory and verbosity append to the newest user text, and     *)
(* stabilize places breakpoints, all of it on one body at a time.  What    *)
(* must hold relates the bodies of different requests: a prefix the        *)
(* provider has cached must come back unchanged.                           *)
(*                                                                         *)
(* Positions count from 1 where the code's indices count from 0: floor f   *)
(* freezes the positions 1..f in both.  A compressor's output is a         *)
(* function of the block and, for tool output, of the query (I4).          *)
(***************************************************************************)
EXTENDS Naturals, Sequences, FiniteSets, FiniteSetsExt

Zone == INSTANCE HotZone

CONSTANTS
    Dialects,        \* the request shapes: "anthropic", "openai"
    Openings,        \* Openings[d]: the first requests of a conversation
    Turns,           \* Turns[d]: what a client may add from one request to the next
    Heads,           \* Heads[d]: how the client may serialize its tools and instructions
    MaxVaried,       \* bound on the length of a conversation while it does so differently each time
    Stabilization,   \* the values HEADROOM_STABILIZE may have
    Appends,         \* is a memory file or a verbosity configured?
    Anchors,         \* ANCHORS
    MaxBreakpoints,  \* MAX_BREAKPOINTS
    Pinned,          \* how many breakpoints a client may have on its system prompt and tools
    MaxMarks,        \* bound on the messages a client marks in one request
    MaxMessages      \* bound on the length of the conversation

(***************************************************************************)
(* The blocks of a message: text that no compressor shrinks, pasted text   *)
(* that one does, tool output likewise, a tool call and a thinking block.  *)
(***************************************************************************)
Text == {"prose", "paste"}
ToolOutput == {"brief", "bulk"}
Shrinkable == {"paste", "bulk"}
Kinds == Text \cup ToolOutput \cup {"call", "thinking"}
Message == [role: {"user", "assistant", "tool"}, blocks: Seq(Kinds)]

ASSUME DialectAssumption ==
    /\ Dialects \subseteq {"anthropic", "openai"}
    /\ Openings \in [Dialects -> SUBSET Seq(Message)]
    /\ Turns \in [Dialects -> SUBSET Seq(Message)]
\* What a client serializes before the messages, or at the front of them.
Places == {"system", "tools", "instructions", "system message", "developer message", "user message"}
Before == [tools: Seq(Zone!Tool), place: Places,
           value: [form: STRING, class: STRING, at: Nat]]
ASSUME HeadAssumption == \A d \in Dialects: Heads[d] \in Seq(Before) /\ Heads[d] # <<>>
\* Providers refuse a tool's output in a message of the assistant's.
ASSUME AnswerAssumption ==
    \A d \in Dialects: \A ms \in Openings[d] \cup Turns[d]: \A i \in DOMAIN ms:
        ms[i].role = "assistant" => \A j \in DOMAIN ms[i].blocks: ms[i].blocks[j] \notin ToolOutput
ASSUME AnchorAssumption ==
    /\ Anchors \subseteq Nat \ {0}
    /\ IsFiniteSet(Anchors)
    /\ MaxBreakpoints \in Nat
    /\ Cardinality(Anchors) <= MaxBreakpoints
ASSUME OptionAssumption ==
    /\ Stabilization \subseteq BOOLEAN
    /\ Appends \in BOOLEAN
    /\ Pinned \subseteq Nat
    /\ MaxMarks \in Nat /\ MaxMessages \in Nat

VARIABLES
    dialect,     \* of the conversation
    stabilized,  \* is stabilization switched on?
    pinned,      \* the breakpoints the client has outside its messages
    messages,    \* the client's latest request
    head,        \* the tools and instructions before it
    marks,       \* the messages of it the client marked with cache_control
    watched      \* one of the prefixes the provider has cached: any of them, chosen once

vars == <<dialect, stabilized, pinned, messages, head, marks, watched>>

Newest(S) == IF S = {} THEN 0 ELSE Max(S)
Positions == 1..Len(messages)

-----------------------------------------------------------------------------
(***************************************************************************)
(* What may be touched                                                     *)
(***************************************************************************)
\* FAULT for FrozenFloor: the marked message itself is not frozen.
FrozenFloorBelowMarker ==
    IF dialect = "anthropic"
    THEN IF marks = {} THEN 0 ELSE Newest(marks) - 1
    ELSE Len(messages) - 1

\* FAULT for FrozenFloor: the marker rule applied to automatic caching.
FrozenFloorByMarkersOnly == Newest(marks)

(***************************************************************************)
(* Dialect::frozen_floor: up to and including the last marker, or, where   *)
(* the provider caches without being asked, every message but the newest.  *)
(***************************************************************************)
FrozenFloor ==
    IF dialect = "anthropic" THEN Newest(marks) ELSE Len(messages) - 1

\* FAULT for FromUser: a tool's message is nobody's.
FromUserAlone(message) == message.role = "user"

\* Anything but an assistant message is read as Role::User.
FromUser(message) == message.role # "assistant"

\* categorize
Category(message, kind) ==
    CASE kind \in ToolOutput -> "tool"
      [] kind \in Text /\ FromUser(message) -> "text"
      [] OTHER -> "none"

BlocksOf(message) == {message.blocks[j]: j \in DOMAIN message.blocks}

(***************************************************************************)
(* live_zone: above the floor, the text of the newest user message and     *)
(* every tool output of the newest message that has any.                   *)
(***************************************************************************)
LiveZone(ms, floor) ==
    LET above == {i \in DOMAIN ms: i > floor}
        text == Newest({i \in above: FromUser(ms[i])})
        tool == Newest({i \in above: BlocksOf(ms[i]) \cap ToolOutput # {}})
        category(l) == Category(ms[l[1]], ms[l[1]].blocks[l[2]])
    IN  {l \in UNION {{i} \X DOMAIN ms[i].blocks: i \in above}:
            \/ category(l) = "text" /\ l[1] = text
            \/ category(l) = "tool" /\ l[1] = tool}

(***************************************************************************)
(* conversation_query: the newest user text and the newest tool call's     *)
(* arguments.  In the OpenAI shape every message that is not an            *)
(* assistant's has a plain string for content, a tool's output included,   *)
(* and counts as text a person wrote.                                      *)
(***************************************************************************)
HasText(message) ==
    FromUser(message) /\ (dialect = "openai" \/ BlocksOf(message) \cap Text # {})

Query(ms) ==
    LET asking == Newest({i \in DOMAIN ms: HasText(ms[i])})
        calling == Newest({i \in DOMAIN ms: "call" \in BlocksOf(ms[i])})
        part(i) == IF i = 0 THEN <<>> ELSE <<i, ms[i]>>
    IN  <<part(asking), part(calling)>>

(***************************************************************************)
(* splice_into_tail, verbosity_append: the last text block of the newest   *)
(* user message, unless that message is frozen.                            *)
(***************************************************************************)
NewestUser(ms) == Newest({i \in DOMAIN ms: FromUser(ms[i])})

NoteAt(ms, floor) ==
    LET at == NewestUser(ms)
        texts == {j \in DOMAIN ms[at].blocks: ms[at].blocks[j] \in Text}
    IN  IF Appends /\ at > floor /\ texts # {} THEN {<<at, Max(texts)>>} ELSE {}

(***************************************************************************)
(* compress_dialect: nothing happens when nothing is live; otherwise every *)
(* live block that shrinks is replaced, the note goes on the block it      *)
(* belongs to, compressed or not, and every other block stays as it came.  *)
(* A block is its kind, the queries its compression depended on and those  *)
(* its note did: none of them when the block is the client's own bytes.    *)
(***************************************************************************)
Shrunk(ms, floor) == {l \in LiveZone(ms, floor): ms[l[1]].blocks[l[2]] \in Shrinkable}

Noted(ms, floor) == IF LiveZone(ms, floor) = {} THEN {} ELSE NoteAt(ms, floor)

Forwarded(ms, floor) ==
    LET shrunk == Shrunk(ms, floor)
        noted == Noted(ms, floor)
        query == Query(ms)
    IN  [i \in DOMAIN ms |->
            [j \in DOMAIN ms[i].blocks |->
                LET kind == ms[i].blocks[j]
                    touched == <<i, j>> \in shrunk
                IN  [kind |-> kind,
                     shrunk |-> touched,
                     scored |-> IF touched /\ kind \in ToolOutput THEN {query} ELSE {},
                     noted |-> IF <<i, j>> \in noted THEN {query} ELSE {}]]]

Compressed == Forwarded(messages, FrozenFloor)

(***************************************************************************)
(* Where the proxy places breakpoints                                      *)
(***************************************************************************)
\* FAULT for Breakpoints: any marker at all stops it, its own earlier ones included.
BreakpointsOnlyOnce ==
    IF stabilized /\ dialect = "anthropic" /\ Len(messages) >= 4 /\ marks = {}
    THEN {a \in Anchors: a < Len(messages)}
    ELSE {}

\* breakpoints_for, called by stabilize on the compressed body.
Breakpoints ==
    IF stabilized /\ dialect = "anthropic" /\ Len(messages) >= 4 /\ marks \subseteq Anchors
    THEN {a \in Anchors: a < Len(messages)} \ marks
    ELSE {}

Marked == marks \cup Breakpoints

\* stabilize, of what comes before the messages.
Ahead(hd) == IF stabilized THEN [hd EXCEPT !.tools = Zone!Normalized(@)] ELSE hd

\* cache_key_for: the hash of every forwarded message but the newest.
KeyOf(sent) == SubSeq(sent, 1, Len(sent) - 1)

-----------------------------------------------------------------------------
(***************************************************************************)
(* The provider: a prefix is cached up to each marker, or all of it where  *)
(* caching is automatic.                                                   *)
(***************************************************************************)
CachedUpTo == IF dialect = "anthropic" THEN Marked ELSE {Len(messages)}

NothingCached ==
    LET bare == [tools |-> <<>>, place |-> "system",
                 value |-> [form |-> "string", class |-> "prose", at |-> 0]]
    IN  [client |-> <<>>, sent |-> <<>>, length |-> 0, head |-> bare, ahead |-> bare]

Written ==
    {[client |-> SubSeq(messages, 1, k), sent |-> SubSeq(Compressed, 1, k),
      length |-> Len(messages), head |-> head, ahead |-> Ahead(head)]: k \in CachedUpTo}

Arrives(ms, hd, mk) ==
    /\ messages' = ms
    /\ head' = hd
    /\ marks' = mk
    /\ UNCHANGED <<dialect, stabilized, pinned>>
    /\ \/ UNCHANGED watched
       \/ watched = NothingCached /\ watched' \in Written'

HeadsOf(length) ==
    IF length <= MaxVaried THEN {Heads[dialect][n]: n \in DOMAIN Heads[dialect]} ELSE {Heads[dialect][1]}

MarksOf(ms) ==
    IF dialect = "anthropic"
    THEN {s \in SUBSET (1..Len(ms)): Cardinality(s) <= MaxMarks}
    ELSE {{}}

(***************************************************************************)
(* The client's next request: the same conversation with other markers,    *)
(* the next turn of it, or another turn after going back to an earlier     *)
(* message.  What it goes back to is not the middle of an answer.          *)
(***************************************************************************)
MessagesHandler(cut, turn, hd, mk) ==
    /\ FromUser(messages[cut])
    /\ cut + Len(turn) <= MaxMessages
    /\ hd \in HeadsOf(cut + Len(turn))
    /\ Arrives(SubSeq(messages, 1, cut) \o turn, hd, mk)

Init ==
    /\ dialect \in Dialects
    /\ stabilized \in Stabilization
    /\ pinned \in Pinned
    /\ messages \in Openings[dialect]
    /\ head \in HeadsOf(Len(messages))
    /\ marks \in MarksOf(messages)
    /\ watched \in {NothingCached} \cup Written

Next ==
    \E cut \in Positions, turn \in Turns[dialect]:
        \E hd \in HeadsOf(cut + Len(turn)), mk \in MarksOf(SubSeq(messages, 1, cut) \o turn):
            MessagesHandler(cut, turn, hd, mk)

Spec == Init /\ [][Next]_vars

-----------------------------------------------------------------------------
\* Is the watched prefix, as the client wrote it, a part of the latest request?
Continued ==
    LET k == Len(watched.client)
    IN  k > 0 /\ k <= Len(messages) /\ SubSeq(messages, 1, k) = watched.client

TypeOK ==
    /\ dialect \in Dialects /\ stabilized \in BOOLEAN /\ pinned \in Nat
    /\ messages \in Seq(Message) /\ Len(messages) \in 1..MaxMessages
    /\ marks \subseteq Positions
    /\ FrozenFloor \in 0..Len(messages)
    /\ watched.client \in Seq(Message)
    /\ Len(watched.sent) = Len(watched.client)
    /\ Len(watched.client) <= watched.length

Honoured ==
    LET k == Len(watched.client)
    IN  Continued /\ head = watched.head /\ (\E m \in Marked: m >= k)
            => Ahead(head) = watched.ahead /\ SubSeq(Compressed, 1, k) = watched.sent

(***************************************************************************)
(* Invalidating a cached prefix is the outcome live_zone.rs exists to make *)
(* impossible: once a request has made the provider cache a prefix, every  *)
(* later request that contains it and asks for it with a marker at or      *)
(* after its end forwards the same bytes, whichever messages the client    *)
(* marks from one request to the next, and wherever it goes back to.       *)
(***************************************************************************)
MarkedPrefixStaysCached == dialect = "anthropic" /\ ~stabilized => Honoured

(***************************************************************************)
(* The same for the breakpoints the proxy places itself: "every prefix     *)
(* that was cached stays cached" (stabilization.rs:113).  It fails: the    *)
(* next request arrives without the proxy's markers, so what lies before   *)
(* them is not frozen and the live zone of each request may reach there.   *)
(***************************************************************************)
AnchoredPrefixStaysCached == dialect = "anthropic" /\ stabilized => Honoured

(***************************************************************************)
(* Where caching is automatic, the next request repeats everything an      *)
(* earlier one forwarded but its newest message, the only one that may     *)
(* have been compressed; and a retry repeats all of it.                    *)
(***************************************************************************)
OnlyNewestMissed ==
    dialect = "openai" /\ Continued /\ head = watched.head =>
        LET k == Len(watched.client)
            repeated == IF Len(messages) = k THEN k ELSE k - 1
        IN  Ahead(head) = watched.ahead /\ SubSeq(Compressed, 1, repeated) = SubSeq(watched.sent, 1, repeated)

(***************************************************************************)
(* Breakpoints are only ever added, never moved (stabilization.rs:111): a  *)
(* prefix the proxy marked in one request is marked in every later one     *)
(* that is at least as long, also when that one arrives with markers on    *)
(* anchors.                                                                *)
(***************************************************************************)
AnchorsStay ==
    LET k == Len(watched.client)
    IN  stabilized /\ Continued /\ k \in Anchors /\ marks \subseteq Anchors
        /\ watched.length <= Len(messages) /\ k < watched.length /\ watched.length >= 4
        => k \in Marked

(***************************************************************************)
(* A request that arrives within the provider's limit of breakpoints       *)
(* leaves within it: what the proxy adds "stays within the provider's      *)
(* limit" (stabilization.rs:161).  It fails: the markers a client has on   *)
(* its system prompt and tools take of the same limit, and the code does   *)
(* not count them.                                                         *)
(***************************************************************************)
WithinBreakpointLimit ==
    Cardinality(marks) + pinned <= MaxBreakpoints
        => Cardinality(Marked) + pinned <= MaxBreakpoints

(***************************************************************************)
(* "The newest user message is at or after the floor whenever anything     *)
(* else is compressible", an argument and not a guarantee (memory.rs:535): *)
(* the check that protects the frozen zone from a note never decides.      *)
(***************************************************************************)
NoteNeverMeetsFloor ==
    LiveZone(messages, FrozenFloor) # {} => NewestUser(messages) > FrozenFloor

\* The same request as an earlier one but for how its tools are written down.
SameTools ==
    LET Names(tools) == {tools[i].name: i \in DOMAIN tools}
    IN  /\ Len(watched.head.tools) = Len(head.tools)
        /\ Names(watched.head.tools) = Names(head.tools)

(***************************************************************************)
(* The content volatile.rs undertakes to find before the messages          *)
(* (volatile.rs:25): a date or time, a UUID, a long run of hex digits, and *)
(* the number of a field that names itself a counter.  A value of another  *)
(* kind, or in another place, may change from request to request unseen.   *)
(***************************************************************************)
Volatile(h) ==
    /\ h.place # "user message"
    /\ \/ h.value.form = "string" /\ h.value.class \in {"timestamp", "uuid", "hex_token"}
       \/ h.value.form = "number" /\ h.value.class = "counter"

(***************************************************************************)
(* "Normalizing those into a canonical form turns an accidental miss into  *)
(* a hit" (stabilization.rs:9), and what still misses for a value of the   *)
(* kinds above is warned about (volatile.rs:3): two requests with the same *)
(* named tools, each of them sorted by the proxy or with its keys in order *)
(* from the start, and with the same text or a volatile one, leave with    *)
(* the same head, or one of them was reported.                             *)
(***************************************************************************)
HeadMissIsReported ==
    LET SameText == head.place = watched.head.place /\ head.value = watched.head.value
        Canonical(h) == \/ Zone!Rewritten(h.tools)
                        \/ \A i \in DOMAIN h.tools: h.tools[i].keys = "sorted"
        Named(h) == /\ \A i \in DOMAIN h.tools: h.tools[i].name # 0
                    /\ \A i, j \in DOMAIN h.tools: h.tools[i].name = h.tools[j].name => i = j
    IN  stabilized /\ watched # NothingCached /\ SameTools
        /\ (\A h \in {head, watched.head}: Canonical(h) /\ Named(h))
        /\ (SameText \/ \E h \in {head, watched.head}: Volatile(h))
            => \/ Ahead(head) = watched.ahead
               \/ Zone!Scan(head) \cup Zone!Scan(watched.head) # {}

(***************************************************************************)
(* The whole of that promise, where "a client serialized its tool array in *)
(* a different order, or emitted JSON Schema keys differently between      *)
(* runs" (stabilization.rs:4).  It fails: tools that are in order by name  *)
(* are left as they came whatever the order of their keys, because the     *)
(* normalized value is compared with an equality that ignores it, and      *)
(* tools without a name at the top level are never put in order.           *)
(***************************************************************************)
SameToolsSameHead ==
    stabilized /\ watched # NothingCached /\ SameTools /\ head.value = watched.head.value
        /\ head.place = watched.head.place
            => Ahead(head) = watched.ahead

(***************************************************************************)
(* The key "has to be identical across the turns of one conversation"      *)
(* (openai.rs:143).  It fails: it hashes all that came before the newest   *)
(* message, and a turn adds to that.                                       *)
(***************************************************************************)
KeyNamesConversation ==
    dialect = "openai" /\ Continued /\ Len(watched.client) >= 2
        => KeyOf(Compressed) = KeyOf(watched.sent)

(***************************************************************************)
(* What makes the properties above inductive.  The client's bytes of a     *)
(* prefix, forwarded as they came:                                         *)
(***************************************************************************)
AsItCame(ms) ==
    [i \in DOMAIN ms |->
        [j \in DOMAIN ms[i].blocks |->
            [kind |-> ms[i].blocks[j], shrunk |-> FALSE, scored |-> {}, noted |-> {}]]]

\* The conversation is one the dialect has, and only users hand in tool output.
Conversing ==
    /\ dialect \in Dialects /\ stabilized \in BOOLEAN /\ pinned \in Pinned
    /\ messages \in Seq(Message) /\ marks \subseteq Positions
    /\ \A i \in Positions:
           messages[i].role = "assistant" => BlocksOf(messages[i]) \cap ToolOutput = {}

(***************************************************************************)
(* The watched prefix is one that some request made the provider cache:    *)
(* without stabilization what a client marks is frozen and was forwarded   *)
(* as it came; where caching is automatic it is the whole of a request,    *)
(* and what was forwarded is what compression makes of it.                 *)
(***************************************************************************)
WatchedWasSent ==
    watched = NothingCached \/
        /\ watched.client \in Seq(Message) /\ watched.length \in Nat
        /\ watched.ahead = Ahead(watched.head)
        /\ dialect = "anthropic" /\ ~stabilized => watched.sent = AsItCame(watched.client)
        /\ dialect = "openai" =>
               /\ watched.length = Len(watched.client)
               /\ watched.sent = Forwarded(watched.client, Len(watched.client) - 1)

IInv == Conversing /\ WatchedWasSent
=============================================================================
