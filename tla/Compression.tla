----------------------------- MODULE Compression -----------------------------
(***************************************************************************)
(* A request on its way through compress_dialect                           *)
(* (headroom-proxy/compression.rs) in a proxy of several workers that      *)
(* share a RedisCcrStore, and the ways its markers are redeemed: the       *)
(* retrieval API of any worker (ccr_api.rs, ccr/retrieve.rs) and an MCP    *)
(* server (McpServer), which also compress single blocks for whoever asks. *)
(*                                                                         *)
(* What a compressor makes of a block is in Pipeline; here a text is one   *)
(* that gets smaller, one whose original is stored in vain, one of which   *)
(* only the whitespace goes, or none of these.                             *)
(***************************************************************************)
EXTENDS RequestBody, McpServer

CONSTANTS
    Handler,   \* the caller that handles the request; Other compresses blocks by
               \* themselves, and retrieves, over HTTP or as the MCP server
    Tidier,    \* the texts the lossless reformatter makes smaller
    Cases      \* the requests, and what the proxy that gets them is set to

ASSUME CallersDiffer == Handler # Other /\ Callers = {Handler, Other}
ASSUME NoTextIsWide == "none" \notin Tidier
ASSUME WhatArrives ==
    \A k \in DOMAIN Cases : \A c \in Cases[k] :
        /\ c.body \in ClientBody
        /\ \A i \in DOMAIN c.body.messages : OneItem(c.body.messages[i])
        /\ c.verbosity \in {"default", "terse", "full"}

VARIABLES
    case,      \* the request and the settings of the proxy
    stage,     \* "new", "zone", "appending", "forwarded", "lost"
    todo,      \* the live blocks still to be looked at
    edits,     \* edits[<<message, block>>]: what the block becomes
    sent,      \* the body that was forwarded
    block      \* the block the HTTP API compresses, and what it answered

requestVars == <<case, stage, todo, edits, sent>>
clients == <<block, session>>
vars == <<redisVars, requestVars, clients>>

Frozen == FrozenFloor(case.dialect, case.body)
Talk   == Conversation(case.dialect, case.body)
Asks   == ConversationQuery(case.dialect, case.body)
TextAt(l) == Talk[l[1]].blocks[l[2]].text

NoBlock == [text |-> "none", reply |-> NoText]

(* A case that is not busy is about the body alone: no time passes and     *)
(* nothing fails; where the MCP server is asked there is no other request. *)
(* Workers are alike, so the handler is in any one of them.                *)
Init ==
    /\ RedisInit
    /\ \E k \in DOMAIN Cases : case \in Cases[k]
    /\ at[Handler] = CHOOSE w \in Workers : TRUE
    /\ (case.busy /\ ~case.mcp.on) \/ at[Handler] = at[Other]
    /\ stage = (IF case.mcp.on THEN "forwarded" ELSE "new") /\ todo = <<>> /\ edits = <<>> /\ sent = case.body
    /\ block = NoBlock /\ SessionInit(case.mcp)

-----------------------------------------------------------------------------
\* What leaves: OpenAI bodies get their members, compressed or not.
Forward(body) ==
    /\ stage' = "forwarded"
    /\ sent' = IF case.dialect = "anthropic" THEN body ELSE ShapeOpenAi(body, case.mode)

\* Switched off, not understood or with nothing live: the bytes that arrived.
Passthrough ==
    ~case.enabled \/ ~Understood(case.body) \/ LiveZone(Talk, Frozen) = <<>>

Begin ==
    /\ stage = "new" /\ call[Handler].step = "idle"
    /\ IF Passthrough
       THEN Forward(case.body) /\ UNCHANGED todo
       ELSE stage' = "zone" /\ todo' = LiveZone(Talk, Frozen) /\ UNCHANGED sent
    /\ UNCHANGED <<redisVars, case, edits, clients>>

Name(l) == IF TextAt(l) = NoText THEN "none" ELSE TextAt(l)[1].of

With(l, text) == [k \in DOMAIN edits \cup {l} |-> IF k = l THEN text ELSE edits[k]]

\* route_block and a transform that stores: the original goes first.
Compress ==
    /\ stage = "zone" /\ todo # <<>> /\ call[Handler].step = "idle"
    /\ case.mode = "payg" /\ Name(Head(todo)) \in Hashes
    /\ BeginPut(Handler, Name(Head(todo)))
    /\ UNCHANGED <<requestVars, clients>>

\* FAULT for Compressed: the marker is used whether or not the put succeeded.
CompressedAnyway ==
    /\ stage = "zone" /\ call[Handler].op = "put" /\ Return(Handler)
    /\ edits' = IF Name(Head(todo)) \in Smaller
                THEN With(Head(todo), <<Piece("summary", Name(Head(todo)))>>) ELSE edits
    /\ todo' = Tail(todo)
    /\ UNCHANGED <<case, stage, sent, clients>>

(***************************************************************************)
(* validated_apply has returned: an edit, a decline, or an error, which    *)
(* costs the block its compression and the request nothing.                *)
(***************************************************************************)
Compressed ==
    /\ stage = "zone" /\ call[Handler].op = "put" /\ Return(Handler)
    /\ edits' = IF call[Handler].answer = "ok" /\ Name(Head(todo)) \in Smaller
                THEN With(Head(todo), <<Piece("summary", Name(Head(todo)))>>) ELSE edits
    /\ todo' = Tail(todo)
    /\ UNCHANGED <<case, stage, sent, clients>>

\* No transform, one that stores nothing, or the reformatter.
NothingStored ==
    /\ stage = "zone" /\ todo # <<>> /\ call[Handler].step = "idle"
    /\ ~(case.mode = "payg" /\ Name(Head(todo)) \in Hashes)
    /\ edits' = IF case.mode = "oauth" /\ Name(Head(todo)) \in Tidier
                THEN With(Head(todo), <<Piece("tidied", Name(Head(todo)))>>) ELSE edits
    /\ todo' = Tail(todo)
    /\ UNCHANGED <<redisVars, case, stage, sent, clients>>

-----------------------------------------------------------------------------
\* A note goes on what the block has become, or on the block.
WithNote(to, tail, pieces) ==
    [l \in DOMAIN to \cup tail |->
        IF l \in tail THEN (IF l \in DOMAIN to THEN to[l] ELSE TextAt(l)) \o pieces ELSE to[l]]

(***************************************************************************)
(* Memory and verbosity, in this order, then the check that no edit is     *)
(* below the floor, and the bytes.  The linked database is asked again     *)
(* when a compressor has rewritten the block, and may then have nothing.   *)
(***************************************************************************)
Finish(answersAgain) ==
    /\ stage = "zone" /\ todo = <<>>
    /\ LET facts == IF case.mode = "payg" THEN MemoryBlock(case.memory, case.lines, Asks) ELSE <<>>
           tail == IF facts = <<>> THEN {} ELSE TailFor(Talk, Frozen, "memory")
           kept == IF tail \subseteq DOMAIN edits /\ ~answersAgain THEN {} ELSE tail
           remembered == WithNote(edits, kept, <<[is |-> "memory", of |-> "none", facts |-> facts]>>)
           noted == WithNote(remembered,
                             UNION {TailFor(Talk, Frozen, note) : note \in Note(case.verbosity)},
                             <<Piece(case.verbosity, "none")>>)
           final == [l \in {k \in DOMAIN noted : k[1] > Frozen} |-> noted[l]]
       IN  Forward(Rebuild(case.body, final))
    /\ case.memory # "linked" => answersAgain
    /\ UNCHANGED <<redisVars, case, todo, edits, clients>>

\* The worker of the request dies under it.
Lost(w) ==
    /\ case.busy /\ w \in {at[Handler], at[Other]} /\ Dies(w)
    /\ stage' = IF w = at[Handler] /\ stage \in {"new", "zone"} THEN "lost" ELSE stage
    /\ block' = IF w = at[Other] /\ block.reply = NoText THEN NoBlock ELSE block
    /\ IF w = at[Other] THEN Restarted ELSE UNCHANGED session
    /\ UNCHANGED <<case, todo, edits, sent>>

-----------------------------------------------------------------------------
(***************************************************************************)
(* compress of the HTTP API: one block, of a tool's output unless the      *)
(* caller says that it is text, routed and validated like those of a       *)
(* request.                                                                *)
(***************************************************************************)
CompressBlock(text, kind) ==
    /\ case.busy /\ ~case.mcp.on /\ block = NoBlock
    /\ Transforms(text, kind)
    /\ BeginPut(Other, text)
    /\ block' = [NoBlock EXCEPT !.text = text]
    /\ UNCHANGED <<requestVars, session>>

BlockCompressed ==
    /\ block.text # "none" /\ call[Other].op = "put" /\ Return(Other)
    /\ block' = [block EXCEPT !.reply =
                    IF call[Other].answer = "ok" /\ block.text \in Smaller
                    THEN <<Piece("summary", block.text)>> ELSE Own(block.text)]
    /\ UNCHANGED <<requestVars, session>>

\* The MCP server, in the process of a worker.
McpStep == case.mcp.on /\ SessionNext /\ UNCHANGED <<requestVars, block>>

SentPieces ==
    UNION {UNION {{m.items[j].text[k] : k \in DOMAIN m.items[j].text} : j \in DOMAIN m.items} :
             m \in {sent.messages[i] : i \in DOMAIN sent.messages}}

\* The originals whose markers somebody outside has seen.
Told == {p.of : p \in {q \in SentPieces : stage = "forwarded" /\ q.is = "summary"}
                        \cup {block.reply[k] : k \in {j \in DOMAIN block.reply :
                                                        block.reply[j].is = "summary"}}}
        \cup {h \in Hashes : session.store = "redis" /\ session.given[h] > 0}

(***************************************************************************)
(* handle_retrieve, for one hash of retrieve_one, of a batch or of         *)
(* headroom_retrieve.  A store that fails looks like one that has nothing. *)
(***************************************************************************)
Retrieve(c, h) ==
    /\ case.busy /\ ~case.mcp.on /\ h \in Told
    /\ c = Handler => stage = "forwarded"
    /\ BeginGet(c, h)
    /\ UNCHANGED <<requestVars, clients>>

Retrieved(c) ==
    /\ call[c].op = "get" /\ ~case.mcp.on /\ Return(c)
    /\ UNCHANGED <<requestVars, clients>>

StoreStep ==
    /\ \/ Tick /\ case.busy
       \/ \E h \in Hashes : LateApplies(h)
       \/ \E c \in Callers : Progress(c) /\ (case.busy \/ faults' = faults)
    /\ UNCHANGED <<requestVars, clients>>

Next ==
    \/ StoreStep
    \/ Begin \/ Compress \/ Compressed \/ NothingStored
    \/ \E again \in BOOLEAN : Finish(again)
    \/ \E w \in Workers : Lost(w)
    \/ \E text \in Hashes, kind \in Kinds : CompressBlock(text, kind)
    \/ BlockCompressed
    \/ McpStep
    \/ \E c \in Callers : \E h \in Hashes : Retrieve(c, h)
    \/ \E c \in Callers : Retrieved(c)

Spec == Init /\ [][Next]_vars

-----------------------------------------------------------------------------
(***************************************************************************)
(* A marker that has left the proxy can be redeemed at every worker until  *)
(* its time is up: its original was acknowledged by the store, and is      *)
(* there, whatever failed, was retried or died in between.  What an MCP    *)
(* server with a store of its own has given a marker for it keeps for as   *)
(* long, unless the client had to start another whose memory is empty.     *)
(***************************************************************************)
MarkersRedeemable ==
    /\ \A h \in Told : held[h] > 0 /\ (held[h] > clock => Visible(h))
    /\ session.store # "redis" =>
           \A h \in Hashes : session.given[h] > clock => session.kept[h] > clock

\* What the policy of a mode lets the proxy make of a text; a note of verbosity is asked for
\* by the operator, and goes on in every mode.
Allowed == (CASE case.mode = "payg"  -> {"own", "summary", "memory"}
              [] case.mode = "oauth" -> {"own", "tidied"}
              [] OTHER               -> {"own"}) \cup Note(case.verbosity)

(***************************************************************************)
(* Of what the client wrote, the proxy changes only text and the output of *)
(* tools, nothing a provider may have cached, no field but the text, and   *)
(* no byte of a message in which it changed nothing.                       *)
(* A note is in the text once, after what is left of the block and not     *)
(* instead of it, and nothing is there the policy does not allow.          *)
(* What the client chose of the members the proxy would add is kept.       *)
(***************************************************************************)
\* What the provider may have cached: through the last mark of the client, or, where
\* caching is the provider's own affair, all but the newest message.
Cached(i) ==
    IF case.dialect = "anthropic"
    THEN \E k \in i..Len(case.body.messages) : HasCacheControl(case.body.messages[k])
    ELSE i < Len(case.body.messages)

TextMayBecome(l, was, is) ==
    /\ is # NoText /\ is[1].of = was[1].of
    /\ l \in DOMAIN edits => is[1] = edits[l][1]
    /\ \A k \in DOMAIN is : is[k].is \in Allowed /\ (k > 1 => is[k].is \notin Appended(was))
    /\ \A k, n \in DOMAIN is : is[k].is = is[n].is => k = n

OnlyLiveTextChanges ==
    stage = "forwarded" =>
        /\ DOMAIN sent.messages = DOMAIN case.body.messages
        /\ \A i \in DOMAIN sent.messages :
             LET was == case.body.messages[i]
                 is  == sent.messages[i]
                 changed == {j \in DOMAIN was.items : was.items[j].text # is.items[j].text}
             IN  /\ is = [was EXCEPT !.spaced = is.spaced,
                            !.items = [j \in DOMAIN @ |-> [@[j] EXCEPT !.text = is.items[j].text]]]
                 /\ Cached(i) \/ changed = {} => is = was
                 /\ \A j \in changed :
                      /\ was.items[j].type \in {"text"} \cup ToolOutputs
                      /\ TextMayBecome(<<i, j>>, was.items[j].text, is.items[j].text)
        /\ \A member \in DOMAIN sent.options :
             case.body.options[member] # "none" => sent.options[member] = case.body.options[member]

(***************************************************************************)
(* "a subscription session token gets nothing" (README.md:126): its        *)
(* request leaves as it came.                                              *)
(***************************************************************************)
SubscriptionUntouched ==
    stage = "forwarded" /\ case.mode = "subscription" => sent = case.body

-----------------------------------------------------------------------------
(***************************************************************************)
(* What makes MarkersRedeemable inductive.  A summary is used only once    *)
(* its original was acknowledged, wherever the summary is on its way out:  *)
(* in an edit, in the forwarded body, in an answer of the API.             *)
(***************************************************************************)
Redeemed(h) == h \in Hashes /\ held[h] > 0

Backed(text) ==
    /\ text \in Seq({text[k] : k \in DOMAIN text})
    /\ \A k \in DOMAIN text : text[k].is = "summary" => Redeemed(text[k].of)

BodyBacked(body) ==
    \A i \in DOMAIN body.messages : \A j \in DOMAIN body.messages[i].items :
        Backed(body.messages[i].items[j].text)

\* The put of a request is for the first block in todo.
RequestBacked ==
    /\ \E k \in DOMAIN Cases : case \in Cases[k]
    /\ \A l \in DOMAIN edits : Backed(edits[l])
    /\ BodyBacked(sent)
    /\ call[Handler].op = "put" =>
           stage = "zone" /\ todo # <<>> /\ call[Handler].hash = Name(Head(todo))

BlockBacked ==
    /\ block = [text |-> block.text, reply |-> block.reply] /\ Backed(block.reply)
    /\ case.mcp.on => block = NoBlock
    /\ ~case.mcp.on /\ call[Other].op = "put" => call[Other].hash = block.text

\* A server without a Redis keeps its originals through a restart, or gave its markers away
\* with the life they were good for.
SessionBacked ==
    /\ DOMAIN session = {"store", "read", "doing", "replies", "stats", "kept", "given"}
    /\ session.kept \in [Hashes -> Nat] /\ session.given \in [Hashes -> Nat]
    /\ session.store \in {"redis", "file", "memory"}
    /\ ~case.mcp.on => session.given = Nothing
    /\ case.mcp.on /\ call[Other].op = "put" =>
           Doing /\ call[Other].hash = session.doing.text /\ session.store = "redis"
    /\ \A h \in Hashes :
           /\ session.given[h] <= Expiry
           /\ IF session.store = "redis" THEN session.given[h] > 0 => Redeemed(h)
              ELSE session.given[h] > clock => session.kept[h] >= session.given[h]

IInv == RedisIInv /\ RequestBacked /\ BlockBacked /\ SessionBacked
=============================================================================
