------------------------------ MODULE McpServer ------------------------------
(***************************************************************************)
(* The MCP server (headroom-mcp): one child process with one client, that  *)
(* answers line by line, and whose tools compress a text and redeem a      *)
(* marker.  It shares a Redis with the proxies if it can reach one; else   *)
(* it keeps originals in a directory, or in memory, of its own.            *)
(***************************************************************************)
EXTENDS RedisCcrStore, Sequences, FiniteSets

CONSTANTS
    Other,      \* the caller of the store whose operations are the server's
    Smaller,    \* the texts a compressor makes smaller
    NotSmaller, \* the texts it stores and then leaves as they are
    Prose,      \* those of them that are what a person may have written
    Lines,      \* what the client may write
    MaxLines    \* bound on how much of it

ASSUME StoredTexts == Smaller \cup NotSmaller = Hashes
ASSUME LineForms ==
    \A line \in Lines : /\ line.form \in {"blank", "garbled", "undecodable", "request"}
                        /\ {"form", "id"} \subseteq DOMAIN line

VARIABLE
    session  \* how the server was started, the lines it has [read], the one it is [doing],
             \* its [replies], its [stats], until when it has [kept] each original, and history:
             \* until when each was promised to its client, by it or its predecessors [given]

ToolNames == {"headroom_compress", "headroom_retrieve", "headroom_stats"}
Kinds == {"absent", "tool_output", "text"}
Missing == "none"
ASSUME MissingIsNoHash == Missing \notin Hashes
NoId == 0

(* main: a shared store is preferred, and a store that does not open is    *)
(* replaced by the next.                                                   *)
StoreOf(settings) ==
    CASE settings.redis /\ "redis" \in settings.opens -> "redis"
      [] settings.dir /\ "dir" \in settings.opens
           /\ ~(settings.redis /\ "redis" \in settings.opens) -> "file"
      [] OTHER -> "memory"

NoStats == [calls |-> 0, compressions |-> 0, retrievals |-> 0]
NoLine == [form |-> "blank", id |-> NoId, method |-> Missing, tool |-> Missing,
           text |-> Missing, kind |-> "absent", hash |-> Missing]

Nothing == [h \in Hashes |-> 0]
Session(store, kept, given) ==
    [store |-> store, read |-> <<>>, doing |-> NoLine, replies |-> <<>>, stats |-> NoStats,
     kept |-> kept, given |-> given]

SessionInit(settings) == session = Session(StoreOf(settings), Nothing, Nothing)

-----------------------------------------------------------------------------
(* success, with a tool's result in it if there is one, and failure.  A    *)
(* tool that has failed is a success.                                      *)
Reply(id, says, of, stats) == [id |-> id, says |-> says, of |-> of, stats |-> stats]
Success(id, says) == Reply(id, says, Missing, NoStats)
Failure(id, code) == Reply(id, code, Missing, NoStats)
ToolResult(id, says, of) == Reply(id, says, of, NoStats)

\* transform_for_block, under the policy that permits everything.
Transforms(text, kind) == text \in Hashes /\ (text \in Prose => kind # "text")

WellFormed(hash) == hash \in Hashes

IsCall(line) == line.form = "request" /\ line.method = "tools/call"
Calls(line, tool) == IsCall(line) /\ line.tool = tool

ToCompress(line) ==
    /\ Calls(line, "headroom_compress") /\ line.kind \in Kinds
    /\ line.text # Missing /\ Transforms(line.text, line.kind)
ToRetrieve(line) == Calls(line, "headroom_retrieve") /\ WellFormed(line.hash)

(***************************************************************************)
(* call_tool, as far as it needs no store.  A call without a name is not   *)
(* counted, one with a name that is unknown is.                            *)
(***************************************************************************)
Counted(stats, line) ==
    [stats EXCEPT !.calls = @ + (IF IsCall(line) /\ line.tool # Missing THEN 1 ELSE 0),
                  !.retrievals = @ + (IF Calls(line, "headroom_retrieve") /\ line.hash # Missing
                                      THEN 1 ELSE 0)]

CallTool(line, stats) ==
    CASE line.tool \notin ToolNames -> Failure(line.id, "invalid params")
      [] line.tool = "headroom_stats" -> Reply(line.id, "stats", Missing, stats)
      [] line.tool = "headroom_compress" ->
           IF line.text # Missing /\ line.kind \in Kinds
           THEN ToolResult(line.id, "content", line.text) ELSE Failure(line.id, "invalid params")
      [] line.tool = "headroom_retrieve" ->
           IF line.hash # Missing
           THEN ToolResult(line.id, "malformed", line.hash) ELSE Failure(line.id, "invalid params")

(* handle: a notification is known by its method and not by its lack of an *)
(* id.                                                                     *)
Handle(line, stats) ==
    CASE line.method = "initialize" -> <<Success(line.id, "initialized")>>
      [] line.method = "tools/list" -> <<Success(line.id, "tools")>>
      [] line.method = "tools/call" -> <<CallTool(line, stats)>>
      [] line.method = "notifications/" -> <<>>
      [] OTHER -> <<Failure(line.id, "method not found")>>

\* One turn of the loop of main.
RepliesTo(line, stats) ==
    CASE line.form = "blank" -> <<>>
      [] line.form = "garbled" -> <<Failure(NoId, "parse error")>>
      [] line.form = "request" -> Handle(line, stats)

-----------------------------------------------------------------------------
\* The client numbers what it wants an answer to.
Written == {[line EXCEPT !.id = IF @ = NoId THEN NoId ELSE Len(session.read) + 1] : line \in Lines}

Doing == session.doing # NoLine
Reads(line) == ~Doing /\ Len(session.read) < MaxLines /\ line \in Written

\* A reply with a marker is a promise for the life of an original.
Gives(replies, h) == \E k \in DOMAIN replies : replies[k].says = "summary" /\ replies[k].of = h

\* The line is dealt with, by replies that are flushed before the next is read.
Answer(line, replies, stats, kept) ==
    session' = [session EXCEPT !.read = Append(@, line), !.doing = NoLine,
                               !.replies = @ \o replies, !.stats = stats, !.kept = kept,
                               !.given = [h \in Hashes |-> IF Gives(replies, h) THEN Expiry ELSE @[h]]]

Hear(line) ==
    /\ Reads(line) /\ line.form # "undecodable" /\ ~ToCompress(line) /\ ~ToRetrieve(line)
    /\ LET stats == Counted(session.stats, line)
       IN  Answer(line, RepliesTo(line, stats), stats, session.kept)
    /\ UNCHANGED redisVars

\* The only thread waits for the answer of a Redis.
Awaits(line) ==
    session' = [session EXCEPT !.doing = line, !.stats = Counted(@, line)]

CompressShared(line) ==
    /\ Reads(line) /\ ToCompress(line) /\ session.store = "redis"
    /\ BeginPut(Other, line.text) /\ Awaits(line)

RetrieveShared(line) ==
    /\ Reads(line) /\ ToRetrieve(line) /\ session.store = "redis"
    /\ BeginGet(Other, line.hash) /\ Awaits(line)

\* FAULT for WithCompression: what was stored is counted, smaller or not.
WithEveryTransform(stats, text, stored) ==
    [stats EXCEPT !.compressions = @ + (IF stored THEN 1 ELSE 0)]

\* validated_apply, and what is counted of it.
WithCompression(stats, text, stored) ==
    [stats EXCEPT !.compressions = @ + (IF stored /\ text \in Smaller THEN 1 ELSE 0)]

Summarized(line, stored) ==
    ToolResult(line.id, IF stored /\ line.text \in Smaller THEN "summary" ELSE "content", line.text)

\* Retrieval::Expired is what a store that failed looks like, too.
Retrieval(line, found) ==
    ToolResult(line.id, IF found THEN "original" ELSE "expired", line.hash)

CompressedShared ==
    /\ Doing /\ call[Other].op = "put" /\ Return(Other)
    /\ LET stored == call[Other].answer = "ok"
       IN  Answer(session.doing, <<Summarized(session.doing, stored)>>,
                  WithCompression(session.stats, session.doing.text, stored), session.kept)

RetrievedShared ==
    /\ Doing /\ call[Other].op = "get" /\ Return(Other)
    /\ Answer(session.doing, <<Retrieval(session.doing, call[Other].answer = "found")>>,
              session.stats, session.kept)

\* The same with a store of its own: a file may not get written.
CompressAlone(line) ==
    /\ Reads(line) /\ ToCompress(line) /\ session.store # "redis"
    /\ \E stored \in IF session.store = "file" THEN BOOLEAN ELSE {TRUE} :
         Answer(line, <<Summarized(line, stored)>>,
                WithCompression(Counted(session.stats, line), line.text, stored),
                IF stored THEN [session.kept EXCEPT ![line.text] = Expiry] ELSE session.kept)
    /\ UNCHANGED redisVars

RetrieveAlone(line) ==
    /\ Reads(line) /\ ToRetrieve(line) /\ session.store # "redis"
    /\ Answer(line, <<Retrieval(line, session.kept[line.hash] > clock)>>,
              Counted(session.stats, line), session.kept)
    /\ UNCHANGED redisVars

(* purge_ccr_once, on a thread of its own.  A Redis has nothing to purge.  *)
PurgeThread ==
    /\ \E h \in Hashes : session.kept[h] \in 1..clock
    /\ session' = [session EXCEPT !.kept = [h \in Hashes |-> IF @[h] > clock THEN @[h] ELSE 0]]
    /\ UNCHANGED redisVars

\* The process ends with its worker, and the client starts another.
Restarted ==
    session' = Session(session.store, IF session.store = "file" THEN session.kept ELSE Nothing,
                       IF session.store = "memory" THEN Nothing ELSE session.given)

(***************************************************************************)
(* A line that is not UTF-8 ends main with an error, and without a reply.  *)
(* The server that the client starts next has a connection of its own.     *)
(***************************************************************************)
Undecodable(line) ==
    /\ Reads(line) /\ line.form = "undecodable"
    /\ Restarted
    /\ \E w \in Workers : w = at[Other] /\ Dies(w)

SessionNext ==
    \/ \E line \in Written :
         \/ Hear(line) \/ Undecodable(line)
         \/ CompressShared(line) \/ RetrieveShared(line)
         \/ CompressAlone(line) \/ RetrieveAlone(line)
    \/ CompressedShared \/ RetrievedShared
    \/ PurgeThread

-----------------------------------------------------------------------------
(***************************************************************************)
(* The lines the code and its documents agree on.  A reply is due to a     *)
(* line that does not parse (main.rs:143) and to a request with an id; it  *)
(* "would desynchronize a client that counts responses" (server.rs:131)    *)
(* for a notification, "no id" and a method under notifications/           *)
(* (server.rs:146).  What has one of the two marks of a notification is    *)
(* undecided: protocol.rs:19 goes by the id and handle by the method.      *)
(***************************************************************************)
IsRequest(i) == session.read[i].form = "request"
HasId(i)     == session.read[i].id # NoId
Notifies(i)  == session.read[i].method = "notifications/"

Due == {i \in DOMAIN session.read :
            session.read[i].form = "garbled" \/ (IsRequest(i) /\ HasId(i) /\ ~Notifies(i))}
Undecided == {i \in DOMAIN session.read : IsRequest(i) /\ (HasId(i) <=> Notifies(i))}

ToldBefore(k, says) == Cardinality({j \in 1..(k - 1) : session.replies[j].says \in says})
Summaries == {"summary"}
Lookups == {"original", "expired", "malformed"}

(***************************************************************************)
(* A client that counts replies stays in step, as long as the server lives *)
(* (a line that is not UTF-8 ends it): there is one reply for every line   *)
(* that is due one, in their order and to their ids, none for a            *)
(* notification, and at most one for an undecided line.  What              *)
(* headroom_stats says is what the session was told before: so many texts  *)
(* came back as summaries, so many markers were asked for.                 *)
(***************************************************************************)
SessionKeepsCount ==
    \E more \in SUBSET Undecided :
        LET answered == Due \cup more
        IN  /\ Len(session.replies) = Cardinality(answered)
            /\ \A i \in answered :
                 LET k     == Cardinality(answered \cap 1..i)
                     reply == session.replies[k]
                 IN  /\ reply.id = (IF IsRequest(i) THEN session.read[i].id ELSE NoId)
                     /\ reply.says = "stats" =>
                          /\ reply.stats.compressions = ToldBefore(k, Summaries)
                          /\ reply.stats.retrievals = ToldBefore(k, Lookups)
                          /\ reply.stats.calls > reply.stats.compressions + reply.stats.retrievals

(***************************************************************************)
(* "Absent for notifications, which expect no reply" (protocol.rs:19): a   *)
(* request without an id gets none.  FAILS: handle goes by the method, and *)
(* answers any other line without an id with an id of null.                *)
(***************************************************************************)
NotificationsUnanswered ==
    Cardinality({k \in DOMAIN session.replies : session.replies[k].id = NoId})
        <= Cardinality({i \in DOMAIN session.read : session.read[i].form = "garbled"})
=============================================================================
