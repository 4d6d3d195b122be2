---------------------------- MODULE MCCompression ----------------------------
(***************************************************************************)
(* Every short conversation of each dialect, by itself, and a few with     *)
(* other callers, time, failures and two workers.                          *)
(***************************************************************************)
EXTENDS Compression

MCFactOrder == <<"port", "lint", "shell">>
MCAbout == [port |-> {"ask"}, lint |-> {"log"}, shell |-> {}]
MCCarries == [t \in {"ask", "ok", "oops", "log", "blob", "wide", "none"} |-> {}]
               @@ [t \in {"noted"} |-> {"memory", "terse"}]

(* What a client may send in one message. *)
Item(type, t)  == [type |-> type, text |-> IF t = "none" THEN NoText ELSE Own(t), marked |-> FALSE]
Marked(item)   == [item EXCEPT !.marked = TRUE]
Message(role, shape, items) ==
  [role |-> role, type |-> "message", shape |-> shape, items |-> items, calls |-> <<>>,
   marked |-> FALSE, spaced |-> TRUE]
Says(role, t)  == Message(role, "scalar", <<Item("text", t)>>)
Holds2(role, items) == Message(role, "blocks", items)

AnthropicMessages ==
  {Says("user", "ask"), Says("user", "noted"), Says("assistant", "ok"),
   Holds2("user", <<Item("tool_result", "log"), Item("text", "ask")>>),
   Holds2("user", <<Item("tool_result", "blob"), Item("tool_result", "none"),
                    Item("tool_result", "log"), Item("image", "none")>>),
   Holds2("user", <<Marked(Item("text", "log"))>>),
   Holds2("assistant", <<Item("thinking", "log"), Item("tool_use", "log")>>),
   [Holds2("user", <<Item("tool_result", "wide"), Item("text", "wide")>>) EXCEPT !.marked = TRUE]}
OpenAiMessages ==
  {Says("user", "ask"), Says("user", "ok"), Says("user", "oops"), Says("tool", "log"),
   [Says("assistant", "ok") EXCEPT !.calls = <<"log">>],
   Holds2("user", <<Item("text", "blob"), Item("text", "wide")>>)}
ResponsesItems ==
  {Says("user", "ask"), Says("assistant", "wide"), Holds2("user", <<Item("text", "log")>>),
   [Message("none", "none", <<>>) EXCEPT !.type = "function_call", !.calls = <<"log">>],
   [Message("none", "output", <<Item("text", "log")>>) EXCEPT !.type = "function_call_output"],
   [Message("none", "output", <<Item("text", "wide")>>) EXCEPT !.type = "local_shell_call_output"]}

SeqsUpTo(S, n) == UNION {[1..k -> S] : k \in 1..n}
Unset == [prompt_cache_key |-> "none", reasoning_effort |-> "none"]
Body(member, messages) ==
  [json |-> TRUE, members |-> {member}, options |-> Unset, messages |-> messages, spaced |-> TRUE]

(* The settings of a proxy, and its memory. *)
Line(f, spelling, source) ==
  [form |-> "record", fact |-> f, spelling |-> spelling, source |-> source,
   sensitive |-> FALSE, superseded |-> FALSE]
MCLines ==
  <<Line("lint", 1, "a"), Line("port", 2, "a"), Line("port", 1, "a"), Line("shell", 1, "a"),
    Line("shell", 1, "b"), [Line("lint", 1, "b") EXCEPT !.sensitive = TRUE],
    [Line("lint", 1, "c") EXCEPT !.form = "blank"]>>

Mcp(on, named, opens) ==
  [on |-> on, redis |-> "redis" \in named, dir |-> "dir" \in named, opens |-> opens]

Case(body, dialect, mode, verbosity, memory) ==
  [body |-> body, dialect |-> dialect, mode |-> mode, enabled |-> TRUE, verbosity |-> verbosity,
   memory |-> memory, lines |-> MCLines, busy |-> FALSE,
   mcp |-> Mcp(FALSE, {}, {})]

Modes == {"payg", "oauth", "subscription"}
Told3 == {<<"payg", "default", "none">>, <<"payg", "terse", "file">>, <<"payg", "full", "linked">>,
          <<"oauth", "terse", "file">>, <<"subscription", "full", "file">>}
Settled(bodies, dialect) ==
  {Case(b, dialect, s[1], s[2], s[3]) : b \in bodies, s \in Told3}

Talks(member, messages, n) == {Body(member, ms) : ms \in SeqsUpTo(messages, n)}
Chosen == {[Body("messages", <<Says("user", "ask"), Says("tool", "log")>>) EXCEPT !.options = o] :
             o \in {[Unset EXCEPT !.prompt_cache_key = "mine"], [Unset EXCEPT !.reasoning_effort = "mine"]}}
Odd == {[Body("messages", <<Says("user", "log")>>) EXCEPT !.json = FALSE],
        [Body("messages", <<Says("user", "log")>>) EXCEPT !.members = {"messages", "input"}],
        Body("input", <<Says("user", "log")>>), Body("messages", <<>>)}

(* What the client of an MCP server may write. *)
ToolCall(tool) == [NoLine EXCEPT !.form = "request", !.id = 1, !.method = "tools/call", !.tool = tool]
Compresses(t, kind) == [ToolCall("headroom_compress") EXCEPT !.text = t, !.kind = kind]
Method(method, id) == [NoLine EXCEPT !.form = "request", !.method = method, !.id = id]
ClientLines ==
  {NoLine, [NoLine EXCEPT !.form = "garbled"], [NoLine EXCEPT !.form = "undecodable"],
   Method("notifications/", 0), Method("ping", 0), ToolCall("headroom_squash"), ToolCall("headroom_stats"),
   Compresses("log", "absent"), Compresses("blob", "tool_output"), Compresses("blob", "text"),
   [ToolCall("headroom_retrieve") EXCEPT !.hash = "log"]}

Busy(case0) == [case0 EXCEPT !.busy = TRUE]
Shared == Body("messages", <<Says("user", "ask"),
            Holds2("user", <<Item("tool_result", "blob"), Item("tool_result", "log"),
                             Item("text", "ask")>>)>>)
One == Body("messages", <<Holds2("user", <<Item("tool_result", "log"), Item("text", "ask")>>)>>)

MCCases ==
  <<Settled(Talks("messages", AnthropicMessages, 3), "anthropic"),
    Settled(Talks("messages", OpenAiMessages, 3) \cup Chosen, "openai"),
    Settled(Talks("input", ResponsesItems, 3), "responses"),
    UNION {Settled(Odd, d) : d \in {"anthropic", "openai", "responses"}},
    {[Case(b, "openai", "payg", "terse", "file") EXCEPT !.enabled = FALSE] : b \in Odd \cup Chosen},
    {Busy(Case(One, "anthropic", "payg", "terse", "linked"))},
    {[Busy(Case(One, "anthropic", "payg", "default", "none")) EXCEPT !.enabled = FALSE, !.mcp = mcp] :
       mcp \in {Mcp(TRUE, {"redis", "dir"}, {"redis", "dir"}), Mcp(TRUE, {"redis", "dir"}, {"dir"}),
                Mcp(TRUE, {"dir"}, {})}}>>
=============================================================================
