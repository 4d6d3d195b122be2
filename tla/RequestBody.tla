----------------------------- MODULE RequestBody -----------------------------
(***************************************************************************)
(* A request as bytes and as a conversation (headroom-proxy: body.rs,      *)
(* frozen.rs and the readers and writers of compression.rs; headroom-core: *)
(* conversation.rs, live_zone.rs, output_shaping.rs).                      *)
(*                                                                         *)
(* body = [json, members, options, messages, spaced].  A message is        *)
(* [role, type, shape, items, calls, marked, spaced]: its content is one   *)
(* string ("scalar"), an array of items ("blocks"), the output of a tool   *)
(* as an item of its own ("output") or nothing.  spaced says that the      *)
(* whitespace is still the client's.                                       *)
(*                                                                         *)
(* A text is a sequence of pieces: the client's own words, or a summary of *)
(* them, and what the proxy appended.  Positions count from 1.             *)
(***************************************************************************)
EXTENDS Memories, FiniteSetsExt

CONSTANTS
  Carries,     \* Carries[t]: which notes of the proxy's a client's text t already contains
  Escalating,  \* the texts that speak of an error
  Routine      \* the texts that are short and routine

OutputTypes == {"function_call_output", "local_shell_call_output", "apply_patch_call_output"}
ToolOutputs == {"tool_result"} \cup OutputTypes
Sacrosanct  == {"thinking", "redacted_thinking", "attachment"}

Piece(is, of)  == [is |-> is, of |-> of, facts |-> <<>>]
Own(t)         == <<Piece("own", t)>>
NoText         == <<>>
Appended(text) == UNION {IF text[k].is \in {"own", "summary"} THEN Carries[text[k].of]
                         ELSE {text[k].is} : k \in DOMAIN text}

(***************************************************************************)
(* What a client may send: content in its own words.  A text is one piece, *)
(* and so is the output of a tool unless it is no string.  A string is one *)
(* item of text, and so is the output of a tool that is its own item.      *)
(***************************************************************************)
ClientText == Seq([is : {"own"}, of : STRING, facts : {<<>>}])
ClientItem == [type : STRING, text : ClientText, marked : BOOLEAN]
ClientMessage == [role : STRING, type : STRING, shape : STRING, items : Seq(ClientItem),
                  calls : Seq(STRING), marked : BOOLEAN, spaced : {TRUE}]
ClientBody == [json : BOOLEAN, members : SUBSET {"messages", "input"},
               options : [prompt_cache_key : STRING, reasoning_effort : STRING],
               messages : Seq(ClientMessage), spaced : {TRUE}]
Spoken(item) == /\ item.type = "text" => Len(item.text) = 1
                /\ item.type \in ToolOutputs => Len(item.text) <= 1
OneItem(m) == /\ m.shape = "scalar" \/ m.type \in OutputTypes =>
                     Len(m.items) = 1 /\ m.items[1].type = "text"
              /\ \A j \in DOMAIN m.items : Spoken(m.items[j])

-----------------------------------------------------------------------------
(* FaithfulBody::parse: an object with exactly one of the two members.     *)
Understood(body) == body.json /\ Cardinality(body.members \cap {"messages", "input"}) = 1

(* has_cache_control: on the message or on one of its blocks.              *)
HasCacheControl(m) == m.marked \/ \E j \in DOMAIN m.items : m.items[j].marked

Latest(S) == IF S = {} THEN 0 ELSE Max(S)

(* frozen_message_count: through the last marked message; a body that does *)
(* not have "messages" is frozen altogether.                               *)
FrozenMessageCount(body) ==
  IF "messages" \notin body.members THEN Len(body.messages)
  ELSE Latest({i \in DOMAIN body.messages : HasCacheControl(body.messages[i])})

\* FAULT for FrozenFloor: the marked message is not frozen itself.
FrozenFloorExclusive(dialect, body) ==
  LET n == Len(body.messages)
  IN  IF dialect = "anthropic"
      THEN IF FrozenMessageCount(body) = 0 THEN 0 ELSE FrozenMessageCount(body) - 1
      ELSE IF n = 0 THEN 0 ELSE n - 1

(* Dialect::frozen_floor.                                                  *)
FrozenFloor(dialect, body) ==
  LET n == Len(body.messages)
  IN  IF dialect = "anthropic" THEN FrozenMessageCount(body) ELSE IF n = 0 THEN 0 ELSE n - 1

-----------------------------------------------------------------------------
(* read_block: an unknown type is an attachment; only text and the output  *)
(* of tools has content that is read.                                      *)
ReadBlock(item) ==
  [kind |-> IF item.type \in {"text", "tool_use"} \cup ToolOutputs \cup Sacrosanct
            THEN item.type ELSE "attachment",
   text |-> IF item.type \in {"text"} \cup ToolOutputs THEN item.text ELSE NoText]

(* read_conversation, one message: nobody's message is the user's.         *)
ReadMessage(dialect, m) ==
  LET role == IF m.role = "assistant" THEN "assistant" ELSE "user"
      As(blocks, shape) == [role |-> role, blocks |-> blocks, shape |-> shape]
      tool == dialect = "openai" /\ m.role = "tool"
      output == dialect = "responses" /\ m.type \in OutputTypes
  IN  CASE output -> As(<<[kind |-> m.type, text |-> m.items[1].text]>>, "output")
        [] m.shape = "scalar" /\ ~output
             -> As(<<[kind |-> IF tool THEN "tool_result" ELSE "text",
                      text |-> m.items[1].text]>>, "scalar")
        [] m.shape = "blocks" /\ ~output
             -> As([j \in DOMAIN m.items |-> ReadBlock(m.items[j])], "blocks")
        [] OTHER -> As(<<>>, "blocks")

Conversation(dialect, body) ==
  [i \in DOMAIN body.messages |-> ReadMessage(dialect, body.messages[i])]

(* user_authored_text, tool_call_arguments and conversation_query: the     *)
(* newest text that is not an assistant's, which in the shape of OpenAI    *)
(* may be a tool's, and the newest arguments of a call.                    *)
UserAuthoredText(m) ==
  CASE m.shape = "scalar" -> <<m.items[1].text[1].of>>
    [] m.shape = "blocks" -> LET texts == SelectSeq(m.items, LAMBDA it : it.type = "text")
                             IN  [k \in DOMAIN texts |-> texts[k].text[1].of]
    [] OTHER -> <<>>

ToolCallArguments(dialect, m) ==
  CASE dialect = "anthropic" -> LET uses == SelectSeq(m.items, LAMBDA it : it.type = "tool_use")
                                IN  [k \in DOMAIN uses |-> uses[k].text[1].of]
    [] dialect = "openai" -> m.calls
    [] dialect = "responses" -> IF m.type = "function_call" THEN m.calls ELSE <<>>

ConversationQuery(dialect, body) ==
  LET ms == body.messages
      asking == Latest({i \in DOMAIN ms : ms[i].role # "assistant" /\ UserAuthoredText(ms[i]) # <<>>})
      calling == Latest({i \in DOMAIN ms : ToolCallArguments(dialect, ms[i]) # <<>>})
  IN  (IF asking = 0 THEN <<>> ELSE UserAuthoredText(ms[asking]))
        \o (IF calling = 0 THEN <<>> ELSE ToolCallArguments(dialect, ms[calling]))

-----------------------------------------------------------------------------
(* categorize: every kind of tool output is a category of its own.         *)
Category(role, block) ==
  CASE block.kind \in ToolOutputs -> block.kind
    [] block.kind = "text" /\ role = "user" -> "user_text"
    [] OTHER -> "none"

NewestUser(conversation) == Latest({i \in DOMAIN conversation : conversation[i].role = "user"})

(* The order of the bytes: a place comes where so many are not after it.   *)
NotAfter(l, k) == l[1] < k[1] \/ (l[1] = k[1] /\ l[2] <= k[2])
InOrder(places) ==
  [n \in 1..Cardinality(places) |->
     CHOOSE l \in places : Cardinality({k \in places : NotAfter(k, l)}) = n]

(* live_zone: above the floor, for each category the newest message that   *)
(* has it, and text only in the newest user message.  In ascending order.  *)
LiveZone(conversation, frozen) ==
  LET above == {i \in DOMAIN conversation : i > frozen}
      In(i, category) == {j \in DOMAIN conversation[i].blocks :
                            Category(conversation[i].role, conversation[i].blocks[j]) = category}
      Owner(category) ==
        LET having == {i \in above : In(i, category) # {}}
        IN  IF category = "user_text"
            THEN Latest(having \cap {Latest({i \in above : conversation[i].role = "user"})})
            ELSE Latest(having)
      live == UNION {{<<Owner(c), j>> : j \in IF Owner(c) = 0 THEN {} ELSE In(Owner(c), c)} :
                       c \in ToolOutputs \cup {"user_text"}}
  IN  InOrder(live)

(***************************************************************************)
(* splice_into_tail and verbosity_append: the last text block of the       *)
(* newest user message, unless it is frozen or says so already.            *)
(***************************************************************************)
TailFor(conversation, frozen, note) ==
  LET i == NewestUser(conversation)
      texts == IF i = 0 THEN {}
               ELSE {j \in DOMAIN conversation[i].blocks : conversation[i].blocks[j].kind = "text"}
  IN  IF i <= frozen \/ texts = {} THEN {}
      ELSE {l \in {<<i, Max(texts)>>} : note \notin Appended(conversation[i].blocks[l[2]].text)}

\* Verbosity::note: the default has none.
Note(verbosity) == IF verbosity = "default" THEN {} ELSE {verbosity}

(***************************************************************************)
(* effort_for and route_effort, of an OpenAI body: content that is not one *)
(* string reads as empty.  An error wins over everything, then a first     *)
(* turn, then a turn that is routine and short: nothing was appended.      *)
(***************************************************************************)
EffortFor(body) ==
  LET ms == body.messages
      i == Latest({k \in DOMAIN ms : ms[k].role # "assistant"})
      said == IF i > 0 /\ ms[i].shape = "scalar" THEN ms[i].items[1].text ELSE NoText
  IN  IF i = 0 THEN "medium"
      ELSE IF said # NoText /\ said[1].of \in Escalating THEN "high"
      ELSE IF Len(ms) <= 1 THEN "high"
      ELSE IF Len(said) = 1 /\ said[1].of \in Routine THEN "low" ELSE "medium"

-----------------------------------------------------------------------------
(***************************************************************************)
(* rewrite_message: one field of the items that were edited, by the shape  *)
(* the message came in.  The message is serialized anew.                   *)
(***************************************************************************)
RewriteMessage(m, i, edits) ==
  [m EXCEPT !.spaced = FALSE,
            !.items = [j \in DOMAIN @ |->
                         IF <<i, j>> \in DOMAIN edits THEN [@[j] EXCEPT !.text = edits[<<i, j>>]]
                         ELSE @[j]]]

(* rebuild: only the messages with an edit; the others are the bytes that  *)
(* arrived, and without an edit all of the body is.                        *)
Rebuild(body, edits) ==
  IF DOMAIN edits = {} THEN body
  ELSE [body EXCEPT !.spaced = FALSE,
                    !.messages = [i \in DOMAIN @ |->
                       IF \E l \in DOMAIN edits : l[1] = i THEN RewriteMessage(@[i], i, edits)
                       ELSE @[i]]]

-----------------------------------------------------------------------------
(* insert_top_level_member: never over one that is there.                  *)
InsertMember(body, member, value) ==
  IF body.options[member] = "none" THEN [body EXCEPT !.options[member] = value] ELSE body

(* shape_openai: a cache key once there is a prefix to name, and an        *)
(* effort; a request that does not pay by use is left alone.               *)
ShapeOpenAi(body, mode) ==
  LET keyed == IF Len(body.messages) >= 2
               THEN InsertMember(body, "prompt_cache_key", "prefix") ELSE body
  IN  IF mode = "payg" /\ Understood(body)
      THEN InsertMember(keyed, "reasoning_effort", EffortFor(keyed)) ELSE body
=============================================================================
