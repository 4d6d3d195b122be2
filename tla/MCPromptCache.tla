--------------------------- MODULE MCPromptCache ---------------------------
(* Instances of PromptCache for TLC. *)
EXTENDS PromptCache

User(blocks) == [role |-> "user", blocks |-> blocks]
Assistant(blocks) == [role |-> "assistant", blocks |-> blocks]
Tool(kind) == [role |-> "tool", blocks |-> <<kind>>]

MCOpenings == [d \in Dialects |-> {<<User(<<"paste">>)>>}]

\* A resend; an answer and the next question; a tool's output; and a prefilled
\* answer.  For OpenAI a tool's output is a message of its own.
MCTurns ==
    [d \in Dialects |->
        IF d = "anthropic"
        THEN {<<>>,
              <<Assistant(<<"prose">>), User(<<"prose">>)>>,
              <<Assistant(<<"thinking", "call">>), User(<<"brief", "bulk">>)>>,
              <<Assistant(<<"prose">>)>>}
        ELSE {<<>>,
              <<Assistant(<<"prose">>), User(<<"paste">>)>>,
              <<Assistant(<<"call">>), Tool("bulk")>>,
              <<Assistant(<<"call">>), Tool("bulk"), Tool("bulk")>>}]

\* Two tools in one order or the other, their keys sorted or not; instructions
\* with a value that is another one next time, of a kind volatile.rs knows or not;
\* a date in the user's own message; and tools whose names are nested.
HeadWith(a, b, keys, place, form, class, at) ==
    [tools |-> <<[name |-> a, keys |-> keys], [name |-> b, keys |-> keys]>>, place |-> place,
     value |-> [form |-> form, class |-> class, at |-> at]]

MCHeads ==
    [d \in Dialects |->
        IF d = "anthropic"
        THEN <<HeadWith(1, 2, "sorted", "system", "string", "prose", 0),
               HeadWith(2, 1, "sorted", "system", "string", "prose", 0),
               HeadWith(2, 1, "as written", "system", "string", "prose", 0),
               HeadWith(1, 2, "as written", "system", "string", "prose", 0),
               HeadWith(1, 2, "sorted", "tools", "number", "counter", 1),
               HeadWith(2, 1, "sorted", "tools", "number", "counter", 2),
               HeadWith(1, 2, "sorted", "system", "string", "prose", 1)>>
        ELSE <<HeadWith(1, 2, "sorted", "developer message", "string", "timestamp", 0),
               HeadWith(2, 1, "as written", "developer message", "string", "timestamp", 1),
               HeadWith(0, 0, "as written", "instructions", "string", "uuid", 2),
               HeadWith(2, 1, "sorted", "user message", "string", "timestamp", 3)>>]
=============================================================================
