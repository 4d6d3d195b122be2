-------------------------- MODULE MCResponseStream --------------------------
(* Instances of ResponseStream for TLC. *)
EXTENDS ResponseStream

\* The lines of a frame, with either line terminator.
Unix(lines) == FlattenSeq([i \in DOMAIN lines |-> <<lines[i], LF>>]) \o <<LF>>
Dos(lines) == FlattenSeq([i \in DOMAIN lines |-> <<lines[i], CR, LF>>]) \o <<CR, LF>>

\* What reports usage, what fails, and what says something else, in each vocabulary.
Usage ==
    [anthropic |-> <<"message_start", "read">>,
     chat |-> <<"usage", "creation">>,
     responses |-> <<"response.incomplete", "read">>]

Failure == [anthropic |-> <<"error">>, chat |-> <<"error", "usage", "read">>, responses |-> <<"error">>]

Words ==
    [anthropic |-> {<<"message_start", "read", "creation">>, <<"content_block_delta", "text">>,
                    <<"content_block_delta", "thinking">>, <<"content_block_delta", "signature">>,
                    <<"message_stop">>, <<"ping">>, <<"novel">>},
     chat |-> {<<"choices", "text", "null usage">>, <<"choices", "call 0">>, <<"choices", "call 1">>,
               <<"[DONE]">>, <<"novel">>},
     responses |-> {<<"response.created">>, <<"response.output_text.delta", "text">>,
                    <<"response.output_text.done", "text">>,
                    <<"response.reasoning_summary_text.delta">>,
                    <<"response.function_call_arguments.delta", "call 0">>,
                    <<"response.completed", "creation">>, <<"response.novel.delta">>}]

\* A keep-alive, a blank line too many, and a frame longer than the bound.
Oddities(d) ==
    {Unix(<<":">>), <<LF>> \o Unix(Usage[d]),
     Usage[d] \o [i \in 1..MaxFrameBytes |-> "more"] \o <<LF, LF>>}

Core(d) == {Unix(Usage[d]), Unix(Failure[d]), Dos(Usage[d]), Dos(Failure[d])} \cup Oddities(d)

\* Any two frames, and three of those that bear on a count.
MCStreams ==
    [d \in Dialects |-> SeqOf(Core(d) \cup {Unix(w): w \in Words[d]}, 2) \cup SeqOf(Core(d), 3)]

\* Bodies within the bound and past it, with usage and without.
MCBodies == {<<"read", "text">>, <<"text">>, <<"text", "text", "creation", "text", "text">>}
=============================================================================
