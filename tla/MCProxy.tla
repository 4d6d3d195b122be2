------------------------------ MODULE MCProxy ------------------------------
(* Small instances of Proxy for TLC: each workload is a deployment, what   *)
(* may be asked of it and how often.                                       *)
EXTENDS Proxy

CONSTANTS client1, client2, garbled

MCClients == {client1, client2}
Symmetry == Permutations(MCClients)

Url(scheme, host, port) == [scheme |-> scheme, host |-> host, port |-> port]
Itself == Url("http", "loopback", 8787)
Mock == Url("http", "elsewhere", 0)

MCDefaultListen == [host |-> "loopback", port |-> 8787]
MCDefaultUpstream == Url("https", "provider", 0)
MCDefaultLimits == [bytes |-> 20, lines |-> 20]

\* Texts, by their paths.
Under(step, text) ==
  [path \in {<<step>> \o p : p \in DOMAIN text} |-> text[SubSeq(path, 2, Len(path))]]
Scalar(kind) == <<>> :> kind
Record(a, b) == Scalar("object") @@ Under(<<"member", "id">>, a) @@ Under(<<"member", "name">>, b)
Records(some) ==
  Scalar("array") @@ FoldSeq(LAMBDA text, rest : text @@ rest, [path \in {} |-> "none"],
                             [n \in DOMAIN some |-> Under(<<"item", n>>, some[n])])

Rows == Records(<<Record(Scalar("number"), Scalar("string")), Record(Scalar("null"), Scalar("string"))>>)
MoreRows == Records(<<Record(Scalar("number"), Scalar("string"))>>)
OneRow == Record(Scalar("number"), Rows)
Prose == Scalar("text")
Image == Scalar("other")
Sized(before, after, reformatted) == [before |-> before, after |-> after, reformatted |-> reformatted]
MCSize == (Rows :> Sized(10, 4, 8)) @@ (MoreRows :> Sized(10, 10, 10)) @@ (OneRow :> Sized(10, 10, 10))
            @@ (Prose :> Sized(10, 6, 10)) @@ (Image :> Sized(10, 10, 10))
MCCompressible == {Rows, MoreRows, OneRow, Prose}
MCTyped == {Prose}
MCFails == {MoreRows}
Sonnet == <<"claude", "sonnet", "4">>
Opus == <<"claude", "opus", "4", "20250514">>

With(settings) == [name \in Known |-> IF name \in DOMAIN settings THEN settings[name] ELSE {}]

Request(route, credential, model, blocks) ==
  [route |-> route, query |-> "beta", credential |-> credential, model |-> model, blocks |-> blocks,
   lacks |-> {"prompt_cache_key", "reasoning_effort"},
   headers |-> {"authorization", "host", "accept-encoding", "x-forwarded-for"}]

ApiKey == [key |-> "api", token |-> "opaque"]
OAuth == [key |-> "none", token |-> "oauth"]
Session == [key |-> "opaque", token |-> "opaque"]

Bulk == Request("messages", ApiKey, Sonnet, <<Rows>>)
Mixed == Request("messages", ApiKey, Sonnet, <<MoreRows, Prose, Rows>>)
Vain == [Request("chat", [key |-> "none", token |-> "api"], Opus, <<OneRow, Image>>) EXCEPT
           !.lacks = {"prompt_cache_key"}]
Scoped == Request("responses", OAuth, Sonnet, <<Rows>>)
Models == Request("models", Session, Sonnet, <<>>)
Chatty == Request("messages", ApiKey, Sonnet, <<Prose>>)
Items == Request("conversations", ApiKey, Sonnet, <<>>)
HalfUpgrade == [Models EXCEPT !.headers = @ \cup {"upgrade: websocket", "connection: upgrade"}]
Upgrade == [HalfUpgrade EXCEPT !.headers = @ \cup {"sec-websocket-key"}]

Kinds == {"start", "stop", "kill", "http", "socket", "admin", "probe", "export", "learn", "link"}
Times(some) == [kind \in Kinds |-> IF kind \in DOMAIN some THEN some[kind] ELSE 0]

Plain ==
  [env |-> With([none |-> {}]), opens |-> {"file"}, tls |-> TRUE, requests |-> {Models}, calls |-> {},
   exports |-> {}, left |-> Times([start |-> 1]), until |-> 0]

\* A burst, a pause of any length and another burst, over two windows and a restart.
Bursts ==
  [Plain EXCEPT !.env = With([RATE_LIMIT |-> {2}]), !.left = Times([start |-> 2, stop |-> 1, http |-> 7]),
                !.until = 5]

\* An operator at work while requests are served: what is live, what is not, and the upstream.
Operated ==
  [Plain EXCEPT !.requests = {Bulk, Scoped, Chatty},
                !.calls = {[COMPRESSION |-> {"off"}, OUTPUT_SHAPER |-> {"terse"}],
                           [COMPRESSION |-> {}, STABILIZE |-> {"on"}, UNKNOWN |-> {"x"}],
                           [UPSTREAM |-> {Mock}, MAX_BYTES |-> {5}, CCR_DIR |-> {"dir"}]},
                !.left = Times([start |-> 2, stop |-> 1, http |-> 2, admin |-> 3])]

\* The listen address and the upstream, in one call or one after the other.
Retargeted ==
  [Plain EXCEPT !.requests = {HalfUpgrade, Upgrade}, !.calls = {[PORT |-> {9999}], [UPSTREAM |-> {Itself}],
                           [UPSTREAM |-> {Itself}, HOST |-> {"any"}], [RATE_LIMIT |-> {3}]},
                !.left = Times([start |-> 2, stop |-> 1, socket |-> 1, http |-> 1, admin |-> 2])]

\* Two probers of a link that comes and goes.
Probed ==
  [Plain EXCEPT !.left = Times([start |-> 1, stop |-> 1, probe |-> 4, link |-> 3]), !.until = 5]

\* What is learned while one process runs is of use to the next.
Learning ==
  [Plain EXCEPT !.env = With([RECOMMENDATIONS |-> {"file"}, SAVINGS |-> {"ledger"}, RATE_LIMIT |-> {garbled}]),
                !.requests = {Bulk, Mixed, Vain},
                !.exports = {Single(KeyOf("payg", Sonnet, Rows),
                                    [samples |-> 2, before |-> 0, after |-> 0, declines |-> 2])},
                !.left = Times([start |-> 2, kill |-> 1, http |-> 3, export |-> 1, learn |-> 1])]

\* A proxy that is configured as its own upstream, and one that can build no client.
SelfLoop == [Plain EXCEPT !.env = With([UPSTREAM |-> {Itself}]), !.left = Times([start |-> 1, http |-> 1])]
NoTls ==
  [Plain EXCEPT !.tls = FALSE, !.requests = {Models, Items}, !.left = Times([start |-> 1, http |-> 2, probe |-> 1])]

MCWorkloads == {Bursts, Operated, Retargeted, Probed, Learning, SelfLoop, NoTls}
=============================================================================
