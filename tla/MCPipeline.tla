------------------------------ MODULE MCPipeline ------------------------------
(***************************************************************************)
(* Every small content of each type, and every way a block of it can meet  *)
(* the gates.                                                              *)
(***************************************************************************)
EXTENDS Pipeline

MCFloor == [json |-> 40, log |-> 20, diff |-> 20, search |-> 20, code |-> 30, prose |-> 35]
MCFieldNames == <<"kind", "id", "status", "error", "score", "note">>
MCLimits == [max_bytes |-> 400, max_line_bytes |-> 120, max_lines |-> 14, max_depth |-> 3]

MCPlaceholder ==
  [t \in {"10:15:00", "1", "2"} |-> IF t = "10:15:00" THEN "<ts>" ELSE "<n>"]

Question == {"parser", "disk"}

SeqsOf(S, lengths) == UNION {[1..n -> S] : n \in lengths}

(* Logs: a template that repeats, one that is its own only example, and    *)
(* failures, one of them with no level detection knows.                    *)
LogLine(tokens) == [Plain EXCEPT !.tokens = tokens, !.size = 12]
LogLines ==
  {LogLine(<<"10:15:00", "INFO", "request", "1">>), LogLine(<<"10:15:00", "INFO", "request", "2">>),
   LogLine(<<"INFO", "started">>), Blank,
   LogLine(<<"10:15:00", "ERROR", "failed", "1">>), LogLine(<<"PANIC", "failed">>)}
Logs == {Text(s) : s \in SeqsOf(LogLines, {4, 5})}

(* Search results: hits in three files, a footer, a path without a match.  *)
Hit(path) == [Plain EXCEPT !.hit = "match", !.path = path, !.size = 14]
SearchLines == {Hit("a"), Hit("b"), Hit("c"), [Plain EXCEPT !.hit = "prefix", !.path = "a"], Plain}
Searches == {Text(s) : s \in SeqsOf(SearchLines, {4, 5})}

(* Diffs: two files of one hunk each, one of which may be a lockfile, and  *)
(* a hunk without a file before them.                                      *)
Ctx == Plain
Plus(t)  == [Plain EXCEPT !.mark = "plus", !.squeezed = t]
Minus(t) == [Plain EXCEPT !.mark = "minus", !.squeezed = t]
Hunk     == [Plain EXCEPT !.mark = "hunk"]
FileHeader(path) == <<[Plain EXCEPT !.mark = "from"], [Plain EXCEPT !.mark = "file", !.path = path]>>
Bodies == {<<Minus("x"), Plus("x")>>, <<Minus("x"), Plus("y")>>, <<Plus("x")>>,
           <<Plus("x"), Plus("y"), Minus("y"), Minus("x")>>,
           <<Ctx, Ctx, Ctx, Plus("x"), Ctx, Ctx>>, <<Ctx, Minus("x"), Ctx, Ctx, Ctx, Plus("x")>>}
Section(path, body) == FileHeader(path) \o <<Hunk>> \o body
Diffs ==
  {Text(Section(p, b) \o Section(q, d)) : p, q \in {"src", "lock"}, b, d \in Bodies}
    \cup {Text(<<Hunk>> \o b \o <<Hunk>> \o d) : b, d \in Bodies}
    \cup {Text(Section(p, b) \o <<Hunk>> \o d) : p \in {"src", "lock"}, b, d \in Bodies}

(* Programs: a definition with its brace, without one, and braces alone.   *)
Code(opener, opens, closes) ==
  [Plain EXCEPT !.opener = opener, !.opens = opens, !.closes = closes]
Preamble == [Code("use ", 0, 0) EXCEPT !.words = {"fn ", "impl ", "struct ", "->"}]
BracedLines == {Code("fn ", 1, 0), Code("struct ", 0, 0), Code("", 0, 0),
                Code("", 1, 0), Code("", 0, 1)}
Indented(opener, indent) == [Code(opener, 0, 0) EXCEPT !.indent = indent]
Header == [Code("import ", 0, 0) EXCEPT !.words = {"def ", "import ", "class "}]
PythonLines == {Indented("def ", 0), Indented("def ", 2), Indented("", 2), Indented("", 4),
                Indented("", 0), Blank}
Programs == {Text(<<Preamble>> \o s) : s \in SeqsOf(BracedLines, {5})}
              \cup {Text(<<Header>> \o s) : s \in SeqsOf(PythonLines, {4})}

(* Prose: what is routine and what is not. *)
Open  == [Plain EXCEPT !.tags = <<[name |-> "a", closing |-> FALSE]>>]
Close == [Plain EXCEPT !.tags = <<[name |-> "a", closing |-> TRUE]>>]
ProseLines == {Plain, Open, Close, [Plain EXCEPT !.terms = {"error", "disk"}],
               [Plain EXCEPT !.terms = {"retry", "parser"}],
               [Plain EXCEPT !.anchor = "heading", !.notable = TRUE]}
Proses(length) == {Text(s) : s \in SeqsOf(ProseLines, {length})}

(* Documents: records with a constant, an identifier, a status, an error   *)
(* and a score, each of which may differ or be absent; the middle three    *)
(* come in one order only.                                                 *)
Base(i) == [kind |-> <<"text", 4>>, id |-> <<"number", 10 * i>>, status |-> <<"text", 2>>]
With1(r, f, v) == [g \in DOMAIN r \cup {f} |-> IF g = f THEN v ELSE r[g]]
Variant(i, v) ==
  CASE v = 1 -> Base(i)
    [] v = 2 -> [Base(i) EXCEPT !.status = <<"text", 3>>]
    [] v = 3 -> With1(Base(i), "error", <<"text", 5>>)
    [] v = 4 -> With1(Base(i), "error", <<"text", 10 + i>>)
    [] v = 5 -> With1(Base(i), "score", <<"number", 5 * i>>)
    [] v = 6 -> With1(Base(i), "note", <<"text", 60>>)
RecordSets == {[i \in 1..5 |-> Variant(i, vs[i])] :
                 vs \in {v \in [1..5 -> 1..6] : v[2] <= v[3] /\ v[3] <= v[4]}}
Scored == [i \in 1..8 |-> With1(Base(i), "score", <<"number", 5 * i>>)]
Mixed  == [i \in 1..8 |-> IF i = 7 THEN [Base(i) EXCEPT !.status = <<"number", 50>>]
                                   ELSE [Base(i) EXCEPT !.status = <<"number", 10>>]]

DocumentSize(records, leaves) ==
  Total([i \in DOMAIN records |-> 2 + RecordSize(records[i])])
    + Total([k \in DOMAIN leaves |-> IF leaves[k].at = 0 THEN SizeOf(leaves[k].lines) ELSE 0])
Document(records, leaves, padding) ==
  Json(records, [i \in DOMAIN records |-> IF i = 4 THEN {"parser"} ELSE {}], leaves, padding, 2,
       padding + DocumentSize(records, leaves))

Narrative == <<Plain, Plain, [Plain EXCEPT !.terms = {"failed"}], Plain, Plain, Plain>>
Leaf(at, depth) == [at |-> at, field |-> "note", depth |-> depth, lines |-> Narrative]
WithNote(records, i) == [records EXCEPT ![i] = With1(@, "note", <<"text", 60>>)]
Documents == {Document(r, <<>>, 0) : r \in RecordSets}
Nested ==
  {Document(<<>>, <<Leaf(0, 1), Leaf(0, 1)>>, 0), Document(<<>>, <<Leaf(0, 9)>>, 0),
   Document(<<Base(1)>>, <<>>, 20), Document(Scored, <<>>, 20), Document(Mixed, <<>>, 0),
   Document(WithNote(Scored, 5), <<Leaf(5, 2)>>, 0),
   Document(WithNote(WithNote(Scored, 2), 6), <<Leaf(2, 2), Leaf(6, 2)>>, 0)}

(* Contents the gates stop, or tell apart. *)
Trailing == [Plain EXCEPT !.trailing = 3]
Odd ==
  {Text(<<>>), Text(<<Blank, Blank>>), Text(<<Trailing, Blank, Blank, Blank, Plain>>),
   Text([i \in 1..15 |-> Plain]), Text(<<[Plain EXCEPT !.size = 130], Plain>>),
   Text([i \in 1..5 |-> [Plain EXCEPT !.size = 100]]),
   Text([i \in 1..5 |-> [Plain EXCEPT !.opener = "{", !.opens = 1]]),
   [Document(Scored, <<>>, 0) EXCEPT !.depth = 4]}
Typical ==
  {CHOOSE c \in S : TRUE : S \in {{Text(<<Plain, Plain, [Plain EXCEPT !.terms = {"failed"}], Plain, Plain>>)},
     {Text([i \in 1..5 |-> LogLine(<<"10:15:00", "INFO", "request", "1">>)])}}}

Case(c, kind, query, mode, worth) ==
  [content |-> c, kind |-> kind, query |-> query, mode |-> mode, worth |-> worth]

(* Each content as a tool's output of a request that pays by use; the ones *)
(* a question can pin lines or records of also with one.                   *)
AsToolOutput(corpus, query) == {Case(c, "tool_result", query, "payg", TRUE) : c \in corpus}
MCCases ==
  <<AsToolOutput(Logs, {}), AsToolOutput(Searches, {}), AsToolOutput(Diffs, {}),
    AsToolOutput(Programs, {}), AsToolOutput(Proses(4), {}), AsToolOutput(Proses(5), Question),
    AsToolOutput(Documents, {}),
    {Case(c, kind, query, mode, worth) :
       c \in Nested \cup Odd \cup Typical, kind \in Kinds, query \in {{}, Question},
       mode \in {"payg", "oauth", "subscription"}, worth \in BOOLEAN}>>
=============================================================================
