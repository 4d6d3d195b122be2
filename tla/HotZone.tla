------------------------------ MODULE HotZone ------------------------------
(***************************************************************************)
(* What comes before the messages of a request, and so before everything   *)
(* the provider caches: the tools and the instructions.  Stabilization     *)
(* brings the tools into an order (headroom-proxy/stabilization.rs), and   *)
(* volatile.rs looks for what differs from request to request and warns.   *)
(*                                                                         *)
(* A head is [tools, place, value]: the tools as they are serialized, and  *)
(* one value in the member or message at place.  A tool is its name, a     *)
(* number in alphabetical order and 0 if it has none at the top level, as  *)
(* in chat completions, and whether the keys of its schema are sorted.     *)
(* A value is a string or the number of a field, the class of its text or  *)
(* of the field's name, and the one it has this time.                      *)
(***************************************************************************)
EXTENDS Naturals, Sequences, FiniteSets

Tool == [name: Nat, keys: {"sorted", "as written"}]

\* A stable sort by name: the place of a tool is the number of tools that are not after it.
NotAfter(tools, i, j) ==
    tools[i].name < tools[j].name \/ (tools[i].name = tools[j].name /\ i <= j)

UpTo(tools, i) == {j \in DOMAIN tools: NotAfter(tools, j, i)}

At(tools, n) == CHOOSE i \in DOMAIN tools: Cardinality(UpTo(tools, i)) = n

KeysSorted(tool) == [tool EXCEPT !.keys = "sorted"]

\* normalize_tools: the tools in order, and sort_keys of each.
Sorted(tools) == [n \in DOMAIN tools |-> KeysSorted(tools[At(tools, n)])]

\* serde_json's equality of values: the order of an object's keys is no part of it.
SameValue(tools, others) ==
    /\ Len(tools) = Len(others)
    /\ \A i \in DOMAIN tools: tools[i].name = others[i].name

\* FAULT for Normalized: keys are sorted and the tools stay where they are.
NormalizedKeysOnly(tools) == [i \in DOMAIN tools |-> KeysSorted(tools[i])]

(***************************************************************************)
(* normalized_tools_member: the member is replaced if that changes the     *)
(* value, and left as it came if it does not.                              *)
(***************************************************************************)
Normalized(tools) == IF SameValue(Sorted(tools), tools) THEN tools ELSE Sorted(tools)

Rewritten(tools) == Normalized(tools) # tools

-----------------------------------------------------------------------------
(* detect_in and names_a_counter: a word that is a date, a UUID or a long  *)
(* run of hex digits, and a number whose field is named like a counter.    *)
Kinds(value) ==
    {kind \in {"timestamp", "uuid", "hex_token"}: value.form = "string" /\ value.class = kind}
    \cup {kind \in {"counter"}: value.form = "number" /\ value.class = kind}

(***************************************************************************)
(* scan: the places every dialect has its instructions in.  A user's       *)
(* message is none of them.                                                *)
(***************************************************************************)
Scanned == {"system", "tools", "instructions", "system message", "developer message"}

Scan(head) == {<<head.place, kind>>: kind \in {k \in Kinds(head.value): head.place \in Scanned}}
=============================================================================
