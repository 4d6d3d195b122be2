----------------------------- MODULE CcrPromise -----------------------------
(***************************************************************************)
(* What a CCR store promises, whatever its backend: the contract of the    *)
(* trait CcrStore (headroom-core/src/ccr/mod.rs).                          *)
(*                                                                         *)
(* A compressor offers an original to the store.  Once put has returned Ok *)
(* the marker <<ccr:HASH>> goes into the prompt, and from then on the      *)
(* model may redeem it: "retrievable for at least ttl".  Hashes are        *)
(* digests of the content, so a hash stands for the original it names and  *)
(* a lookup is either the whole original or a miss.                        *)
(***************************************************************************)
EXTENDS Naturals

CONSTANTS
    Hashes,   \* the originals, each named by its ContentHash
    NoHash,   \* the hash of a reader that has not asked yet
    Readers   \* the callers of get: the proxy's retrieval API, the MCP server

VARIABLES
    clock,    \* the time every caller reads
    offered,  \* the originals some put has begun to store
    held,     \* held[h]: until when an acknowledged put promised h (0: never)
    asked     \* asked[r]: the latest lookup of reader r

vars == <<clock, offered, held, asked>>

Answers == {"none", "pending", "found", "miss"}

(***************************************************************************)
(* A lookup remembers what was owed when it began, and when it was         *)
(* answered, so that an answer can be judged after the clock has moved on. *)
(***************************************************************************)
Lookup == [hash: Hashes \cup {NoHash}, owed: Nat, answer: Answers, at: Nat]

TypeOK ==
    /\ clock \in Nat
    /\ offered \subseteq Hashes
    /\ held \in [Hashes -> Nat]
    /\ asked \in [Readers -> Lookup]

Init ==
    /\ clock \in Nat
    /\ offered = {}
    /\ held = [h \in Hashes |-> 0]
    /\ asked = [r \in Readers |->
                    [hash |-> NoHash, owed |-> 0, answer |-> "none", at |-> 0]]

Tick ==
    /\ clock' \in Nat
    /\ clock' > clock
    /\ UNCHANGED <<offered, held, asked>>

Offer(h) ==
    /\ offered' = offered \cup {h}
    /\ UNCHANGED <<clock, held, asked>>

(***************************************************************************)
(* A put returns Ok.  Its promise joins the ones already made for the same *)
(* original: storing a hash twice never takes back what the first put      *)
(* promised.                                                               *)
(***************************************************************************)
Acknowledge(h) ==
    /\ h \in offered
    /\ held'[h] \in Nat
    /\ held'[h] >= held[h]
    /\ held' = [held EXCEPT ![h] = held'[h]]
    /\ UNCHANGED <<clock, offered, asked>>

Ask(r, h) ==
    /\ asked[r].answer # "pending"
    /\ asked' = [asked EXCEPT ![r] =
                    [hash |-> h, owed |-> held[h], answer |-> "pending", at |-> clock]]
    /\ UNCHANGED <<clock, offered, held>>

AnswerWith(r, answer) ==
    /\ asked[r].answer = "pending"
    /\ asked' = [asked EXCEPT ![r] = [@ EXCEPT !.answer = answer, !.at = clock]]
    /\ UNCHANGED <<clock, offered, held>>

Found(r) == asked[r].hash \in offered /\ AnswerWith(r, "found")

(***************************************************************************)
(* A miss is honest only when nothing owed at the start of the lookup is   *)
(* still owed at its end.                                                  *)
(***************************************************************************)
Miss(r) == asked[r].owed <= clock /\ AnswerWith(r, "miss")

\* Lookups end without an answer: their process dies, or the store returns an error.
Abandon(dead) ==
    /\ \A r \in dead: asked[r].answer = "pending"
    /\ asked' = [r \in Readers |-> IF r \in dead
                                    THEN [asked[r] EXCEPT !.answer = "none", !.at = clock]
                                    ELSE asked[r]]
    /\ UNCHANGED <<clock, offered, held>>

Next ==
    \/ Tick
    \/ \E h \in Hashes: Offer(h) \/ Acknowledge(h)
    \/ \E r \in Readers: \/ \E h \in Hashes: Ask(r, h)
                         \/ Found(r) \/ Miss(r)
    \/ \E dead \in SUBSET Readers: Abandon(dead)

Spec == Init /\ [][Next]_vars

(***************************************************************************)
(* A miss is only ever the answer when the time every acknowledged put had *)
(* promised by the start of the lookup has run out.                        *)
(***************************************************************************)
PromiseKept ==
    \A r \in Readers: asked[r].answer = "miss" => asked[r].owed <= asked[r].at

\* A lookup never finds an original that nobody stored.
NothingInvented ==
    \A r \in Readers: asked[r].answer = "found" => asked[r].hash \in offered
=============================================================================
