------------------------------ MODULE Memories ------------------------------
(***************************************************************************)
(* The facts a proxy may append to a request: MemoryStore                  *)
(* (headroom-core/src/memory.rs), read once from a file, or a linked       *)
(* database that is asked per request (headroom-proxy/linked_memory.rs).   *)
(*                                                                         *)
(* A fact is a name; two spellings of it differ in whitespace alone and    *)
(* have one normal form, which is the fact.  About[f] is the set of texts  *)
(* a query must contain for the scorer to give f more than nothing.        *)
(***************************************************************************)
EXTENDS Naturals, Sequences, FiniteSets, SequencesExt

CONSTANTS
  FactOrder,    \* the facts in the order of the hashes that key the store
  About,        \* About[f]: what a text must be for f to bear on it
  MemoryLimit   \* how many facts one request may carry

Facts == {FactOrder[k] : k \in DOMAIN FactOrder}

(***************************************************************************)
(* from_jsonl_lossy: one record a line.  Skipped: a blank line, one that   *)
(* is not JSON or has no content, a sensitive and a superseded memory.     *)
(* remember counts a fact it has, and adds the source if it is new.        *)
(***************************************************************************)
Loaded(line) == line.form = "record" /\ ~line.sensitive /\ ~line.superseded

LinesOf(lines, f) == SelectSeq(lines, LAMBDA l : Loaded(l) /\ l.fact = f)

Remembered(lines) ==
  LET facts == {f \in Facts : LinesOf(lines, f) # <<>>}
  IN  [f \in facts |->
         LET of == LinesOf(lines, f)
         IN  [spelling |-> of[1].spelling,
              sources |-> {of[k].source : k \in DOMAIN of},
              occurrences |-> Len(of)]]

Corroborated(memory) == Cardinality(memory.sources) > 1

\* A total order of records: the one that is ahead in the first number that differs.
Ahead(a, b) ==
  \E k \in DOMAIN a : a[k] > b[k] /\ \A j \in 1..(k - 1) : a[j] = b[j]

Position(f) == CHOOSE k \in DOMAIN FactOrder : FactOrder[k] = f

Score(f, query) == Cardinality({k \in DOMAIN query : query[k] \in About[f]})

(***************************************************************************)
(* recall and recall_for_query: by relevance when anything is relevant,    *)
(* then by sources, occurrences and, so that nothing is left to the order  *)
(* of the lines, by key.                                                   *)
(***************************************************************************)
Recall(store, query) ==
  LET asked == \E f \in DOMAIN store : Score(f, query) > 0
      rank(f) == <<IF asked THEN Score(f, query) ELSE 0, Cardinality(store[f].sources),
                   store[f].occurrences, Len(FactOrder) - Position(f)>>
      ranked == SetToSortSeq(DOMAIN store, LAMBDA f, g : Ahead(rank(f), rank(g)))
  IN  SubSeq(ranked, 1, IF Len(ranked) < MemoryLimit THEN Len(ranked) ELSE MemoryLimit)

(* inject_block_for_query: one line a fact, as first spelled.              *)
BlockFromFile(store, query) ==
  LET recalled == Recall(store, query)
  IN  [k \in DOMAIN recalled |->
         [fact |-> recalled[k], spelling |-> store[recalled[k]].spelling,
          corroborated |-> Corroborated(store[recalled[k]])]]

(* LinkedMemory::search: the best of what the database finds, in its order. *)
Found(query) ==
  LET found == SelectSeq(FactOrder, LAMBDA f : Score(f, query) > 0)
  IN  SubSeq(found, 1, IF Len(found) < MemoryLimit THEN Len(found) ELSE MemoryLimit)

(* inject_block_ranked: in that order, and nothing of who else said so.    *)
BlockFromLink(query) ==
  LET found == Found(query)
  IN  [k \in DOMAIN found |-> [fact |-> found[k], spelling |-> 1, corroborated |-> FALSE]]

(* inject_memory_block: the linked database wins.  No facts, no block.     *)
MemoryBlock(source, lines, query) ==
  CASE source = "linked" -> BlockFromLink(query)
    [] source = "file"   -> BlockFromFile(Remembered(lines), query)
    [] OTHER             -> <<>>
=============================================================================
