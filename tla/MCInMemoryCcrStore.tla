------------------------- MODULE MCInMemoryCcrStore -------------------------
(* Instances of InMemoryCcrStore for TLC. *)
EXTENDS InMemoryCcrStore
=============================================================================
