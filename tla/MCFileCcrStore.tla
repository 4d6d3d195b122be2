--------------------------- MODULE MCFileCcrStore ---------------------------
(* Instances of FileCcrStore for TLC. *)
EXTENDS FileCcrStore, TLC

\* The putters do the same things: none of the properties tells them apart.
Alike == Permutations(Putters)

\* A lookup changes nothing that anybody else sees, so no behaviour is lost that goes on
\* after a reader has been answered: the same happens without that lookup.
UntilAnswered == \A r \in Readers: asked[r].answer = "pending" \/ asked[r].hash = NoHash
=============================================================================
