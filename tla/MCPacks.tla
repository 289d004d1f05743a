------------------------------- MODULE MCPacks -------------------------------
(* Packs with the symmetry of its ids and requests.                        *)
EXTENDS Packs, TLC

Symmetry == Permutations(Txs) \cup Permutations(Uuids) \cup Permutations(Calls)
=============================================================================
