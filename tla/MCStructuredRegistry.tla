------------------------- MODULE MCStructuredRegistry -------------------------
(* StructuredRegistry for TLC: clients, ids and runs are interchangeable. *)
EXTENDS StructuredRegistry, TLC

Symmetry == Permutations(Clients) \cup Permutations(Ids) \cup Permutations(Runs)
=============================================================================
