--------------------------- MODULE MCRenderRegistry ---------------------------
(* RenderRegistry for TLC: the sets whose members are interchangeable. *)
EXTENDS RenderRegistry, TLC

Symmetry == Permutations(Ids) \cup Permutations(Clients) \cup Permutations(Ptys)
=============================================================================
