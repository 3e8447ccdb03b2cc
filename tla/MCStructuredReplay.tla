-------------------------- MODULE MCStructuredReplay --------------------------
(* StructuredReplay for TLC. *)
EXTENDS StructuredReplay

WrittenHere == [stdout |-> 3, stderr |-> 1]
=============================================================================
