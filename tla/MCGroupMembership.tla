------------------------- MODULE MCGroupMembership -------------------------
(* GroupMembership for TLC. *)
EXTENDS GroupMembership, TLC

CONSTANTS ann

Interchangeable == Permutations(Op) \cup Permutations(User \ {Creator})
=============================================================================
