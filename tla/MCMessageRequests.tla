------------------------- MODULE MCMessageRequests -------------------------
(* MessageRequests for TLC: two users, whose calls are interchangeable. *)
EXTENDS MessageRequests, TLC

CONSTANTS alice, bob

Interchangeable == Permutations(Op) \cup Permutations(User)
=============================================================================
