------------------------- MODULE MCMessageReceipts -------------------------
(* MessageReceipts for TLC: a conversation of two in which alice sent the  *)
(* first messages and bob the last one.                                    *)
EXTENDS ReadStates, TLC

CONSTANTS alice, bob, o1, o2, o3

MCAuthor == [m \in Message |-> IF m = LastMessage THEN bob ELSE alice]
Interchangeable == Permutations(Op)
=============================================================================
