-------------------------- MODULE MCCallSignaling --------------------------
(* CallSignaling for TLC: a direct conversation between every two users and*)
(* one group of all.                                                       *)
EXTENDS CallSignaling, TLC

CONSTANTS A, B, C, c1, c2

MCConversation == {users \in SUBSET User : Cardinality(users) >= 2}
MCMembers == [c \in MCConversation |-> c]
MCDirect == {c \in MCConversation : Cardinality(c) = 2}

UserSymmetry == Permutations(User)
=============================================================================
