------------------------------ MODULE MCTyping ------------------------------
(* Typing for TLC: one user in several tabs. *)
EXTENDS Typing, TLC

CONSTANT alice

MCUserOf == [s \in Socket |-> alice]
=============================================================================
