-------------------------------- MODULE Sorting --------------------------------
(***************************************************************************)
(* The rows that a query with an orderBy returns, as Prisma and MongoDB    *)
(* sort them.  A place is found by counting, so that what holds of it      *)
(* follows from facts about finite sets, without induction.                *)
(***************************************************************************)
EXTENDS Naturals, FiniteSets

Before(S, order, m) == {n \in S : <<n, m>> \in order}

(* S as a sequence: each member at the place that those before it leave.   *)
Sorted(S, order) ==
    [i \in 1..Cardinality(S) |->
        CHOOSE m \in S : Cardinality(Before(S, order, m)) = i - 1]
=============================================================================
