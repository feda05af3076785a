------------------------ MODULE MCVerificationEmail ------------------------
(* VerificationEmail for TLC. *)
EXTENDS VerificationEmail, TLC

CONSTANTS j1, j2, p1, r1, r2, r3, t1, t2

Interchangeable == Permutations(Slot) \cup Permutations(Direct)
OneJob == {j1}
TwoJobs == {j1, j2}
OneJobOf == [r \in Request |-> j1]
TwoJobsOf == [r \in Request |-> IF r = r1 THEN j1 ELSE j2]
=============================================================================
