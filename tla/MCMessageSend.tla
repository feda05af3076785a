--------------------------- MODULE MCMessageSend ---------------------------
(* MessageSend for TLC: three sends of one key, one of another and one     *)
(* without a key.                                                          *)
EXTENDS MessageSend, TLC

CONSTANTS s1, s2, s3, s4, s5, k1, k2

MCSend == {s1, s2, s3, s4, s5}
MCKey == {k1, k2}
MCKeyOf ==
    [s \in MCSend |-> CASE s \in {s1, s2, s3} -> k1
                        [] s = s4             -> k2
                        [] OTHER              -> NoKey]
=============================================================================
