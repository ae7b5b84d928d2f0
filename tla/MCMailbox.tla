----------------------------- MODULE MCMailbox -----------------------------
(***************************************************************************)
(* Instances of Mailbox for TLC: m3 and m4 have size 2, m1 and m2 size 1.  *)
(***************************************************************************)
EXTENDS Mailbox

CONSTANTS m1, m2, m3, m4, s1, s2, w1, w2

MCSize == [m \in Msgs |-> IF m \in {m3, m4} THEN 2 ELSE 1]
=============================================================================
