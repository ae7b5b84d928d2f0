---------------------------- MODULE MCMessQueue ----------------------------
(***************************************************************************)
(* Instances of MessQueue for TLC.                                         *)
(***************************************************************************)
EXTENDS MessQueue, TLC

CONSTANTS m1, m2, w1, w2, t1, t2

MsgSymmetry == Permutations(Msgs) \cup Permutations(Workers) \cup Permutations(Admins)
=============================================================================
