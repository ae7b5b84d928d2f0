----------------------------- MODULE MCSysWait -----------------------------
(***************************************************************************)
(* Four threads on an object of each kind.                                 *)
(***************************************************************************)
EXTENDS SysWait

CONSTANTS t1, t2, t3, t4
=============================================================================
