--------------------------- MODULE MCSMTPSession ---------------------------
(***************************************************************************)
(* Instances of SMTPSession for TLC: u1 may do everything and wants no     *)
(* X-AuthUser, u2 may do nothing; r1 is a local recipient, r2 is not.      *)
(***************************************************************************)
EXTENDS SMTPSession

CONSTANTS r1, r2, u1, u2

MCPerms == [u \in Users |-> IF u = u1 THEN Perms ELSE {}]
MCNoEmit == [u \in Users |-> IF u = u1 THEN "yes" ELSE "unset"]
=============================================================================
