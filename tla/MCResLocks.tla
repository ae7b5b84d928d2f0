----------------------------- MODULE MCResLocks -----------------------------
(***************************************************************************)
(* Instances of ResLocks for TLC.  A session keeps server.tab shared in c1 *)
(* (SvrGetConfigHandle) and inside it takes a mailbox, or server.tab again *)
(* (SvrReadConfig), in c2; c3 is another thread on the mailbox and on the  *)
(* alias file; c4 is the administrator who rewrites server.tab or aliases. *)
(***************************************************************************)
EXTENDS ResLocks, TLC

CONSTANTS c1, c2, c3, c4, serverTab, mailbox, aliases, g1, g2

SessionWants ==
    (c1 :> {<<serverTab, "SH">>}) @@
    (c2 :> {<<serverTab, "SH">>, <<mailbox, "EX">>}) @@
    (c3 :> {<<mailbox, "EX">>, <<mailbox, "SH">>, <<aliases, "SH">>}) @@
    (c4 :> {<<serverTab, "EX">>, <<aliases, "EX">>})
SessionNesting == [c \in Calls |-> IF c = c2 THEN c1 ELSE NoCall]

\* The outer lock of the session alone at its gate, or all names at one gate.
TwoGates == [r \in Resources |-> IF r = serverTab THEN g1 ELSE g2]
OneGate == [r \in Resources |-> g1]
=============================================================================
