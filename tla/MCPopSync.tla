------------------------------ MODULE MCPopSync ------------------------------
(* Small instances of PopSync: a link that leaves its messages, and one that *)
(* takes them, of two mailboxes.                                             *)
EXTENDS PopSync

MCLinks == <<"keep", "take">>
MCHome == [keep |-> "pop.a", take |-> "pop.b"]

\* The first alone, for which only the remote server may fail.
OneLink == <<"keep">>

\* SyncThreads of each start.
TwoThenOne == <<2, 1>>
OneThread == <<1>>
=============================================================================
