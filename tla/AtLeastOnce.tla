---------------------------- MODULE AtLeastOnce ----------------------------
(***************************************************************************)
(* What the sending of a message to one recipient of another server        *)
(* promises.  The recipient's server has taken the message before it       *)
(* counts as delivered, and a failure is reported only while no copy is    *)
(* known to have arrived.  A second copy is sent only after a doubt: the   *)
(* confirmation of the first was lost, or was forgotten in a crash.        *)
(* Attempts, routes and servers are not visible here.                      *)
(***************************************************************************)
EXTENDS Naturals

VARIABLES
    discards,   \* messages of this configuration are taken and thrown away
    outcome,    \* "pending", "delivered" or "bounced"
    taken,      \* how often a server took the message
    confirmed,  \* one is known to have taken it
    doubts      \* how often a confirmation was lost or may have been

vars == <<discards, outcome, taken, confirmed, doubts>>

Init ==
    /\ discards \in BOOLEAN
    /\ outcome = "pending"
    /\ taken = 0 /\ confirmed = FALSE /\ doubts = 0

\* A server takes the message and says so.
Confirm ==
    /\ outcome = "pending" /\ ~confirmed
    /\ taken' = taken + 1 /\ confirmed' = TRUE
    /\ UNCHANGED <<discards, outcome, doubts>>

\* It takes the message, and nobody knows.
TakeUnseen ==
    /\ outcome = "pending" /\ ~confirmed
    /\ taken' = taken + 1 /\ doubts' = doubts + 1
    /\ UNCHANGED <<discards, outcome, confirmed>>

\* A crash.
Forget ==
    /\ outcome = "pending"
    /\ doubts' = doubts + 1 /\ confirmed' = FALSE
    /\ UNCHANGED <<discards, outcome, taken>>

Deliver ==
    /\ outcome = "pending" /\ (confirmed \/ discards)
    /\ outcome' = "delivered"
    /\ UNCHANGED <<discards, taken, confirmed, doubts>>

Bounce ==
    /\ outcome = "pending" /\ ~confirmed
    /\ outcome' = "bounced"
    /\ UNCHANGED <<discards, taken, confirmed, doubts>>

Next == Confirm \/ TakeUnseen \/ Forget \/ Deliver \/ Bounce

Spec == Init /\ [][Next]_vars
=============================================================================
