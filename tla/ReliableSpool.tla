--------------------------- MODULE ReliableSpool ---------------------------
(***************************************************************************)
(* What the spool promises to whoever hands it a message: the message is   *)
(* kept until it was delivered, its sender was told that it was not or a   *)
(* filter refused it, or until an administrator deletes it.  Crashes and   *)
(* restarts of the server, its queues, threads and retries are not visible *)
(* here.                                                                   *)
(***************************************************************************)
CONSTANT Msgs

VARIABLES
    status,     \* "absent", "queued", "frozen", "gone"
    settled     \* the message was delivered or refused

vars == <<status, settled>>

Init ==
    /\ status = [m \in Msgs |-> "absent"]
    /\ settled = [m \in Msgs |-> FALSE]

Accept(m) ==
    /\ status[m] = "absent"
    /\ status' = [status EXCEPT ![m] = "queued"]
    /\ UNCHANGED settled

Settle(m) ==
    /\ status[m] = "queued"
    /\ settled' = [settled EXCEPT ![m] = TRUE]
    /\ UNCHANGED status

\* Only a settled message leaves the queue.
Finish(m) ==
    /\ status[m] = "queued" /\ settled[m]
    /\ status' = [status EXCEPT ![m] = "gone"]
    /\ UNCHANGED settled

\* A frozen message is kept, so that its sender may not have heard of it yet.
Freeze(m) ==
    /\ status[m] = "queued"
    /\ status' = [status EXCEPT ![m] = "frozen"]
    /\ UNCHANGED settled

\* frozsubmit and frozdel of the administrator.
Resubmit(m) ==
    /\ status[m] = "frozen"
    /\ status' = [status EXCEPT ![m] = "queued"]
    /\ settled' = [settled EXCEPT ![m] = FALSE]

Delete(m) ==
    /\ status[m] = "frozen"
    /\ status' = [status EXCEPT ![m] = "gone"]
    /\ UNCHANGED settled

Next ==
    \E m \in Msgs :
        \/ Accept(m) \/ Settle(m) \/ Finish(m)
        \/ Freeze(m) \/ Resubmit(m) \/ Delete(m)

Spec == Init /\ [][Next]_vars
=============================================================================
