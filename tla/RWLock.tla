------------------------------- MODULE RWLock -------------------------------
(***************************************************************************)
(* What a caller of ResLocks.cpp is promised: a lock per resource name,    *)
(* shared or exclusive.  A call of RLckLockEX / RLckLockSH is one abstract *)
(* "waiting" phase that ends with the lock granted or refused; RLckUnlock  *)
(* gives it back.  How callers sleep and are woken is not visible here.    *)
(***************************************************************************)
CONSTANTS
    Calls,      \* lock calls that can be outstanding at the same time
    Resources,  \* the resource names
    NoResource  \* the value of a call that asks for nothing

Modes == {"SH", "EX"}

VARIABLES
    phase,      \* of each call: "idle", "waiting", "holding"
    target,     \* the resource it waits for or holds
    access      \* in which mode

vars == <<phase, target, access>>

TypeOK ==
    /\ phase \in [Calls -> {"idle", "waiting", "holding"}]
    /\ target \in [Calls -> Resources \cup {NoResource}]
    /\ access \in [Calls -> Modes]

Init ==
    /\ phase = [c \in Calls |-> "idle"]
    /\ target = [c \in Calls |-> NoResource]
    /\ access = [c \in Calls |-> "SH"]

Conflict(m, n) == m = "EX" \/ n = "EX"

Request(c, r, m) ==
    /\ phase[c] = "idle"
    /\ phase' = [phase EXCEPT ![c] = "waiting"]
    /\ target' = [target EXCEPT ![c] = r]
    /\ access' = [access EXCEPT ![c] = m]

\* A grant never conflicts with a lock already held on the same resource.
Grant(c) ==
    /\ phase[c] = "waiting"
    /\ \A d \in Calls : phase[d] = "holding" /\ target[d] = target[c]
                           => ~Conflict(access[c], access[d])
    /\ phase' = [phase EXCEPT ![c] = "holding"]
    /\ UNCHANGED <<target, access>>

\* The call returns INVALID_RLCK_HANDLE.
Refuse(c) ==
    /\ phase[c] = "waiting"
    /\ phase' = [phase EXCEPT ![c] = "idle"]
    /\ UNCHANGED <<target, access>>

Release(c) ==
    /\ phase[c] = "holding"
    /\ phase' = [phase EXCEPT ![c] = "idle"]
    /\ UNCHANGED <<target, access>>

Next ==
    \E c \in Calls :
        \/ \E r \in Resources, m \in Modes : Request(c, r, m)
        \/ Grant(c)
        \/ Refuse(c)
        \/ Release(c)

Spec == Init /\ [][Next]_vars

(***************************************************************************)
(* Two locks held at the same time on one resource are both shared.        *)
(***************************************************************************)
Exclusion ==
    \A c, d \in Calls :
        (c # d /\ phase[c] = "holding" /\ phase[d] = "holding" /\ target[c] = target[d])
            => ~Conflict(access[c], access[d])
=============================================================================
