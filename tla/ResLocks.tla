------------------------------ MODULE ResLocks ------------------------------
(***************************************************************************)
(* The named read/write locks of ResLocks.cpp, which every thread of the   *)
(* server takes around the .tab files, the mailboxes and the log files.    *)
(*                                                                         *)
(* A resource name hashes to one of a few wait gates.  The gate holds the  *)
(* lock entries of all the names that hash to it, a counter of the callers *)
(* that wait at the gate and the semaphore they wait on.  One mutex,       *)
(* hRLMutex, covers every try and every unlock, so each is one action; the *)
(* wait on the semaphore is outside of it and is an action of its own.     *)
(*                                                                         *)
(* A member of Calls is one RLCK_HANDLE slot of a thread: it is idle, in   *)
(* RLckLock, or holds the handle.  A thread that takes a lock inside       *)
(* another one has two slots, the inner one naming the outer in Enclosing. *)
(***************************************************************************)
EXTENDS Naturals, FiniteSets

CONSTANTS
    Calls,        \* the handle slots
    Resources,    \* resource names
    NoResource,   \* of a slot that has not asked yet
    Gates,        \* wait gates
    GateOf,       \* [Resources -> Gates], RLckGetResLocator
    Wants,        \* [Calls -> SUBSET (Resources \X Modes)], what a slot asks for
    Enclosing,    \* [Calls -> Calls \cup {NoCall}], the slot held around it
    NoCall,
    MemoryFails   \* whether SysAlloc may return NULL

Modes == {"SH", "EX"}

ASSUME CallsAssumption == IsFiniteSet(Calls) /\ NoCall \notin Calls
ASSUME ResourcesAssumption == NoResource \notin Resources
ASSUME GateOfAssumption == GateOf \in [Resources -> Gates]
ASSUME WantsAssumption == Wants \in [Calls -> SUBSET (Resources \X Modes)]
ASSUME EnclosingAssumption == Enclosing \in [Calls -> Calls \cup {NoCall}]
ASSUME MemoryAssumption == MemoryFails \in BOOLEAN

VARIABLES
    pResList,           \* names that have a ResLockEntry
    iShLocks,           \* of the entry of a name
    iExLocks,
    iWaitingProcesses,  \* of a gate
    semCounter,         \* tokens in the semaphore of a gate
    pc,                 \* where a slot is
    res, mode           \* the name and the mode it asked for

lockVars == <<pResList, iShLocks, iExLocks, iWaitingProcesses, semCounter>>
callVars == <<res, mode>>
vars == <<lockVars, pc, callVars>>

\* "lost": RLckLock took the lock, then the copy of the name it returns as
\* the handle could not be allocated, so nobody can unlock it.
Places == {"idle", "trying", "asleep", "holding", "lost"}

TypeOK ==
    /\ pResList \subseteq Resources
    /\ iShLocks \in [Resources -> Nat]
    /\ iExLocks \in [Resources -> Nat]
    /\ iWaitingProcesses \in [Gates -> Nat]
    /\ semCounter \in [Gates -> Nat]
    /\ pc \in [Calls -> Places]
    /\ res \in [Calls -> Resources \cup {NoResource}]
    /\ mode \in [Calls -> Modes]

\* RLckInitLockers
Init ==
    /\ pResList = {}
    /\ iShLocks = [r \in Resources |-> 0]
    /\ iExLocks = [r \in Resources |-> 0]
    /\ iWaitingProcesses = [g \in Gates |-> 0]
    /\ semCounter = [g \in Gates |-> 0]
    /\ pc = [c \in Calls |-> "idle"]
    /\ res = [c \in Calls |-> NoResource]
    /\ mode = [c \in Calls |-> "SH"]

GateOfCall(c) == GateOf[res[c]]

-----------------------------------------------------------------------------
(* Entry and into the loop of RLckLock: the locator is computed. *)

RLckLock(c, r, m) ==
    /\ pc[c] = "idle"
    /\ Enclosing[c] # NoCall => pc[Enclosing[c]] = "holding"
    /\ <<r, m>> \in Wants[c]
    /\ pc' = [pc EXCEPT ![c] = "trying"]
    /\ res' = [res EXCEPT ![c] = r]
    /\ mode' = [mode EXCEPT ![c] = m]
    /\ UNCHANGED lockVars

\* Mutant: an exclusive caller looks at the exclusive count only.
BlockedEX_IgnoresReaders(r) == r \in pResList /\ iExLocks[r] > 0

\* The two ERR_LOCKED_RESOURCE conditions.
BlockedEX(r) == r \in pResList /\ (iExLocks[r] > 0 \/ iShLocks[r] > 0)
BlockedSH(r) == r \in pResList /\ iExLocks[r] > 0

Blocked(c) == IF mode[c] = "EX" THEN BlockedEX(res[c]) ELSE BlockedSH(res[c])

\* A new entry is zeroed by SysAlloc.
RLckTryLockEX(r) ==
    /\ pResList' = pResList \cup {r}
    /\ iExLocks' = [iExLocks EXCEPT ![r] = 1]
    /\ iShLocks' = IF r \in pResList THEN iShLocks ELSE [iShLocks EXCEPT ![r] = 0]

\* Mutant: a second reader sets the count instead of incrementing it.
RLckTryLockSH_NotCounted(r) ==
    /\ pResList' = pResList \cup {r}
    /\ iShLocks' = [iShLocks EXCEPT ![r] = 1]
    /\ iExLocks' = IF r \in pResList THEN iExLocks ELSE [iExLocks EXCEPT ![r] = 0]

RLckTryLockSH(r) ==
    /\ pResList' = pResList \cup {r}
    /\ iShLocks' = [iShLocks EXCEPT ![r] = IF r \in pResList THEN @ + 1 ELSE 1]
    /\ iExLocks' = IF r \in pResList THEN iExLocks ELSE [iExLocks EXCEPT ![r] = 0]

\* One pass of the loop that takes the lock; the handle is a copy of the name.
LockGranted(c) ==
    /\ pc[c] = "trying"
    /\ ~Blocked(c)
    /\ IF mode[c] = "EX" THEN RLckTryLockEX(res[c]) ELSE RLckTryLockSH(res[c])
    /\ \/ pc' = [pc EXCEPT ![c] = "holding"]
       \/ MemoryFails /\ pc' = [pc EXCEPT ![c] = "lost"]
    /\ UNCHANGED <<iWaitingProcesses, semCounter, callVars>>

\* One pass that could not allocate the entry.
LockRefused(c) ==
    /\ pc[c] = "trying"
    /\ MemoryFails
    /\ res[c] \notin pResList
    /\ pc' = [pc EXCEPT ![c] = "idle"]
    /\ UNCHANGED <<lockVars, callVars>>

\* One pass that finds the resource locked: the caller registers at the gate
\* inside the mutex, and then waits on the semaphore of the gate.
LockBlocked(c) ==
    /\ pc[c] = "trying"
    /\ Blocked(c)
    /\ iWaitingProcesses' = [iWaitingProcesses EXCEPT ![GateOfCall(c)] = @ + 1]
    /\ pc' = [pc EXCEPT ![c] = "asleep"]
    /\ UNCHANGED <<pResList, iShLocks, iExLocks, semCounter, callVars>>

\* Mutant: the wait returns without a token (a spurious wakeup not retried).
WakeUp_Spurious(c) ==
    /\ pc[c] = "asleep"
    /\ semCounter' = [semCounter EXCEPT ![GateOfCall(c)] = @ - 1]
    /\ pc' = [pc EXCEPT ![c] = "trying"]
    /\ UNCHANGED <<pResList, iShLocks, iExLocks, iWaitingProcesses, callVars>>

\* SysWaitSemaphore returns: any caller that waits at the gate may be the one
\* that takes the token, also one that went to sleep after the release.
WakeUp(c) ==
    /\ pc[c] = "asleep"
    /\ semCounter[GateOfCall(c)] > 0
    /\ semCounter' = [semCounter EXCEPT ![GateOfCall(c)] = @ - 1]
    /\ pc' = [pc EXCEPT ![c] = "trying"]
    /\ UNCHANGED <<pResList, iShLocks, iExLocks, iWaitingProcesses, callVars>>

-----------------------------------------------------------------------------
(* RLckUnlock.  A slot unlocks only after the slots inside it are done.  *)

\* Mutant: one waiter is released, all are forgotten.
RemoveAndRelease_OneToken(r) ==
    LET g == GateOf[r] IN
    /\ pResList' = pResList \ {r}
    /\ semCounter' = [semCounter EXCEPT ![g] = IF iWaitingProcesses[g] > 0 THEN @ + 1 ELSE @]
    /\ iWaitingProcesses' = [iWaitingProcesses EXCEPT ![g] = 0]

\* The entry goes, and every caller counted at its gate gets a token.
RemoveAndRelease(r) ==
    LET g == GateOf[r] IN
    /\ pResList' = pResList \ {r}
    /\ semCounter' = [semCounter EXCEPT ![g] = @ + iWaitingProcesses[g]]
    /\ iWaitingProcesses' = [iWaitingProcesses EXCEPT ![g] = 0]

\* ERR_RESOURCE_NOT_LOCKED leaves the entry alone.
RLckDoUnlockEX(r) ==
    IF r \notin pResList \/ iExLocks[r] = 0
    THEN UNCHANGED lockVars
    ELSE /\ iExLocks' = [iExLocks EXCEPT ![r] = 0]
         /\ RemoveAndRelease(r)
         /\ UNCHANGED iShLocks

\* Mutant: the last reader removes the entry and wakes nobody.
RLckDoUnlockSH_NoWake(r) ==
    IF r \notin pResList \/ iShLocks[r] = 0
    THEN UNCHANGED lockVars
    ELSE /\ iShLocks' = [iShLocks EXCEPT ![r] = @ - 1]
         /\ pResList' = IF iShLocks[r] = 1 THEN pResList \ {r} ELSE pResList
         /\ UNCHANGED <<iExLocks, iWaitingProcesses, semCounter>>

RLckDoUnlockSH(r) ==
    IF r \notin pResList \/ iShLocks[r] = 0
    THEN UNCHANGED lockVars
    ELSE /\ iShLocks' = [iShLocks EXCEPT ![r] = @ - 1]
         /\ IF iShLocks[r] = 1
            THEN RemoveAndRelease(r)
            ELSE UNCHANGED <<pResList, iWaitingProcesses, semCounter>>
         /\ UNCHANGED iExLocks

RLckUnlock(c) ==
    /\ pc[c] = "holding"
    /\ \A d \in Calls : Enclosing[d] = c => pc[d] \in {"idle", "lost"}
    /\ IF mode[c] = "EX" THEN RLckDoUnlockEX(res[c]) ELSE RLckDoUnlockSH(res[c])
    /\ pc' = [pc EXCEPT ![c] = "idle"]
    /\ UNCHANGED callVars

-----------------------------------------------------------------------------

LockPass(c) == LockGranted(c) \/ LockRefused(c) \/ LockBlocked(c)

Next ==
    \E c \in Calls :
        \/ \E r \in Resources, m \in Modes : RLckLock(c, r, m)
        \/ LockPass(c)
        \/ WakeUp(c)
        \/ RLckUnlock(c)

Spec == Init /\ [][Next]_vars

\* Threads that can run do run: a pass of the loop, a wait whose semaphore has
\* tokens, and the code between lock and unlock, which blocks on nothing else.
\* Nothing makes a thread ask for a lock.
Fairness ==
    \A c \in Calls :
        /\ WF_vars(LockPass(c))
        /\ WF_vars(WakeUp(c))
        /\ WF_vars(RLckUnlock(c))

FairSpec == Spec /\ Fairness

-----------------------------------------------------------------------------
(* Properties *)

Holds(c) == pc[c] \in {"holding", "lost"}
Holders(r, m) == {c \in Calls : Holds(c) /\ res[c] = r /\ mode[c] = m}
Sleepers(g) == {c \in Calls : pc[c] = "asleep" /\ GateOfCall(c) = g}

(***************************************************************************)
(* An exclusive lock excludes every other lock on the same name            *)
(* (RLckTryLockEX, RLckTryLockSH), whatever else hashes to the gate.       *)
(***************************************************************************)
MutualExclusion ==
    \A c, d \in Calls :
        (c # d /\ Holds(c) /\ Holds(d) /\ res[c] = res[d]) => mode[c] = "SH" /\ mode[d] = "SH"

(***************************************************************************)
(* The entry of a name counts exactly the handles out on it, so an unlock  *)
(* by a holder never ends in ERR_RESOURCE_NOT_LOCKED and the last one      *)
(* always removes the entry and wakes the gate.                            *)
(***************************************************************************)
EntryCountsHolders ==
    \A r \in Resources :
        IF r \in pResList
        THEN /\ iShLocks[r] = Cardinality(Holders(r, "SH"))
             /\ iExLocks[r] = Cardinality(Holders(r, "EX"))
             /\ iShLocks[r] + iExLocks[r] > 0
        ELSE Holders(r, "SH") = {} /\ Holders(r, "EX") = {}

(***************************************************************************)
(* Every caller on the semaphore of a gate is either still counted in      *)
(* iWaitingProcesses, so that the next unlock gives it a token, or has its *)
(* token already: no wakeup is lost between the unlock of hRLMutex and the *)
(* wait, and none is left over to wake a later caller for nothing.         *)
(***************************************************************************)
SleepersAccounted ==
    \A g \in Gates :
        iWaitingProcesses[g] + semCounter[g] = Cardinality(Sleepers(g))

(***************************************************************************)
(* Somebody will wake a sleeper: while callers sleep at a gate without a   *)
(* token, a name of that gate is locked, so an unlock is still to come.    *)
(***************************************************************************)
SleepersHaveAWaker ==
    \A g \in Gates :
        (Sleepers(g) # {} /\ semCounter[g] = 0)
            => \E r \in pResList : GateOf[r] = g

\* The inductive invariant: a call that is under way names a resource, and a
\* caller is counted as waiting only while some name of its gate is locked.
CallsAreLocated ==
    \A c \in Calls : pc[c] # "idle" => res[c] \in Resources

WaitersAreBehindALock ==
    \A g \in Gates : iWaitingProcesses[g] > 0 => \E r \in pResList : GateOf[r] = g

IInv ==
    /\ TypeOK
    /\ CallsAreLocated
    /\ MutualExclusion
    /\ EntryCountsHolders
    /\ SleepersAccounted
    /\ WaitersAreBehindALock

(***************************************************************************)
(* A call of RLckLock waits for ever only while calls keep coming: when    *)
(* they cease every one returns, so nobody sleeps for good at a gate whose *)
(* names were all given back, unless a call that could not copy the name   *)
(* of its handle keeps a lock.  The second disjunct is needed: nothing in  *)
(* RLckTryLockSH keeps a new reader behind a writer that waits, and a      *)
(* sleeper that was woken competes with all who come (EveryCallServed).    *)
(***************************************************************************)
Served(c) ==
    pc[c] \in {"trying", "asleep"}
        ~> pc[c] \notin {"trying", "asleep"} \/ \E d \in Calls : pc[d] = "lost"

CallsKeepComing == []<><<\E d \in Calls, r \in Resources, m \in Modes : RLckLock(d, r, m)>>_vars

ServedUnlessOvertaken == \A c \in Calls : Served(c) \/ CallsKeepComing

(***************************************************************************)
(* That every call returns however many others come.  Violated: a writer   *)
(* may find readers on its name at each try (RLckTryLockSH).               *)
(***************************************************************************)
EveryCallServed == \A c \in Calls : Served(c)

(***************************************************************************)
(* "Release waiting processes" (RLckDoUnlockEX, RLckDoUnlockSH): a caller  *)
(* that waits at a gate does not wait for ever.  It fails when a slot that *)
(* holds one name sleeps for another name of the same gate.                *)
(***************************************************************************)
UnlockReleasesWaiters ==
    \A c \in Calls : (pc[c] = "asleep") ~> (pc[c] # "asleep")

\* The caller's view, in which the loop and the gates disappear.
PhaseOf(c) ==
    IF pc[c] = "idle" THEN "idle" ELSE IF Holds(c) THEN "holding" ELSE "waiting"

RW == INSTANCE RWLock WITH
        phase <- [c \in Calls |-> PhaseOf(c)], target <- res, access <- mode

(***************************************************************************)
(* ResLocks.cpp implements the lock its callers are promised.              *)
(***************************************************************************)
ImplementsRWLock == RW!Spec
=============================================================================
