------------------------------ MODULE SysWait ------------------------------
(***************************************************************************)
(* The semaphores, mutexes and events of SysDepUnix.cpp.  All of them are  *)
(* a pthread mutex and a condition variable (WaitCond) around a value that *)
(* a wait may take: the iSemCounter of a semaphore, a mutex that is not    *)
(* iLocked, an event that is iSignaled.                                    *)
(*                                                                         *)
(* What runs under the pthread mutex is one step.  A thread that is called *)
(* out of pthread_cond_wait still has to lock the mutex, and what it was   *)
(* called for may be taken meanwhile.                                      *)
(*                                                                         *)
(* Names that ResLocks has too begin with Sys, so that the proofs about    *)
(* both can stand in one module, Locks_proof.                              *)
(***************************************************************************)
EXTENDS Naturals, FiniteSets

CONSTANTS
    Threads,
    Kinds,          \* of objects: "semaphore", "mutex", and the two sorts of event,
                    \* "manual" and "auto"
    iInitCount,     \* of a semaphore
    Counts,         \* the iCount arguments of SysReleaseSemaphore
    MaxGiven        \* bound on the units released to a semaphore

ASSUME ThreadsAssumption == IsFiniteSet(Threads)
ASSUME KindsAssumption == Kinds \subseteq {"semaphore", "mutex", "manual", "auto"}
ASSUME CountAssumption ==
    iInitCount \in Nat /\ MaxGiven \in Nat /\ Counts \subseteq Nat \ {0}

VARIABLES
    kind,       \* of the object, for good
    count,      \* iSemCounter, 1 - iLocked or iSignaled
    place,      \* of a thread: outside, "asleep" in pthread_cond_wait, "called"
                \* out of it, "holding" a mutex
    taken,      \* units that waits have taken from a semaphore
    given       \* units that were released to it

sysVars == <<kind, count, place, taken, given>>

SysTypeOK ==
    /\ kind \in Kinds
    /\ count \in Nat
    /\ place \in [Threads -> {"outside", "asleep", "called", "holding"}]
    /\ taken \in Nat
    /\ given \in Nat

Asleep == {t \in Threads : place[t] = "asleep"}
Called == {t \in Threads : place[t] = "called"}
MutexHolders == {t \in Threads : place[t] = "holding"}

\* SysCreateSemaphore, SysCreateMutex, SysCreateEvent.
SysInit ==
    /\ kind \in Kinds
    /\ count = CASE kind = "semaphore" -> iInitCount
                 [] kind = "mutex" -> 1
                 [] OTHER -> 0
    /\ place = [t \in Threads |-> "outside"]
    /\ taken = 0
    /\ given = 0

\* The condition callback, and the callback that takes what was waited for.
CondCB == count > 0

\* Mutant: the callback of the event is used for the semaphore.
PostCB_Zero ==
    /\ count' = IF kind = "manual" THEN count ELSE 0
    /\ taken' = IF kind = "semaphore" THEN taken + 1 ELSE taken

PostCB ==
    /\ count' = CASE kind = "semaphore" -> count - 1
                  [] kind = "manual" -> count
                  [] OTHER -> 0
    /\ taken' = IF kind = "semaphore" THEN taken + 1 ELSE taken

Return(t) == place' = [place EXCEPT ![t] = IF kind = "mutex" THEN "holding" ELSE "outside"]

\* Mutant: a thread that was called does not look at the condition again.
WaitTaken_Once(t) ==
    /\ place[t] \in {"outside", "called"}
    /\ place[t] = "outside" => CondCB
    /\ PostCB
    /\ Return(t)
    /\ UNCHANGED <<kind, given>>

\* SysWaitWait, entered by a new caller or resumed by one that was called.
\* SysTryWaitSemaphore, SysTryLockMutex and SysTryWaitEvent do the same or
\* nothing.
WaitTaken(t) ==
    /\ place[t] \in {"outside", "called"}
    /\ CondCB
    /\ PostCB
    /\ Return(t)
    /\ UNCHANGED <<kind, given>>

WaitSleeps(t) ==
    /\ place[t] \in {"outside", "called"}
    /\ ~CondCB
    /\ place' = [place EXCEPT ![t] = "asleep"]
    /\ UNCHANGED <<kind, count, taken, given>>

\* ERR_TIMEOUT, whether or not the condition has become true meanwhile; the
\* thread may have been called already.  The only timed waits of the program
\* are on the ready event of the spool and on the end of a thread, both of
\* which wake every waiter.
WaitTimedOut(t) ==
    /\ kind = "manual"
    /\ place[t] \in {"asleep", "called"}
    /\ place' = [place EXCEPT ![t] = "outside"]
    /\ UNCHANGED <<kind, count, taken, given>>

\* pthread_cond_wait may return for no reason.
SpuriousWakeup(t) ==
    /\ place[t] = "asleep"
    /\ place' = [place EXCEPT ![t] = "called"]
    /\ UNCHANGED <<kind, count, taken, given>>

\* place after SysWaitWakeup: pthread_cond_broadcast, or pthread_cond_signal,
\* which calls any one of the sleepers.  base is place but for the caller.
Broadcast(base) ==
    place' = [t \in Threads |-> IF base[t] = "asleep" THEN "called" ELSE base[t]]

Signal(base) ==
    \/ \E t \in Asleep : place' = [base EXCEPT ![t] = "called"]
    \/ Asleep = {} /\ place' = base

\* Mutant: only the step from nothing to something calls a sleeper.
SemWakeup_FirstOnly(iCount) == IF count = 0 THEN Signal(place) ELSE UNCHANGED place

SemWakeup(iCount) == IF count + iCount > 1 THEN Broadcast(place) ELSE Signal(place)

SysReleaseSemaphore(iCount) ==
    /\ kind = "semaphore"
    /\ given + iCount <= MaxGiven
    /\ count' = count + iCount
    /\ given' = given + iCount
    /\ SemWakeup(iCount)
    /\ UNCHANGED <<kind, taken>>

\* Called by the thread that has locked it.
SysUnlockMutex(t) ==
    /\ kind = "mutex"
    /\ place[t] = "holding"
    /\ count' = 1
    /\ Signal([place EXCEPT ![t] = "outside"])
    /\ UNCHANGED <<kind, taken, given>>

\* Mutant: one waiter of a manual reset event is called.
EventWakeup_One == Signal(place)

EventWakeup == IF kind = "manual" THEN Broadcast(place) ELSE Signal(place)

\* Also the end of a thread, which is never reset (SysThreadExit).
SysSetEvent ==
    /\ kind \in {"manual", "auto"}
    /\ count' = 1
    /\ EventWakeup
    /\ UNCHANGED <<kind, taken, given>>

SysResetEvent ==
    /\ kind \in {"manual", "auto"}
    /\ count' = 0
    /\ UNCHANGED <<kind, place, taken, given>>

Wait(t) == WaitTaken(t) \/ WaitSleeps(t)

SysNext ==
    \/ \E t \in Threads :
        Wait(t) \/ WaitTimedOut(t) \/ SpuriousWakeup(t) \/ SysUnlockMutex(t)
    \/ \E iCount \in Counts : SysReleaseSemaphore(iCount)
    \/ SysSetEvent \/ SysResetEvent

SysSpec == SysInit /\ [][SysNext]_sysVars

\* A thread that was called gets the pthread mutex and goes on, and whoever
\* locks a mutex unlocks it.
SysFairness ==
    \A t \in Threads : WF_sysVars(place[t] = "called" /\ Wait(t)) /\ WF_sysVars(SysUnlockMutex(t))

SysFairSpec == SysSpec /\ SysFairness
-----------------------------------------------------------------------------
(***************************************************************************)
(* No wakeup is lost: while a thread sleeps there are as many threads on   *)
(* their way out of pthread_cond_wait as there are units to take, and      *)
(* nobody sleeps beside a manual reset event that is set.  The choice      *)
(* between signal and broadcast in SysReleaseSemaphore, SysUnlockMutex and *)
(* SysSetEvent is what makes it so.                                        *)
(***************************************************************************)
SleepersAreCalled ==
    Asleep # {} => /\ count <= Cardinality(Called)
                   /\ kind = "manual" => count = 0

\* A unit is there, or was taken by one wait.
UnitsConserved ==
    kind = "semaphore" => count + taken = iInitCount + given

(***************************************************************************)
(* A locked mutex has one holder, whatever the order in which threads that *)
(* were called and threads that come new see it unlocked.                  *)
(***************************************************************************)
OneHolder ==
    kind = "mutex" => Cardinality(MutexHolders) + count = 1

(***************************************************************************)
(* Something to take and a sleeper do not stay side by side.               *)
(***************************************************************************)
UnitsAreTaken ==
    (count > 0 /\ Asleep # {}) ~> (count = 0 \/ Asleep = {})
=============================================================================
