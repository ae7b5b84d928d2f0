---------------------------- MODULE Locks_proof ----------------------------
(***************************************************************************)
(* Proofs about ResLocks for any number of slots, names and gates, and     *)
(* about SysWait, the primitives below it, for any number of threads and   *)
(* all the kinds of objects.                                               *)
(***************************************************************************)
EXTENDS ResLocks, SysWait, FiniteSetTheorems, TLAPS
-----------------------------------------------------------------------------
(* The named read/write locks.                                             *)

\* The sets the counters count are finite.
LEMMA CountedSets ==
    ASSUME NEW r, NEW m, NEW g
    PROVE  /\ IsFiniteSet(Holders(r, m)) /\ Cardinality(Holders(r, m)) \in Nat
           /\ IsFiniteSet(Sleepers(g)) /\ Cardinality(Sleepers(g)) \in Nat
  <1>1. Holders(r, m) \in SUBSET Calls /\ Sleepers(g) \in SUBSET Calls
    BY DEF Holders, Sleepers
  <1>2. IsFiniteSet(Holders(r, m)) /\ IsFiniteSet(Sleepers(g))
    BY <1>1, FS_Subset, CallsAssumption
  <1> QED
    BY <1>2, FS_CardinalityType

\* The same for the sets of the next state.
LEMMA CountedSetsNext ==
    ASSUME NEW r, NEW m, NEW g
    PROVE  /\ IsFiniteSet(Holders(r, m)') /\ Cardinality(Holders(r, m)') \in Nat
           /\ IsFiniteSet(Sleepers(g)') /\ Cardinality(Sleepers(g)') \in Nat
  <1>1. Holders(r, m)' \in SUBSET Calls /\ Sleepers(g)' \in SUBSET Calls
    BY DEF Holders, Sleepers
  <1>2. IsFiniteSet(Holders(r, m)') /\ IsFiniteSet(Sleepers(g)')
    BY <1>1, FS_Subset, CallsAssumption
  <1> QED
    BY <1>2, FS_CardinalityType

LEMMA InitIInv == Init => IInv
  <1> SUFFICES ASSUME Init PROVE IInv
    OBVIOUS
  <1>1. TypeOK /\ CallsAreLocated /\ MutualExclusion /\ WaitersAreBehindALock
    BY MemoryAssumption DEF Init, TypeOK, Places, Modes, CallsAreLocated, MutualExclusion,
       Holds, WaitersAreBehindALock
  <1>2. EntryCountsHolders
    BY DEF Init, EntryCountsHolders, Holders, Holds
  <1>3. \A g \in Gates : Sleepers(g) = {}
    BY DEF Init, Sleepers
  <1>4. SleepersAccounted
    BY <1>3, FS_EmptySet DEF Init, SleepersAccounted
  <1> QED
    BY <1>1, <1>2, <1>4 DEF IInv

\* A call that starts is neither a holder nor a sleeper.
LEMMA StartKeepsIInv ==
    ASSUME IInv, NEW c \in Calls, NEW r \in Resources, NEW m \in Modes, RLckLock(c, r, m)
    PROVE  IInv'
  <1> USE DEF IInv, TypeOK, RLckLock, lockVars
  <1>1. TypeOK' /\ CallsAreLocated'
    BY MemoryAssumption DEF Places, CallsAreLocated
  <1>2. MutualExclusion'
    BY DEF MutualExclusion, Holds
  <1>3. \A q \in Resources, n \in Modes : Holders(q, n)' = Holders(q, n)
    BY DEF Holders, Holds
  <1>4. EntryCountsHolders'
    BY <1>3 DEF EntryCountsHolders, Modes
  <1>5. \A g \in Gates : Sleepers(g)' = Sleepers(g)
    BY DEF Sleepers, GateOfCall
  <1>6. SleepersAccounted' /\ WaitersAreBehindALock'
    BY <1>5 DEF SleepersAccounted, WaitersAreBehindALock
  <1> QED
    BY <1>1, <1>2, <1>4, <1>6

\* A name is blocked for no reader only when no writer holds it, and for no
\* writer only when nobody holds it.
LEMMA UnblockedMeansFree ==
    ASSUME IInv, NEW c \in Calls, pc[c] = "trying", ~Blocked(c)
    PROVE  /\ Holders(res[c], "EX") = {}
           /\ mode[c] = "EX" => res[c] \notin pResList /\ Holders(res[c], "SH") = {}
           /\ res[c] \in pResList => iExLocks[res[c]] = 0
  <1> DEFINE r == res[c]
  <1>1. r \in Resources /\ mode[c] \in {"SH", "EX"}
    BY DEF IInv, TypeOK, CallsAreLocated, Modes
  <1>2. r \in pResList => iExLocks[r] = 0 /\ (mode[c] = "EX" => iShLocks[r] = 0)
    BY <1>1 DEF IInv, TypeOK, Blocked, BlockedEX, BlockedSH
  <1>3. mode[c] = "EX" => r \notin pResList
    BY <1>1, <1>2 DEF IInv, TypeOK, EntryCountsHolders
  <1>4. r \in pResList => Cardinality(Holders(r, "EX")) = 0
    BY <1>1, <1>2 DEF IInv, EntryCountsHolders
  <1>5. r \in pResList => Holders(r, "EX") = {}
    BY <1>4, CountedSets, FS_EmptySet
  <1>6. r \notin pResList => Holders(r, "EX") = {} /\ Holders(r, "SH") = {}
    BY <1>1 DEF IInv, EntryCountsHolders
  <1> QED
    BY <1>2, <1>3, <1>5, <1>6

LEMMA GrantKeepsIInv ==
    ASSUME IInv, NEW c \in Calls, LockGranted(c)
    PROVE  IInv'
  <1> DEFINE r == res[c]
  <1> USE DEF LockGranted, callVars
  <1>1. r \in Resources /\ mode[c] \in {"SH", "EX"}
    BY DEF IInv, TypeOK, CallsAreLocated, Modes
  <1>2. /\ Holders(r, "EX") = {}
        /\ mode[c] = "EX" => r \notin pResList /\ Holders(r, "SH") = {}
        /\ r \in pResList => iExLocks[r] = 0
    BY UnblockedMeansFree
  <1>3. TypeOK' /\ CallsAreLocated'
    BY <1>1 DEF IInv, TypeOK, CallsAreLocated, Places, RLckTryLockEX, RLckTryLockSH
  <1>4. Holds(c)' /\ ~Holds(c) /\ \A d \in Calls \ {c} : Holds(d)' = Holds(d)
    BY DEF IInv, TypeOK, Holds
  <1>5. MutualExclusion'
    BY <1>1, <1>2, <1>4 DEF IInv, TypeOK, Modes, MutualExclusion, Holders
  <1>6. EntryCountsHolders'
    <2>1. /\ Holders(r, mode[c])' = Holders(r, mode[c]) \cup {c}
          /\ c \notin Holders(r, mode[c])
          /\ \A q \in Resources, n \in Modes :
                (q # r \/ n # mode[c]) => Holders(q, n)' = Holders(q, n)
      BY <1>4 DEF Holders
    <2>2. Cardinality(Holders(r, mode[c])') = Cardinality(Holders(r, mode[c])) + 1
      BY <2>1, CountedSets, FS_AddElement
    <2>3. Cardinality(Holders(r, "EX")) = 0 /\ Cardinality({}) = 0
      BY <1>2, FS_EmptySet
    <2>4. ASSUME NEW q \in Resources, q # r
          PROVE  /\ q \in pResList' <=> q \in pResList
                 /\ iShLocks'[q] = iShLocks[q]
                 /\ iExLocks'[q] = iExLocks[q]
                 /\ Holders(q, "SH")' = Holders(q, "SH")
                 /\ Holders(q, "EX")' = Holders(q, "EX")
      BY <2>1, <2>4 DEF IInv, TypeOK, Modes, RLckTryLockEX, RLckTryLockSH
    <2>5. CASE mode[c] = "EX"
      <3>1. /\ r \in pResList' /\ iExLocks'[r] = 1 /\ iShLocks'[r] = 0
        BY <1>1, <1>2, <2>5 DEF IInv, TypeOK, RLckTryLockEX
      <3>2. Holders(r, "SH")' = {} /\ Cardinality(Holders(r, "EX")') = 1
        BY <1>1, <1>2, <2>1, <2>2, <2>3, <2>5 DEF Modes
      <3>3. /\ iShLocks'[r] = Cardinality(Holders(r, "SH")')
            /\ iExLocks'[r] = Cardinality(Holders(r, "EX")')
            /\ iShLocks'[r] + iExLocks'[r] > 0
        BY <3>1, <3>2, <2>3
      <3>4. ASSUME NEW q \in Resources, q # r
            PROVE  IF q \in pResList'
                   THEN /\ iShLocks'[q] = Cardinality(Holders(q, "SH")')
                        /\ iExLocks'[q] = Cardinality(Holders(q, "EX")')
                        /\ iShLocks'[q] + iExLocks'[q] > 0
                   ELSE Holders(q, "SH")' = {} /\ Holders(q, "EX")' = {}
        BY <3>4, <2>4 DEF IInv, EntryCountsHolders
      <3> QED
        BY <3>1, <3>3, <3>4 DEF EntryCountsHolders
    <2>6. CASE mode[c] = "SH"
      <3>1. /\ r \in pResList' /\ iExLocks'[r] = 0
            /\ iShLocks'[r] = IF r \in pResList THEN iShLocks[r] + 1 ELSE 1
        BY <1>1, <1>2, <2>6 DEF IInv, TypeOK, RLckTryLockSH
      <3>2. Holders(r, "EX")' = {} /\ Cardinality(Holders(r, "SH")') = Cardinality(Holders(r, "SH")) + 1
        BY <1>1, <1>2, <2>1, <2>2, <2>6 DEF Modes
      <3>3. Cardinality(Holders(r, "SH")) = IF r \in pResList THEN iShLocks[r] ELSE 0
        BY <1>1, <2>3 DEF IInv, EntryCountsHolders
      <3>4. iShLocks'[r] = Cardinality(Holders(r, "SH")') /\ iShLocks'[r] + iExLocks'[r] > 0
        BY <1>1, <3>1, <3>2, <3>3 DEF IInv, TypeOK
      <3> QED
        BY <1>1, <3>1, <3>2, <3>4, <2>3, <2>4 DEF IInv, EntryCountsHolders
    <2> QED
      BY <1>1, <2>5, <2>6
  <1>7. \A g \in Gates : Sleepers(g)' = Sleepers(g)
    BY DEF IInv, TypeOK, Sleepers, GateOfCall
  <1>8. SleepersAccounted'
    BY <1>7 DEF IInv, SleepersAccounted
  <1>9. WaitersAreBehindALock'
    BY <1>1 DEF IInv, WaitersAreBehindALock, RLckTryLockEX, RLckTryLockSH
  <1> QED
    BY <1>3, <1>5, <1>6, <1>8, <1>9 DEF IInv

LEMMA RefusedKeepsIInv ==
    ASSUME IInv, NEW c \in Calls, LockRefused(c)
    PROVE  IInv'
  <1> USE DEF IInv, TypeOK, LockRefused, lockVars, callVars
  <1>1. TypeOK' /\ CallsAreLocated' /\ MutualExclusion'
    BY DEF Places, CallsAreLocated, MutualExclusion, Holds
  <1>2. \A q \in Resources, n \in Modes : Holders(q, n)' = Holders(q, n)
    BY DEF Holders, Holds
  <1>3. EntryCountsHolders'
    BY <1>2 DEF EntryCountsHolders, Modes
  <1>4. \A g \in Gates : Sleepers(g)' = Sleepers(g)
    BY DEF Sleepers, GateOfCall
  <1>5. SleepersAccounted' /\ WaitersAreBehindALock'
    BY <1>4 DEF SleepersAccounted, WaitersAreBehindALock
  <1> QED
    BY <1>1, <1>3, <1>5

LEMMA BlockedKeepsIInv ==
    ASSUME IInv, NEW c \in Calls, LockBlocked(c)
    PROVE  IInv'
  <1> USE DEF LockBlocked, callVars, GateOfCall
  <1>0. res[c] \in Resources /\ GateOf[res[c]] \in Gates
    BY GateOfAssumption DEF IInv, TypeOK, CallsAreLocated
  <1> PICK g \in Gates : g = GateOf[res[c]]
    BY <1>0
  <1>1. res[c] \in Resources /\ res[c] \in pResList
    BY <1>0 DEF Blocked, BlockedEX, BlockedSH
  <1>2. TypeOK' /\ CallsAreLocated'
    BY <1>1 DEF IInv, TypeOK, CallsAreLocated, Places
  <1>3. MutualExclusion'
    BY DEF IInv, TypeOK, MutualExclusion, Holds
  <1>4. \A q \in Resources, n \in Modes : Holders(q, n)' = Holders(q, n)
    BY DEF IInv, TypeOK, Holders, Holds
  <1>5. EntryCountsHolders'
    BY <1>4 DEF IInv, EntryCountsHolders, Modes
  <1>6. /\ Sleepers(g)' = Sleepers(g) \cup {c}
        /\ c \notin Sleepers(g)
        /\ \A h \in Gates \ {g} : Sleepers(h)' = Sleepers(h)
    BY <1>1 DEF IInv, TypeOK, Sleepers
  <1>7. Cardinality(Sleepers(g)') = Cardinality(Sleepers(g)) + 1
    BY <1>6, CountedSets, FS_AddElement
  <1>8. SleepersAccounted'
    <2>1. /\ iWaitingProcesses'[g] = iWaitingProcesses[g] + 1
          /\ semCounter' = semCounter
          /\ \A h \in Gates \ {g} : iWaitingProcesses'[h] = iWaitingProcesses[h]
      BY DEF IInv, TypeOK
    <2>2. iWaitingProcesses'[g] + semCounter'[g] = Cardinality(Sleepers(g)')
      BY <1>7, <2>1 DEF IInv, TypeOK, SleepersAccounted
    <2> QED
      BY <1>6, <2>1, <2>2 DEF IInv, SleepersAccounted
  <1>9. WaitersAreBehindALock'
    BY <1>1 DEF IInv, TypeOK, WaitersAreBehindALock
  <1> QED
    BY <1>2, <1>3, <1>5, <1>8, <1>9 DEF IInv

LEMMA WakeUpKeepsIInv ==
    ASSUME IInv, NEW c \in Calls, WakeUp(c)
    PROVE  IInv'
  <1> USE DEF WakeUp, callVars, GateOfCall
  <1>0. GateOf[res[c]] \in Gates
    BY GateOfAssumption DEF IInv, TypeOK, CallsAreLocated
  <1> PICK g \in Gates : g = GateOf[res[c]]
    BY <1>0
  <1>1. semCounter[g] \in Nat /\ semCounter[g] > 0
    BY DEF IInv, TypeOK
  <1>2. TypeOK' /\ CallsAreLocated'
    BY <1>1 DEF IInv, TypeOK, CallsAreLocated, Places
  <1>3. MutualExclusion'
    BY DEF IInv, TypeOK, MutualExclusion, Holds
  <1>4. \A q \in Resources, n \in Modes : Holders(q, n)' = Holders(q, n)
    BY DEF IInv, TypeOK, Holders, Holds
  <1>5. EntryCountsHolders'
    BY <1>4 DEF IInv, EntryCountsHolders, Modes
  <1>6. /\ Sleepers(g)' = Sleepers(g) \ {c}
        /\ c \in Sleepers(g)
        /\ \A h \in Gates \ {g} : Sleepers(h)' = Sleepers(h)
    BY <1>1 DEF IInv, TypeOK, Sleepers
  <1>7. Cardinality(Sleepers(g)') = Cardinality(Sleepers(g)) - 1
    BY <1>6, CountedSets, FS_RemoveElement
  <1>8. SleepersAccounted'
    <2>1. /\ semCounter'[g] = semCounter[g] - 1
          /\ iWaitingProcesses' = iWaitingProcesses
          /\ \A h \in Gates \ {g} : semCounter'[h] = semCounter[h]
      BY DEF IInv, TypeOK
    <2>2. iWaitingProcesses'[g] + semCounter'[g] = Cardinality(Sleepers(g)')
      BY <1>1, <1>7, <2>1 DEF IInv, TypeOK, SleepersAccounted
    <2> QED
      BY <1>6, <2>1, <2>2 DEF IInv, SleepersAccounted
  <1>9. WaitersAreBehindALock'
    BY DEF IInv, WaitersAreBehindALock
  <1> QED
    BY <1>2, <1>3, <1>5, <1>8, <1>9 DEF IInv

\* What the removal of an entry does to the counters of the gates.
LEMMA ReleaseKeepsSleepersAccounted ==
    ASSUME IInv, NEW r \in Resources, RemoveAndRelease(r),
           \A g \in Gates : Sleepers(g)' = Sleepers(g)
    PROVE  SleepersAccounted' /\ WaitersAreBehindALock'
  <1> DEFINE h == GateOf[r]
  <1> USE DEF RemoveAndRelease
  <1>1. h \in Gates
    BY GateOfAssumption
  <1>2. /\ iWaitingProcesses'[h] = 0
        /\ semCounter'[h] = semCounter[h] + iWaitingProcesses[h]
        /\ \A g \in Gates \ {h} : /\ iWaitingProcesses'[g] = iWaitingProcesses[g]
                                  /\ semCounter'[g] = semCounter[g]
    BY <1>1 DEF IInv, TypeOK
  <1>3. SleepersAccounted'
    BY <1>1, <1>2 DEF IInv, TypeOK, SleepersAccounted
  <1>4. WaitersAreBehindALock'
    BY <1>1, <1>2 DEF IInv, TypeOK, WaitersAreBehindALock
  <1> QED
    BY <1>3, <1>4

LEMMA ReleaseKeepsType ==
    ASSUME TypeOK, NEW r \in Resources, RemoveAndRelease(r)
    PROVE  /\ pResList' \subseteq Resources
           /\ iWaitingProcesses' \in [Gates -> Nat]
           /\ semCounter' \in [Gates -> Nat]
  <1>1. GateOf[r] \in Gates
    BY GateOfAssumption
  <1>2. semCounter[GateOf[r]] + iWaitingProcesses[GateOf[r]] \in Nat
    BY <1>1 DEF TypeOK
  <1> QED
    BY <1>1, <1>2 DEF TypeOK, RemoveAndRelease

\* A holder's unlock finds its entry with a positive count.
LEMMA HolderHasEntry ==
    ASSUME IInv, NEW c \in Calls, Holds(c)
    PROVE  /\ res[c] \in pResList
           /\ mode[c] = "EX" => iExLocks[res[c]] > 0
           /\ mode[c] = "SH" => iShLocks[res[c]] > 0
  <1>1. res[c] \in Resources /\ mode[c] \in {"SH", "EX"} /\ c \in Holders(res[c], mode[c])
    BY DEF IInv, TypeOK, CallsAreLocated, Holds, Holders, Modes
  <1>2. res[c] \in pResList
    BY <1>1 DEF IInv, EntryCountsHolders
  <1>3. Cardinality(Holders(res[c], mode[c])) # 0
    BY <1>1, CountedSets, FS_EmptySet
  <1> QED
    BY <1>1, <1>2, <1>3, CountedSets DEF IInv, TypeOK, EntryCountsHolders

LEMMA UnlockKeepsIInv ==
    ASSUME IInv, NEW c \in Calls, RLckUnlock(c)
    PROVE  IInv'
  <1> USE DEF RLckUnlock, callVars
  <1>0. Holds(c) /\ res[c] \in Resources /\ mode[c] \in Modes
    BY DEF IInv, TypeOK, CallsAreLocated, Holds
  <1> PICK r \in Resources : r = res[c]
    BY <1>0
  <1> PICK m \in Modes : m = mode[c]
    BY <1>0
  <1>1. Holds(c) /\ m \in {"SH", "EX"}
    BY <1>0 DEF Modes
  <1>2. /\ r \in pResList
        /\ m = "EX" => iExLocks[r] > 0
        /\ m = "SH" => iShLocks[r] > 0
    BY <1>1, HolderHasEntry
  <1>3. ~Holds(c)' /\ \A d \in Calls \ {c} : Holds(d)' = Holds(d)
    BY DEF IInv, TypeOK, Holds
  <1>4. MutualExclusion' /\ CallsAreLocated'
    BY <1>3 DEF IInv, TypeOK, MutualExclusion, CallsAreLocated
  <1>5. \A g \in Gates : Sleepers(g)' = Sleepers(g)
    BY DEF IInv, TypeOK, Sleepers, GateOfCall
  <1>6. /\ Holders(r, m)' = Holders(r, m) \ {c}
        /\ c \in Holders(r, m)
        /\ \A q \in Resources, n \in Modes :
              (q # r \/ n # m) => Holders(q, n)' = Holders(q, n)
    BY <1>1, <1>3 DEF Holders
  <1>7. Cardinality(Holders(r, m)') = Cardinality(Holders(r, m)) - 1
    BY <1>6, CountedSets, FS_RemoveElement
  <1>8. \A q \in Resources \ {r} : /\ Holders(q, "SH")' = Holders(q, "SH")
                                   /\ Holders(q, "EX")' = Holders(q, "EX")
    BY <1>6 DEF Modes
  <1>9. CASE m = "EX"
    <2>1. iExLocks' = [iExLocks EXCEPT ![r] = 0] /\ RemoveAndRelease(r) /\ UNCHANGED iShLocks
      BY <1>1, <1>2, <1>9 DEF IInv, TypeOK, RLckDoUnlockEX
    <2>2. TypeOK'
      BY <1>1, <2>1, ReleaseKeepsType DEF IInv, TypeOK, Places
    <2>3. Holders(r, "EX")' = {} /\ Holders(r, "SH")' = {}
      BY <1>1, <1>4, <1>6, <1>9 DEF IInv, MutualExclusion, Holders, Modes
    <2>4. EntryCountsHolders'
      BY <1>1, <1>8, <2>1, <2>3 DEF IInv, TypeOK, EntryCountsHolders, RemoveAndRelease
    <2> QED
      BY <1>1, <1>4, <1>5, <2>1, <2>2, <2>4, ReleaseKeepsSleepersAccounted DEF IInv
  <1>10. CASE m = "SH"
    <2>1. iShLocks' = [iShLocks EXCEPT ![r] = @ - 1] /\ UNCHANGED iExLocks
      BY <1>1, <1>2, <1>10 DEF IInv, TypeOK, RLckDoUnlockSH
    <2>2. Holders(r, "EX")' = {} /\ Holders(r, "EX") = {}
      BY <1>1, <1>6, <1>10 DEF IInv, MutualExclusion, Holders, Modes
    <2>3. /\ iShLocks'[r] = Cardinality(Holders(r, "SH")')
          /\ iShLocks'[r] = iShLocks[r] - 1
          /\ iExLocks'[r] = Cardinality(Holders(r, "EX")')
      BY <1>1, <1>2, <1>7, <1>10, <2>1, <2>2 DEF IInv, TypeOK, EntryCountsHolders
    <2>4. CASE iShLocks[r] = 1
      <3>1. RemoveAndRelease(r)
        BY <1>1, <1>2, <1>10, <2>4 DEF IInv, TypeOK, RLckDoUnlockSH
      <3>2. TypeOK'
        BY <1>1, <2>1, <2>4, <3>1, ReleaseKeepsType DEF IInv, TypeOK, Places
      <3>3. Holders(r, "SH")' = {}
        BY <2>3, <2>4, CountedSetsNext, FS_EmptySet
      <3>4. EntryCountsHolders'
        BY <1>1, <1>8, <2>1, <2>2, <3>1, <3>3
           DEF IInv, TypeOK, EntryCountsHolders, RemoveAndRelease
      <3> QED
        BY <1>1, <1>4, <1>5, <3>1, <3>2, <3>4, ReleaseKeepsSleepersAccounted DEF IInv
    <2>5. CASE iShLocks[r] # 1
      <3>1. UNCHANGED <<pResList, iWaitingProcesses, semCounter>>
        BY <1>1, <1>2, <1>10, <2>5 DEF IInv, TypeOK, RLckDoUnlockSH
      <3>2. TypeOK'
        BY <1>1, <1>2, <1>10, <2>1, <3>1 DEF IInv, TypeOK, Places
      <3>3. iShLocks'[r] + iExLocks'[r] > 0
        BY <1>1, <1>2, <1>10, <2>1, <2>3, <2>5 DEF IInv, TypeOK
      <3>4. EntryCountsHolders'
        BY <1>1, <1>2, <1>8, <2>1, <2>3, <3>1, <3>3 DEF IInv, TypeOK, EntryCountsHolders
      <3>5. SleepersAccounted' /\ WaitersAreBehindALock'
        BY <1>5, <3>1 DEF IInv, SleepersAccounted, WaitersAreBehindALock
      <3> QED
        BY <1>4, <3>2, <3>4, <3>5 DEF IInv
    <2> QED
      BY <2>4, <2>5
  <1> QED
    BY <1>1, <1>9, <1>10

LEMMA StutterKeepsIInv ==
    ASSUME IInv, UNCHANGED vars
    PROVE  IInv'
  <1> USE DEF IInv, vars, lockVars, callVars
  <1>1. TypeOK' /\ CallsAreLocated'
    BY DEF TypeOK, CallsAreLocated
  <1>2. MutualExclusion'
    BY DEF MutualExclusion, Holds
  <1>3. \A q \in Resources, n \in Modes : Holders(q, n)' = Holders(q, n)
    BY DEF Holders, Holds
  <1>4. EntryCountsHolders'
    BY <1>3 DEF EntryCountsHolders, Modes
  <1>5. \A g \in Gates : Sleepers(g)' = Sleepers(g)
    BY DEF Sleepers, GateOfCall
  <1>6. SleepersAccounted' /\ WaitersAreBehindALock'
    BY <1>5 DEF SleepersAccounted, WaitersAreBehindALock
  <1> QED
    BY <1>1, <1>2, <1>4, <1>6

LEMMA NextIInv == IInv /\ [Next]_vars => IInv'
  <1> SUFFICES ASSUME IInv, [Next]_vars PROVE IInv'
    OBVIOUS
  <1>1. ASSUME NEW c \in Calls, NEW r \in Resources, NEW m \in Modes, RLckLock(c, r, m)
        PROVE  IInv'
    BY <1>1, StartKeepsIInv
  <1>2. ASSUME NEW c \in Calls, LockPass(c)
        PROVE  IInv'
    BY <1>2, GrantKeepsIInv, RefusedKeepsIInv, BlockedKeepsIInv DEF LockPass
  <1>3. ASSUME NEW c \in Calls, WakeUp(c)
        PROVE  IInv'
    BY <1>3, WakeUpKeepsIInv
  <1>4. ASSUME NEW c \in Calls, RLckUnlock(c)
        PROVE  IInv'
    BY <1>4, UnlockKeepsIInv
  <1>5. CASE UNCHANGED vars
    BY <1>5, StutterKeepsIInv
  <1> QED
    BY <1>1, <1>2, <1>3, <1>4, <1>5 DEF Next

\* The invariant holds in every reachable state.
THEOREM Invariance == Spec => []IInv
  BY InitIInv, NextIInv, PTL DEF Spec

-----------------------------------------------------------------------------

\* A lock held exclusively is the only lock on its name, for any number of
\* threads and whatever names share a gate.
THEOREM SpecMutualExclusion == Spec => []MutualExclusion
  <1>1. IInv => MutualExclusion
    BY DEF IInv
  <1> QED
    BY <1>1, Invariance, PTL

\* The counts of an entry are the handles that are out on it.
THEOREM SpecEntryCountsHolders == Spec => []EntryCountsHolders
  <1>1. IInv => EntryCountsHolders
    BY DEF IInv
  <1> QED
    BY <1>1, Invariance, PTL

\* Waiting counters and semaphore tokens together count the sleepers.
THEOREM SpecSleepersAccounted == Spec => []SleepersAccounted
  <1>1. IInv => SleepersAccounted
    BY DEF IInv
  <1> QED
    BY <1>1, Invariance, PTL

\* Sleepers without a token are behind a lock that is still to be released.
THEOREM SpecSleepersHaveAWaker == Spec => []SleepersHaveAWaker
  <1>1. IInv => SleepersHaveAWaker
    <2> SUFFICES ASSUME IInv, NEW g \in Gates, Sleepers(g) # {}, semCounter[g] = 0
                 PROVE  \E r \in pResList : GateOf[r] = g
      BY DEF SleepersHaveAWaker
    <2>1. Cardinality(Sleepers(g)) \in Nat /\ Cardinality(Sleepers(g)) # 0
      BY CountedSets, FS_EmptySet
    <2>2. iWaitingProcesses[g] > 0
      BY <2>1 DEF IInv, TypeOK, SleepersAccounted
    <2> QED
      BY <2>2 DEF IInv, WaitersAreBehindALock
  <1> QED
    BY <1>1, Invariance, PTL

-----------------------------------------------------------------------------
(* The refinement of RWLock. *)

LEMMA InitRefines == Init => RW!Init
  BY DEF Init, RW!Init, PhaseOf

\* The phase of the caller that takes a step, the others keeping theirs.
LEMMA PhaseStep ==
    ASSUME NEW c \in Calls, \A d \in Calls \ {c} : pc'[d] = pc[d]
    PROVE  [d \in Calls |-> PhaseOf(d)]' =
             [[d \in Calls |-> PhaseOf(d)] EXCEPT ![c] = PhaseOf(c)']
  BY DEF PhaseOf, Holds

\* Waking up and going back to sleep are invisible to the caller.
LEMMA NextRefines == IInv /\ [Next]_vars => [RW!Next]_RW!vars
  <1> SUFFICES ASSUME IInv, [Next]_vars PROVE [RW!Next]_RW!vars
    OBVIOUS
  <1> USE DEF RW!vars
  <1>1. ASSUME NEW c \in Calls, NEW r \in Resources, NEW m \in Modes, RLckLock(c, r, m)
        PROVE  RW!Request(c, r, m)
    <2>1. PhaseOf(c) = "idle" /\ PhaseOf(c)' = "waiting" /\ \A d \in Calls \ {c} : pc'[d] = pc[d]
      BY <1>1 DEF RLckLock, PhaseOf, Holds, IInv, TypeOK
    <2> QED
      BY <1>1, <2>1, PhaseStep DEF RLckLock, RW!Request
  <1>2. ASSUME NEW c \in Calls, LockGranted(c)
        PROVE  RW!Grant(c)
    <2>1. /\ PhaseOf(c) = "waiting" /\ PhaseOf(c)' = "holding"
          /\ \A d \in Calls \ {c} : pc'[d] = pc[d]
      BY <1>2 DEF LockGranted, PhaseOf, Holds, IInv, TypeOK
    <2>2. ASSUME NEW d \in Calls, PhaseOf(d) = "holding", res[d] = res[c]
          PROVE  mode[c] = "SH" /\ mode[d] = "SH"
      <3>1. d \in Holders(res[c], mode[d]) /\ mode[c] \in Modes /\ mode[d] \in Modes
        BY <2>2 DEF Holders, PhaseOf, IInv, TypeOK
      <3> QED
        BY <1>2, <3>1, UnblockedMeansFree DEF LockGranted, Modes
    <2> QED
      BY <1>2, <2>1, <2>2, PhaseStep DEF LockGranted, callVars, RW!Grant, RW!Conflict
  <1>3. ASSUME NEW c \in Calls, LockRefused(c)
        PROVE  RW!Refuse(c)
    <2>1. /\ PhaseOf(c) = "waiting" /\ PhaseOf(c)' = "idle"
          /\ \A d \in Calls \ {c} : pc'[d] = pc[d]
      BY <1>3 DEF LockRefused, PhaseOf, Holds, IInv, TypeOK
    <2> QED
      BY <1>3, <2>1, PhaseStep DEF LockRefused, callVars, RW!Refuse
  <1>4. ASSUME NEW c \in Calls, LockBlocked(c) \/ WakeUp(c)
        PROVE  UNCHANGED RW!vars
    <2>1. \A d \in Calls : PhaseOf(d)' = PhaseOf(d)
      BY <1>4 DEF LockBlocked, WakeUp, PhaseOf, Holds, IInv, TypeOK
    <2> QED
      BY <1>4, <2>1 DEF LockBlocked, WakeUp, callVars
  <1>5. ASSUME NEW c \in Calls, RLckUnlock(c)
        PROVE  RW!Release(c)
    <2>1. /\ PhaseOf(c) = "holding" /\ PhaseOf(c)' = "idle"
          /\ \A d \in Calls \ {c} : pc'[d] = pc[d]
      BY <1>5 DEF RLckUnlock, PhaseOf, Holds, IInv, TypeOK
    <2> QED
      BY <1>5, <2>1, PhaseStep DEF RLckUnlock, callVars, RW!Release
  <1>6. CASE UNCHANGED vars
    BY <1>6 DEF vars, callVars, PhaseOf, Holds
  <1> QED
    BY <1>1, <1>2, <1>3, <1>4, <1>5, <1>6 DEF Next, LockPass, RW!Next, Modes, RW!Modes

\* ResLocks.cpp implements the abstract read/write lock.
THEOREM Refinement == Spec => ImplementsRWLock
  <1>1. Spec => RW!Init /\ [][RW!Next]_RW!vars
    BY InitRefines, NextRefines, Invariance, PTL DEF Spec
  <1> QED
    BY <1>1 DEF ImplementsRWLock, RW!Spec
-----------------------------------------------------------------------------
(* Semaphores, mutexes and events.                                         *)

\* The invariant is inductive as it stands.
SysIInv == SysTypeOK /\ SleepersAreCalled /\ UnitsConserved /\ OneHolder

LEMMA ThreadSets ==
    /\ IsFiniteSet(Asleep) /\ IsFiniteSet(Called) /\ IsFiniteSet(MutexHolders)
    /\ Cardinality(Called) \in Nat /\ Cardinality(MutexHolders) \in Nat
  <1>1. Asleep \subseteq Threads /\ Called \subseteq Threads /\ MutexHolders \subseteq Threads
    BY DEF Asleep, Called, MutexHolders
  <1> QED
    BY <1>1, ThreadsAssumption, FS_Subset, FS_CardinalityType

LEMMA ThreadSetsNext ==
    /\ IsFiniteSet(Asleep') /\ IsFiniteSet(Called') /\ IsFiniteSet(MutexHolders')
    /\ Cardinality(Called') \in Nat /\ Cardinality(MutexHolders') \in Nat
  <1>1. Asleep' \subseteq Threads /\ Called' \subseteq Threads /\ MutexHolders' \subseteq Threads
    BY DEF Asleep, Called, MutexHolders
  <1> QED
    BY <1>1, ThreadsAssumption, FS_Subset, FS_CardinalityType

\* Calling one sleeper: nobody slept, or one thread more is called.
LEMMA SignalCalls ==
    ASSUME SysTypeOK, NEW base \in [Threads -> {"outside", "asleep", "called", "holding"}],
           \A t \in Threads : base[t] # place[t] => place[t] = "holding" /\ base[t] = "outside",
           Signal(base)
    PROVE  /\ place' \in [Threads -> {"outside", "asleep", "called", "holding"}]
           /\ Asleep' # {} => Cardinality(Called') >= 1
           /\ MutexHolders' = {t \in Threads : base[t] = "holding"}
  <1>1. CASE Asleep = {} /\ place' = base
    BY <1>1 DEF Asleep, Called, MutexHolders
  <1>2. ASSUME NEW t \in Asleep, place' = [base EXCEPT ![t] = "called"]
        PROVE  /\ place' \in [Threads -> {"outside", "asleep", "called", "holding"}]
               /\ Called' # {}
               /\ MutexHolders' = {u \in Threads : base[u] = "holding"}
    <2>1. t \in Threads /\ place[t] = "asleep" /\ base[t] = "asleep"
      BY <1>2 DEF Asleep
    <2>2. t \in Called'
      BY <1>2, <2>1 DEF Called
    <2>3. MutexHolders' = {u \in Threads : base[u] = "holding"}
      BY <1>2, <2>1 DEF MutexHolders
    <2> QED
      BY <1>2, <2>1, <2>2, <2>3
  <1>3. Called' # {} => Cardinality(Called') >= 1
    BY ThreadSetsNext, FS_EmptySet
  <1> QED
    BY <1>1, <1>2, <1>3 DEF Signal

\* After a broadcast nobody sleeps.
LEMMA BroadcastCalls ==
    ASSUME SysTypeOK, Broadcast(place)
    PROVE  /\ place' \in [Threads -> {"outside", "asleep", "called", "holding"}]
           /\ Asleep' = {}
           /\ MutexHolders' = MutexHolders
  BY DEF SysTypeOK, Broadcast, Asleep, MutexHolders

LEMMA SysInitIInv == SysInit => SysIInv
  <1> SUFFICES ASSUME SysInit PROVE SysIInv
    OBVIOUS
  <1>1. SysTypeOK
    BY CountAssumption DEF SysInit, SysTypeOK
  <1>2. Asleep = {} /\ MutexHolders = {}
    BY DEF SysInit, Asleep, MutexHolders
  <1>3. UnitsConserved
    BY CountAssumption DEF SysInit, UnitsConserved
  <1>4. OneHolder
    <2>1. kind = "mutex" => count = 1
      BY DEF SysInit
    <2> QED
      BY <1>2, <2>1, FS_EmptySet DEF OneHolder
  <1> QED
    BY <1>1, <1>2, <1>3, <1>4 DEF SysIInv, SleepersAreCalled

\* A wait that takes a unit leaves one unit and at most one called thread less.
LEMMA WaitTakenKeepsIInv ==
    ASSUME SysIInv, NEW t \in Threads, WaitTaken(t)
    PROVE  SysIInv'
  <1> DEFINE to == IF kind = "mutex" THEN "holding" ELSE "outside"
  <1>1. /\ place[t] \in {"outside", "called"}
        /\ count \in Nat /\ count > 0 /\ taken \in Nat /\ given \in Nat
        /\ place \in [Threads -> {"outside", "asleep", "called", "holding"}]
        /\ place' = [place EXCEPT ![t] = to]
        /\ given' = given /\ kind' = kind /\ kind \in Kinds
    BY DEF SysIInv, SysTypeOK, WaitTaken, CondCB, Return
  <1>2. /\ kind = "semaphore" => count' = count - 1 /\ taken' = taken + 1
        /\ kind = "manual" => count' = count /\ taken' = taken
        /\ kind \in {"mutex", "auto"} => count' = 0 /\ taken' = taken
    BY DEF WaitTaken, PostCB
  <1>3. SysTypeOK'
    BY <1>1, <1>2, KindsAssumption DEF SysTypeOK
  <1>4. UnitsConserved'
    BY <1>1, <1>2, CountAssumption DEF SysIInv, UnitsConserved
  <1>5. OneHolder'
    <2> SUFFICES ASSUME kind = "mutex" PROVE OneHolder'
      BY <1>1 DEF OneHolder
    <2>1. Cardinality(MutexHolders) = 0
      BY <1>1, ThreadSets DEF SysIInv, OneHolder
    <2>2. MutexHolders = {}
      BY <2>1, ThreadSets, FS_EmptySet
    <2>3. MutexHolders' = {t}
      BY <1>1, <2>2 DEF MutexHolders
    <2>4. Cardinality(MutexHolders') = 1
      BY <2>3, FS_Singleton
    <2> QED
      BY <1>2, <2>4 DEF OneHolder
  <1>6. SleepersAreCalled'
    <2> SUFFICES ASSUME Asleep' # {}
                 PROVE  count' <= Cardinality(Called') /\ (kind = "manual" => count' = 0)
      BY <1>1 DEF SleepersAreCalled
    <2>1. Asleep # {}
      BY <1>1 DEF Asleep
    <2>2. count <= Cardinality(Called) /\ kind # "manual"
      BY <1>1, <2>1 DEF SysIInv, SleepersAreCalled
    <2>3. Called' = Called \ {t}
      BY <1>1 DEF Called
    <2>4. Cardinality(Called') >= Cardinality(Called) - 1
      BY <2>3, ThreadSets, FS_RemoveElement
    <2> QED
      BY <1>1, <1>2, <2>2, <2>4, ThreadSets, ThreadSetsNext, KindsAssumption
  <1> QED
    BY <1>3, <1>4, <1>5, <1>6 DEF SysIInv

\* A thread that sleeps saw nothing to take.
LEMMA WaitSleepsKeepsIInv ==
    ASSUME SysIInv, NEW t \in Threads, WaitSleeps(t)
    PROVE  SysIInv'
  <1>1. /\ count = 0
        /\ place[t] \in {"outside", "called"}
        /\ place \in [Threads -> {"outside", "asleep", "called", "holding"}]
        /\ place' = [place EXCEPT ![t] = "asleep"]
        /\ UNCHANGED <<kind, count, taken, given>>
    BY DEF SysIInv, SysTypeOK, WaitSleeps, CondCB
  <1>2. SysTypeOK'
    BY <1>1 DEF SysIInv, SysTypeOK
  <1>3. MutexHolders' = MutexHolders
    BY <1>1 DEF MutexHolders
  <1>4. UnitsConserved' /\ OneHolder'
    BY <1>1, <1>3 DEF SysIInv, UnitsConserved, OneHolder
  <1>5. SleepersAreCalled'
    BY <1>1, ThreadSetsNext DEF SleepersAreCalled
  <1> QED
    BY <1>2, <1>4, <1>5 DEF SysIInv

\* Only waits for a manual reset event are timed.
LEMMA WaitTimedOutKeepsIInv ==
    ASSUME SysIInv, NEW t \in Threads, WaitTimedOut(t)
    PROVE  SysIInv'
  <1>1. /\ kind = "manual"
        /\ place[t] \in {"asleep", "called"}
        /\ place \in [Threads -> {"outside", "asleep", "called", "holding"}]
        /\ place' = [place EXCEPT ![t] = "outside"]
        /\ UNCHANGED <<kind, count, taken, given>>
    BY DEF SysIInv, SysTypeOK, WaitTimedOut
  <1>2. SysTypeOK'
    BY <1>1 DEF SysIInv, SysTypeOK
  <1>3. UnitsConserved' /\ OneHolder'
    BY <1>1 DEF UnitsConserved, OneHolder
  <1>4. Asleep' # {} => Asleep # {}
    BY <1>1 DEF Asleep
  <1>5. SleepersAreCalled'
    BY <1>1, <1>4, ThreadSetsNext DEF SysIInv, SleepersAreCalled
  <1> QED
    BY <1>2, <1>3, <1>5 DEF SysIInv

LEMMA SpuriousWakeupKeepsIInv ==
    ASSUME SysIInv, NEW t \in Threads, SpuriousWakeup(t)
    PROVE  SysIInv'
  <1>1. /\ place[t] = "asleep"
        /\ count \in Nat
        /\ place \in [Threads -> {"outside", "asleep", "called", "holding"}]
        /\ place' = [place EXCEPT ![t] = "called"]
        /\ UNCHANGED <<kind, count, taken, given>>
    BY DEF SysIInv, SysTypeOK, SpuriousWakeup
  <1>2. SysTypeOK'
    BY <1>1 DEF SysIInv, SysTypeOK
  <1>3. MutexHolders' = MutexHolders
    BY <1>1 DEF MutexHolders
  <1>4. UnitsConserved' /\ OneHolder'
    BY <1>1, <1>3 DEF SysIInv, UnitsConserved, OneHolder
  <1>5. Called' = Called \cup {t} /\ t \notin Called /\ Asleep # {}
    BY <1>1 DEF Called, Asleep
  <1>6. Cardinality(Called') = Cardinality(Called) + 1
    BY <1>5, ThreadSets, FS_AddElement
  <1>7. SleepersAreCalled'
    BY <1>1, <1>5, <1>6, ThreadSets DEF SysIInv, SleepersAreCalled
  <1> QED
    BY <1>2, <1>4, <1>7 DEF SysIInv

LEMMA SysReleaseSemaphoreKeepsIInv ==
    ASSUME SysIInv, NEW iCount \in Counts, SysReleaseSemaphore(iCount)
    PROVE  SysIInv'
  <1>1. /\ kind = "semaphore" /\ kind' = kind /\ kind \in Kinds
        /\ iCount \in Nat /\ iCount >= 1
        /\ count \in Nat /\ taken \in Nat /\ given \in Nat
        /\ count' = count + iCount /\ given' = given + iCount /\ taken' = taken
        /\ place \in [Threads -> {"outside", "asleep", "called", "holding"}]
    BY CountAssumption DEF SysIInv, SysTypeOK, SysReleaseSemaphore
  <1>2. UnitsConserved' /\ OneHolder'
    BY <1>1, CountAssumption DEF SysIInv, UnitsConserved, OneHolder
  <1>3. CASE count + iCount > 1
    <2>1. Broadcast(place)
      BY <1>3 DEF SysReleaseSemaphore, SemWakeup
    <2>2. SysTypeOK' /\ Asleep' = {}
      BY <1>1, <2>1, BroadcastCalls DEF SysIInv, SysTypeOK
    <2> QED
      BY <1>2, <2>2 DEF SysIInv, SleepersAreCalled
  <1>4. CASE ~(count + iCount > 1)
    <2>1. Signal(place) /\ count' = 1
      BY <1>1, <1>4 DEF SysReleaseSemaphore, SemWakeup
    <2>2. /\ place' \in [Threads -> {"outside", "asleep", "called", "holding"}]
          /\ Asleep' # {} => Cardinality(Called') >= 1
      BY <1>1, <2>1, SignalCalls DEF SysIInv
    <2>3. SysTypeOK'
      BY <1>1, <2>2 DEF SysTypeOK
    <2>4. SleepersAreCalled'
      BY <1>1, <2>1, <2>2, ThreadSetsNext DEF SleepersAreCalled
    <2> QED
      BY <1>2, <2>3, <2>4 DEF SysIInv
  <1> QED
    BY <1>3, <1>4

LEMMA SysUnlockMutexKeepsIInv ==
    ASSUME SysIInv, NEW t \in Threads, SysUnlockMutex(t)
    PROVE  SysIInv'
  <1> DEFINE base == [place EXCEPT ![t] = "outside"]
  <1>1. /\ kind = "mutex" /\ place[t] = "holding" /\ count' = 1
        /\ kind' = kind /\ kind \in Kinds
        /\ count \in Nat /\ taken' = taken /\ given' = given
        /\ taken \in Nat /\ given \in Nat
        /\ place \in [Threads -> {"outside", "asleep", "called", "holding"}]
        /\ Signal(base)
    BY DEF SysIInv, SysTypeOK, SysUnlockMutex
  <1>2. /\ base \in [Threads -> {"outside", "asleep", "called", "holding"}]
        /\ \A u \in Threads : base[u] # place[u] => place[u] = "holding" /\ base[u] = "outside"
    BY <1>1
  <1>3. /\ place' \in [Threads -> {"outside", "asleep", "called", "holding"}]
        /\ Asleep' # {} => Cardinality(Called') >= 1
        /\ MutexHolders' = {u \in Threads : base[u] = "holding"}
    BY <1>1, <1>2, SignalCalls DEF SysIInv
  <1>4. SysTypeOK'
    BY <1>1, <1>3 DEF SysTypeOK
  <1>5. SleepersAreCalled'
    BY <1>1, <1>3, ThreadSetsNext DEF SleepersAreCalled
  <1>6. Cardinality(MutexHolders') = 0
    <2>1. MutexHolders' = MutexHolders \ {t} /\ t \in MutexHolders
      BY <1>1, <1>3 DEF MutexHolders
    <2>2. Cardinality(MutexHolders') = Cardinality(MutexHolders) - 1
      BY <2>1, ThreadSets, FS_RemoveElement
    <2>3. Cardinality(MutexHolders) + count = 1
      BY <1>1 DEF SysIInv, OneHolder
    <2> QED
      BY <1>1, <2>2, <2>3, ThreadSets, ThreadSetsNext
  <1>7. UnitsConserved' /\ OneHolder'
    BY <1>1, <1>6 DEF UnitsConserved, OneHolder
  <1> QED
    BY <1>4, <1>5, <1>7 DEF SysIInv

LEMMA SysSetEventKeepsIInv ==
    ASSUME SysIInv, SysSetEvent
    PROVE  SysIInv'
  <1>1. /\ kind \in {"manual", "auto"} /\ count' = 1
        /\ kind' = kind /\ kind \in Kinds
        /\ taken' = taken /\ given' = given /\ taken \in Nat /\ given \in Nat
        /\ place \in [Threads -> {"outside", "asleep", "called", "holding"}]
    BY DEF SysIInv, SysTypeOK, SysSetEvent
  <1>2. UnitsConserved' /\ OneHolder'
    BY <1>1 DEF UnitsConserved, OneHolder
  <1>3. CASE kind = "manual"
    <2>1. Broadcast(place)
      BY <1>3 DEF SysSetEvent, EventWakeup
    <2>2. SysTypeOK' /\ Asleep' = {}
      BY <1>1, <2>1, BroadcastCalls DEF SysIInv, SysTypeOK
    <2> QED
      BY <1>2, <2>2 DEF SysIInv, SleepersAreCalled
  <1>4. CASE kind = "auto"
    <2>1. Signal(place)
      BY <1>4 DEF SysSetEvent, EventWakeup
    <2>2. /\ place' \in [Threads -> {"outside", "asleep", "called", "holding"}]
          /\ Asleep' # {} => Cardinality(Called') >= 1
      BY <1>1, <2>1, SignalCalls DEF SysIInv
    <2>3. SysTypeOK'
      BY <1>1, <2>2 DEF SysTypeOK
    <2>4. SleepersAreCalled'
      BY <1>1, <1>4, <2>2, ThreadSetsNext DEF SleepersAreCalled
    <2> QED
      BY <1>2, <2>3, <2>4 DEF SysIInv
  <1> QED
    BY <1>1, <1>3, <1>4

LEMMA SysResetEventKeepsIInv ==
    ASSUME SysIInv, SysResetEvent
    PROVE  SysIInv'
  <1>1. kind \in {"manual", "auto"} /\ count' = 0 /\ UNCHANGED <<kind, place, taken, given>>
    BY DEF SysResetEvent
  <1>2. SysTypeOK' /\ UnitsConserved' /\ OneHolder'
    BY <1>1 DEF SysIInv, SysTypeOK, UnitsConserved, OneHolder
  <1>3. SleepersAreCalled'
    BY <1>1, ThreadSetsNext DEF SleepersAreCalled
  <1> QED
    BY <1>2, <1>3 DEF SysIInv

LEMMA SysNextKeepsIInv == SysIInv /\ [SysNext]_sysVars => SysIInv'
  <1> SUFFICES ASSUME SysIInv, [SysNext]_sysVars PROVE SysIInv'
    OBVIOUS
  <1>1. CASE UNCHANGED sysVars
    BY <1>1 DEF sysVars, SysIInv, SysTypeOK, SleepersAreCalled, UnitsConserved, OneHolder, Asleep,
       Called, MutexHolders
  <1>2. CASE SysNext
    BY <1>2, WaitTakenKeepsIInv, WaitSleepsKeepsIInv, WaitTimedOutKeepsIInv,
       SpuriousWakeupKeepsIInv, SysReleaseSemaphoreKeepsIInv, SysUnlockMutexKeepsIInv,
       SysSetEventKeepsIInv, SysResetEventKeepsIInv DEF SysNext, Wait
  <1> QED
    BY <1>1, <1>2

(***************************************************************************)
(* For every kind of object and any number of threads, SysWaitWait and the *)
(* calls that wake waiters keep all the invariants.                        *)
(***************************************************************************)
THEOREM SysInvariance == SysSpec => []SysIInv
  BY SysInitIInv, SysNextKeepsIInv, PTL DEF SysSpec

(***************************************************************************)
(* No wakeup is lost (SysWaitWakeup): beside a sleeper there is a called   *)
(* thread for every unit, and no manual reset event is set.                *)
(***************************************************************************)
THEOREM SpecSleepersAreCalled == SysSpec => []SleepersAreCalled
  BY SysInvariance, PTL DEF SysIInv

\* No unit of a semaphore is lost or taken twice (SysSemPostCB).
THEOREM SpecUnitsConserved == SysSpec => []UnitsConserved
  BY SysInvariance, PTL DEF SysIInv

\* A mutex has one holder while it is locked and none otherwise (SysMtxPostCB).
THEOREM SpecOneHolder == SysSpec => []OneHolder
  BY SysInvariance, PTL DEF SysIInv
=============================================================================
