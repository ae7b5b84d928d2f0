---------------------------- MODULE Mailbox_proof ----------------------------
(***************************************************************************)
(* Proofs about Mailbox for any number of messages, sessions, SMAIL        *)
(* threads and crashes: the lock and the lists when the POP3 service is    *)
(* enabled (IInv), the quota (QInv) and the counters (CInv) in any case.   *)
(***************************************************************************)
EXTENDS Mailbox, FiniteSetTheorems, WellFoundedInduction, TLAPS

\* The part of TypeOK that the lock and the lists need.
Shape ==
    /\ up \in BOOLEAN
    /\ lockFile \in BOOLEAN /\ stuck \in BOOLEAN
    /\ iPOP3State \in [Sessions -> {"none", "init", "user", "logged", "exit"}]
    /\ stage \in [Sessions -> {"none", "locked", "open", "updating", "updated"}]
    /\ DOMAIN list = Sessions
    /\ DOMAIN deleted = Sessions

\* Nobody is connected to a server that is down, and only a session that was
\* ended by QUIT is in the update.
StageFitsState ==
    /\ ~up => \A s \in Sessions : stage[s] = "none" /\ iPOP3State[s] = "none"
    /\ \A s \in Sessions : stage[s] = "updating" => iPOP3State[s] = "exit"

IInv == Shape /\ StageFitsState /\ LockMatchesSession /\ ListedMessagesExist

LEMMA InitIInv == Init => IInv
  BY DEF Init, IInv, Shape, StageFitsState, LockMatchesSession, NoStaleLock, HasLock,
     ListedMessagesExist

\* Steps that change neither who has the lock nor what is listed and kept.
LEMMA DeliverKeepsIInv ==
    ASSUME IInv, NEW w \in Workers, Deliver(w)
    PROVE  IInv'
  <1>1. dir \subseteq dir' /\ UNCHANGED <<up, lockFile, stuck, serverVars>>
    BY DEF Deliver, UPopCheckMailboxSize, UsrMoveToMailBox, DeliveryFails
  <1> QED
    BY <1>1 DEF serverVars, IInv, Shape, StageFitsState, LockMatchesSession, NoStaleLock, HasLock,
       ListedMessagesExist

LEMMA DialogueKeepsIInv ==
    ASSUME IInv, NEW s \in Sessions,
           Connect(s) \/ POP3HandleCmd_USER(s) \/ LoginRefused(s) \/ POP3HandleCmd_QUIT(s)
    PROVE  IInv'
  <1>1. /\ UNCHANGED <<up, dir, lockFile, stuck, stage, list, deleted>>
        /\ \E to \in {"init", "user", "exit"} : iPOP3State' = [iPOP3State EXCEPT ![s] = to]
        /\ up /\ stage[s] # "updating"
    BY DEF IInv, Shape, StageFitsState, Connect, POP3HandleCmd_USER, LoginRefused,
       POP3HandleCmd_QUIT, Ready, AfterBadLogin
  <1>2. Shape' /\ StageFitsState'
    BY <1>1 DEF IInv, Shape, StageFitsState
  <1> QED
    BY <1>1, <1>2 DEF IInv, LockMatchesSession, NoStaleLock, HasLock, ListedMessagesExist

LEMMA LockKeepsIInv ==
    ASSUME IInv, NEW s \in Sessions, UsrPOP3Lock(s)
    PROVE  IInv'
  <1>1. /\ ~lockFile /\ lockFile' = TRUE /\ UNCHANGED <<up, dir, stuck, iPOP3State, list, deleted>>
        /\ stage' = [stage EXCEPT ![s] = "locked"]
        /\ iPOP3State[s] # "none"
    BY DEF UsrPOP3Lock, Ready
  <1>2. \A t \in Sessions : stage[t] = "none"
    BY <1>1 DEF IInv, LockMatchesSession, HasLock
  <1>3. Shape' /\ StageFitsState'
    BY <1>1, <1>2 DEF IInv, Shape, StageFitsState
  <1>4. LockMatchesSession'
    BY <1>1, <1>2 DEF IInv, Shape, LockMatchesSession, NoStaleLock, HasLock
  <1>5. ListedMessagesExist'
    BY <1>1, <1>2 DEF IInv, Shape, ListedMessagesExist
  <1> QED
    BY <1>3, <1>4, <1>5 DEF IInv

\* The list is a sequence of what is in the mailbox.
LEMMA BuildListKeepsIInv ==
    ASSUME IInv, NEW s \in Sessions, UPopBuildMessageList(s)
    PROVE  IInv'
  <1>1. /\ UNCHANGED <<up, dir, lockFile, stuck, deleted>>
        /\ stage[s] = "locked"
        /\ stage' = [stage EXCEPT ![s] = "open"]
        /\ iPOP3State' = [iPOP3State EXCEPT ![s] = "logged"]
    BY DEF UPopBuildMessageList
  <1>2. PICK l \in SetToSeqs(dir) : list' = [list EXCEPT ![s] = l]
    BY DEF UPopBuildMessageList
  <1>3. \A i \in DOMAIN l : l[i] \in dir
    BY <1>2 DEF SetToSeqs
  <1>4. Shape' /\ StageFitsState'
    BY <1>1, <1>2 DEF IInv, Shape, StageFitsState
  <1>5. LockMatchesSession'
    BY <1>1 DEF IInv, Shape, LockMatchesSession, NoStaleLock, HasLock
  <1>6. ListedMessagesExist'
    BY <1>1, <1>2, <1>3 DEF IInv, Shape, ListedMessagesExist
  <1> QED
    BY <1>4, <1>5, <1>6 DEF IInv

LEMMA BuildFailsKeepsIInv ==
    ASSUME IInv, NEW s \in Sessions, BuildSessionFails(s)
    PROVE  IInv'
  <1>1. /\ UNCHANGED <<up, dir, list, deleted>>
        /\ stage[s] = "locked"
        /\ \/ lockFile' = FALSE /\ stuck' = stuck
           \/ stuck' = TRUE /\ lockFile' = lockFile
        /\ stage' = [stage EXCEPT ![s] = "none"]
        /\ \E to \in {"init", "exit"} : iPOP3State' = [iPOP3State EXCEPT ![s] = to]
    BY DEF BuildSessionFails, UsrPOP3Unlock, AfterBadLogin
  <1>2. \A t \in Sessions \ {s} : stage[t] = "none"
    BY <1>1 DEF IInv, Shape, LockMatchesSession, HasLock
  <1>3. Shape' /\ StageFitsState'
    BY <1>1, <1>2 DEF IInv, Shape, StageFitsState
  <1>4. LockMatchesSession'
    BY <1>1, <1>2 DEF IInv, Shape, LockMatchesSession, NoStaleLock, HasLock
  <1>5. ListedMessagesExist'
    BY <1>1, <1>2 DEF IInv, Shape, ListedMessagesExist
  <1> QED
    BY <1>3, <1>4, <1>5 DEF IInv

LEMMA MarkKeepsIInv ==
    ASSUME IInv, NEW s \in Sessions,
           UPopResetSession(s) \/ \E i \in DOMAIN list[s] : UPopDeleteMessage(s, i)
    PROVE  IInv'
  <1>1. /\ UNCHANGED <<up, dir, lockFile, stuck, iPOP3State, stage, list>>
        /\ DOMAIN deleted' = Sessions
    BY DEF IInv, Shape, UPopResetSession, UPopDeleteMessage
  <1> QED
    BY <1>1 DEF IInv, Shape, StageFitsState, LockMatchesSession, NoStaleLock, HasLock,
       ListedMessagesExist

LEMMA ClearSessionKeepsIInv ==
    ASSUME IInv, NEW s \in Sessions, POP3ClearSession(s)
    PROVE  IInv'
  <1>1. UNCHANGED <<up, dir, lockFile, stuck, list, deleted>> /\ iPOP3State[s] # "none"
    BY DEF POP3ClearSession, Ready
  <1>2. CASE stage[s] = "open"
    <2>1. UNCHANGED iPOP3State /\ iPOP3State[s] # "none"
      BY <1>1, <1>2 DEF POP3ClearSession
    <2>2. PICK to \in AfterLoop(s) : stage' = [stage EXCEPT ![s] = to]
      BY <1>2 DEF POP3ClearSession
    <2>3. to \in {"updating", "updated"} /\ (to = "updating" => iPOP3State[s] = "exit")
      BY <2>2 DEF AfterLoop
    <2>4. Shape' /\ StageFitsState'
      BY <1>1, <1>2, <2>1, <2>2, <2>3 DEF IInv, Shape, StageFitsState
    <2>5. \A t \in Sessions : HasLock(t)' <=> HasLock(t)
      BY <1>2, <2>2, <2>3 DEF IInv, Shape, HasLock
    <2>6. LockMatchesSession'
      BY <1>1, <2>5 DEF IInv, LockMatchesSession, NoStaleLock
    <2>7. ListedMessagesExist'
      BY <1>1, <2>2, <2>3 DEF IInv, Shape, ListedMessagesExist
    <2> QED
      BY <2>4, <2>6, <2>7 DEF IInv
  <1>3. CASE stage[s] # "open"
    <2>1. stage[s] = "none" /\ UNCHANGED stage /\ iPOP3State' = [iPOP3State EXCEPT ![s] = "none"]
      BY <1>3 DEF POP3ClearSession, Ready
    <2> QED
      BY <1>1, <2>1 DEF IInv, Shape, StageFitsState, LockMatchesSession, NoStaleLock, HasLock,
         ListedMessagesExist
  <1> QED
    BY <1>2, <1>3

\* The session that updates the mailbox is the only one with a list.
LEMMA UpdateKeepsIInv ==
    ASSUME IInv, NEW s \in Sessions, RemoveMarked(s) \/ UpdateDone(s)
    PROVE  IInv'
  <1>1. /\ stage[s] = "updating"
        /\ UNCHANGED <<up, lockFile, stuck, iPOP3State, list>>
        /\ DOMAIN deleted' = Sessions
        /\ \E to \in {"updating", "updated"} : stage' = [stage EXCEPT ![s] = to]
    BY DEF IInv, Shape, RemoveMarked, UpdateDone
  <1>2. \A t \in Sessions \ {s} : stage[t] = "none"
    BY <1>1 DEF IInv, LockMatchesSession, HasLock
  <1>3. Shape' /\ StageFitsState'
    BY <1>1, <1>2 DEF IInv, Shape, StageFitsState
  <1>4. \A t \in Sessions : HasLock(t)' <=> HasLock(t)
    BY <1>1 DEF IInv, Shape, HasLock
  <1>5. LockMatchesSession'
    BY <1>1, <1>4 DEF IInv, LockMatchesSession, NoStaleLock
  <1>6. ListedMessagesExist'
    BY <1>1, <1>2 DEF IInv, Shape, ListedMessagesExist
  <1> QED
    BY <1>3, <1>5, <1>6 DEF IInv

LEMMA ReleaseKeepsIInv ==
    ASSUME IInv, NEW s \in Sessions, UPopReleaseSession(s)
    PROVE  IInv'
  <1>1. /\ stage[s] = "updated" /\ UNCHANGED <<up, dir>>
        /\ \/ lockFile' = FALSE /\ stuck' = stuck
           \/ stuck' = TRUE /\ lockFile' = lockFile
    BY DEF UPopReleaseSession, UsrPOP3Unlock
  <1>2. \A t \in Sessions \ {s} : stage[t] = "none"
    BY <1>1 DEF IInv, LockMatchesSession, HasLock
  <1>3. /\ stage' = [t \in Sessions |-> IF t = s THEN "none" ELSE stage[t]]
        /\ iPOP3State' = [t \in Sessions |-> IF t = s THEN "none" ELSE iPOP3State[t]]
        /\ DOMAIN list' = Sessions /\ DOMAIN deleted' = Sessions
    BY DEF UPopReleaseSession, Forget
  <1>4. \A t \in Sessions : stage'[t] = "none"
    BY <1>2, <1>3
  <1>5. Shape' /\ StageFitsState'
    BY <1>1, <1>3, <1>4 DEF IInv, Shape, StageFitsState
  <1> QED
    BY <1>1, <1>4, <1>5 DEF IInv, LockMatchesSession, NoStaleLock, HasLock, ListedMessagesExist

LEMMA CrashKeepsIInv ==
    ASSUME IInv, Crash
    PROVE  IInv'
  <1>1. up' = FALSE /\ UNCHANGED <<dir, lockFile, stuck>>
    BY DEF Crash
  <1>2. /\ stage' = [t \in Sessions |-> "none"]
        /\ iPOP3State' = [t \in Sessions |-> "none"]
        /\ DOMAIN list' = Sessions /\ DOMAIN deleted' = Sessions
    BY DEF Crash, Forget
  <1> QED
    BY <1>1, <1>2 DEF IInv, Shape, StageFitsState, LockMatchesSession, NoStaleLock, HasLock,
       ListedMessagesExist

LEMMA RestartKeepsIInv ==
    ASSUME POP3Enabled, IInv, Restart
    PROVE  IInv'
  <1>1. /\ ~up /\ up' = TRUE /\ UNCHANGED <<dir, serverVars>>
        /\ \/ lockFile' = FALSE /\ stuck' = FALSE
           \/ lockFile' = lockFile /\ stuck' = lockFile
    <2>1. /\ ~up /\ up' = TRUE /\ UNCHANGED <<dir, serverVars>>
          /\ \/ lockFile' = (lockFile /\ ~POP3Enabled) /\ stuck' = (stuck /\ lockFile')
             \/ stuck' = lockFile /\ lockFile' = lockFile
      BY DEF Restart
    <2>2. CASE lockFile' = (lockFile /\ ~POP3Enabled) /\ stuck' = (stuck /\ lockFile')
      BY POP3Enabled, <2>1, <2>2, Zenon
    <2> QED
      BY <2>1, <2>2
  <1>2. \A s \in Sessions : stage[s] = "none"
    BY <1>1 DEF IInv, StageFitsState
  <1>3. ~lockFile' \/ stuck'
    <2>1. CASE lockFile' = FALSE
      BY <2>1, Zenon
    <2>2. CASE lockFile' = lockFile /\ stuck' = lockFile
      BY <2>2, Zenon
    <2> QED
      BY <1>1, <2>1, <2>2, Zenon
  <1>4. lockFile' \in BOOLEAN /\ stuck' \in BOOLEAN
    BY <1>1, Zenon DEF IInv, Shape
  <1> QED
    BY <1>1, <1>2, <1>3, <1>4 DEF serverVars, IInv, Shape, StageFitsState, LockMatchesSession,
       NoStaleLock, HasLock, ListedMessagesExist

LEMMA NextKeepsIInv ==
    ASSUME POP3Enabled
    PROVE  IInv /\ [Next]_vars => IInv'
  <1> SUFFICES ASSUME IInv, [Next]_vars PROVE IInv'
    OBVIOUS
  <1>1. CASE UNCHANGED vars
    BY <1>1 DEF vars, serverVars, IInv, Shape, StageFitsState, LockMatchesSession, NoStaleLock,
       HasLock, ListedMessagesExist
  <1>2. ASSUME NEW w \in Workers, Deliver(w) PROVE IInv'
    BY <1>2, DeliverKeepsIInv
  <1>3. ASSUME NEW s \in Sessions, Connect(s) \/ Command(s) PROVE IInv'
    BY <1>3, DialogueKeepsIInv, LockKeepsIInv, BuildListKeepsIInv, BuildFailsKeepsIInv,
       MarkKeepsIInv DEF Command, Login
  <1>4. ASSUME NEW s \in Sessions, End(s) PROVE IInv'
    BY <1>4, ClearSessionKeepsIInv, UpdateKeepsIInv, ReleaseKeepsIInv DEF End
  <1>5. CASE Crash \/ Restart
    BY <1>5, POP3Enabled, CrashKeepsIInv, RestartKeepsIInv
  <1> QED
    BY <1>1, <1>2, <1>3, <1>4, <1>5 DEF Next

\* The mailbox of an account, its lock file and its sessions stay consistent.
THEOREM Invariance ==
    ASSUME POP3Enabled
    PROVE  Spec => []IInv
  BY POP3Enabled, InitIInv, NextKeepsIInv, PTL DEF Spec

(***************************************************************************)
(* One session at a time, and the lock file of UsrPOP3Lock is there        *)
(* exactly while there is one, across failures and crashes, unless the     *)
(* file itself could not be removed.                                       *)
(***************************************************************************)
THEOREM SpecLockMatchesSession ==
    ASSUME POP3Enabled
    PROVE  Spec => []LockMatchesSession
  BY POP3Enabled, Invariance, PTL DEF IInv

\* What a session listed (UPopBuildMessageList) is there until the session ends.
THEOREM SpecListedMessagesExist ==
    ASSUME POP3Enabled
    PROVE  Spec => []ListedMessagesExist
  BY POP3Enabled, Invariance, PTL DEF IInv

LEMMA StepRemovesMarked ==
    ASSUME IInv, [Next]_vars, NEW m \in dir \ dir'
    PROVE  \E s \in Sessions : iPOP3State[s] = "exit" /\ \E i \in deleted[s] : list[s][i] = m
  <1>1. CASE UNCHANGED vars \/ Crash \/ Restart
    BY <1>1 DEF vars, Crash, Restart
  <1>2. ASSUME NEW w \in Workers, Deliver(w) PROVE FALSE
    BY <1>2 DEF Deliver, UPopCheckMailboxSize, UsrMoveToMailBox, DeliveryFails
  <1>3. ASSUME NEW s \in Sessions, Connect(s) \/ Command(s) PROVE FALSE
    BY <1>3 DEF Connect, Command, Login, POP3HandleCmd_USER, LoginRefused, UsrPOP3Lock,
       UPopBuildMessageList, BuildSessionFails, UPopDeleteMessage, UPopResetSession,
       POP3HandleCmd_QUIT
  <1>4. ASSUME NEW s \in Sessions, POP3ClearSession(s) \/ UpdateDone(s) \/ UPopReleaseSession(s)
        PROVE  FALSE
    BY <1>4 DEF POP3ClearSession, UpdateDone, UPopReleaseSession
  <1>5. ASSUME NEW s \in Sessions, RemoveMarked(s)
        PROVE  iPOP3State[s] = "exit" /\ \E i \in deleted[s] : list[s][i] = m
    BY <1>5 DEF RemoveMarked, IInv, StageFitsState
  <1> QED
    BY <1>1, <1>2, <1>3, <1>4, <1>5 DEF Next, End

\* UPopUpdateMailbox runs for sessions that were ended by QUIT and for nothing
\* that they did not mark.
THEOREM SpecOnlyQuitRemoves ==
    ASSUME POP3Enabled
    PROVE  Spec => OnlyQuitRemoves
  <1>1. IInv /\ [Next]_vars =>
            [\A m \in dir \ dir' : \E s \in Sessions :
                /\ iPOP3State[s] = "exit"
                /\ \E i \in deleted[s] : list[s][i] = m]_vars
    BY StepRemovesMarked
  <1> QED
    BY <1>1, POP3Enabled, Invariance, PTL DEF Spec, OnlyQuitRemoves
-----------------------------------------------------------------------------
(* The size of a set of messages.                                          *)

\* A message of size n as n parcels, and those of a set: what SizeOf counts.
Parcel(m) == {<<m, i>> : i \in 1..llMsgSize[m]}
Parcels(S) == UNION {Parcel(m) : m \in S}

\* The recursion that SizeOf stands for.
Picked(S) == CHOOSE m \in S : TRUE
Folded(h, S) ==
    [T \in SUBSET S |->
        IF T = {} THEN 0 ELSE llMsgSize[Picked(T)] + h[T \ {Picked(T)}]]

LEMMA ParcelCount ==
    ASSUME NEW m \in Msgs
    PROVE  IsFiniteSet(Parcel(m)) /\ Cardinality(Parcel(m)) = llMsgSize[m]
  <1> DEFINE f == [i \in 1..llMsgSize[m] |-> <<m, i>>]
  <1>1. llMsgSize[m] \in Nat
    BY SizeAssumption
  <1>2. f \in Bijection(1..llMsgSize[m], Parcel(m))
    <2>1. f \in Injection(1..llMsgSize[m], Parcel(m))
      BY DEF Parcel, Injection, IsInjective
    <2>2. f \in Surjection(1..llMsgSize[m], Parcel(m))
      BY DEF Parcel, Surjection
    <2> QED
      BY <2>1, <2>2 DEF Bijection
  <1>3. IsFiniteSet(1..llMsgSize[m]) /\ Cardinality(1..llMsgSize[m]) = llMsgSize[m]
    BY <1>1, FS_Interval
  <1>4. ExistsBijection(1..llMsgSize[m], Parcel(m))
    BY <1>2 DEF ExistsBijection
  <1> QED
    BY <1>3, <1>4, FS_Bijection

LEMMA ParcelsFinite ==
    ASSUME NEW S \in SUBSET Msgs
    PROVE  IsFiniteSet(S) /\ IsFiniteSet(Parcels(S)) /\ Cardinality(Parcels(S)) \in Nat
  <1> DEFINE All == {Parcel(m) : m \in S}
  <1>1. IsFiniteSet(S)
    BY MsgsAssumption, FS_Subset
  <1>2. IsFiniteSet(All)
    <2> DEFINE f == [m \in S |-> Parcel(m)]
    <2>1. f \in Surjection(S, All)
      BY DEF Surjection
    <2> HIDE DEF f, All
    <2> QED
      BY <1>1, <2>1, FS_Surjection
  <1>3. \A P \in All : IsFiniteSet(P)
    BY ParcelCount
  <1>4. IsFiniteSet(UNION All)
    BY <1>2, <1>3, FS_UNION
  <1> QED
    BY <1>1, <1>4, FS_CardinalityType DEF Parcels

LEMMA ParcelsOfUnion ==
    ASSUME NEW S \in SUBSET Msgs, NEW T \in SUBSET Msgs, S \cap T = {}
    PROVE  Cardinality(Parcels(S \cup T)) = Cardinality(Parcels(S)) + Cardinality(Parcels(T))
  <1>1. Parcels(S \cup T) = Parcels(S) \cup Parcels(T)
    BY DEF Parcels
  <1>2. Parcels(S) \cap Parcels(T) = {}
    BY DEF Parcels, Parcel
  <1>3. /\ IsFiniteSet(Parcels(S)) /\ IsFiniteSet(Parcels(T))
        /\ Cardinality(Parcels(S)) \in Nat /\ Cardinality(Parcels(T)) \in Nat
    BY ParcelsFinite
  <1>4. Cardinality(Parcels(S) \cup Parcels(T))
           = Cardinality(Parcels(S)) + Cardinality(Parcels(T)) - Cardinality({})
    BY <1>2, <1>3, FS_Union
  <1>5. Cardinality({}) = 0
    BY FS_EmptySet
  <1>6. Cardinality(Parcels(S) \cup Parcels(T)) = Cardinality(Parcels(S)) + Cardinality(Parcels(T))
    BY <1>3, <1>4, <1>5
  <1> QED
    BY <1>1, <1>6

LEMMA ParcelsOfOne ==
    ASSUME NEW m \in Msgs
    PROVE  Cardinality(Parcels({m})) = llMsgSize[m]
  <1>1. Parcels({m}) = Parcel(m)
    BY DEF Parcels
  <1> QED
    BY <1>1, ParcelCount

LEMMA ParcelsOfNone == Cardinality(Parcels({})) = 0
  <1>1. Parcels({}) = {}
    BY DEF Parcels
  <1> QED
    BY <1>1, FS_EmptySet

\* The number of parcels solves the recursion.
LEMMA ParcelsAreFolded ==
    ASSUME NEW S \in SUBSET Msgs
    PROVE  \E h : h = Folded(h, S)
  <1> DEFINE g == [T \in SUBSET S |-> Cardinality(Parcels(T))]
  <1>1. ASSUME NEW T \in SUBSET S
        PROVE  g[T] = IF T = {} THEN 0 ELSE llMsgSize[Picked(T)] + g[T \ {Picked(T)}]
    <2>1. CASE T = {}
      BY <2>1, ParcelsOfNone
    <2>2. CASE T # {}
      <3> DEFINE m == Picked(T)
      <3>1. m \in T
        BY <2>2 DEF Picked
      <3> HIDE DEF m
      <3>2. /\ T = {m} \cup (T \ {m}) /\ {m} \cap (T \ {m}) = {}
            /\ m \in Msgs /\ T \ {m} \in SUBSET Msgs
        BY <3>1
      <3>3. Cardinality(Parcels(T)) = llMsgSize[m] + Cardinality(Parcels(T \ {m}))
        <4>1. Cardinality(Parcels({m})) = llMsgSize[m]
          BY <3>2, ParcelsOfOne
        <4>2. {m} \in SUBSET Msgs
          BY <3>2
        <4>3. Cardinality(Parcels({m} \cup (T \ {m})))
                 = Cardinality(Parcels({m})) + Cardinality(Parcels(T \ {m}))
          BY <3>2, <4>2, ParcelsOfUnion
        <4> QED
          BY <3>2, <4>1, <4>3
      <3>4. g[T] = llMsgSize[m] + g[T \ {m}]
        BY <3>3
      <3> QED
        BY <2>2, <3>4 DEF m
    <2> QED
      BY <2>1, <2>2
  <1>2. g = Folded(g, S)
    BY <1>1 DEF Folded
  <1> QED
    BY <1>2

LEMMA SizeIsFolded ==
    ASSUME NEW S \in SUBSET Msgs
    PROVE  \E h : h = Folded(h, S) /\ SizeOf(S) = h[S]
  <1> DEFINE iter == CHOOSE h : h = Folded(h, S)
  <1>1. iter = Folded(iter, S)
    BY ParcelsAreFolded
  <1>2. SizeOf(S) = iter[S]
    BY DEF SizeOf, MapThenSumSet, MapThenFoldSet, Folded, Picked
  <1> QED
    BY <1>1, <1>2

\* A nonempty set of finite sets of messages has a smallest one.
LEMMA SmallestSet ==
    ASSUME NEW Bad, Bad \subseteq SUBSET Msgs, Bad # {}
    PROVE  \E S \in Bad : \A T \in Bad : ~(T \subseteq S /\ T # S)
  <1>1. Bad \subseteq FiniteSubsetsOf(Msgs)
    BY ParcelsFinite DEF FiniteSubsetsOf
  <1>2. PICK S \in Bad : \A T \in Bad : <<T, S>> \notin StrictSubsetOrdering(Msgs)
    BY <1>1, FS_StrictSubsetOrderingWellFounded, WFMin
  <1> QED
    BY <1>2 DEF StrictSubsetOrdering

\* SizeOf adds the sizes up.
LEMMA SizeIsCount ==
    ASSUME NEW S \in SUBSET Msgs
    PROVE  SizeOf(S) = Cardinality(Parcels(S))
  <1>1. PICK h : h = Folded(h, S) /\ SizeOf(S) = h[S]
    BY SizeIsFolded
  <1> DEFINE Bad == {T \in SUBSET S : h[T] # Cardinality(Parcels(T))}
  <1>2. ASSUME Bad # {} PROVE FALSE
    <2>1. PICK T \in Bad : \A U \in Bad : ~(U \subseteq T /\ U # T)
      <3>1. Bad \subseteq SUBSET Msgs
        OBVIOUS
      <3> HIDE DEF Bad
      <3> QED
        BY <1>2, <3>1, SmallestSet
    <2> DEFINE m == Picked(T)
    <2>2. h[T] = IF T = {} THEN 0 ELSE llMsgSize[Picked(T)] + h[T \ {Picked(T)}]
      BY <1>1 DEF Folded
    <2>3. T # {}
      BY <2>2, ParcelsOfNone
    <2>4. m \in T /\ m \in Msgs
      BY <2>3 DEF Picked
    <2>5. h[T] = llMsgSize[m] + h[T \ {m}]
      BY <2>2, <2>3
    <2> HIDE DEF m
    <2>6. h[T \ {m}] = Cardinality(Parcels(T \ {m}))
      BY <2>1, <2>4
    <2>7. T = {m} \cup (T \ {m}) /\ {m} \cap (T \ {m}) = {} /\ T \ {m} \in SUBSET Msgs
      BY <2>4
    <2>8. Cardinality(Parcels({m} \cup (T \ {m})))
             = Cardinality(Parcels({m})) + Cardinality(Parcels(T \ {m}))
      BY <2>4, <2>7, ParcelsOfUnion
    <2>9. Cardinality(Parcels(T)) = llMsgSize[m] + Cardinality(Parcels(T \ {m}))
      BY <2>4, <2>7, <2>8, ParcelsOfOne
    <2> QED
      BY <2>1, <2>5, <2>6, <2>9
  <1> QED
    BY <1>1, <1>2

LEMMA SizeFacts ==
    /\ SizeOf({}) = 0
    /\ \A m \in Msgs : SizeOf({m}) = llMsgSize[m]
    /\ \A S \in SUBSET Msgs : SizeOf(S) \in Nat
    /\ \A S, T \in SUBSET Msgs : S \cap T = {} => SizeOf(S \cup T) = SizeOf(S) + SizeOf(T)
  <1>1. ASSUME NEW m \in Msgs PROVE SizeOf({m}) = llMsgSize[m]
    BY SizeIsCount, ParcelsOfOne
  <1>2. ASSUME NEW S \in SUBSET Msgs, NEW T \in SUBSET Msgs, S \cap T = {}
        PROVE  SizeOf(S \cup T) = SizeOf(S) + SizeOf(T)
    BY <1>2, SizeIsCount, ParcelsOfUnion
  <1>3. SizeOf({}) = 0
    BY SizeIsCount, ParcelsOfNone
  <1>4. \A S \in SUBSET Msgs : SizeOf(S) \in Nat
    BY SizeIsCount, ParcelsFinite
  <1> QED
    BY <1>1, <1>2, <1>3, <1>4

LEMMA SizeOfSubset ==
    ASSUME NEW S \in SUBSET Msgs, NEW T \in SUBSET S
    PROVE  SizeOf(T) <= SizeOf(S) /\ SizeOf(S \ T) = SizeOf(S) - SizeOf(T)
  <1>1. S = T \cup (S \ T) /\ T \cap (S \ T) = {} /\ T \in SUBSET Msgs /\ S \ T \in SUBSET Msgs
    OBVIOUS
  <1>2. SizeOf(S) = SizeOf(T) + SizeOf(S \ T)
    BY <1>1, SizeFacts
  <1>3. SizeOf(S) \in Nat /\ SizeOf(T) \in Nat /\ SizeOf(S \ T) \in Nat
    BY <1>1, SizeFacts
  <1> QED
    BY <1>2, <1>3

\* No message is larger than the largest.
LEMMA LargestExists ==
    ASSUME NEW S \in SUBSET Msgs, S # {}
    PROVE  \E m \in S : \A n \in S : llMsgSize[m] >= llMsgSize[n]
  <1> DEFINE Tops(T) == {m \in T : \A n \in T : llMsgSize[m] >= llMsgSize[n]}
             Bad == {T \in SUBSET S : T # {} /\ Tops(T) = {}}
  <1>1. ASSUME Bad # {} PROVE FALSE
    <2>1. PICK T \in Bad : \A U \in Bad : ~(U \subseteq T /\ U # T)
      <3>1. Bad \subseteq SUBSET Msgs
        OBVIOUS
      <3> HIDE DEF Bad
      <3> QED
        BY <1>1, <3>1, SmallestSet
    <2>2. PICK x \in T : TRUE
      OBVIOUS
    <2>3. \A m \in Msgs : llMsgSize[m] \in Nat
      BY SizeAssumption
    <2>4. CASE T = {x}
      BY <2>3, <2>4
    <2>5. CASE T # {x}
      <3>1. T \ {x} # {} /\ T \ {x} \subseteq T /\ T \ {x} # T
        BY <2>5
      <3>2. T \ {x} \notin Bad
        BY <2>1, <3>1
      <3>3. PICK m \in T \ {x} : \A n \in T \ {x} : llMsgSize[m] >= llMsgSize[n]
        BY <3>1, <3>2
      <3> QED
        BY <2>2, <2>3, <3>3
    <2> QED
      BY <2>4, <2>5
  <1> QED
    BY <1>1

Largest == Max({llMsgSize[m] : m \in Msgs})

LEMMA LargestIsLargest ==
    ASSUME Msgs # {}
    PROVE  Largest \in Nat \ {0} /\ \A m \in Msgs : llMsgSize[m] <= Largest
  <1> DEFINE Sizes == {llMsgSize[m] : m \in Msgs}
  <1>1. \A m \in Msgs : llMsgSize[m] \in Nat \ {0}
    BY SizeAssumption
  <1>2. \E x \in Sizes : \A y \in Sizes : x >= y
    BY LargestExists
  <1>3. Largest \in Sizes /\ \A y \in Sizes : Largest >= y
    BY <1>2 DEF Largest, Max
  <1> QED
    BY <1>1, <1>3

LEMMA SizeOfMany ==
    ASSUME Msgs # {}, NEW S \in SUBSET Msgs
    PROVE  SizeOf(S) <= Cardinality(S) * Largest
  <1> DEFINE Bad == {T \in SUBSET S : ~(SizeOf(T) <= Cardinality(T) * Largest)}
  <1>1. ASSUME Bad # {} PROVE FALSE
    <2>1. PICK T \in Bad : \A U \in Bad : ~(U \subseteq T /\ U # T)
      <3>1. Bad \subseteq SUBSET Msgs
        OBVIOUS
      <3> HIDE DEF Bad
      <3> QED
        BY <1>1, <3>1, SmallestSet
    <2>2. Largest \in Nat /\ \A m \in Msgs : llMsgSize[m] <= Largest /\ llMsgSize[m] \in Nat
      BY LargestIsLargest, SizeAssumption
    <2>3. CASE T = {}
      BY <2>2, <2>3, SizeFacts, FS_EmptySet
    <2>4. CASE T # {}
      <3>1. PICK m \in T : TRUE
        BY <2>4
      <3> DEFINE U == T \ {m}
      <3>2. /\ IsFiniteSet(T) /\ IsFiniteSet(U) /\ Cardinality(U) \in Nat
            /\ Cardinality(T) = Cardinality(U) + 1
        <4>1. IsFiniteSet(T) /\ IsFiniteSet(U)
          BY ParcelsFinite
        <4>2. Cardinality(T) \in Nat /\ Cardinality(U) \in Nat
          BY <4>1, FS_CardinalityType
        <4>3. Cardinality(U) = Cardinality(T) - 1
          BY <3>1, <4>1, FS_RemoveElement
        <4> QED
          BY <4>1, <4>2, <4>3
      <3>3. SizeOf(T) = llMsgSize[m] + SizeOf(U) /\ SizeOf(U) \in Nat
        <4>1. T = {m} \cup U /\ {m} \cap U = {} /\ {m} \in SUBSET Msgs /\ U \in SUBSET Msgs
          OBVIOUS
        <4> QED
          BY <4>1, SizeFacts
      <3>4. SizeOf(U) <= Cardinality(U) * Largest
        BY <2>1
      <3>5. (Cardinality(U) + 1) * Largest = Cardinality(U) * Largest + Largest
        BY <2>2, <3>2
      <3>6. Cardinality(U) * Largest \in Nat
        BY <2>2, <3>2
      <3>7. ~(SizeOf(T) <= Cardinality(T) * Largest)
        BY <2>1
      <3> HIDE DEF U
      <3> QED
        BY <2>2, <3>2, <3>3, <3>4, <3>5, <3>6, <3>7
    <2> QED
      BY <2>3, <2>4
  <1> QED
    BY <1>1

-----------------------------------------------------------------------------
(* The quota.                                                              *)

Admissions == [Workers -> Msgs \cup {NoMsg}]

\* The messages of the workers when they hold a, and with them the mailbox d.
InDelivery(a) == {a[w] : w \in {v \in Workers : a[v] # NoMsg}}
Held(d, a) == d \cup InDelivery(a)

QInv ==
    /\ dir \in SUBSET Msgs
    /\ admitted \in Admissions
    /\ QuotaOverrun

LEMMA OneForEachWorker ==
    ASSUME NEW a \in Admissions
    PROVE  /\ InDelivery(a) \in SUBSET Msgs
           /\ Cardinality(InDelivery(a)) \in Nat /\ Cardinality(Workers) \in Nat
           /\ Cardinality(InDelivery(a)) <= Cardinality(Workers)
  <1> DEFINE busy == {v \in Workers : a[v] # NoMsg}
             f == [v \in busy |-> a[v]]
  <1>1. InDelivery(a) \in SUBSET Msgs
    BY DEF Admissions, InDelivery
  <1>2. IsFiniteSet(busy) /\ Cardinality(busy) <= Cardinality(Workers)
    BY WorkersAssumption, FS_Subset
  <1>3. f \in Surjection(busy, InDelivery(a))
    BY DEF InDelivery, Surjection
  <1> HIDE DEF f, busy
  <1>4. IsFiniteSet(InDelivery(a)) /\ Cardinality(InDelivery(a)) <= Cardinality(busy)
    BY <1>2, <1>3, FS_Surjection
  <1>5. /\ Cardinality(busy) \in Nat /\ Cardinality(InDelivery(a)) \in Nat
        /\ Cardinality(Workers) \in Nat
    BY <1>2, <1>4, WorkersAssumption, FS_CardinalityType
  <1> QED
    BY <1>1, <1>2, <1>4, <1>5

LEMMA TimesMonotonic == \A a, b, c \in Nat : a <= b => a * c <= b * c
  <1>1. ASSUME NEW a \in Nat, NEW b \in Nat, NEW c \in Nat, a <= b
        PROVE  a * c <= b * c
    <2>1. (b - a) \in Nat /\ b = a + (b - a)
      BY <1>1
    <2>2. b * c = a * c + (b - a) * c
      BY <2>1
    <2>3. (b - a) * c \in Nat /\ a * c \in Nat
      BY <2>1
    <2> QED
      BY <2>2, <2>3
  <1> QED
    BY <1>1

\* The worker that passed the check found less than the quota in the mailbox.
LEMMA AdmittedBelowQuota ==
    ASSUME Msgs # {}, NEW d \in SUBSET Msgs, NEW a \in Admissions, SizeOf(d) < MaxMBSize
    PROVE  SizeOf(Held(d, a)) < MaxMBSize + Cardinality(Workers) * Largest
  <1>1. Largest \in Nat
    BY LargestIsLargest
  <1>2. /\ InDelivery(a) \in SUBSET Msgs
        /\ Cardinality(InDelivery(a)) \in Nat /\ Cardinality(Workers) \in Nat
        /\ Cardinality(InDelivery(a)) <= Cardinality(Workers)
    BY OneForEachWorker
  <1>3. Cardinality(InDelivery(a)) * Largest <= Cardinality(Workers) * Largest
    BY <1>1, <1>2, TimesMonotonic
  <1>4. SizeOf(InDelivery(a)) <= Cardinality(InDelivery(a)) * Largest
    BY <1>2, SizeOfMany
  <1>5. SizeOf(InDelivery(a) \ d) <= SizeOf(InDelivery(a))
    BY <1>2, SizeOfSubset
  <1>6. SizeOf(Held(d, a)) = SizeOf(d) + SizeOf(InDelivery(a) \ d)
    <2>1. Held(d, a) = d \cup (InDelivery(a) \ d) /\ d \cap (InDelivery(a) \ d) = {}
      BY DEF Held
    <2>2. InDelivery(a) \ d \in SUBSET Msgs
      BY <1>2
    <2> HIDE DEF Held
    <2>3. SizeOf(d \cup (InDelivery(a) \ d)) = SizeOf(d) + SizeOf(InDelivery(a) \ d)
      BY <2>1, <2>2, SizeFacts
    <2> QED
      BY <2>1, <2>3
  <1>7. /\ SizeOf(d) \in Nat /\ SizeOf(InDelivery(a) \ d) \in Nat /\ SizeOf(InDelivery(a)) \in Nat
        /\ Cardinality(InDelivery(a)) * Largest \in Nat /\ Cardinality(Workers) * Largest \in Nat
        /\ MaxMBSize \in Nat
    <2>1. InDelivery(a) \ d \in SUBSET Msgs
      BY <1>2
    <2>2. MaxMBSize \in Nat
      BY SizeAssumption
    <2>3. Cardinality(InDelivery(a)) * Largest \in Nat /\ Cardinality(Workers) * Largest \in Nat
      BY <1>1, <1>2
    <2> QED
      BY <1>2, <2>1, <2>2, <2>3, SizeFacts
  <1> QED
    BY <1>3, <1>4, <1>5, <1>6, <1>7

BelowBound(S) == MaxMBSize # 0 => SizeOf(S) < MaxMBSize + Cardinality(Workers) * Largest

LEMMA QuotaOfHeld ==
    /\ QuotaOverrun <=> BelowBound(Held(dir, admitted))
    /\ QuotaOverrun' <=> BelowBound(Held(dir', admitted'))
  BY DEF QuotaOverrun, BelowBound, Held, InDelivery, Largest

LEMMA InitQInv ==
    ASSUME Msgs # {}, Init
    PROVE  QInv
  <1>1. dir \in SUBSET Msgs /\ admitted \in Admissions /\ dir = {}
    BY DEF Init, Admissions
  <1>2. ASSUME MaxMBSize # 0 PROVE SizeOf(dir) < MaxMBSize
    <2>1. MaxMBSize \in Nat /\ SizeOf(dir) = 0
      BY <1>1, SizeAssumption, SizeFacts
    <2> QED
      BY <1>2, <2>1
  <1>3. BelowBound(Held(dir, admitted))
    BY <1>1, <1>2, AdmittedBelowQuota DEF BelowBound
  <1> QED
    BY <1>1, <1>3, QuotaOfHeld DEF QInv

\* What a step that admits nothing leaves is what was there, or less.
LEMMA LessHeldKeepsQInv ==
    ASSUME QInv, Msgs # {}, dir' \in SUBSET Msgs, admitted' \in Admissions,
           Held(dir', admitted') \subseteq Held(dir, admitted)
    PROVE  QInv'
  <1> DEFINE Before == Held(dir, admitted)
             After == Held(dir', admitted')
  <1>1. Before \in SUBSET Msgs /\ After \in SUBSET Before
    BY OneForEachWorker DEF QInv, Held
  <1> HIDE DEF Before, After
  <1>2. SizeOf(After) <= SizeOf(Before) /\ SizeOf(After) \in Nat /\ SizeOf(Before) \in Nat
    BY <1>1, SizeOfSubset, SizeFacts
  <1>3. MaxMBSize \in Nat /\ Cardinality(Workers) * Largest \in Nat
    <2>1. MaxMBSize \in Nat /\ Cardinality(Workers) \in Nat /\ Largest \in Nat
      BY SizeAssumption, OneForEachWorker, LargestIsLargest DEF QInv
    <2> QED
      BY <2>1
  <1>4. BelowBound(Before)
    BY QuotaOfHeld DEF QInv, Before
  <1>5. BelowBound(After)
    BY <1>2, <1>3, <1>4 DEF BelowBound
  <1> QED
    BY <1>5, QuotaOfHeld DEF QInv, After

LEMMA CheckKeepsQInv ==
    ASSUME QInv, Msgs # {}, NEW w \in Workers, NEW m \in Msgs, UPopCheckMailboxSize(w, m)
    PROVE  QInv'
  <1>1. dir' \in SUBSET Msgs /\ dir' = dir /\ admitted' \in Admissions
    BY DEF UPopCheckMailboxSize, QInv, Admissions
  <1>2. MaxMBSize # 0 => SizeOf(dir') < MaxMBSize
    BY <1>1 DEF UPopCheckMailboxSize
  <1>3. BelowBound(Held(dir', admitted'))
    BY <1>1, <1>2, AdmittedBelowQuota DEF BelowBound
  <1> QED
    BY <1>1, <1>3, QuotaOfHeld DEF QInv

LEMMA DeliverKeepsQInv ==
    ASSUME QInv, Msgs # {}, NEW w \in Workers, UsrMoveToMailBox(w) \/ DeliveryFails(w)
    PROVE  QInv'
  <1>1. /\ admitted[w] \in Msgs
        /\ admitted' = [admitted EXCEPT ![w] = NoMsg]
        /\ dir' \in {dir, dir \cup {admitted[w]}}
    BY DEF QInv, Admissions, UsrMoveToMailBox, DeliveryFails
  <1>2. dir' \in SUBSET Msgs /\ admitted' \in Admissions
    BY <1>1 DEF QInv, Admissions
  <1>3. admitted[w] \in InDelivery(admitted)
    BY <1>1, MsgsAssumption DEF InDelivery
  <1>4. InDelivery(admitted') \subseteq InDelivery(admitted)
    BY <1>1 DEF QInv, Admissions, InDelivery
  <1>5. Held(dir', admitted') \subseteq Held(dir, admitted)
    BY <1>1, <1>3, <1>4 DEF Held
  <1> QED
    BY <1>2, <1>5, LessHeldKeepsQInv

LEMMA NextKeepsQInv ==
    ASSUME Msgs # {}
    PROVE  QInv /\ [Next]_vars => QInv'
  <1> SUFFICES ASSUME QInv, [Next]_vars PROVE QInv'
    OBVIOUS
  <1>1. ASSUME dir' \subseteq dir, UNCHANGED admitted PROVE QInv'
    <2>1. dir' \in SUBSET Msgs /\ admitted' \in Admissions
      BY <1>1 DEF QInv
    <2>2. Held(dir', admitted') \subseteq Held(dir, admitted)
      BY <1>1 DEF Held, InDelivery
    <2> QED
      BY <2>1, <2>2, LessHeldKeepsQInv
  <1>2. CASE UNCHANGED vars
    BY <1>1, <1>2 DEF vars
  <1>3. ASSUME NEW w \in Workers, Deliver(w) PROVE QInv'
    BY <1>3, CheckKeepsQInv, DeliverKeepsQInv DEF Deliver
  <1>4. ASSUME NEW s \in Sessions, Connect(s) \/ Command(s) PROVE QInv'
    <2>1. UNCHANGED <<dir, admitted>>
      BY <1>4 DEF Connect, Command, Login, POP3HandleCmd_USER, LoginRefused, UsrPOP3Lock,
         UPopBuildMessageList, BuildSessionFails, UPopDeleteMessage, UPopResetSession,
         POP3HandleCmd_QUIT
    <2> QED
      BY <1>1, <2>1
  <1>5. ASSUME NEW s \in Sessions, End(s) PROVE QInv'
    <2>1. dir' \subseteq dir /\ UNCHANGED admitted
      BY <1>5 DEF End, POP3ClearSession, RemoveMarked, UpdateDone, UPopReleaseSession
    <2> QED
      BY <1>1, <2>1
  <1>6. CASE Crash
    <2>1. dir' = dir /\ admitted' = [w \in Workers |-> NoMsg]
      BY <1>6 DEF Crash
    <2>2. dir' \in SUBSET Msgs /\ admitted' \in Admissions
      BY <2>1 DEF QInv, Admissions
    <2>3. Held(dir', admitted') \subseteq Held(dir, admitted)
      BY <2>1 DEF Held, InDelivery
    <2> QED
      BY <2>2, <2>3, LessHeldKeepsQInv
  <1>7. CASE Restart
    BY <1>1, <1>7 DEF Restart
  <1> QED
    BY <1>2, <1>3, <1>4, <1>5, <1>6, <1>7 DEF Next

(***************************************************************************)
(* The SMAIL threads that passed UPopCheckMailboxSize before the mailbox   *)
(* was full take it over the quota by at most one largest message each.    *)
(***************************************************************************)
THEOREM SpecQuotaOverrun ==
    ASSUME Msgs # {}
    PROVE  Spec => []QuotaOverrun
  <1>1. Init => QInv
    BY InitQInv
  <1>2. QInv /\ [Next]_vars => QInv'
    BY NextKeepsQInv
  <1>3. QInv => QuotaOverrun
    BY DEF QInv
  <1> QED
    BY <1>1, <1>2, <1>3, PTL DEF Spec

-----------------------------------------------------------------------------
(* The counters that STAT tells.                                           *)

\* The messages under the numbers in ns, in the list l.
Named(l, ns) == {l[i] : i \in ns}

\* A list that names nothing twice.
Distinct(l) == \A i, j \in DOMAIN l : l[i] = l[j] => i = j

\* One session: what it lists has different names, what it marked is listed,
\* it lists nothing before UPopBuildMessageList, and its counters are those of
\* the messages it has not marked.
Consistent(state, at, l, marked, count, size) ==
    /\ Distinct(l)
    /\ marked \subseteq DOMAIN l
    /\ at \in {"none", "locked"} => l = <<>>
    /\ state \in {"none", "init", "user"} => at \in {"none", "locked"}
    /\ at = "locked" => state \in {"init", "user"}
    /\ at = "open" => /\ count = Cardinality(DOMAIN l \ marked)
                      /\ size = SizeOf(Named(l, DOMAIN l \ marked))

ConsistentSession(s) ==
    Consistent(iPOP3State[s], stage[s], list[s], deleted[s], iMsgCount[s], llMBSize[s])

CInv == TypeOK /\ \A s \in Sessions : ConsistentSession(s)

\* The numbers of a list: a finite set, and as many as it names.
LEMMA NumbersOf ==
    ASSUME NEW l \in Seq(Msgs), Distinct(l),
           NEW ns \in SUBSET DOMAIN l, NEW ms \in SUBSET ns
    PROVE  /\ IsFiniteSet(ns) /\ Cardinality(ns) \in Nat
           /\ Cardinality(ns \ ms) = Cardinality(ns) - Cardinality(ms)
           /\ Named(l, ns) \in SUBSET Msgs
           /\ Named(l, ns \ ms) = Named(l, ns) \ Named(l, ms)
           /\ SizeOf(Named(l, ns \ ms)) = SizeOf(Named(l, ns)) - SizeOf(Named(l, ms))
           /\ SizeOf(Named(l, ns)) \in Nat
  <1>1. DOMAIN l = 1..Len(l) /\ Len(l) \in Nat
    OBVIOUS
  <1>2. IsFiniteSet(DOMAIN l)
    BY <1>1, FS_Interval
  <1>3. IsFiniteSet(ns) /\ Cardinality(ns) \in Nat
    BY <1>2, FS_Subset, FS_CardinalityType
  <1>4. ns \cap ms = ms
    OBVIOUS
  <1>5. Cardinality(ns \ ms) = Cardinality(ns) - Cardinality(ms)
    BY <1>3, <1>4, FS_Difference
  <1>6. Named(l, ns) \in SUBSET Msgs
    BY <1>1 DEF Named
  <1>7. Named(l, ns \ ms) = Named(l, ns) \ Named(l, ms)
    BY DEF Named, Distinct
  <1>8. Named(l, ms) \in SUBSET Named(l, ns)
    BY DEF Named
  <1>9. SizeOf(Named(l, ns \ ms)) = SizeOf(Named(l, ns)) - SizeOf(Named(l, ms))
    BY <1>6, <1>7, <1>8, SizeOfSubset
  <1> QED
    BY <1>3, <1>5, <1>6, <1>7, <1>9, SizeFacts

\* UPopBuildMessageList: every file of the directory once.
LEMMA ListOfDir ==
    ASSUME NEW d \in SUBSET Msgs, NEW l \in SetToSeqs(d)
    PROVE  /\ l \in Seq(Msgs) /\ Distinct(l)
           /\ Cardinality(d) = Cardinality(DOMAIN l) /\ Cardinality(d) \in Nat
           /\ Named(l, DOMAIN l) = d
  <1>1. IsFiniteSet(d) /\ Cardinality(d) \in Nat
    BY ParcelsFinite, FS_CardinalityType
  <1>2. /\ l \in [1..Cardinality(d) -> d]
        /\ \A i, j \in 1..Cardinality(d) : i # j => l[i] # l[j]
    BY DEF SetToSeqs
  <1>3. l \in Seq(Msgs) /\ DOMAIN l = 1..Cardinality(d)
    BY <1>1, <1>2
  <1>4. IsFiniteSet(DOMAIN l) /\ Cardinality(DOMAIN l) = Cardinality(d)
    BY <1>1, <1>3, FS_Interval
  <1>5. l \in Injection(DOMAIN l, d)
    BY <1>2 DEF Injection, IsInjective
  <1>6. l \in Surjection(DOMAIN l, d)
    BY <1>1, <1>4, <1>5, FS_Injection
  <1>7. Named(l, DOMAIN l) = d
    BY <1>6 DEF Surjection, Named
  <1> QED
    BY <1>1, <1>2, <1>3, <1>4, <1>7 DEF Distinct

LEMMA CInvCounts == CInv => CountersMatch
  BY DEF CInv, CountersMatch, ConsistentSession, Consistent, Named, Kept

LEMMA EmptyList == <<>> \in Seq(Msgs) /\ DOMAIN <<>> = {} /\ Distinct(<<>>)
  <1>1. <<>> \in Seq(Msgs) /\ Len(<<>>) = 0
    OBVIOUS
  <1>2. DOMAIN <<>> = {}
    BY <1>1
  <1> QED
    BY <1>1, <1>2 DEF Distinct

LEMMA InitCInv == Init => CInv
  <1> SUFFICES ASSUME Init PROVE CInv
    OBVIOUS
  <1>1. TypeOK
    BY EmptyList DEF Init, TypeOK
  <1>2. \A s \in Sessions : ConsistentSession(s)
    BY EmptyList DEF Init, ConsistentSession, Consistent
  <1> QED
    BY <1>1, <1>2 DEF CInv

\* The fields of the other sessions stay.
OthersKept(s) ==
    \A t \in Sessions \ {s} :
        /\ iPOP3State'[t] = iPOP3State[t] /\ stage'[t] = stage[t]
        /\ list'[t] = list[t] /\ deleted'[t] = deleted[t]
        /\ iMsgCount'[t] = iMsgCount[t] /\ llMBSize'[t] = llMBSize[t]

LEMMA OneSession ==
    ASSUME CInv, NEW s \in Sessions, TypeOK', OthersKept(s), ConsistentSession(s)'
    PROVE  CInv'
  <1>1. ASSUME NEW t \in Sessions \ {s} PROVE ConsistentSession(t)'
    <2>1. ConsistentSession(t)
      BY DEF CInv
    <2> QED
      BY <2>1 DEF ConsistentSession, OthersKept
  <1> QED
    BY <1>1 DEF CInv

LEMMA DialogueKeepsCInv ==
    ASSUME CInv, NEW s \in Sessions,
           Connect(s) \/ POP3HandleCmd_USER(s) \/ LoginRefused(s) \/ POP3HandleCmd_QUIT(s)
    PROVE  CInv'
  <1>1. PICK to \in {"init", "user", "exit"} : iPOP3State' = [iPOP3State EXCEPT ![s] = to]
    BY DEF Connect, POP3HandleCmd_USER, LoginRefused, POP3HandleCmd_QUIT, AfterBadLogin
  <1>2. /\ UNCHANGED <<up, dir, lockFile, stuck, stage, list, deleted, iMsgCount, llMBSize, admitted>>
        /\ stage[s] # "locked"
        /\ to \in {"init", "user"} => stage[s] = "none"
    <2>1. CASE POP3HandleCmd_QUIT(s)
      BY <1>1, <2>1 DEF CInv, TypeOK, POP3HandleCmd_QUIT, Ready
    <2>2. CASE Connect(s) \/ POP3HandleCmd_USER(s) \/ LoginRefused(s)
      BY <2>2 DEF CInv, ConsistentSession, Consistent, Connect,
         POP3HandleCmd_USER, LoginRefused, Ready
    <2> QED
      BY <2>1, <2>2
  <1>3. TypeOK'
    BY <1>1, <1>2 DEF CInv, TypeOK
  <1>4. OthersKept(s)
    BY <1>1, <1>2 DEF CInv, TypeOK, OthersKept
  <1>5. ConsistentSession(s)'
    BY <1>1, <1>2 DEF CInv, TypeOK, ConsistentSession, Consistent
  <1> QED
    BY <1>3, <1>4, <1>5, OneSession

\* Taking the lock, failing to build the session, and the turns of its end.
LEMMA StageKeepsCInv ==
    ASSUME CInv, NEW s \in Sessions,
           \/ UsrPOP3Lock(s) \/ BuildSessionFails(s)
           \/ POP3ClearSession(s) \/ UpdateDone(s)
    PROVE  CInv'
  <1>1. /\ UNCHANGED <<up, dir, list, deleted, iMsgCount, llMBSize, admitted>>
        /\ lockFile' \in BOOLEAN /\ stuck' \in BOOLEAN
    BY DEF CInv, TypeOK, UsrPOP3Lock, BuildSessionFails, UsrPOP3Unlock, POP3ClearSession, UpdateDone
  <1>2. PICK at \in {"none", "locked", "open", "updating", "updated"},
             state \in {"none", "init", "user", "logged", "exit"} :
          /\ stage' = [stage EXCEPT ![s] = at]
          /\ iPOP3State' = [iPOP3State EXCEPT ![s] = state]
          /\ at # "open"
          /\ at \in {"none", "locked"} => stage[s] \in {"none", "locked"}
          /\ state \in {"none", "init", "user"} => at \in {"none", "locked"}
          /\ at = "locked" => state \in {"init", "user"}
    <2>1. CASE UsrPOP3Lock(s)
      <3>1. /\ stage' = [stage EXCEPT ![s] = "locked"]
            /\ iPOP3State' = [iPOP3State EXCEPT ![s] = iPOP3State[s]]
            /\ iPOP3State[s] \in {"init", "user"}
        BY <2>1 DEF CInv, TypeOK, UsrPOP3Lock, Ready
      <3>2. stage[s] \in {"none", "locked"}
        BY <3>1 DEF CInv, ConsistentSession, Consistent
      <3> QED
        BY <3>1, <3>2
    <2>2. CASE BuildSessionFails(s)
      <3>1. /\ stage' = [stage EXCEPT ![s] = "none"] /\ stage[s] = "locked"
            /\ iPOP3State' = [iPOP3State EXCEPT ![s] = AfterBadLogin]
        BY <2>2 DEF BuildSessionFails
      <3> QED
        BY <3>1 DEF AfterBadLogin
    <2>3. CASE POP3ClearSession(s)
      <3>1. CASE stage[s] = "open"
        <4>1. PICK at \in AfterLoop(s) : stage' = [stage EXCEPT ![s] = at]
          BY <2>3, <3>1 DEF POP3ClearSession
        <4>2. at \in {"updating", "updated"}
          BY <4>1 DEF AfterLoop
        <4>3. iPOP3State' = [iPOP3State EXCEPT ![s] = iPOP3State[s]]
          BY <2>3, <3>1 DEF POP3ClearSession, CInv, TypeOK
        <4>4. iPOP3State[s] \in {"logged", "exit"}
          BY <3>1 DEF CInv, TypeOK, ConsistentSession, Consistent
        <4> QED
          BY <4>1, <4>2, <4>3, <4>4
      <3>2. CASE stage[s] # "open"
        <4>1. /\ iPOP3State' = [iPOP3State EXCEPT ![s] = "none"]
              /\ stage' = [stage EXCEPT ![s] = "none"] /\ stage[s] = "none"
          BY <2>3, <3>2 DEF POP3ClearSession, Ready, CInv, TypeOK
        <4> QED
          BY <4>1
      <3> QED
        BY <3>1, <3>2
    <2>4. CASE UpdateDone(s)
      <3>1. /\ stage' = [stage EXCEPT ![s] = "updated"] /\ stage[s] = "updating"
            /\ iPOP3State' = [iPOP3State EXCEPT ![s] = iPOP3State[s]]
        BY <2>4 DEF CInv, TypeOK, UpdateDone
      <3>2. iPOP3State[s] \in {"logged", "exit"}
        BY <3>1 DEF CInv, TypeOK, ConsistentSession, Consistent
      <3> QED
        BY <3>1, <3>2
    <2> QED
      BY <2>1, <2>2, <2>3, <2>4
  <1>3. TypeOK'
    BY <1>1, <1>2 DEF CInv, TypeOK
  <1>4. OthersKept(s)
    BY <1>1, <1>2 DEF CInv, TypeOK, OthersKept
  <1>5. ConsistentSession(s)'
    BY <1>1, <1>2 DEF CInv, TypeOK, ConsistentSession, Consistent
  <1> QED
    BY <1>3, <1>4, <1>5, OneSession

LEMMA BuildListKeepsCInv ==
    ASSUME CInv, NEW s \in Sessions, UPopBuildMessageList(s)
    PROVE  CInv'
  <1>1. /\ UNCHANGED <<up, dir, lockFile, stuck, deleted, admitted>>
        /\ stage[s] = "locked"
        /\ stage' = [stage EXCEPT ![s] = "open"]
        /\ iPOP3State' = [iPOP3State EXCEPT ![s] = "logged"]
        /\ iMsgCount' = [iMsgCount EXCEPT ![s] = Cardinality(dir)]
        /\ llMBSize' = [llMBSize EXCEPT ![s] = SizeOf(dir)]
    BY DEF UPopBuildMessageList
  <1>2. PICK l \in SetToSeqs(dir) : list' = [list EXCEPT ![s] = l]
    BY DEF UPopBuildMessageList
  <1>3. dir \in SUBSET Msgs
    BY DEF CInv, TypeOK
  <1>4. /\ l \in Seq(Msgs) /\ Distinct(l)
        /\ Cardinality(dir) = Cardinality(DOMAIN l) /\ Cardinality(dir) \in Nat
        /\ Named(l, DOMAIN l) = dir
    BY <1>3, ListOfDir
  <1>5. SizeOf(dir) \in Nat
    BY <1>3, SizeFacts
  <1>6. deleted[s] = {}
    BY <1>1, EmptyList DEF CInv, ConsistentSession, Consistent
  <1>7. TypeOK'
    BY <1>1, <1>2, <1>4, <1>5 DEF CInv, TypeOK
  <1>8. OthersKept(s)
    BY <1>1, <1>2 DEF CInv, TypeOK, OthersKept
  <1>9. Consistent("logged", "open", l, {}, Cardinality(dir), SizeOf(dir))
    <2>1. DOMAIN l \ {} = DOMAIN l
      OBVIOUS
    <2> QED
      BY <1>4, <2>1 DEF Consistent
  <1>10. ConsistentSession(s)'
    BY <1>1, <1>2, <1>6, <1>9 DEF CInv, TypeOK, ConsistentSession
  <1> QED
    BY <1>7, <1>8, <1>10, OneSession

\* A session that was logged in has opened its list.
LEMMA LoggedIsOpen ==
    ASSUME CInv, NEW s \in Sessions, Ready(s, {"logged"}), DOMAIN list[s] # {}
    PROVE  /\ stage[s] = "open" /\ iPOP3State[s] = "logged"
           /\ list[s] \in Seq(Msgs) /\ Distinct(list[s])
           /\ deleted[s] \in SUBSET DOMAIN list[s]
           /\ iMsgCount[s] = Cardinality(DOMAIN list[s] \ deleted[s])
           /\ llMBSize[s] = SizeOf(Named(list[s], DOMAIN list[s] \ deleted[s]))
  <1>1. stage[s] = "none" => FALSE
    BY EmptyList DEF CInv, ConsistentSession, Consistent
  <1>2. stage[s] = "open" /\ iPOP3State[s] = "logged"
    BY <1>1 DEF Ready
  <1> QED
    BY <1>2 DEF CInv, TypeOK, ConsistentSession, Consistent

LEMMA DeleteKeepsCInv ==
    ASSUME CInv, NEW s \in Sessions, NEW i \in DOMAIN list[s], UPopDeleteMessage(s, i)
    PROVE  CInv'
  <1> DEFINE l == list[s]
             kept == DOMAIN l \ deleted[s]
             marked == deleted[s] \cup {i}
             count == iMsgCount[s] - 1
             size == llMBSize[s] - llMsgSize[l[i]]
  <1>1. /\ UNCHANGED <<up, dir, lockFile, stuck, iPOP3State, stage, list, admitted>>
        /\ i \in kept
        /\ deleted' = [deleted EXCEPT ![s] = marked]
        /\ iMsgCount' = [iMsgCount EXCEPT ![s] = count]
        /\ llMBSize' = [llMBSize EXCEPT ![s] = size]
    BY DEF UPopDeleteMessage, Kept
  <1>2. /\ stage[s] = "open" /\ iPOP3State[s] = "logged"
        /\ l \in Seq(Msgs) /\ Distinct(l)
        /\ deleted[s] \in SUBSET DOMAIN l
        /\ iMsgCount[s] = Cardinality(kept) /\ llMBSize[s] = SizeOf(Named(l, kept))
    BY LoggedIsOpen DEF UPopDeleteMessage
  <1> HIDE DEF l
  <1>3. {i} \in SUBSET kept /\ kept \in SUBSET DOMAIN l /\ DOMAIN l \ marked = kept \ {i}
    BY <1>1
  <1>4. l[i] \in Msgs /\ i \in Nat
    <2>1. i \in DOMAIN l
      BY <1>1
    <2>2. DOMAIN l = 1..Len(l) /\ Len(l) \in Nat
      BY <1>2
    <2> QED
      BY <1>2, <2>1, <2>2
  <1>5. Cardinality({i}) = 1 /\ SizeOf(Named(l, {i})) = llMsgSize[l[i]]
    <2>1. Named(l, {i}) = {l[i]}
      BY DEF Named
    <2> QED
      BY <1>4, <2>1, SizeFacts, FS_Singleton
  <1> HIDE DEF kept
  <1>6. /\ Cardinality(kept \ {i}) = Cardinality(kept) - Cardinality({i})
        /\ SizeOf(Named(l, kept \ {i})) = SizeOf(Named(l, kept)) - SizeOf(Named(l, {i}))
    <2>1. \A ns \in SUBSET DOMAIN l : \A ms \in SUBSET ns :
            /\ Cardinality(ns \ ms) = Cardinality(ns) - Cardinality(ms)
            /\ SizeOf(Named(l, ns \ ms)) = SizeOf(Named(l, ns)) - SizeOf(Named(l, ms))
      BY <1>2, NumbersOf
    <2> QED
      BY <1>3, <2>1
  <1>7. Cardinality(kept \ {i}) \in Nat /\ SizeOf(Named(l, kept \ {i})) \in Nat
    <2>1. kept \ {i} \in SUBSET DOMAIN l
      BY <1>3
    <2>2. {} \in SUBSET (kept \ {i})
      OBVIOUS
    <2> QED
      BY <1>2, <2>1, <2>2, NumbersOf
  <1>8. /\ count = Cardinality(DOMAIN l \ marked) /\ size = SizeOf(Named(l, DOMAIN l \ marked))
        /\ count \in Nat /\ size \in Nat
    BY <1>2, <1>3, <1>5, <1>6, <1>7
  <1>9. marked \subseteq DOMAIN l /\ marked \in SUBSET Nat
    <2>1. deleted[s] \in SUBSET Nat
      BY DEF CInv, TypeOK
    <2>2. i \in DOMAIN l
      BY <1>3
    <2> QED
      BY <1>2, <1>4, <2>1, <2>2
  <1> HIDE DEF marked, count, size
  <1>10. TypeOK'
    BY <1>1, <1>8, <1>9 DEF CInv, TypeOK
  <1>11. OthersKept(s)
    BY <1>1 DEF CInv, TypeOK, OthersKept
  <1>12. Consistent("logged", "open", l, marked, count, size)
    BY <1>2, <1>8, <1>9 DEF Consistent
  <1>13. ConsistentSession(s)'
    BY <1>1, <1>2, <1>12 DEF CInv, TypeOK, ConsistentSession, l
  <1> QED
    BY <1>10, <1>11, <1>13, OneSession

LEMMA ResetKeepsCInv ==
    ASSUME CInv, NEW s \in Sessions, UPopResetSession(s)
    PROVE  CInv'
  <1> DEFINE l == list[s]
             count == iMsgCount[s] + Cardinality(deleted[s])
             size == llMBSize[s] + SizeOf(Named(l, deleted[s]))
  <1>1. /\ UNCHANGED <<up, dir, lockFile, stuck, iPOP3State, stage, list, admitted>>
        /\ deleted' = [deleted EXCEPT ![s] = {}]
        /\ iMsgCount' = [iMsgCount EXCEPT ![s] = count]
        /\ llMBSize' = [llMBSize EXCEPT ![s] = size]
    BY DEF UPopResetSession, Named
  <1>2. DOMAIN l # {}
    BY EmptyList DEF UPopResetSession, CInv, ConsistentSession, Consistent
  <1>3. /\ stage[s] = "open" /\ iPOP3State[s] = "logged"
        /\ l \in Seq(Msgs) /\ Distinct(l)
        /\ deleted[s] \in SUBSET DOMAIN l
        /\ iMsgCount[s] = Cardinality(DOMAIN l \ deleted[s])
        /\ llMBSize[s] = SizeOf(Named(l, DOMAIN l \ deleted[s]))
    BY <1>2, LoggedIsOpen DEF UPopResetSession
  <1> HIDE DEF l
  <1>4. /\ Cardinality(DOMAIN l \ deleted[s]) = Cardinality(DOMAIN l) - Cardinality(deleted[s])
        /\ SizeOf(Named(l, DOMAIN l \ deleted[s]))
             = SizeOf(Named(l, DOMAIN l)) - SizeOf(Named(l, deleted[s]))
        /\ Cardinality(DOMAIN l) \in Nat /\ SizeOf(Named(l, DOMAIN l)) \in Nat
    <2>1. \A ns \in SUBSET DOMAIN l : \A ms \in SUBSET ns :
            /\ Cardinality(ns \ ms) = Cardinality(ns) - Cardinality(ms)
            /\ SizeOf(Named(l, ns \ ms)) = SizeOf(Named(l, ns)) - SizeOf(Named(l, ms))
            /\ Cardinality(ns) \in Nat /\ SizeOf(Named(l, ns)) \in Nat
      BY <1>3, NumbersOf
    <2>2. DOMAIN l \in SUBSET DOMAIN l
      OBVIOUS
    <2> QED
      BY <1>3, <2>1, <2>2
  <1>5. Cardinality(deleted[s]) \in Nat /\ SizeOf(Named(l, deleted[s])) \in Nat
    <2>1. {} \in SUBSET deleted[s]
      OBVIOUS
    <2> QED
      BY <1>3, <2>1, NumbersOf
  <1>6. DOMAIN l \ {} = DOMAIN l
    OBVIOUS
  <1>7. count = Cardinality(DOMAIN l \ {}) /\ size = SizeOf(Named(l, DOMAIN l \ {}))
    BY <1>3, <1>4, <1>5, <1>6
  <1>8. count \in Nat /\ size \in Nat
    BY <1>4, <1>6, <1>7
  <1> HIDE DEF count, size
  <1>9. TypeOK'
    BY <1>1, <1>8 DEF CInv, TypeOK
  <1>10. OthersKept(s)
    BY <1>1 DEF CInv, TypeOK, OthersKept
  <1>11. Consistent("logged", "open", l, {}, count, size)
    BY <1>3, <1>7 DEF Consistent
  <1>12. ConsistentSession(s)'
    BY <1>1, <1>3, <1>11 DEF CInv, TypeOK, ConsistentSession, l
  <1> QED
    BY <1>9, <1>10, <1>12, OneSession

LEMMA RemoveKeepsCInv ==
    ASSUME CInv, NEW s \in Sessions, RemoveMarked(s)
    PROVE  CInv'
  <1>1. /\ UNCHANGED <<up, lockFile, stuck, iPOP3State, stage, list, iMsgCount, llMBSize, admitted>>
        /\ dir' \subseteq dir
        /\ stage[s] = "updating"
    BY DEF RemoveMarked
  <1>2. PICK i \in deleted[s] : deleted' = [deleted EXCEPT ![s] = @ \ {i}]
    BY DEF RemoveMarked
  <1>3. TypeOK'
    BY <1>1, <1>2 DEF CInv, TypeOK
  <1>4. OthersKept(s)
    BY <1>1, <1>2 DEF CInv, TypeOK, OthersKept
  <1>5. ConsistentSession(s)'
    BY <1>1, <1>2 DEF CInv, TypeOK, ConsistentSession, Consistent
  <1> QED
    BY <1>3, <1>4, <1>5, OneSession

LEMMA ForgetKeepsCInv ==
    ASSUME CInv, NEW S \in SUBSET Sessions, Forget(S), dir' = dir,
           up' \in BOOLEAN, lockFile' \in BOOLEAN, stuck' \in BOOLEAN, admitted' \in Admissions
    PROVE  CInv'
  <1>1. TypeOK'
    BY EmptyList DEF CInv, TypeOK, Forget, Admissions
  <1>2. ASSUME NEW t \in Sessions PROVE ConsistentSession(t)'
    <2>1. CASE t \in S
      BY <2>1, EmptyList DEF Forget, ConsistentSession, Consistent
    <2>2. CASE t \notin S
      <3>1. ConsistentSession(t)
        BY DEF CInv
      <3> QED
        BY <2>2, <3>1 DEF Forget, ConsistentSession
    <2> QED
      BY <2>1, <2>2
  <1> QED
    BY <1>1, <1>2 DEF CInv

LEMMA NextKeepsCInv == CInv /\ [Next]_vars => CInv'
  <1> SUFFICES ASSUME CInv, [Next]_vars PROVE CInv'
    OBVIOUS
  <1>1. ASSUME TypeOK', UNCHANGED serverVars PROVE CInv'
    BY <1>1 DEF CInv, serverVars, ConsistentSession
  <1>2. CASE UNCHANGED vars
    BY <1>1, <1>2 DEF vars, serverVars, CInv, TypeOK
  <1>3. ASSUME NEW w \in Workers, Deliver(w) PROVE CInv'
    <2>1. UNCHANGED <<up, lockFile, stuck, serverVars>>
      BY <1>3 DEF Deliver, UPopCheckMailboxSize, UsrMoveToMailBox, DeliveryFails
    <2>2. dir' \in SUBSET Msgs /\ admitted' \in Admissions
      BY <1>3 DEF CInv, TypeOK, Admissions, Deliver, UPopCheckMailboxSize, UsrMoveToMailBox,
         DeliveryFails
    <2> QED
      BY <1>1, <2>1, <2>2 DEF CInv, TypeOK, serverVars, Admissions
  <1>4. ASSUME NEW s \in Sessions, Connect(s) \/ Command(s) PROVE CInv'
    BY <1>4, DialogueKeepsCInv, StageKeepsCInv, BuildListKeepsCInv, DeleteKeepsCInv,
       ResetKeepsCInv DEF Command, Login
  <1>5. ASSUME NEW s \in Sessions, UPopReleaseSession(s) PROVE CInv'
    <2>1. /\ Forget({s}) /\ dir' = dir /\ up' \in BOOLEAN
          /\ lockFile' \in BOOLEAN /\ stuck' \in BOOLEAN
          /\ admitted' \in Admissions
      BY <1>5 DEF UPopReleaseSession, UsrPOP3Unlock, CInv, TypeOK, Admissions
    <2> QED
      BY <2>1, ForgetKeepsCInv
  <1>6. ASSUME NEW s \in Sessions, End(s) PROVE CInv'
    BY <1>5, <1>6, StageKeepsCInv, RemoveKeepsCInv DEF End
  <1>7. CASE Crash
    <2>1. /\ Forget(Sessions) /\ dir' = dir /\ up' \in BOOLEAN
          /\ lockFile' \in BOOLEAN /\ stuck' \in BOOLEAN
          /\ admitted' \in Admissions
      BY <1>7 DEF Crash, CInv, TypeOK, Admissions
    <2> QED
      BY <2>1, ForgetKeepsCInv
  <1>8. CASE Restart
    BY <1>1, <1>8 DEF Restart, CInv, TypeOK, serverVars
  <1> QED
    BY <1>2, <1>3, <1>4, <1>6, <1>7, <1>8 DEF Next

(***************************************************************************)
(* The fields of a session and the mailbox keep their types; in particular *)
(* no order of DELE and RSET lowers a counter below zero.                  *)
(***************************************************************************)
THEOREM SpecTypeOK == Spec => []TypeOK
  <1>1. CInv => TypeOK
    BY DEF CInv
  <1> QED
    BY <1>1, InitCInv, NextKeepsCInv, PTL DEF Spec

(***************************************************************************)
(* STAT tells the number and the size of the messages that the session has *)
(* not marked, after any UPopDeleteMessage and UPopResetSession.           *)
(***************************************************************************)
THEOREM SpecCountersMatch == Spec => []CountersMatch
  BY CInvCounts, InitCInv, NextKeepsCInv, PTL DEF Spec
=============================================================================
