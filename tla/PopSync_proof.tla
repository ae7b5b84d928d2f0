---------------------------- MODULE PopSync_proof ----------------------------
(***************************************************************************)
(* Proofs about PopSync for any table of links, number of slots, messages, *)
(* faults and starts of the server.                                        *)
(***************************************************************************)
EXTENDS PopSync, FiniteSetTheorems, WellFoundedInduction, TLAPS

\* Stages of a thread that has the lock of its mailbox, and those in which it
\* has something in its lists.
Busy == Counted \cup {"count", "unlock"}
Listing == {"fetch", "mark", "write", "flush", "quit"}

\* TypeOK but for the bounds that depend on the counting below.
Flags == up \in BOOLEAN /\ shutdown \in {"no", "asked", "told"} /\ closed \in BOOLEAN
Scalars ==
    /\ main \in {"none", "sleep", "scan", "slot", "create", "wait", "ended", "expired"}
    /\ slots \in Nat
    /\ count \in Int
    /\ syncs \in 0..MaxSyncs
    /\ faults \in 0..MaxFaults
    /\ starts \in 0..MaxStarts
Control ==
    /\ pending \in Seq(Link) /\ (main \in {"slot", "create"} => pending # <<>>)
    /\ pc \in [Thread -> Counted \cup {"idle", "lock", "count", "unlock", "notify"}]
    /\ DOMAIN link = Thread /\ \A t \in Thread : pc[t] # "idle" => link[t] \in Link
Lists ==
    /\ alive \in [Thread -> BOOLEAN]
    /\ todo \in [Thread -> SUBSET Message] /\ seen \in [Thread -> SUBSET Message]
    /\ marks \in [Thread -> SUBSET Message]
Files ==
    /\ locks \subseteq Mailbox /\ stuck \subseteq Mailbox
    /\ db \in [Mailbox -> SUBSET Message]
    /\ arrived \in [Mailbox -> Message] /\ box \in [Mailbox -> SUBSET Message]
    /\ done \in [Mailbox -> SUBSET Message] /\ partly \in [Mailbox -> SUBSET Message]
    /\ cut \in [Mailbox -> SUBSET Message]
Counters ==
    /\ got \in [Mailbox -> [Message -> Nat]]
    /\ reasons \in [Mailbox -> [Message -> Nat]]
Shape == Flags /\ Scalars /\ Control /\ Lists /\ Files /\ Counters

\* A thread that is fetching has a message to fetch, one without a session has
\* nothing in its lists, and the database is written for "Leave" only.
Stages ==
    \A t \in Thread :
        /\ pc[t] \in {"fetch", "mark"} => todo[t] # {}
        /\ pc[t] \notin Listing => todo[t] = {} /\ seen[t] = {} /\ marks[t] = {}
        /\ pc[t] \in {"write", "flush"} => Leave(t)
        /\ pc[t] # "idle" => up

\* A mailbox is locked exactly while one thread works on it, but for a lock file
\* that could not be removed.
OneThreadEach ==
    /\ \A t, u \in Thread : pc[t] \in Busy /\ pc[u] \in Busy /\ BoxOf(t) = BoxOf(u) => t = u
    /\ up => /\ \A t \in Thread : pc[t] \in Busy => BoxOf(t) \in locks
             /\ \A b \in locks \ stuck : \E t \in Thread : pc[t] \in Busy /\ BoxOf(t) = b

Counting == up => count = Cardinality({t \in Thread : pc[t] \in Counted})

\* A slot is free, with a thread, in the hands of the main thread, or lost.
Capacity ==
    slots + Cardinality({t \in Thread : pc[t] # "idle"})
        + (IF main = "create" THEN 1 ELSE 0) <= Slots

\* What a thread takes for seen, or has marked, was delivered.
SeenIsDone ==
    /\ NothingIsLost
    /\ \A t \in Thread : pc[t] \in Listing => seen[t] \cup marks[t] \subseteq Delivered[BoxOf(t)]
    /\ \A t \in Thread : pc[t] = "mark" => First(todo[t]) \in Delivered[BoxOf(t)]

\* What is still to fetch is in the mailbox, and neither seen nor in the
\* database.
NewTodo(t) ==
    pc[t] \in Listing =>
        /\ todo[t] \subseteq box[BoxOf(t)] \ seen[t]
        /\ marks[t] \subseteq seen[t] /\ seen[t] \subseteq 1..arrived[BoxOf(t)]
        /\ Leave(t) => marks[t] = {}
        /\ pc[t] \in {"fetch", "mark"} => todo[t] \cap db[BoxOf(t)] = {}
        /\ pc[t] = "flush" => db[BoxOf(t)] = {}
TodoIsNew ==
    /\ \A b \in Mailbox : box[b] \subseteq 1..arrived[b]
    /\ \A t \in Thread : NewTodo(t)

\* Links of one mailbox agree on "Leave"; then only such links have databases.
Agreement == \A k, l \in Link : Home[k] = Home[l] => (k \in Leaves <=> l \in Leaves)
DatabasesOfLeave == \A l \in Link : l \notin Leaves => db[Home[l]] = {}

\* What a session fetched, and will settle if it is not cut off.
Fetched(t) ==
    (IF pc[t] = "mark" THEN {First(todo[t])} ELSE {})
        \cup (IF ~Leave(t) THEN marks[t] ELSE IF pc[t] = "quit" THEN {} ELSE seen[t])

\* What the files or the remote server have on record as fetched.
Recorded(b) == db[b] \cup (1..arrived[b] \ box[b])

\* The one fetch of m that needs no reason is accounted for.
Charged(b, m) ==
    \/ m \in Recorded(b)
    \/ \E t \in Thread : pc[t] # "idle" /\ BoxOf(t) = b /\ m \in Fetched(t)

Explained ==
    \A b \in Mailbox, m \in Message :
        got[b][m] <= reasons[b][m] + (IF Charged(b, m) THEN 1 ELSE 0)

IInv == Shape /\ Stages /\ OneThreadEach /\ Counting /\ Capacity /\ SeenIsDone
LInv == IInv /\ TodoIsNew /\ DatabasesOfLeave /\ Explained

\* Every nonempty set of natural numbers has a least one.
LEMMA LeastExists ==
    ASSUME NEW ms \in SUBSET Nat, ms # {}
    PROVE  \E m \in ms : \A n \in ms : m <= n
  <1> DEFINE Upto(m) == ms \cap (0..m)
             All == {Upto(m) : m \in ms}
  <1>1. All \subseteq FiniteSubsetsOf(ms) /\ All # {}
    <2>1. ASSUME NEW m \in ms PROVE IsFiniteSet(Upto(m))
      <3>1. m \in Int /\ IsFiniteSet(0..m)
        BY FS_Interval
      <3>2. Upto(m) \in SUBSET (0..m)
        OBVIOUS
      <3> QED
        BY <3>1, <3>2, FS_Subset
    <2> QED
      BY <2>1 DEF FiniteSubsetsOf
  <1>2. PICK x \in All : \A y \in All : <<y, x>> \notin StrictSubsetOrdering(ms)
    BY <1>1, FS_StrictSubsetOrderingWellFounded, WFMin
  <1>3. PICK m \in ms : x = Upto(m)
    BY <1>2
  <1>4. ASSUME NEW n \in ms, n < m PROVE FALSE
    <2>1. Upto(n) \subseteq Upto(m) /\ m \in Upto(m) /\ m \notin Upto(n)
      BY <1>4
    <2>2. <<Upto(n), Upto(m)>> \in StrictSubsetOrdering(ms)
      BY <2>1 DEF StrictSubsetOrdering
    <2> QED
      BY <1>2, <1>3, <2>2
  <1> QED
    BY <1>4

\* First is the message that UPopSyncRemoteLink takes from its list.
LEMMA FirstIsIn ==
    ASSUME NEW ms \in SUBSET Nat, ms # {}
    PROVE  First(ms) \in ms
  BY LeastExists DEF First

-----------------------------------------------------------------------------
(* Types.                                                                  *)

\* The table of links is a sequence of links.
LEMMA LinksType == Links \in Seq(Link)
  BY LinksAssumption DEF Link

\* Messages are numbered.
LEMMA MessageType == Message \subseteq Nat
  BY DEF Message

\* The mailbox of a thread at work is one of the table's.
LEMMA BoxOfType ==
    ASSUME Shape, NEW t \in Thread, pc[t] # "idle"
    PROVE  BoxOf(t) \in Mailbox
  BY DEF Shape, Control, BoxOf, Mailbox

\* The message that a session is at.
LEMMA CurrentType ==
    ASSUME Shape, Stages, NEW t \in Thread, pc[t] \in {"fetch", "mark"}
    PROVE  First(todo[t]) \in todo[t] /\ First(todo[t]) \in Message
  <1>1. todo[t] \in SUBSET Message /\ todo[t] # {}
    BY DEF Shape, Lists, Stages
  <1> QED
    BY <1>1, MessageType, FirstIsIn

\* Every step keeps the stage of the main thread and the counters typed.
LEMMA ScalarsStep ==
    ASSUME Shape, [Next]_vars
    PROVE  Scalars'
  <1> USE BoundsAssumption DEF Shape, Scalars
  <1>0. CASE Start
    <2>1. starts + 1 \in 1..MaxStarts
      BY <1>0 DEF Start
    <2>2. NumSyncThreads[starts + 1] \in 1..Slots
      BY <2>1
    <2>3. faults' \in 0..MaxFaults
      BY <1>0 DEF Start, Fault, NoFault
    <2> QED
      BY <1>0, <2>1, <2>2, <2>3 DEF Start
  <1>1. ASSUME AskStop \/ TellStop \/ Cleanup \/ Halt PROVE Scalars'
    BY <1>1 DEF AskStop, TellStop, Cleanup, Halt, round
  <1>2. CASE PSYNCThreadProc
    BY <1>2 DEF PSYNCThreadProc, PSYNCStartTransfer, SkipLink, NextLink, TakeSlot, PSYNCCreateSyncThread,
       CreateFails, EndTransfer, StopLoop, WaitClients, others, service, Fault
  <1>3. ASSUME NEW t \in Thread, LinkLock(t) \/ LockFails(t) \/ Login(t) \/ LoginFails(t)
                    \/ CountDown(t) \/ LinkUnlock(t) \/ NotifyExit(t)
        PROVE Scalars'
    BY <1>3 DEF LinkLock, LockFails, Login, LoginFails, CountUp, CountDown, LinkUnlock, NotifyExit,
       system, service, round, Fault, NoFault
  <1>4. ASSUME NEW t \in Thread, UPopSChanFillStatus(t) \/ FillStatusFails(t) \/ RetrieveFails(t)
                    \/ Deliver(t) \/ DeliverFails(t) \/ Mark(t)
        PROVE Scalars'
    BY <1>4 DEF UPopSChanFillStatus, FillStatusFails, RetrieveFails, Deliver, DeliverFails, Mark,
       system, service, round, Fault, NoFault
  <1>5. ASSUME NEW t \in Thread, WriteSeenDB(t) \/ WriteFails(t) PROVE Scalars'
    BY <1>5 DEF WriteSeenDB, WriteFails, system, service, round, Fault
  <1>6. ASSUME NEW t \in Thread, FlushSeenDB(t) PROVE Scalars'
    <2>1. Fault("disk") \/ NoFault
      BY <1>6 DEF FlushSeenDB
    <2>2. UNCHANGED <<main, slots, count, syncs, starts>>
      BY <1>6 DEF FlushSeenDB, system, round
    <2> QED
      BY <2>1, <2>2 DEF Fault, NoFault
  <1>7. ASSUME NEW t \in Thread, Quit(t) PROVE Scalars'
    BY <1>7 DEF Quit, system, service, round, Fault, NoFault
  <1>8. ASSUME (\E b \in Mailbox : Arrive(b)) \/ UNCHANGED vars PROVE Scalars'
    BY <1>8 DEF Arrive, vars, service, round
  <1> QED
    BY <1>0, <1>1, <1>2, <1>3, <1>4, <1>5, <1>6, <1>7, <1>8 DEF Next, Sync

\* The links to go, and the links of the threads, are links of the table.
LEMMA ControlStep ==
    ASSUME Shape, [Next]_vars
    PROVE  Control'
  <1> USE DEF Shape, Control
  <1>1. ASSUME Start \/ AskStop \/ TellStop \/ Cleanup PROVE Control'
    BY <1>1 DEF Start, AskStop, TellStop, Cleanup, round
  <1>7. CASE Halt
    BY <1>7 DEF Halt
  <1>2. CASE PSYNCStartTransfer
    <2>1. /\ pending' = Links \/ pending' = <<>>
          /\ main' = "scan" /\ UNCHANGED <<pc, link>>
      BY <1>2 DEF PSYNCStartTransfer
    <2>2. CASE pending' = Links
      BY <2>1, <2>2, LinksType
    <2>3. CASE pending' = <<>>
      BY <2>1, <2>3
    <2> QED
      BY <2>1, <2>2, <2>3
  <1>3. CASE PSYNCCreateSyncThread
    <2>1. Head(pending) \in Link /\ Tail(pending) \in Seq(Link)
      BY <1>3 DEF PSYNCCreateSyncThread
    <2>2. /\ pending' = Tail(pending) /\ main' = "scan"
          /\ \E t : /\ pc' = [pc EXCEPT ![t] = "lock"]
                   /\ link' = [link EXCEPT ![t] = Head(pending)]
      BY <1>3 DEF PSYNCCreateSyncThread
    <2> QED
      BY <2>1, <2>2
  <1>4. CASE SkipLink \/ NextLink \/ TakeSlot \/ CreateFails \/ EndTransfer \/ StopLoop \/ WaitClients
    BY <1>4 DEF SkipLink, NextLink, TakeSlot, CreateFails, EndTransfer, StopLoop, WaitClients
  <1>5. ASSUME NEW t \in Thread, Sync(t) PROVE Control'
    <2>1. /\ UNCHANGED <<main, pending, link>> /\ pc[t] # "idle"
          /\ \E s \in Counted \cup {"idle", "unlock", "notify", "count"} : Goto(t, s)
      <3>1. CASE LinkLock(t) \/ LockFails(t) \/ Login(t) \/ LoginFails(t)
                    \/ CountDown(t) \/ LinkUnlock(t) \/ NotifyExit(t)
        BY <3>1 DEF LinkLock, LockFails, Login, LoginFails, CountUp, CountDown, LinkUnlock, NotifyExit,
           system, round, Counted
      <3>2. CASE UPopSChanFillStatus(t) \/ FillStatusFails(t) \/ RetrieveFails(t)
                    \/ Deliver(t) \/ DeliverFails(t) \/ Mark(t)
        BY <3>2 DEF UPopSChanFillStatus, FillStatusFails, RetrieveFails, Deliver, DeliverFails, Mark,
           Onward, Following, Freeing, system, round, Counted
      <3>3. CASE WriteSeenDB(t) \/ WriteFails(t) \/ FlushSeenDB(t) \/ Quit(t)
        BY <3>3 DEF WriteSeenDB, WriteFails, FlushSeenDB, Quit, system, round, Counted
      <3> QED
        BY <1>5, <3>1, <3>2, <3>3 DEF Sync
    <2> QED
      BY <2>1 DEF Goto
  <1>6. ASSUME (\E b \in Mailbox : Arrive(b)) \/ UNCHANGED vars PROVE Control'
    BY <1>6 DEF Arrive, vars, round
  <1> QED
    BY <1>1, <1>2, <1>3, <1>4, <1>5, <1>6, <1>7 DEF Next, PSYNCThreadProc

\* The lists of a session hold messages.
LEMMA ListsStep ==
    ASSUME Shape, Stages, [Next]_vars
    PROVE  Lists'
  <1> USE DEF Shape, Lists
  <1>1. ASSUME Start \/ AskStop \/ TellStop \/ Cleanup PROVE Lists'
    BY <1>1 DEF Start, AskStop, TellStop, Cleanup, session
  <1>2. CASE Halt
    BY <1>2 DEF Halt
  <1>3. CASE PSYNCThreadProc
    BY <1>3 DEF PSYNCThreadProc, PSYNCStartTransfer, SkipLink, NextLink, TakeSlot, PSYNCCreateSyncThread,
       CreateFails, EndTransfer, StopLoop, WaitClients, others, session
  <1>4. ASSUME NEW t \in Thread, LinkLock(t) \/ LockFails(t) \/ Login(t) \/ LoginFails(t)
                    \/ CountDown(t) \/ LinkUnlock(t) \/ NotifyExit(t)
        PROVE Lists'
    BY <1>4 DEF LinkLock, LockFails, Login, LoginFails, CountUp, CountDown, LinkUnlock, NotifyExit, session
  <1>5. ASSUME NEW t \in Thread, UPopSChanFillStatus(t) PROVE Lists'
    <2>1. box[BoxOf(t)] \subseteq Message
      BY <1>5, BoxOfType DEF UPopSChanFillStatus, Files
    <2> QED
      BY <1>5, <2>1 DEF UPopSChanFillStatus
  <1>6. ASSUME NEW t \in Thread, FillStatusFails(t) \/ RetrieveFails(t) \/ Deliver(t) \/ DeliverFails(t)
        PROVE Lists'
    BY <1>6 DEF FillStatusFails, RetrieveFails, Deliver, DeliverFails, session
  <1>7. ASSUME NEW t \in Thread, Mark(t) PROVE Lists'
    <2>1. First(todo[t]) \in Message
      BY <1>7, CurrentType DEF Mark
    <2> QED
      BY <1>7, <2>1 DEF Mark
  <1>8. ASSUME NEW t \in Thread, WriteSeenDB(t) \/ WriteFails(t) \/ FlushSeenDB(t) \/ Quit(t)
        PROVE Lists'
    BY <1>8 DEF WriteSeenDB, WriteFails, FlushSeenDB, Quit, session
  <1>9. ASSUME (\E b \in Mailbox : Arrive(b)) \/ UNCHANGED vars PROVE Lists'
    BY <1>9 DEF Arrive, vars, session
  <1> QED
    BY <1>1, <1>2, <1>3, <1>4, <1>5, <1>6, <1>7, <1>8, <1>9 DEF Next, Sync

\* The flags of the server stay Boolean.
LEMMA FlagsStep ==
    ASSUME Shape, [Next]_vars
    PROVE  Flags'
  <1> USE DEF Shape, Flags
  <1>1. ASSUME Start \/ AskStop \/ TellStop \/ Cleanup \/ Halt PROVE Flags'
    BY <1>1, Zenon DEF Start, AskStop, TellStop, Cleanup, Halt
  <1>2. ASSUME UNCHANGED service PROVE Flags'
    BY <1>2, Zenon DEF service
  <1>3. CASE PSYNCThreadProc
    BY <1>2, <1>3, Zenon DEF PSYNCThreadProc, PSYNCStartTransfer, SkipLink, NextLink, TakeSlot,
       PSYNCCreateSyncThread, CreateFails, EndTransfer, StopLoop, WaitClients, others
  <1>4. ASSUME NEW t \in Thread, Sync(t) PROVE Flags'
    BY <1>2, <1>4, Zenon DEF Sync, LinkLock, LockFails, Login, LoginFails, CountUp, UPopSChanFillStatus,
       FillStatusFails, RetrieveFails, Deliver, DeliverFails, Mark, WriteSeenDB, WriteFails, FlushSeenDB,
       Quit, CountDown, LinkUnlock, NotifyExit, system
  <1>5. ASSUME (\E b \in Mailbox : Arrive(b)) \/ UNCHANGED vars PROVE Flags'
    BY <1>2, <1>5, Zenon DEF Arrive, vars
  <1> QED
    BY <1>1, <1>3, <1>4, <1>5, Zenon DEF Next

\* A thread works on its own lists and stage.
LEMMA SyncKeepsOthers ==
    ASSUME Shape, NEW t \in Thread, Sync(t)
    PROVE  /\ UNCHANGED <<service, round, link, starts>>
           /\ \A u \in Thread \ {t} : /\ pc'[u] = pc[u] /\ todo'[u] = todo[u]
                                      /\ seen'[u] = seen[u] /\ marks'[u] = marks[u]
  <1> USE DEF Shape, Control, Lists, Goto
  <1>1. CASE LinkLock(t) \/ LockFails(t) \/ Login(t) \/ LoginFails(t)
    BY <1>1 DEF LinkLock, LockFails, Login, LoginFails, CountUp, system, session
  <1>2. CASE CountDown(t) \/ LinkUnlock(t) \/ NotifyExit(t)
    BY <1>2 DEF CountDown, LinkUnlock, NotifyExit, session
  <1>3. CASE UPopSChanFillStatus(t)
    BY <1>3 DEF UPopSChanFillStatus, system
  <1>4. CASE FillStatusFails(t) \/ RetrieveFails(t) \/ Deliver(t)
    BY <1>4 DEF FillStatusFails, RetrieveFails, Deliver, system, session
  <1>5. CASE DeliverFails(t)
    BY <1>5 DEF DeliverFails, Onward, system
  <1>6. CASE Mark(t)
    BY <1>6 DEF Mark, Onward, system
  <1>7. CASE WriteSeenDB(t) \/ WriteFails(t)
    BY <1>7 DEF WriteSeenDB, WriteFails, system, session
  <1>8. CASE FlushSeenDB(t)
    BY <1>8 DEF FlushSeenDB, system, session
  <1>9. CASE Quit(t)
    BY <1>9 DEF Quit, system
  <1> QED
    BY <1>1, <1>2, <1>3, <1>4, <1>5, <1>6, <1>7, <1>8, <1>9 DEF Sync

\* Locks, databases and mailboxes stay typed.
LEMMA FilesStep ==
    ASSUME Shape, Stages, [Next]_vars
    PROVE  Files'
  <1> USE DEF Shape, Files, locking, outcome
  <1>0. CASE Start
    <2>1. locks' \subseteq locks /\ stuck' \subseteq locks
      BY <1>0 DEF Start
    <2>2. UNCHANGED <<db, arrived, box, done, partly, cut>>
      BY <1>0 DEF Start, remote, history
    <2> QED
      BY <2>1, <2>2
  <1>1. ASSUME AskStop \/ TellStop \/ Cleanup \/ Halt PROVE Files'
    BY <1>1 DEF AskStop, TellStop, Cleanup, Halt, remote, history
  <1>2. CASE PSYNCThreadProc
    BY <1>2 DEF PSYNCThreadProc, PSYNCStartTransfer, SkipLink, NextLink, TakeSlot, PSYNCCreateSyncThread,
       CreateFails, EndTransfer, StopLoop, WaitClients, others, remote, history
  <1>3. ASSUME NEW t \in Thread, LinkLock(t) PROVE Files'
    BY <1>3, BoxOfType DEF LinkLock, remote, history
  <1>4. ASSUME NEW t \in Thread, LockFails(t) \/ Login(t) \/ LoginFails(t)
                    \/ CountDown(t) \/ NotifyExit(t)
        PROVE Files'
    BY <1>4 DEF LockFails, Login, LoginFails, CountUp, CountDown, NotifyExit,
       system, remote, history
  <1>12. ASSUME NEW t \in Thread, LinkUnlock(t) PROVE Files'
    <2>1. /\ locks' = locks \/ locks' = locks \ {BoxOf(t)}
          /\ stuck' = stuck \/ stuck' = stuck \cup {BoxOf(t)}
          /\ BoxOf(t) \in Mailbox
      BY <1>12, BoxOfType DEF LinkUnlock
    <2>2. UNCHANGED <<db, arrived, box, done, partly, cut>>
      BY <1>12 DEF LinkUnlock, remote, history
    <2> QED
      BY <2>1, <2>2
  <1>5. ASSUME NEW t \in Thread, UPopSChanFillStatus(t) \/ FillStatusFails(t) \/ RetrieveFails(t) \/ Mark(t)
                    \/ WriteFails(t)
        PROVE Files'
    BY <1>5 DEF UPopSChanFillStatus, FillStatusFails, RetrieveFails, Mark, WriteFails, system, remote, history
  <1>6. ASSUME NEW t \in Thread, Deliver(t) \/ DeliverFails(t) PROVE Files'
    <2>1. First(todo[t]) \in Message
      BY <1>6, CurrentType DEF Deliver, DeliverFails
    <2>2. UNCHANGED <<locks, stuck, db, arrived, box>>
      BY <1>6 DEF Deliver, DeliverFails, system, remote
    <2>3. /\ done' = done \/ done' = [done EXCEPT ![BoxOf(t)] = @ \cup {First(todo[t])}]
          /\ partly' = partly \/ partly' = [partly EXCEPT ![BoxOf(t)] = @ \cup {First(todo[t])}]
          /\ cut' = cut \/ cut' = [cut EXCEPT ![BoxOf(t)] = @ \cup {First(todo[t])}]
      BY <1>6 DEF Deliver, DeliverFails, Saved
    <2> QED
      BY <2>1, <2>2, <2>3
  <1>7. ASSUME NEW t \in Thread, WriteSeenDB(t) PROVE Files'
    BY <1>7 DEF WriteSeenDB, system, remote, history
  <1>8. ASSUME NEW t \in Thread, FlushSeenDB(t) PROVE Files'
    <2>1. PICK written \in SUBSET seen[t] : db' = [db EXCEPT ![BoxOf(t)] = written]
      BY <1>8 DEF FlushSeenDB
    <2>2. UNCHANGED <<locks, stuck, arrived, box, done, partly, cut>>
      BY <1>8 DEF FlushSeenDB, system, remote
    <2> QED
      BY <2>1, <2>2 DEF Lists
  <1>9. ASSUME NEW t \in Thread, Quit(t) PROVE Files'
    <2>1. box' = box \/ box' = [box EXCEPT ![BoxOf(t)] = @ \ marks[t]]
      BY <1>9 DEF Quit
    <2>2. UNCHANGED <<locks, stuck, arrived, db, done, partly, cut>>
      BY <1>9 DEF Quit, system
    <2> QED
      BY <2>1, <2>2
  <1>10. ASSUME NEW b \in Mailbox, Arrive(b) PROVE Files'
    <2>1. /\ arrived[b] + 1 \in Message
          /\ arrived' = [arrived EXCEPT ![b] = @ + 1]
      BY <1>10, BoundsAssumption DEF Arrive, Message
    <2>2. box' = [box EXCEPT ![b] = @ \cup {arrived'[b]}]
      BY <1>10 DEF Arrive
    <2>3. UNCHANGED <<locks, stuck, db, done, partly, cut>>
      BY <1>10 DEF Arrive, history
    <2> QED
      BY <2>1, <2>2, <2>3
  <1>11. CASE UNCHANGED vars
    BY <1>11 DEF vars, remote, history
  <1> QED
    BY <1>0, <1>12, <1>1, <1>2, <1>3, <1>4, <1>5, <1>6, <1>7, <1>8, <1>9, <1>10, <1>11 DEF Next, Sync

\* A message that may be fetched once more.
LEMMA AgainType ==
    ASSUME Counters, NEW b \in Mailbox, NEW ms, Again(b, ms)
    PROVE  reasons' \in [Mailbox -> [Message -> Nat]]
  <1> DEFINE more == [m \in Message |-> reasons[b][m] + (IF m \in ms THEN 1 ELSE 0)]
  <1>1. more \in [Message -> Nat]
    BY DEF Counters
  <1>2. reasons' = [reasons EXCEPT ![b] = more]
    BY DEF Again
  <1> QED
    BY <1>1, <1>2 DEF Counters

\* Sets of threads can be counted.
LEMMA ThreadsFinite == \A S : S \subseteq Thread => IsFiniteSet(S) /\ Cardinality(S) \in Nat
  <1>1. IsFiniteSet(Thread)
    BY BoundsAssumption, FS_Interval DEF Thread
  <1> QED
    BY <1>1, FS_Subset, FS_CardinalityType

\* The threads that fetched m and are cut off by the end of the server.
CutOff(b, m) == {t \in Thread : BoxOf(t) = b /\ m \in Unsettled(t)}

\* The counts of deliveries and of reasons stay natural numbers.
LEMMA CountersStep ==
    ASSUME Shape, Stages, [Next]_vars
    PROVE  Counters'
  <1> USE DEF Shape
  <1>1. ASSUME UNCHANGED <<got, reasons>> PROVE Counters'
    BY <1>1 DEF Counters
  <1>2. ASSUME NEW t \in Thread, pc[t] \in Listing, NEW ms, Again(BoxOf(t), ms), UNCHANGED got
        PROVE  Counters'
    BY <1>2, BoxOfType, AgainType DEF Counters, Listing
  <1>3. ASSUME Start \/ AskStop \/ TellStop \/ Cleanup PROVE Counters'
    BY <1>1, <1>3 DEF Start, AskStop, TellStop, Cleanup, history
  <1>4. CASE Halt
    <2>1. /\ got' = got
          /\ reasons' = [b \in Mailbox |-> [m \in Message |-> reasons[b][m] + Cardinality(CutOff(b, m))]]
      BY <1>4 DEF Halt, CutOff
    <2>2. \A b \in Mailbox, m \in Message : Cardinality(CutOff(b, m)) \in Nat
      BY ThreadsFinite DEF CutOff
    <2> QED
      BY <2>1, <2>2 DEF Counters
  <1>5. CASE PSYNCThreadProc
    BY <1>1, <1>5 DEF PSYNCThreadProc, PSYNCStartTransfer, SkipLink, NextLink, TakeSlot,
       PSYNCCreateSyncThread, CreateFails, EndTransfer, StopLoop, WaitClients, others, history
  <1>6. ASSUME NEW t \in Thread, LinkLock(t) \/ LockFails(t) \/ Login(t) \/ LoginFails(t)
                    \/ CountDown(t) \/ LinkUnlock(t) \/ NotifyExit(t)
        PROVE Counters'
    BY <1>1, <1>6 DEF LinkLock, LockFails, Login, LoginFails, CountUp, CountDown, LinkUnlock, NotifyExit,
       history
  <1>7. ASSUME NEW t \in Thread, UPopSChanFillStatus(t) \/ FillStatusFails(t) \/ RetrieveFails(t)
        PROVE Counters'
    BY <1>1, <1>7 DEF UPopSChanFillStatus, FillStatusFails, RetrieveFails, history
  <1>8. ASSUME NEW t \in Thread, NEW n \in {0, 1, 2}, pc[t] = "fetch",
               got' = [got EXCEPT ![BoxOf(t)][First(todo[t])] = @ + n]
        PROVE  got' \in [Mailbox -> [Message -> Nat]]
    <2>1. First(todo[t]) \in Message /\ BoxOf(t) \in Mailbox
      BY <1>8, CurrentType, BoxOfType
    <2>2. got[BoxOf(t)][First(todo[t])] + n \in Nat
      BY <2>1 DEF Counters
    <2> QED
      BY <1>8, <2>1, <2>2 DEF Counters
  <1>9. ASSUME NEW t \in Thread, Deliver(t) PROVE Counters'
    <2>1. got' \in [Mailbox -> [Message -> Nat]] /\ reasons' = reasons
      BY <1>8, <1>9 DEF Deliver
    <2> QED
      BY <2>1 DEF Counters
  <1>10. ASSUME NEW t \in Thread, DeliverFails(t) PROVE Counters'
    <2>1. PICK some \in {0, 1}, saved \in {0, 1} :
            /\ got' = [got EXCEPT ![BoxOf(t)][First(todo[t])] = @ + some + saved]
            /\ Again(BoxOf(t), IF some = 1 THEN {First(todo[t])} ELSE {})
      BY <1>10 DEF DeliverFails
    <2>2. First(todo[t]) \in Message /\ BoxOf(t) \in Mailbox
      BY <1>10, CurrentType, BoxOfType DEF DeliverFails
    <2>3. got[BoxOf(t)][First(todo[t])] + some + saved \in Nat
      BY <2>2 DEF Counters
    <2>4. got' \in [Mailbox -> [Message -> Nat]]
      BY <2>1, <2>2, <2>3 DEF Counters
    <2> QED
      BY <2>1, <2>2, <2>4, AgainType DEF Counters
  <1>11. ASSUME NEW t \in Thread, Mark(t) PROVE Counters'
    <2>1. pc[t] \in Listing /\ got' = got
      BY <1>11 DEF Mark, Listing
    <2>2. reasons' = reasons \/ Again(BoxOf(t), {First(todo[t])})
      BY <1>11 DEF Mark
    <2> QED
      BY <1>1, <1>2, <2>1, <2>2
  <1>12. ASSUME NEW t \in Thread, WriteSeenDB(t) \/ WriteFails(t) PROVE Counters'
    BY <1>2, <1>12 DEF WriteSeenDB, WriteFails, Listing
  <1>13. ASSUME NEW t \in Thread, FlushSeenDB(t) PROVE Counters'
    BY <1>2, <1>13 DEF FlushSeenDB, Listing
  <1>14. ASSUME NEW t \in Thread, Quit(t) PROVE Counters'
    BY <1>1, <1>2, <1>14 DEF Quit, Listing
  <1>15. ASSUME (\E b \in Mailbox : Arrive(b)) \/ UNCHANGED vars PROVE Counters'
    BY <1>1, <1>15 DEF Arrive, vars, history
  <1> QED
    BY <1>3, <1>4, <1>5, <1>6, <1>7, <1>9, <1>10, <1>11, <1>12, <1>13, <1>14, <1>15 DEF Next, Sync

\* Every step keeps the types.
LEMMA ShapeStep ==
    ASSUME Shape, Stages, [Next]_vars
    PROVE  Shape'
  BY FlagsStep, ScalarsStep, ControlStep, ListsStep, FilesStep, CountersStep DEF Shape

-----------------------------------------------------------------------------
(* Stages.                                                                 *)

\* While the main thread has a slot for a new thread, one is idle.
LEMMA SomeThreadIsIdle ==
    ASSUME Shape, Capacity, main = "create"
    PROVE  \E t \in Thread : pc[t] = "idle"
  <1>1. SUFFICES ASSUME \A t \in Thread : pc[t] # "idle" PROVE FALSE
    OBVIOUS
  <1>2. {t \in Thread : pc[t] # "idle"} = 1..Slots
    BY <1>1 DEF Thread
  <1>3. Cardinality(1..Slots) = Slots
    BY BoundsAssumption, FS_Interval
  <1>4. slots + Cardinality({t \in Thread : pc[t] # "idle"}) + 1 <= Slots
    BY DEF Capacity
  <1>5. slots + Slots + 1 <= Slots
    BY <1>2, <1>3, <1>4
  <1> QED
    BY <1>5, BoundsAssumption DEF Shape, Scalars

\* PSYNCCreateSyncThread gives the next link to a thread that was idle.
LEMMA CreateTakesIdle ==
    ASSUME Shape, Capacity, PSYNCCreateSyncThread
    PROVE  \E t \in Thread : /\ pc[t] = "idle"
                             /\ pc' = [pc EXCEPT ![t] = "lock"]
                             /\ link' = [link EXCEPT ![t] = Head(pending)]
  <1> DEFINE idle == {t \in Thread : pc[t] = "idle"}
             first == CHOOSE u \in idle : \A v \in idle : u <= v
  <1>1. main = "create" /\ pc' = [pc EXCEPT ![first] = "lock"]
            /\ link' = [link EXCEPT ![first] = Head(pending)]
    BY DEF PSYNCCreateSyncThread
  <1>2. idle \in SUBSET Nat /\ idle # {}
    BY <1>1, SomeThreadIsIdle DEF Thread
  <1>3. first \in idle
    BY <1>2, LeastExists
  <1> QED
    BY <1>1, <1>3

\* Every step keeps the lists in agreement with the stage.
LEMMA StagesStep ==
    ASSUME Shape, Stages, Capacity, [Next]_vars
    PROVE  Stages'
  <1> USE DEF Shape, Control, Lists, Stages
  <1>1. ASSUME AskStop \/ TellStop \/ Cleanup PROVE Stages'
    BY <1>1 DEF AskStop, TellStop, Cleanup, session, Leave
  <1>2. CASE Start
    BY <1>2 DEF Start, session, Leave
  <1>3. CASE Halt
    BY <1>3 DEF Halt, Listing
  <1>4. CASE PSYNCCreateSyncThread
    <2>1. UNCHANGED <<todo, seen, marks>>
      BY <1>4 DEF PSYNCCreateSyncThread, others, session
    <2>2. up /\ up'
      BY <1>4, Zenon DEF PSYNCCreateSyncThread, others, service
    <2>3. PICK t \in Thread : /\ pc[t] = "idle"
                              /\ pc' = [pc EXCEPT ![t] = "lock"]
                              /\ link' = [link EXCEPT ![t] = Head(pending)]
      BY <1>4, CreateTakesIdle
    <2> QED
      BY <2>1, <2>2, <2>3 DEF Listing, Leave
  <1>5. CASE PSYNCStartTransfer \/ SkipLink \/ NextLink \/ TakeSlot \/ CreateFails \/ EndTransfer
                \/ StopLoop \/ WaitClients
    BY <1>5 DEF PSYNCStartTransfer, SkipLink, NextLink, TakeSlot, CreateFails, EndTransfer, StopLoop,
       WaitClients, others, session, service, Leave
  <1>6. ASSUME NEW t \in Thread, Sync(t) PROVE Stages'
    <2> DEFINE Here == /\ pc'[t] \in {"fetch", "mark"} => todo'[t] # {}
                       /\ pc'[t] \notin Listing => todo'[t] = {} /\ seen'[t] = {} /\ marks'[t] = {}
                       /\ pc'[t] \in {"write", "flush"} => Leave(t)
    <2>1. pc[t] # "idle"
      BY <1>6 DEF Sync, LinkLock, LockFails, Login, LoginFails, CountUp, UPopSChanFillStatus,
         FillStatusFails, RetrieveFails, Deliver, DeliverFails, Mark, WriteSeenDB, WriteFails, FlushSeenDB,
         Quit, CountDown, LinkUnlock, NotifyExit
    <2>2. up /\ up'
      <3>1. up
        BY <2>1
      <3> QED
        BY <1>6, <3>1, SyncKeepsOthers, Zenon DEF service
    <2>3. ASSUME LinkLock(t) \/ LockFails(t) \/ Login(t) \/ LoginFails(t) PROVE Here
      BY <2>3 DEF LinkLock, LockFails, Login, LoginFails, CountUp, session, Goto, Listing
    <2>4. ASSUME CountDown(t) \/ LinkUnlock(t) \/ NotifyExit(t) PROVE Here
      BY <2>4 DEF CountDown, LinkUnlock, NotifyExit, session, Goto, Listing
    <2>5. ASSUME UPopSChanFillStatus(t) PROVE Here
      BY <2>5 DEF UPopSChanFillStatus, Goto, Following, Freeing, Listing
    <2>6. ASSUME FillStatusFails(t) \/ RetrieveFails(t) PROVE Here
      BY <2>6 DEF FillStatusFails, RetrieveFails, Goto, Freeing, Listing
    <2>7. ASSUME Deliver(t) PROVE Here
      BY <2>7 DEF Deliver, session, Goto, Listing
    <2>8. ASSUME DeliverFails(t) PROVE Here
      BY <2>8 DEF DeliverFails, Onward, Following, Freeing, Goto, Listing
    <2>9. ASSUME Mark(t) PROVE Here
      BY <2>9 DEF Mark, Onward, Following, Freeing, Goto, Listing
    <2>10. ASSUME WriteSeenDB(t) \/ WriteFails(t) \/ FlushSeenDB(t) \/ Quit(t) PROVE Here
      BY <2>10 DEF WriteSeenDB, WriteFails, FlushSeenDB, Quit, session, Goto, Listing
    <2>11. Here
      BY <1>6, <2>3, <2>4, <2>5, <2>6, <2>7, <2>8, <2>9, <2>10 DEF Sync
    <2> QED
      BY <1>6, <2>2, <2>11, SyncKeepsOthers DEF Leave
  <1>7. ASSUME (\E b \in Mailbox : Arrive(b)) \/ UNCHANGED vars PROVE Stages'
    BY <1>7 DEF Arrive, vars, session, service, Leave
  <1> QED
    BY <1>1, <1>2, <1>3, <1>4, <1>5, <1>6, <1>7 DEF Next, PSYNCThreadProc

\* A step of a thread is the taking of its lock, the giving back, or neither.
LEMMA SyncAndLocks ==
    ASSUME Shape, NEW t \in Thread, Sync(t)
    PROVE  \/ pc[t] \notin Busy /\ pc'[t] \in Busy /\ BoxOf(t) \notin locks /\ pc[t] # "idle"
                /\ locks' = locks \cup {BoxOf(t)} /\ stuck' = stuck
           \/ pc[t] \in Busy /\ pc'[t] \notin Busy /\ locks' = locks \ {BoxOf(t)} /\ stuck' = stuck
           \/ pc[t] \in Busy /\ pc'[t] \notin Busy /\ stuck' = stuck \cup {BoxOf(t)} /\ locks' = locks
           \/ (pc[t] \in Busy <=> pc'[t] \in Busy) /\ locks' = locks /\ stuck' = stuck
  <1> USE DEF Shape, Control, Goto, Busy, Counted
  <1>1. CASE LinkLock(t)
    BY <1>1 DEF LinkLock
  <1>6. CASE LinkUnlock(t)
    BY <1>6 DEF LinkUnlock
  <1>2. CASE LockFails(t) \/ Login(t) \/ LoginFails(t) \/ CountDown(t) \/ NotifyExit(t)
    BY <1>2 DEF LockFails, Login, LoginFails, CountUp, CountDown, NotifyExit, system, locking
  <1>3. CASE UPopSChanFillStatus(t) \/ FillStatusFails(t) \/ RetrieveFails(t) \/ Deliver(t)
    BY <1>3 DEF UPopSChanFillStatus, FillStatusFails, RetrieveFails, Deliver, system, locking,
       Following, Freeing
  <1>4. CASE DeliverFails(t) \/ Mark(t)
    BY <1>4 DEF DeliverFails, Mark, system, locking, Onward, Following, Freeing
  <1>5. CASE WriteSeenDB(t) \/ WriteFails(t) \/ FlushSeenDB(t) \/ Quit(t)
    BY <1>5 DEF WriteSeenDB, WriteFails, FlushSeenDB, Quit, system, locking
  <1> QED
    BY <1>1, <1>2, <1>3, <1>4, <1>5, <1>6 DEF Sync

\* Every step keeps the locks in agreement with the threads.
LEMMA OneThreadEachStep ==
    ASSUME Shape, Stages, Capacity, OneThreadEach, [Next]_vars
    PROVE  OneThreadEach'
  <1> USE DEF OneThreadEach
  <1>1. ASSUME up' = up, UNCHANGED <<pc, link, locks, stuck>> PROVE OneThreadEach'
    BY <1>1 DEF BoxOf
  <1>2. ASSUME AskStop \/ TellStop \/ Cleanup \/ (\E b \in Mailbox : Arrive(b)) \/ UNCHANGED vars
        PROVE  OneThreadEach'
    <2>1. up' = up
      BY <1>2, Zenon DEF AskStop, TellStop, Cleanup, Arrive, vars, service
    <2>2. UNCHANGED <<pc, link, locks, stuck>>
      BY <1>2 DEF AskStop, TellStop, Cleanup, Arrive, vars, locking
    <2> QED
      BY <1>1, <2>1, <2>2
  <1>3. CASE Start
    <2>1. pc' = pc /\ ~up /\ locks' \ stuck' = {}
      BY <1>3 DEF Start
    <2>2. \A t \in Thread : pc[t] \notin Busy
      BY <2>1 DEF Stages, Busy, Counted
    <2> QED
      BY <2>1, <2>2
  <1>4. CASE Halt
    BY <1>4 DEF Halt, Busy, Counted
  <1>5. CASE PSYNCCreateSyncThread
    <2>1. up' = up
      BY <1>5, Zenon DEF PSYNCCreateSyncThread, others, service
    <2>2. UNCHANGED <<locks, stuck>>
      BY <1>5 DEF PSYNCCreateSyncThread, others, locking
    <2>3. PICK t \in Thread : /\ pc[t] = "idle"
                              /\ pc' = [pc EXCEPT ![t] = "lock"]
                              /\ link' = [link EXCEPT ![t] = Head(pending)]
      BY <1>5, CreateTakesIdle
    <2>4. /\ \A u \in Thread : pc'[u] \in Busy <=> pc[u] \in Busy
          /\ \A u \in Thread : pc[u] \in Busy => BoxOf(u)' = BoxOf(u)
      BY <2>3 DEF Shape, Control, Busy, Counted, BoxOf
    <2> QED
      BY <2>1, <2>2, <2>4
  <1>6. CASE PSYNCStartTransfer \/ SkipLink \/ NextLink \/ TakeSlot \/ CreateFails \/ EndTransfer
                \/ StopLoop \/ WaitClients
    <2>1. up' = up
      BY <1>6, Zenon DEF PSYNCStartTransfer, SkipLink, NextLink, TakeSlot, CreateFails, EndTransfer, StopLoop,
         WaitClients, others, service
    <2>2. UNCHANGED <<pc, link, locks, stuck>>
      BY <1>6 DEF PSYNCStartTransfer, SkipLink, NextLink, TakeSlot, CreateFails, EndTransfer, StopLoop,
         WaitClients, others, locking
    <2> QED
      BY <1>1, <2>1, <2>2
  <1>7. ASSUME NEW t \in Thread, Sync(t) PROVE OneThreadEach'
    <2>1. up' = up
      BY <1>7, SyncKeepsOthers, Zenon DEF service
    <2>2. \A u \in Thread : BoxOf(u)' = BoxOf(u) /\ (u # t => pc'[u] = pc[u])
      BY <1>7, SyncKeepsOthers DEF BoxOf
    <2>3. CASE pc[t] \notin Busy /\ pc'[t] \in Busy /\ BoxOf(t) \notin locks /\ pc[t] # "idle"
                    /\ locks' = locks \cup {BoxOf(t)} /\ stuck' = stuck
      <3>1. up
        BY <2>3 DEF Stages
      <3> QED
        BY <2>1, <2>2, <2>3, <3>1
    <2>4. CASE pc[t] \in Busy /\ pc'[t] \notin Busy /\ locks' = locks \ {BoxOf(t)} /\ stuck' = stuck
      BY <2>1, <2>2, <2>4
    <2>6. CASE pc[t] \in Busy /\ pc'[t] \notin Busy /\ stuck' = stuck \cup {BoxOf(t)} /\ locks' = locks
      BY <2>1, <2>2, <2>6
    <2>5. CASE (pc[t] \in Busy <=> pc'[t] \in Busy) /\ locks' = locks /\ stuck' = stuck
      BY <2>1, <2>2, <2>5
    <2> QED
      BY <1>7, <2>3, <2>4, <2>5, <2>6, SyncAndLocks
  <1> QED
    BY <1>2, <1>3, <1>4, <1>5, <1>6, <1>7 DEF Next, PSYNCThreadProc

-----------------------------------------------------------------------------
(* Counting.                                                               *)

\* A step of a thread moves it into the count, out of it, or neither.
LEMMA SyncAndCount ==
    ASSUME Shape, NEW t \in Thread, Sync(t)
    PROVE  \/ pc[t] \notin Counted /\ pc'[t] \in Counted /\ count' = count + 1
           \/ pc[t] \in Counted /\ pc'[t] \notin Counted /\ count' = count - 1
           \/ (pc[t] \in Counted <=> pc'[t] \in Counted) /\ count' = count
  <1> USE DEF Shape, Control, Goto, Counted
  <1>1. CASE Login(t) \/ LoginFails(t)
    BY <1>1 DEF Login, LoginFails, CountUp
  <1>2. CASE CountDown(t)
    BY <1>2 DEF CountDown
  <1>3. CASE LockFails(t) \/ LinkLock(t) \/ LinkUnlock(t) \/ NotifyExit(t)
    BY <1>3 DEF LockFails, LinkLock, LinkUnlock, NotifyExit, system
  <1>4. CASE UPopSChanFillStatus(t) \/ FillStatusFails(t) \/ RetrieveFails(t) \/ Deliver(t)
    BY <1>4 DEF UPopSChanFillStatus, FillStatusFails, RetrieveFails, Deliver, system, Following, Freeing
  <1>5. CASE DeliverFails(t) \/ Mark(t)
    BY <1>5 DEF DeliverFails, Mark, system, Onward, Following, Freeing
  <1>6. CASE WriteSeenDB(t) \/ WriteFails(t) \/ FlushSeenDB(t) \/ Quit(t)
    BY <1>6 DEF WriteSeenDB, WriteFails, FlushSeenDB, Quit, system
  <1> QED
    BY <1>1, <1>2, <1>3, <1>4, <1>5, <1>6 DEF Sync

\* Every step keeps lThreadCount the number of threads in it.
LEMMA CountingStep ==
    ASSUME Shape, Stages, Capacity, Counting, [Next]_vars
    PROVE  Counting'
  <1> DEFINE C == {t \in Thread : pc[t] \in Counted}
  <1>1. ASSUME up' => up, count' = count, \A t \in Thread : pc'[t] \in Counted <=> pc[t] \in Counted
        PROVE  Counting'
    <2>1. C' = C
      BY <1>1
    <2> QED
      BY <1>1, <2>1 DEF Counting
  <1>2. ASSUME AskStop \/ TellStop \/ Cleanup \/ (\E b \in Mailbox : Arrive(b)) \/ UNCHANGED vars
        PROVE  Counting'
    <2>1. up' = up
      BY <1>2, Zenon DEF AskStop, TellStop, Cleanup, Arrive, vars, service
    <2>2. UNCHANGED <<pc, count>>
      BY <1>2 DEF AskStop, TellStop, Cleanup, Arrive, vars
    <2> QED
      BY <1>1, <2>1, <2>2
  <1>3. CASE Start
    <2>1. count' = 0 /\ pc' = pc /\ \A t \in Thread : pc[t] = "idle"
      BY <1>3 DEF Start, Stages
    <2>2. C' = {}
      BY <2>1 DEF Counted
    <2> QED
      BY <2>1, <2>2, FS_EmptySet DEF Counting
  <1>4. CASE Halt
    BY <1>4 DEF Halt, Counting
  <1>5. CASE PSYNCThreadProc
    <2>1. up' = up
      BY <1>5, Zenon DEF PSYNCThreadProc, PSYNCStartTransfer, SkipLink, NextLink, TakeSlot,
         PSYNCCreateSyncThread, CreateFails, EndTransfer, StopLoop, WaitClients, others, service
    <2>2. count' = count
      BY <1>5 DEF PSYNCThreadProc, PSYNCStartTransfer, SkipLink, NextLink, TakeSlot,
         PSYNCCreateSyncThread, CreateFails, EndTransfer, StopLoop, WaitClients, others
    <2>3. pc' = pc \/ PSYNCCreateSyncThread
      BY <1>5 DEF PSYNCThreadProc, PSYNCStartTransfer, SkipLink, NextLink, TakeSlot,
         CreateFails, EndTransfer, StopLoop, WaitClients
    <2>4. \A t \in Thread : pc'[t] \in Counted <=> pc[t] \in Counted
      BY <2>3, CreateTakesIdle DEF Shape, Control, Counted
    <2> QED
      BY <1>1, <2>1, <2>2, <2>4
  <1>6. ASSUME NEW t \in Thread, Sync(t) PROVE Counting'
    <2>1. up' = up
      BY <1>6, SyncKeepsOthers, Zenon DEF service
    <2>2. \A u \in Thread \ {t} : pc'[u] = pc[u]
      BY <1>6, SyncKeepsOthers
    <2>3. CASE pc[t] \notin Counted /\ pc'[t] \in Counted /\ count' = count + 1
      <3>1. C' = C \cup {t} /\ t \notin C
        BY <2>2, <2>3
      <3>2. Cardinality(C') = Cardinality(C) + 1
        BY <3>1, ThreadsFinite, FS_AddElement
      <3> QED
        BY <2>1, <2>3, <3>2 DEF Counting
    <2>4. CASE pc[t] \in Counted /\ pc'[t] \notin Counted /\ count' = count - 1
      <3>1. C' = C \ {t} /\ t \in C
        BY <2>2, <2>4
      <3>2. Cardinality(C') = Cardinality(C) - 1
        BY <3>1, ThreadsFinite, FS_RemoveElement
      <3> QED
        BY <2>1, <2>4, <3>2 DEF Counting
    <2>5. CASE (pc[t] \in Counted <=> pc'[t] \in Counted) /\ count' = count
      BY <1>1, <2>1, <2>2, <2>5
    <2> QED
      BY <1>6, <2>3, <2>4, <2>5, SyncAndCount
  <1> QED
    BY <1>2, <1>3, <1>4, <1>5, <1>6 DEF Next

\* A thread gives its slot back when it ends, and only then.
LEMMA SyncAndSlots ==
    ASSUME Shape, NEW t \in Thread, Sync(t)
    PROVE  /\ pc[t] # "idle"
           /\ \/ pc'[t] = "idle" /\ slots' = slots + 1
              \/ pc'[t] # "idle" /\ slots' = slots
  <1> USE DEF Shape, Control, Goto
  <1>1. CASE Login(t) \/ LoginFails(t)
    BY <1>1 DEF Login, LoginFails, CountUp
  <1>2. CASE CountDown(t) \/ NotifyExit(t) \/ LinkLock(t) \/ LinkUnlock(t)
    BY <1>2 DEF CountDown, NotifyExit, LinkLock, LinkUnlock
  <1>3. CASE LockFails(t)
    BY <1>3 DEF LockFails, system
  <1>4. CASE UPopSChanFillStatus(t) \/ FillStatusFails(t) \/ RetrieveFails(t) \/ Deliver(t)
    BY <1>4 DEF UPopSChanFillStatus, FillStatusFails, RetrieveFails, Deliver, system, Following, Freeing
  <1>5. CASE DeliverFails(t) \/ Mark(t)
    BY <1>5 DEF DeliverFails, Mark, system, Onward, Following, Freeing
  <1>6. CASE WriteSeenDB(t) \/ WriteFails(t) \/ FlushSeenDB(t) \/ Quit(t)
    BY <1>6 DEF WriteSeenDB, WriteFails, FlushSeenDB, Quit, system
  <1> QED
    BY <1>1, <1>2, <1>3, <1>4, <1>5, <1>6 DEF Sync

\* No step makes more slots than there were.
LEMMA CapacityStep ==
    ASSUME Shape, Stages, Capacity, [Next]_vars
    PROVE  Capacity'
  <1> DEFINE Working == {t \in Thread : pc[t] # "idle"}
             given == IF main = "create" THEN 1 ELSE 0
  <1>1. /\ slots \in Nat /\ Slots \in Nat
        /\ IsFiniteSet(Working) /\ Cardinality(Working) \in Nat
        /\ slots + Cardinality(Working) + given <= Slots
    BY ThreadsFinite, BoundsAssumption DEF Capacity, Shape, Scalars
  <1> HIDE DEF Working
  <1>2. ASSUME pc' = pc, slots' \in Nat, slots' + given' <= slots + given PROVE Capacity'
    <2>1. Cardinality(Working') = Cardinality(Working)
      BY <1>2 DEF Working
    <2>2. \A s, c, g, a, b \in Nat : a + c + b <= Slots /\ s + g <= a + b => s + c + g <= Slots
      BY <1>1
    <2>3. given \in Nat /\ given' \in Nat
      OBVIOUS
    <2>4. slots' + Cardinality(Working) + given' <= Slots
      <3> HIDE DEF given
      <3> QED
        BY <1>1, <1>2, <2>2, <2>3
    <2> QED
      BY <2>1, <2>4 DEF Capacity, Working
  <1>3. ASSUME \A t \in Thread : pc'[t] = "idle", slots' \in 0..Slots, main' # "create" PROVE Capacity'
    <2>1. Working' = {}
      BY <1>3 DEF Working
    <2>2. Cardinality(Working') = 0
      BY <2>1, FS_EmptySet
    <2>3. \A s \in 0..Slots : s + 0 + 0 <= Slots
      BY <1>1
    <2>4. slots' + 0 + 0 <= Slots
      BY <1>3, <2>3
    <2>5. given' = 0
      BY <1>3
    <2> QED
      BY <2>2, <2>4, <2>5 DEF Capacity, Working
  <1>4. CASE Start
    <2>1. slots' \in 0..Slots /\ main' # "create" /\ pc' = pc
      <3>1. starts + 1 \in 1..MaxStarts
        BY <1>4, BoundsAssumption DEF Start, Shape, Scalars
      <3>2. NumSyncThreads[starts + 1] \in 1..Slots
        BY <3>1, BoundsAssumption
      <3> QED
        BY <1>1, <1>4, <3>2 DEF Start
    <2>2. \A t \in Thread : pc[t] = "idle"
      BY <1>4 DEF Start, Stages
    <2> QED
      BY <1>3, <2>1, <2>2
  <1>5. CASE Halt
    <2>1. slots <= Slots
      BY <1>1
    <2> QED
      BY <1>1, <1>3, <1>5, <2>1 DEF Halt
  <1>6. CASE AskStop \/ TellStop \/ Cleanup
    <2>1. pc' = pc /\ slots' = slots /\ (main' = "create" => main = "create")
      BY <1>6 DEF AskStop, TellStop, Cleanup, round
    <2>2. slots' \in Nat /\ slots' + given' <= slots + given
      BY <1>1, <2>1
    <2> QED
      BY <1>2, <2>1, <2>2
  <1>7. CASE PSYNCStartTransfer \/ SkipLink \/ NextLink \/ EndTransfer \/ StopLoop \/ WaitClients
    <2>1. pc' = pc /\ slots' = slots /\ main' # "create"
      BY <1>7 DEF PSYNCStartTransfer, SkipLink, NextLink, EndTransfer, StopLoop, WaitClients, others
    <2>2. slots' \in Nat /\ slots' + given' <= slots + given
      BY <1>1, <2>1
    <2> QED
      BY <1>2, <2>1, <2>2
  <1>8. CASE TakeSlot
    <2>1. /\ pc' = pc /\ slots' = slots - 1 /\ slots > 0 /\ main = "slot"
      BY <1>8 DEF TakeSlot
    <2>2. slots' \in Nat /\ slots' + given' <= slots + given
      BY <1>1, <2>1
    <2> QED
      BY <1>2, <2>1, <2>2
  <1>9. CASE CreateFails
    <2>1. /\ pc' = pc /\ slots' = slots + 1 /\ main = "create" /\ main' = "sleep"
      BY <1>9 DEF CreateFails
    <2>2. slots' \in Nat /\ slots' + given' <= slots + given
      BY <1>1, <2>1
    <2> QED
      BY <1>2, <2>1, <2>2
  <1>10. CASE PSYNCCreateSyncThread
    <2>1. main = "create" /\ main' = "scan" /\ slots' = slots
      BY <1>10 DEF PSYNCCreateSyncThread
    <2>2. PICK t \in Thread : pc[t] = "idle" /\ pc' = [pc EXCEPT ![t] = "lock"]
      BY <1>10, CreateTakesIdle
    <2>3. Working' = Working \cup {t} /\ t \notin Working
      BY <2>2 DEF Shape, Control, Working
    <2>4. Cardinality(Working') = Cardinality(Working) + 1
      BY <1>1, <2>3, FS_AddElement
    <2>5. slots' + Cardinality(Working') + given' <= Slots
      BY <1>1, <2>1, <2>4
    <2> QED
      BY <2>5 DEF Capacity, Working
  <1>11. ASSUME NEW t \in Thread, Sync(t) PROVE Capacity'
    <2>1. main' = main /\ \A u \in Thread \ {t} : pc'[u] = pc[u]
      BY <1>11, SyncKeepsOthers DEF round
    <2>2. pc[t] # "idle"
      BY <1>11, SyncAndSlots
    <2>3. CASE pc'[t] = "idle" /\ slots' = slots + 1
      <3>1. Working' = Working \ {t} /\ t \in Working
        BY <2>1, <2>2, <2>3 DEF Working
      <3>2. Cardinality(Working') = Cardinality(Working) - 1
        BY <1>1, <3>1, FS_RemoveElement
      <3>3. slots' + Cardinality(Working') + given' <= Slots
        BY <1>1, <2>1, <2>3, <3>2
      <3> QED
        BY <3>3 DEF Capacity, Working
    <2>4. CASE pc'[t] # "idle" /\ slots' = slots
      <3>1. Working' = Working
        BY <2>1, <2>2, <2>4 DEF Working
      <3>2. slots' + Cardinality(Working') + given' <= Slots
        BY <1>1, <2>1, <2>4, <3>1
      <3> QED
        BY <3>2 DEF Capacity, Working
    <2> QED
      BY <1>11, <2>3, <2>4, SyncAndSlots
  <1>12. ASSUME (\E b \in Mailbox : Arrive(b)) \/ UNCHANGED vars PROVE Capacity'
    <2>1. pc' = pc /\ slots' = slots /\ main' = main
      BY <1>12 DEF Arrive, vars, round
    <2>2. slots' \in Nat /\ slots' + given' <= slots + given
      BY <1>1, <2>1
    <2> QED
      BY <1>2, <2>1, <2>2
  <1> QED
    BY <1>4, <1>5, <1>6, <1>7, <1>8, <1>9, <1>10, <1>11, <1>12 DEF Next, PSYNCThreadProc

-----------------------------------------------------------------------------
(* What was seen was delivered.                                            *)

\* Deliveries are kept, and the message that a session is at is added to them.
LEMMA DeliveredStep ==
    ASSUME Shape, Stages
    PROVE  /\ Delivered \in [Mailbox -> SUBSET Message]
           /\ UNCHANGED outcome => UNCHANGED Delivered
           /\ \A t \in Thread :
                Deliver(t) \/ (pc[t] = "fetch" /\ Saved(BoxOf(t), First(todo[t])))
                    => Delivered' = [Delivered EXCEPT ![BoxOf(t)] = @ \cup {First(todo[t])}]
  <1>1. Delivered \in [Mailbox -> SUBSET Message]
    BY DEF Delivered, Shape, Files
  <1>2. UNCHANGED outcome => UNCHANGED Delivered
    BY DEF Delivered, outcome
  <1>3. ASSUME NEW t \in Thread, Deliver(t) \/ (pc[t] = "fetch" /\ Saved(BoxOf(t), First(todo[t])))
        PROVE  Delivered' = [Delivered EXCEPT ![BoxOf(t)] = @ \cup {First(todo[t])}]
    <2> DEFINE c == BoxOf(t)
               m == First(todo[t])
    <2>1. c \in Mailbox
      BY <1>3, BoxOfType DEF Deliver
    <2>2. \/ done' = [done EXCEPT ![c] = @ \cup {m}] /\ UNCHANGED <<partly, cut>>
          \/ partly' = [partly EXCEPT ![c] = @ \cup {m}] /\ UNCHANGED <<done, cut>>
          \/ cut' = [cut EXCEPT ![c] = @ \cup {m}] /\ UNCHANGED <<done, partly>>
      BY <1>3 DEF Deliver, Saved
    <2>3. \A b \in Mailbox : done'[b] \cup partly'[b] \cup cut'[b] =
                IF b = c THEN Delivered[b] \cup {m} ELSE Delivered[b]
      BY <2>1, <2>2 DEF Shape, Files, Delivered
    <2> QED
      BY <2>3, <2>1 DEF Delivered
  <1> QED
    BY <1>1, <1>2, <1>3

\* Every step keeps what was seen among what was delivered.
LEMMA SeenIsDoneStep ==
    ASSUME Shape, Stages, Capacity, OneThreadEach, SeenIsDone, [Next]_vars
    PROVE  SeenIsDone'
  <1> USE DEF SeenIsDone, NothingIsLost, Gone
  <1>0. /\ Delivered \in [Mailbox -> SUBSET Message]
        /\ UNCHANGED outcome => UNCHANGED Delivered
        /\ \A t \in Thread :
                Deliver(t) \/ (pc[t] = "fetch" /\ Saved(BoxOf(t), First(todo[t])))
                    => Delivered' = [Delivered EXCEPT ![BoxOf(t)] = @ \cup {First(todo[t])}]
    BY DeliveredStep
  <1>1. ASSUME UNCHANGED <<pc, link, todo, seen, marks, Delivered, db, arrived, box>> PROVE SeenIsDone'
    BY <1>1 DEF BoxOf
  <1>2. CASE Start \/ AskStop \/ TellStop \/ Cleanup
    BY <1>0, <1>1, <1>2 DEF Start, AskStop, TellStop, Cleanup, session, remote, history
  <1>3. CASE Halt
    BY <1>0, <1>3 DEF Halt, remote, Listing
  <1>4. CASE PSYNCCreateSyncThread
    <2>1. UNCHANGED <<todo, seen, marks, Delivered, db, arrived, box>>
      BY <1>0, <1>4 DEF PSYNCCreateSyncThread, others, session, remote, history
    <2>2. PICK t \in Thread : /\ pc[t] = "idle"
                              /\ pc' = [pc EXCEPT ![t] = "lock"]
                              /\ link' = [link EXCEPT ![t] = Head(pending)]
      BY <1>4, CreateTakesIdle
    <2> QED
      BY <2>1, <2>2 DEF Shape, Control, BoxOf, Listing
  <1>5. CASE PSYNCStartTransfer \/ SkipLink \/ NextLink \/ TakeSlot \/ CreateFails \/ EndTransfer
                \/ StopLoop \/ WaitClients
    BY <1>0, <1>1, <1>5 DEF PSYNCStartTransfer, SkipLink, NextLink, TakeSlot, CreateFails, EndTransfer,
       StopLoop, WaitClients, others, session, remote, history
  <1>6. ASSUME NEW t \in Thread, Sync(t) PROVE SeenIsDone'
    <2> DEFINE Here == /\ NothingIsLost'
                       /\ \A b \in Mailbox : Delivered[b] \subseteq Delivered'[b]
                       /\ pc'[t] \in Listing =>
                            seen'[t] \cup marks'[t] \subseteq Delivered'[BoxOf(t)]
                       /\ pc'[t] = "mark" => First(todo'[t]) \in Delivered'[BoxOf(t)]
    <2> USE DEF Shape, Control, Lists, Files
    <2>1. ASSUME LinkLock(t) \/ LockFails(t) \/ Login(t) \/ LoginFails(t)
                    \/ CountDown(t) \/ LinkUnlock(t) \/ NotifyExit(t)
          PROVE  Here
      BY <1>0, <2>1 DEF LinkLock, LockFails, Login, LoginFails, CountUp, CountDown, LinkUnlock, NotifyExit,
         remote, history, Goto, Listing
    <2>2. pc[t] # "idle" => BoxOf(t) \in Mailbox
      BY BoxOfType
    <2>3. ASSUME UPopSChanFillStatus(t) PROVE Here
      BY <1>0, <2>2, <2>3 DEF UPopSChanFillStatus, remote, history, Goto, Following, Freeing, Stages, Listing
    <2>4. ASSUME FillStatusFails(t) \/ RetrieveFails(t) PROVE Here
      BY <1>0, <2>4 DEF FillStatusFails, RetrieveFails, remote, history, Goto, Freeing, Stages, Listing
    <2>5. ASSUME Deliver(t) PROVE Here
      <3>1. Delivered' = [Delivered EXCEPT ![BoxOf(t)] = @ \cup {First(todo[t])}]
        BY <1>0, <2>5
      <3>2. /\ pc[t] = "fetch" /\ pc' = [pc EXCEPT ![t] = "mark"]
            /\ UNCHANGED <<db, arrived, box, todo, seen, marks>>
        BY <2>5 DEF Deliver, session, remote, Goto
      <3> QED
        BY <1>0, <2>2, <3>1, <3>2 DEF Listing
    <2>6. ASSUME DeliverFails(t) PROVE Here
      <3>1. pc[t] = "fetch" /\ UNCHANGED <<db, arrived, box, seen, marks>>
        BY <2>6 DEF DeliverFails, remote
      <3>2. CASE /\ Saved(BoxOf(t), First(todo[t]))
                 /\ Goto(t, "mark") /\ UNCHANGED todo
        <4>1. Delivered' = [Delivered EXCEPT ![BoxOf(t)] = @ \cup {First(todo[t])}]
          BY <1>0, <3>1, <3>2
        <4> QED
          BY <1>0, <2>2, <3>1, <3>2, <4>1 DEF Goto, Listing
      <3>3. CASE Onward(t) /\ UNCHANGED outcome
        BY <1>0, <2>2, <3>1, <3>3 DEF Onward, Goto, Following, Freeing, Listing
      <3> QED
        BY <2>6, <3>2, <3>3 DEF DeliverFails
    <2>7. ASSUME Mark(t) PROVE Here
      BY <1>0, <2>2, <2>7 DEF Mark, remote, Goto, Onward, Following, Freeing, Listing
    <2>8. ASSUME WriteSeenDB(t) PROVE Here
      BY <1>0, <2>2, <2>8 DEF WriteSeenDB, session, remote, Goto, Listing
    <2>9. ASSUME WriteFails(t) PROVE Here
      BY <1>0, <2>9 DEF WriteFails, session, remote, Goto, Listing
    <2>10. ASSUME FlushSeenDB(t) PROVE Here
      BY <1>0, <2>2, <2>10 DEF FlushSeenDB, session, remote, Goto, Listing
    <2>11. ASSUME Quit(t) PROVE Here
      BY <1>0, <2>2, <2>11 DEF Quit, Goto, Listing
    <2>12. Here
      BY <1>6, <2>1, <2>3, <2>4, <2>5, <2>6, <2>7, <2>8, <2>9, <2>10, <2>11 DEF Sync
    <2>13. ASSUME NEW u \in Thread \ {t}
           PROVE  /\ pc'[u] \in Listing => seen'[u] \cup marks'[u] \subseteq Delivered'[BoxOf(u)']
                  /\ pc'[u] = "mark" => First(todo'[u]) \in Delivered'[BoxOf(u)']
      <3>1. /\ BoxOf(u)' = BoxOf(u) /\ pc'[u] = pc[u]
            /\ todo'[u] = todo[u] /\ seen'[u] = seen[u] /\ marks'[u] = marks[u]
        BY <1>6, SyncKeepsOthers DEF BoxOf
      <3>2. pc[u] # "idle" => Delivered[BoxOf(u)] \subseteq Delivered'[BoxOf(u)]
        BY <2>12, BoxOfType
      <3> QED
        BY <3>1, <3>2 DEF Listing
    <2>14. BoxOf(t)' = BoxOf(t)
      BY <1>6, SyncKeepsOthers DEF BoxOf
    <2> QED
      BY <2>12, <2>13, <2>14
  <1>7. ASSUME (\E b \in Mailbox : Arrive(b)) PROVE SeenIsDone'
    <2>1. PICK b \in Mailbox : Arrive(b)
      BY <1>7
    <2>2. UNCHANGED <<pc, link, todo, seen, marks, Delivered, db>>
      BY <1>0, <2>1 DEF Arrive, session, history
    <2>3. /\ arrived' = [arrived EXCEPT ![b] = @ + 1]
          /\ box' = [box EXCEPT ![b] = @ \cup {arrived'[b]}]
      BY <2>1 DEF Arrive
    <2>4. \A c \in Mailbox : (1..arrived'[c] \ box'[c]) \subseteq (1..arrived[c] \ box[c])
      BY <2>3 DEF Shape, Files, Message
    <2> QED
      BY <2>2, <2>4 DEF BoxOf
  <1>8. CASE UNCHANGED vars
    BY <1>0, <1>1, <1>8 DEF vars, session, remote, history
  <1> QED
    BY <1>2, <1>3, <1>4, <1>5, <1>6, <1>7, <1>8 DEF Next, PSYNCThreadProc

-----------------------------------------------------------------------------
(* The invariant, and what follows from it.                                *)

\* The thread count is never negative, also when the server is down.
LEMMA CountIsNat ==
    ASSUME IInv, count \in Nat, Counting', [Next]_vars
    PROVE  count' \in Nat
  <1>1. CASE up'
    <2>1. count' = Cardinality({t \in Thread : pc'[t] \in Counted})
      BY <1>1 DEF Counting
    <2> QED
      BY <2>1, ThreadsFinite
  <1>2. CASE ~up'
    <2>1. ASSUME NEW t \in Thread, Sync(t) PROVE FALSE
      <3>1. Shape /\ Stages
        BY DEF IInv
      <3>2. pc[t] # "idle"
        BY <2>1, <3>1, SyncAndSlots
      <3>3. up
        BY <3>1, <3>2 DEF Stages
      <3> QED
        BY <1>2, <2>1, <3>1, <3>3, SyncKeepsOthers, Zenon DEF service
    <2>2. ASSUME Start \/ AskStop \/ TellStop \/ Cleanup \/ Halt \/ PSYNCThreadProc PROVE count' \in Nat
      BY <2>2 DEF Start, AskStop, TellStop, Cleanup, Halt, PSYNCThreadProc, PSYNCStartTransfer, SkipLink,
         NextLink, TakeSlot, PSYNCCreateSyncThread, CreateFails, EndTransfer, StopLoop, WaitClients, others
    <2>3. ASSUME (\E b \in Mailbox : Arrive(b)) \/ UNCHANGED vars PROVE count' \in Nat
      BY <2>3 DEF Arrive, vars
    <2> QED
      BY <2>1, <2>2, <2>3 DEF Next
  <1> QED
    BY <1>1, <1>2

\* The invariant holds at first.
LEMMA InitIInv == Init => IInv /\ count \in Nat
  <1> SUFFICES ASSUME Init PROVE IInv /\ count \in Nat
    OBVIOUS
  <1> USE DEF Init
  <1>1. Flags
    BY Zenon DEF Flags
  <1>2. Scalars /\ Control /\ Lists /\ Files
    BY BoundsAssumption DEF Scalars, Control, Lists, Files, Counted, Message
  <1>3. Counters
    BY DEF Counters
  <1>4. Stages /\ OneThreadEach
    BY DEF Stages, OneThreadEach, Busy, Counted
  <1>5. Counting
    BY Zenon DEF Counting
  <1>6. Capacity
    <2>1. {t \in Thread : pc[t] # "idle"} = {}
      OBVIOUS
    <2>2. Cardinality({t \in Thread : pc[t] # "idle"}) = 0
      BY <2>1, FS_EmptySet
    <2>3. slots = 0 /\ main = "none" /\ 0 + 0 + 0 <= Slots
      BY BoundsAssumption
    <2> QED
      BY <2>2, <2>3 DEF Capacity
  <1>7. SeenIsDone
    BY DEF SeenIsDone, NothingIsLost, Gone, Listing
  <1> QED
    BY <1>1, <1>2, <1>3, <1>4, <1>5, <1>6, <1>7 DEF IInv, Shape

\* Every step keeps the invariant.
LEMMA IInvStep ==
    ASSUME IInv, count \in Nat, [Next]_vars
    PROVE  (IInv /\ count \in Nat)'
  <1>1. Shape' /\ Stages' /\ OneThreadEach' /\ Counting' /\ Capacity' /\ SeenIsDone'
    BY ShapeStep, StagesStep, OneThreadEachStep, CountingStep, CapacityStep, SeenIsDoneStep DEF IInv
  <1> QED
    BY <1>1, CountIsNat DEF IInv

\* The inductive invariant, of every state that PSYNCThreadProc and the threads
\* it starts (PSYNCThreadSyncProc) reach.
THEOREM Invariance == Spec => [](IInv /\ count \in Nat)
  BY InitIInv, IInvStep, PTL DEF Spec

\* Every variable keeps to its type: no more slots than the semaphore was given
\* at the start, and a thread count (PSYNCThreadCountAdd) that is never negative.
THEOREM SpecTypeOK == Spec => []TypeOK
  <1>1. IInv /\ count \in Nat => TypeOK
    <2> SUFFICES ASSUME IInv, count \in Nat PROVE TypeOK
      OBVIOUS
    <2>1. slots \in 0..Slots
      <3>1. slots \in Nat /\ Slots \in Nat
        BY BoundsAssumption DEF IInv, Shape, Scalars
      <3>2. Cardinality({t \in Thread : pc[t] # "idle"}) \in Nat
        BY ThreadsFinite
      <3> QED
        BY <3>1, <3>2 DEF IInv, Capacity
    <2>2. Flags
      BY DEF IInv, Shape
    <2>3. Scalars /\ Control /\ Lists /\ Files /\ Counters
      BY DEF IInv, Shape
    <2>4. up \in BOOLEAN /\ shutdown \in {"no", "asked", "told"} /\ closed \in BOOLEAN
      BY <2>2, Zenon DEF Flags
    <2>5. /\ main \in {"none", "sleep", "scan", "slot", "create", "wait", "ended", "expired"}
          /\ syncs \in 0..MaxSyncs /\ faults \in 0..MaxFaults /\ starts \in 0..MaxStarts
      BY <2>3 DEF Scalars
    <2> QED
      BY <2>1, <2>3, <2>4, <2>5, Zenon DEF TypeOK, Control, Lists, Files, Counters
  <1> QED
    BY <1>1, Invariance, PTL

\* No message leaves its remote mailbox (UPopDeleteMessage and QUIT), or is
\* written down as seen (UPopSChanWriteSeenDB), of which no delivery succeeded,
\* whatever fails and whenever the server ends; and none that was not delivered
\* whole and to all its recipients, but where USmlDeliverFetchedMsg passed some
\* over or UPopRetrieveMessage did not notice that its copy is cut short.
THEOREM SpecNothingIsLost == Spec => []NothingIsLost
  <1>1. IInv => NothingIsLost
    BY DEF IInv, SeenIsDone
  <1> QED
    BY <1>1, Invariance, PTL

\* A lock file (GwLkLinkLock) that could be removed belongs to exactly one thread
\* at work.
THEOREM SpecLocksAreHeld == Spec => []LocksAreHeld
  <1>1. IInv => LocksAreHeld
    <2> SUFFICES ASSUME IInv, up, NEW b \in locks \ stuck
                 PROVE  Cardinality({t \in Thread : BoxOf(t) = b
                            /\ pc[t] \in Counted \cup {"count", "unlock"}}) = 1
      BY Zenon DEF LocksAreHeld
    <2>1. PICK t \in Thread : pc[t] \in Busy /\ BoxOf(t) = b
      BY DEF IInv, OneThreadEach
    <2>2. {u \in Thread : BoxOf(u) = b /\ pc[u] \in Counted \cup {"count", "unlock"}} = {t}
      BY <2>1 DEF IInv, OneThreadEach, Busy
    <2> QED
      BY <2>2, FS_Singleton
  <1> QED
    BY <1>1, Invariance, PTL

\* The main thread that finds no thread counted ("Wait for client completion")
\* is right, unless the block was closed before.
THEOREM SpecServiceOutlivesClients == Spec => ServiceOutlivesClients
  <1> DEFINE Step == main = "wait" /\ main' = "ended" /\ ~closed
                        => \A t \in Thread : pc[t] \notin Counted
  <1>1. ASSUME IInv, [Next]_vars PROVE [Step]_vars
    <2> SUFFICES ASSUME Next, main = "wait", main' = "ended", ~closed
                 PROVE  \A t \in Thread : pc[t] \notin Counted
      BY <1>1, Zenon
    <2>1. ASSUME NEW t \in Thread, Sync(t) PROVE FALSE
      <3>1. main' = main
        BY <1>1, <2>1, SyncKeepsOthers DEF IInv, round
      <3> QED
        BY <3>1
    <2>2. WaitClients
      BY <2>1 DEF Next, Start, AskStop, TellStop, Cleanup, Halt, PSYNCThreadProc, PSYNCStartTransfer, SkipLink,
         NextLink, TakeSlot, PSYNCCreateSyncThread, CreateFails, EndTransfer, StopLoop, Arrive, round
    <2>3. up /\ main' \in IF count = 0 THEN {"ended"} ELSE {"expired"}
      BY <2>2, Zenon DEF WaitClients
    <2>4. count = 0
      BY <2>3
    <2>5. count = Cardinality({t \in Thread : pc[t] \in Counted})
      BY <1>1, <2>3, Zenon DEF IInv, Counting
    <2>6. {t \in Thread : pc[t] \in Counted} = {}
      BY <2>4, <2>5, ThreadsFinite, FS_EmptySet
    <2> QED
      BY <2>6
  <1>2. IInv /\ [Next]_vars => [Step]_vars
    BY <1>1
  <1> QED
    BY <1>2, Invariance, PTL DEF Spec, ServiceOutlivesClients

-----------------------------------------------------------------------------
(* Why a message is fetched again.                                         *)

\* Only links with Leave write a database.
LEMMA DatabasesOfLeaveStep ==
    ASSUME Agreement, IInv, DatabasesOfLeave, [Next]_vars
    PROVE  DatabasesOfLeave'
  <1> USE DEF IInv, Shape, Control, Files, DatabasesOfLeave
  <1>1. ASSUME db' = db PROVE DatabasesOfLeave'
    BY <1>1
  <1>2. ASSUME NEW t \in Thread, WriteSeenDB(t) PROVE DatabasesOfLeave'
    BY <1>2 DEF WriteSeenDB
  <1>3. ASSUME NEW t \in Thread, FlushSeenDB(t) PROVE DatabasesOfLeave'
    <2>1. link[t] \in Link /\ link[t] \in Leaves
      BY <1>3 DEF FlushSeenDB, Stages, Leave
    <2>2. \A b \in Mailbox : b # Home[link[t]] => db'[b] = db[b]
      BY <1>3 DEF FlushSeenDB, BoxOf
    <2>3. \A l \in Link : Home[l] \in Mailbox
      BY DEF Mailbox
    <2> QED
      BY <2>1, <2>2, <2>3 DEF Agreement
  <1>4. ASSUME NEW t \in Thread, Sync(t), ~WriteSeenDB(t), ~FlushSeenDB(t) PROVE db' = db
    BY <1>4 DEF Sync, LinkLock, LockFails, Login, LoginFails, CountUp, UPopSChanFillStatus,
       FillStatusFails, RetrieveFails, Deliver, DeliverFails, Mark, WriteFails, Quit, CountDown, LinkUnlock,
       NotifyExit
  <1>5. ASSUME Start \/ AskStop \/ TellStop \/ Cleanup \/ Halt \/ PSYNCThreadProc PROVE db' = db
    BY <1>5 DEF Start, AskStop, TellStop, Cleanup, Halt, PSYNCThreadProc, PSYNCStartTransfer, SkipLink,
       NextLink, TakeSlot, PSYNCCreateSyncThread, CreateFails, EndTransfer, StopLoop, WaitClients, others
  <1>6. ASSUME (\E b \in Mailbox : Arrive(b)) \/ UNCHANGED vars PROVE db' = db
    BY <1>6 DEF Arrive, vars
  <1> QED
    BY <1>1, <1>2, <1>3, <1>4, <1>5, <1>6 DEF Next

\* A thread works on its own mailbox.
LEMMA SyncKeepsElsewhere ==
    ASSUME Shape, NEW t \in Thread, Sync(t)
    PROVE  /\ arrived' = arrived
           /\ \A b \in Mailbox : b # BoxOf(t) =>
                db'[b] = db[b] /\ box'[b] = box[b] /\ got'[b] = got[b] /\ reasons'[b] = reasons[b]
  <1> USE DEF Shape, Files, Counters, Again
  <1>1. CASE LinkLock(t) \/ LockFails(t) \/ Login(t) \/ LoginFails(t)
                \/ CountDown(t) \/ LinkUnlock(t) \/ NotifyExit(t)
    BY <1>1 DEF LinkLock, LockFails, Login, LoginFails, CountUp, CountDown, LinkUnlock, NotifyExit,
       remote, history
  <1>2. CASE UPopSChanFillStatus(t) \/ FillStatusFails(t) \/ RetrieveFails(t)
    BY <1>2 DEF UPopSChanFillStatus, FillStatusFails, RetrieveFails, remote, history
  <1>3. CASE Deliver(t)
    BY <1>3 DEF Deliver, remote
  <1>4. CASE DeliverFails(t)
    BY <1>4 DEF DeliverFails, remote
  <1>5. CASE Mark(t)
    BY <1>5 DEF Mark, remote
  <1>6. CASE WriteSeenDB(t)
    BY <1>6 DEF WriteSeenDB, remote
  <1>7. CASE WriteFails(t)
    BY <1>7 DEF WriteFails, remote
  <1>8. CASE FlushSeenDB(t)
    BY <1>8 DEF FlushSeenDB, remote
  <1>9. CASE Quit(t)
    BY <1>9 DEF Quit
  <1> QED
    BY <1>1, <1>2, <1>3, <1>4, <1>5, <1>6, <1>7, <1>8, <1>9 DEF Sync

\* Only a thread that has the lock of its mailbox changes what is in it, or its
\* database.
LEMMA SyncNeedsLock ==
    ASSUME NEW t \in Thread, Sync(t), pc[t] \notin Busy
    PROVE  db' = db /\ box' = box
  BY DEF Sync, LinkLock, LockFails, Login, LoginFails, CountUp, UPopSChanFillStatus, FillStatusFails,
     RetrieveFails, Deliver, DeliverFails, Mark, WriteSeenDB, WriteFails, FlushSeenDB, Quit, CountDown,
     LinkUnlock, NotifyExit, remote, Busy, Counted

\* Every step keeps what is to fetch apart from what was fetched.
LEMMA TodoIsNewStep ==
    ASSUME IInv, TodoIsNew, DatabasesOfLeave, [Next]_vars
    PROVE  TodoIsNew'
  <1> USE DEF IInv, Shape, TodoIsNew
  <1>1. ASSUME UNCHANGED <<pc, link, todo, seen, marks, db, arrived, box>> PROVE TodoIsNew'
    BY <1>1 DEF NewTodo, BoxOf, Leave
  <1>2. CASE Start \/ AskStop \/ TellStop \/ Cleanup
    BY <1>1, <1>2 DEF Start, AskStop, TellStop, Cleanup, session, remote
  <1>3. CASE Halt
    BY <1>3 DEF Halt, remote, NewTodo, Listing
  <1>4. CASE PSYNCCreateSyncThread
    <2>1. UNCHANGED <<todo, seen, marks, db, arrived, box>>
      BY <1>4 DEF PSYNCCreateSyncThread, others, session, remote
    <2>2. PICK t \in Thread : /\ pc[t] = "idle"
                              /\ pc' = [pc EXCEPT ![t] = "lock"]
                              /\ link' = [link EXCEPT ![t] = Head(pending)]
      BY <1>4, CreateTakesIdle
    <2> QED
      BY <2>1, <2>2 DEF Control, NewTodo, BoxOf, Leave, Listing
  <1>5. CASE PSYNCStartTransfer \/ SkipLink \/ NextLink \/ TakeSlot \/ CreateFails \/ EndTransfer
                \/ StopLoop \/ WaitClients
    BY <1>1, <1>5 DEF PSYNCStartTransfer, SkipLink, NextLink, TakeSlot, CreateFails, EndTransfer,
       StopLoop, WaitClients, others, session, remote
  <1>6. ASSUME NEW t \in Thread, Sync(t) PROVE TodoIsNew'
    <2>1. /\ arrived' = arrived /\ link' = link
          /\ \A b \in Mailbox : b # BoxOf(t) => db'[b] = db[b] /\ box'[b] = box[b]
          /\ \A u \in Thread \ {t} : /\ pc'[u] = pc[u] /\ todo'[u] = todo[u]
                                     /\ seen'[u] = seen[u] /\ marks'[u] = marks[u]
      BY <1>6, SyncKeepsElsewhere, SyncKeepsOthers
    <2>2. ASSUME NEW u \in Thread \ {t} PROVE NewTodo(u)'
      <3>1. CASE pc[u] \notin Listing
        BY <2>1, <3>1 DEF NewTodo
      <3>2. CASE pc[u] \in Listing /\ BoxOf(u) # BoxOf(t)
        <4>1. BoxOf(u) \in Mailbox
          BY <3>2, BoxOfType DEF Listing
        <4> QED
          BY <2>1, <3>2, <4>1 DEF NewTodo, BoxOf, Leave
      <3>3. CASE pc[u] \in Listing /\ BoxOf(u) = BoxOf(t)
        <4>1. pc[t] \notin Busy
          BY <3>3 DEF OneThreadEach, Listing, Busy, Counted
        <4>2. db' = db /\ box' = box
          BY <1>6, <4>1, SyncNeedsLock
        <4> QED
          BY <2>1, <3>3, <4>2 DEF NewTodo, BoxOf, Leave
      <3> QED
        BY <3>1, <3>2, <3>3
    <2> DEFINE b0 == BoxOf(t)
    <2>3. b0 \in Mailbox /\ link[t] \in Link /\ b0 = Home[link[t]]
      BY <1>6, SyncAndSlots, BoxOfType DEF Control, BoxOf
    <2> DEFINE Here == NewTodo(t)' /\ box'[b0] \subseteq 1..arrived[b0]
    <2> HIDE DEF b0
    <2>4. BoxOf(t) = b0 /\ BoxOf(t)' = b0 /\ Leave(t)' = Leave(t)
      BY <2>1 DEF b0, BoxOf, Leave
    <2> USE DEF NewTodo, Control, Lists, Files, Listing, Goto
    <2>5. ASSUME LinkLock(t) \/ LockFails(t) \/ Login(t) \/ LoginFails(t)
                    \/ CountDown(t) \/ LinkUnlock(t) \/ NotifyExit(t)
          PROVE  Here
      BY <2>3, <2>5 DEF LinkLock, LockFails, Login, LoginFails, CountUp, CountDown, LinkUnlock, NotifyExit,
         remote
    <2>6. ASSUME UPopSChanFillStatus(t) PROVE Here
      <3>1. pc[t] = "fill" /\ marks' = marks /\ marks[t] = {} /\ UNCHANGED <<box, db>>
        BY <2>6 DEF UPopSChanFillStatus, remote, Stages
      <3>2. ~Leave(t) => db[b0] = {}
        BY <2>3 DEF DatabasesOfLeave, Leave
      <3> DEFINE known == IF Leave(t) THEN box[b0] \cap db[b0] ELSE {}
      <3>3. todo'[t] = box[b0] \ known /\ seen'[t] = known /\ pc'[t] # "flush"
        BY <2>4, <2>6 DEF UPopSChanFillStatus, Following, Freeing
      <3>4. box[b0] \subseteq 1..arrived[b0]
        BY <2>3
      <3> QED
        BY <2>1, <2>4, <3>1, <3>2, <3>3, <3>4
    <2>7. ASSUME FillStatusFails(t) PROVE Here
      BY <2>1, <2>3, <2>4, <2>7 DEF FillStatusFails, remote, Stages, Freeing
    <2>8. ASSUME RetrieveFails(t) PROVE Here
      BY <2>1, <2>3, <2>4, <2>8 DEF RetrieveFails, remote, Freeing
    <2>9. ASSUME Deliver(t) PROVE Here
      BY <2>1, <2>3, <2>4, <2>9 DEF Deliver, session, remote
    <2>10. ASSUME DeliverFails(t) PROVE Here
      BY <2>1, <2>3, <2>4, <2>10 DEF DeliverFails, remote, Onward, Following, Freeing
    <2>11. ASSUME Mark(t) PROVE Here
      <3>1. First(todo[t]) \in todo[t]
        BY <2>11, CurrentType DEF Mark
      <3> QED
        BY <2>1, <2>3, <2>4, <2>11, <3>1 DEF Mark, remote, Onward, Following, Freeing
    <2>12. ASSUME WriteSeenDB(t) PROVE Here
      BY <2>1, <2>3, <2>4, <2>12 DEF WriteSeenDB, session, remote
    <2>13. ASSUME WriteFails(t) PROVE Here
      BY <2>1, <2>3, <2>4, <2>13 DEF WriteFails, session, remote
    <2>14. ASSUME FlushSeenDB(t) PROVE Here
      BY <2>1, <2>3, <2>4, <2>14 DEF FlushSeenDB, session, remote
    <2>15. ASSUME Quit(t) PROVE Here
      BY <2>1, <2>3, <2>4, <2>15 DEF Quit
    <2>16. Here
      BY <1>6, <2>5, <2>6, <2>7, <2>8, <2>9, <2>10, <2>11, <2>12, <2>13, <2>14, <2>15 DEF Sync
    <2>17. \A b \in Mailbox : box'[b] \subseteq 1..arrived'[b]
      BY <2>1, <2>3, <2>4, <2>16
    <2> QED
      BY <2>2, <2>16, <2>17
  <1>7. ASSUME NEW b \in Mailbox, Arrive(b) PROVE TodoIsNew'
    <2>1. UNCHANGED <<pc, link, todo, seen, marks, db>>
      BY <1>7 DEF Arrive, session
    <2>2. /\ arrived' = [arrived EXCEPT ![b] = @ + 1]
          /\ box' = [box EXCEPT ![b] = @ \cup {arrived'[b]}]
      BY <1>7 DEF Arrive
    <2>3. \A c \in Mailbox : arrived[c] \in Nat
      BY DEF Files, Message
    <2>4. \A c \in Mailbox : /\ box'[c] \subseteq 1..arrived'[c] /\ box[c] \subseteq box'[c]
                             /\ 1..arrived[c] \subseteq 1..arrived'[c]
      BY <2>2, <2>3 DEF Files
    <2> QED
      BY <2>1, <2>4, BoxOfType DEF NewTodo, BoxOf, Leave, Listing
  <1>8. CASE UNCHANGED vars
    BY <1>1, <1>8 DEF vars, session, remote
  <1> QED
    BY <1>2, <1>3, <1>4, <1>5, <1>6, <1>7, <1>8 DEF Next, PSYNCThreadProc

\* A thread without a session has fetched nothing.
LEMMA NothingFetched ==
    ASSUME Stages, NEW t \in Thread, pc[t] \notin Listing
    PROVE  Fetched(t) = {}
  BY DEF Stages, Fetched, Listing

\* What Deliver and DeliverFails are at was not fetched before, or for a reason.
LEMMA NotCharged ==
    ASSUME IInv, TodoIsNew, NEW t \in Thread, pc[t] = "fetch"
    PROVE  ~Charged(BoxOf(t), First(todo[t]))
  <1> DEFINE b == BoxOf(t)
             m == First(todo[t])
  <1>1. m \in todo[t] /\ b \in Mailbox
    BY CurrentType, BoxOfType DEF IInv
  <1>2. m \notin Recorded(b) /\ m \notin seen[t] /\ m \notin marks[t]
    BY <1>1 DEF TodoIsNew, NewTodo, Listing, Recorded
  <1>3. ASSUME NEW u \in Thread, BoxOf(u) = b, m \in Fetched(u) PROVE FALSE
    <2>1. pc[u] \in Listing
      BY <1>3, NothingFetched DEF IInv
    <2>2. u = t
      BY <1>3, <2>1 DEF IInv, OneThreadEach, Listing, Busy, Counted
    <2> QED
      BY <1>2, <1>3, <2>2 DEF Fetched
  <1> QED
    BY <1>2, <1>3 DEF Charged

\* The three ways in which a step keeps the account of a message.
Settled(b, m) ==
    \/ /\ got'[b][m] - got[b][m] <= reasons'[b][m] - reasons[b][m]
       /\ Charged(b, m) => Charged(b, m)'
    \/ /\ got'[b][m] = got[b][m] /\ reasons'[b][m] - reasons[b][m] >= 1
    \/ /\ got'[b][m] - got[b][m] = reasons'[b][m] - reasons[b][m] + 1
       /\ ~Charged(b, m) /\ Charged(b, m)'

\* A step that settles every message keeps the account.
LEMMA SettledIsEnough ==
    ASSUME Counters, Counters', Explained, \A b \in Mailbox, m \in Message : Settled(b, m)
    PROVE  Explained'
  <1> SUFFICES ASSUME NEW b \in Mailbox, NEW m \in Message
               PROVE  got'[b][m] <= reasons'[b][m] + (IF Charged(b, m)' THEN 1 ELSE 0)
    BY DEF Explained
  <1>1. /\ got[b][m] \in Nat /\ reasons[b][m] \in Nat
        /\ got'[b][m] \in Nat /\ reasons'[b][m] \in Nat
    BY DEF Counters
  <1>2. \A g, r, h, s, c, d \in Nat :
            g <= r + c /\ (\/ h - g <= s - r /\ c <= d
                           \/ h = g /\ s - r >= 1 /\ c <= 1
                           \/ h - g = s - r + 1 /\ c = 0 /\ d = 1)
                => h <= s + d
    OBVIOUS
  <1> DEFINE c == IF Charged(b, m) THEN 1 ELSE 0
  <1>3. c \in Nat /\ c' \in Nat /\ c <= 1
    OBVIOUS
  <1>4. got[b][m] <= reasons[b][m] + c
    BY DEF Explained
  <1>5. \/ got'[b][m] - got[b][m] <= reasons'[b][m] - reasons[b][m] /\ c <= c'
        \/ got'[b][m] = got[b][m] /\ reasons'[b][m] - reasons[b][m] >= 1 /\ c <= 1
        \/ got'[b][m] - got[b][m] = reasons'[b][m] - reasons[b][m] + 1 /\ c = 0 /\ c' = 1
    <2>1. (Charged(b, m) => Charged(b, m)') => c <= c'
      OBVIOUS
    <2>2. ~Charged(b, m) /\ Charged(b, m)' => c = 0 /\ c' = 1
      OBVIOUS
    <2>3. Settled(b, m)
      OBVIOUS
    <2> HIDE DEF c
    <2> QED
      BY <1>3, <2>1, <2>2, <2>3, Zenon DEF Settled
  <1>6. got'[b][m] <= reasons'[b][m] + c'
    <2> HIDE DEF c
    <2> QED
      BY <1>1, <1>2, <1>3, <1>4, <1>5
  <1> QED
    BY <1>6

\* What the session of t and the files of its mailbox account for.
Held(t) == Recorded(BoxOf(t)) \cup Fetched(t)

\* A step of a thread need only be looked at in its own mailbox.
LEMMA SettledByThread ==
    ASSUME IInv, Shape', Stages', NEW t \in Thread, Sync(t),
           \A m \in Message :
                LET b == BoxOf(t)
                IN  \/ /\ got'[b][m] - got[b][m] <= reasons'[b][m] - reasons[b][m]
                       /\ m \in Held(t) => m \in Held(t)'
                    \/ got'[b][m] = got[b][m] /\ reasons'[b][m] - reasons[b][m] >= 1
                    \/ /\ got'[b][m] - got[b][m] = reasons'[b][m] - reasons[b][m] + 1
                       /\ ~Charged(b, m) /\ m \in Held(t)'
    PROVE  \A b \in Mailbox, m \in Message : Settled(b, m)
  <1>1. /\ arrived' = arrived /\ link' = link
        /\ \A b \in Mailbox : b # BoxOf(t) =>
                db'[b] = db[b] /\ box'[b] = box[b] /\ got'[b] = got[b] /\ reasons'[b] = reasons[b]
        /\ \A u \in Thread \ {t} : /\ pc'[u] = pc[u] /\ todo'[u] = todo[u]
                                   /\ seen'[u] = seen[u] /\ marks'[u] = marks[u]
    BY SyncKeepsElsewhere, SyncKeepsOthers DEF IInv
  <1>2. \A u \in Thread : BoxOf(u)' = BoxOf(u) /\ Leave(u)' = Leave(u)
    BY <1>1 DEF BoxOf, Leave
  <1>3. \A u \in Thread \ {t} : Fetched(u)' = Fetched(u)
    BY <1>1, <1>2 DEF Fetched
  <1>4. pc[t] # "idle" /\ BoxOf(t) \in Mailbox
    BY SyncAndSlots, BoxOfType DEF IInv
  <1>5. pc'[t] = "idle" => Fetched(t)' = {}
    BY DEF Stages, Fetched, Listing
  <1>6. ASSUME NEW b \in Mailbox, b # BoxOf(t), NEW m \in Message PROVE Settled(b, m)
    <2>1. got'[b][m] = got[b][m] /\ reasons'[b][m] = reasons[b][m]
      BY <1>1, <1>6
    <2>2. got[b][m] \in Nat /\ reasons[b][m] \in Nat
      BY DEF IInv, Shape, Counters
    <2>3. Recorded(b)' = Recorded(b)
      BY <1>1, <1>6 DEF Recorded
    <2>4. Charged(b, m) => Charged(b, m)'
      BY <1>1, <1>2, <1>3, <1>6, <2>3 DEF Charged
    <2>5. got'[b][m] - got[b][m] <= reasons'[b][m] - reasons[b][m]
      BY <2>1, <2>2
    <2> QED
      BY <2>4, <2>5 DEF Settled
  <1>7. ASSUME NEW m \in Message PROVE Settled(BoxOf(t), m)
    <2>1. m \in Held(t)' => Charged(BoxOf(t), m)'
      BY <1>2, <1>4, <1>5 DEF Held, Charged
    <2>2. (m \in Held(t) => m \in Held(t)') => (Charged(BoxOf(t), m) => Charged(BoxOf(t), m)')
      BY <1>1, <1>2, <1>3, <2>1 DEF Held, Charged
    <2> QED
      BY <2>1, <2>2 DEF Settled
  <1> QED
    BY <1>6, <1>7

\* Every step of a thread keeps the account of the fetches.
LEMMA SyncExplained ==
    ASSUME Agreement, IInv, TodoIsNew, DatabasesOfLeave, Explained, Shape', Stages',
           NEW t \in Thread, Sync(t)
    PROVE  Explained'
  <1> DEFINE b == BoxOf(t)
             Same(m) == got'[b][m] - got[b][m] <= reasons'[b][m] - reasons[b][m]
             Keeps(m) == Same(m) /\ (m \in Held(t) => m \in Held(t)')
             Reason(m) == got'[b][m] = got[b][m] /\ reasons'[b][m] - reasons[b][m] >= 1
             Fetches(m) == /\ got'[b][m] - got[b][m] = reasons'[b][m] - reasons[b][m] + 1
                           /\ ~Charged(b, m) /\ m \in Held(t)'
             Goal == \A m \in Message : Keeps(m) \/ Reason(m) \/ Fetches(m)
  <1>1. /\ arrived' = arrived /\ link' = link /\ b \in Mailbox /\ b' = b
        /\ BoxOf(t)' = b /\ Leave(t)' = Leave(t)
    BY SyncAndSlots, BoxOfType, SyncKeepsElsewhere, SyncKeepsOthers DEF IInv, BoxOf, Leave
  <1>2. \A m \in Message : got[b][m] \in Nat /\ reasons[b][m] \in Nat
    BY <1>1 DEF IInv, Shape, Counters
  <1>3. ASSUME UNCHANGED history PROVE \A m \in Message : Same(m)
    BY <1>2, <1>3 DEF history
  \* A reason for each of the messages ms, and nothing fetched.
  <1>4. ASSUME NEW ms, Again(b, ms), UNCHANGED got
        PROVE  /\ \A m \in Message : Same(m)
               /\ \A m \in Message \cap ms : Reason(m)
    <2>1. \A m \in Message : reasons'[b][m] = reasons[b][m] + (IF m \in ms THEN 1 ELSE 0)
      BY <1>1, <1>4 DEF IInv, Shape, Counters, Again
    <2> QED
      BY <1>2, <1>4, <2>1
  <1> USE DEF IInv, Shape, Control, Lists, Files, Goto
  <1> HIDE DEF b
  <1>5. Held(t) = Recorded(b) \cup Fetched(t) /\ Held(t)' = Recorded(b)' \cup Fetched(t)'
    BY <1>1 DEF Held, b
  <1>6. ASSUME LinkLock(t) \/ LockFails(t) \/ Login(t) \/ LoginFails(t)
                    \/ CountDown(t) \/ LinkUnlock(t) \/ NotifyExit(t)
        PROVE Goal
    <2>1. pc[t] \notin Listing /\ UNCHANGED history /\ UNCHANGED <<db, box>>
      BY <1>6 DEF LinkLock, LockFails, Login, LoginFails, CountUp, CountDown, LinkUnlock, NotifyExit,
         Listing, remote
    <2>2. Held(t) \subseteq Held(t)'
      BY <1>1, <1>5, <2>1, NothingFetched DEF Recorded
    <2> QED
      BY <1>3, <2>1, <2>2
  <1>7. ASSUME UPopSChanFillStatus(t) \/ FillStatusFails(t) PROVE Goal
    <2>1. pc[t] \notin Listing /\ UNCHANGED history /\ UNCHANGED <<db, box>>
      BY <1>7 DEF UPopSChanFillStatus, FillStatusFails, Listing, remote
    <2>2. Held(t) \subseteq Held(t)'
      BY <1>1, <1>5, <2>1, NothingFetched DEF Recorded
    <2> QED
      BY <1>3, <2>1, <2>2
  <1>8. ASSUME RetrieveFails(t) PROVE Goal
    <2>1. UNCHANGED history /\ UNCHANGED <<db, box, seen, marks>> /\ pc[t] = "fetch"
          /\ pc'[t] = Freeing(t)
      BY <1>8 DEF RetrieveFails, remote
    <2>2. Held(t) \subseteq Held(t)'
      BY <1>1, <1>5, <2>1 DEF Recorded, Fetched, Freeing
    <2> QED
      BY <1>3, <2>1, <2>2
  <1>9. ASSUME NEW m \in Message, m \in Held(t)', ~Charged(b, m), pc'[t] = "mark", todo' = todo,
               UNCHANGED <<db, box, seen, marks>>, pc[t] = "fetch", \A n \in Message \ {m} : Same(n),
               got'[b][m] - got[b][m] = reasons'[b][m] - reasons[b][m] + 1
        PROVE  Goal
    <2>1. Held(t) \subseteq Held(t)'
      BY <1>1, <1>5, <1>9 DEF Recorded, Fetched
    <2> QED
      BY <1>9, <2>1
  <1>10. ASSUME Deliver(t) \/ DeliverFails(t)
         PROVE  /\ UNCHANGED <<db, box, seen, marks>> /\ pc[t] = "fetch"
                /\ First(todo[t]) \in Message /\ ~Charged(b, First(todo[t]))
    <2>1. UNCHANGED <<db, box, seen, marks>> /\ pc[t] = "fetch"
      BY <1>10 DEF Deliver, DeliverFails, session, remote
    <2> QED
      BY <2>1, CurrentType, NotCharged DEF b
  <1>11. ASSUME pc'[t] = "mark", todo' = todo PROVE First(todo[t]) \in Held(t)'
    BY <1>5, <1>11 DEF Fetched
  <1>12. ASSUME Deliver(t) PROVE Goal
    <2> DEFINE m == First(todo[t])
    <2>1. /\ m \in Message /\ ~Charged(b, m) /\ UNCHANGED <<db, box, seen, marks>> /\ pc[t] = "fetch"
      BY <1>10, <1>12
    <2>2. pc'[t] = "mark" /\ todo' = todo /\ reasons' = reasons
          /\ got' = [got EXCEPT ![b][m] = @ + 1]
      BY <1>12 DEF Deliver, session, b
    <2>3. \A n \in Message : got'[b][n] = got[b][n] + (IF n = m THEN 1 ELSE 0)
      BY <1>1, <2>1, <2>2 DEF Counters
    <2>4. got'[b][m] - got[b][m] = reasons'[b][m] - reasons[b][m] + 1
      BY <1>2, <2>1, <2>2, <2>3
    <2>5. \A n \in Message \ {m} : Same(n)
      BY <1>2, <2>2, <2>3
    <2> HIDE DEF m
    <2> QED
      BY <1>9, <1>11, <2>1, <2>2, <2>4, <2>5 DEF m
  <1>13. ASSUME DeliverFails(t) PROVE Goal
    <2> DEFINE m == First(todo[t])
    <2>1. /\ m \in Message /\ ~Charged(b, m) /\ UNCHANGED <<db, box, seen, marks>> /\ pc[t] = "fetch"
      BY <1>10, <1>13
    <2>2. PICK some \in {0, 1}, saved \in {0, 1} :
            /\ got' = [got EXCEPT ![b][m] = @ + some + saved]
            /\ Again(b, IF some = 1 THEN {m} ELSE {})
            /\ IF saved = 1 THEN Goto(t, "mark") /\ todo' = todo ELSE Onward(t)
      BY <1>13 DEF DeliverFails, b
    <2>3. \A n \in Message : /\ got'[b][n] = got[b][n] + (IF n = m THEN some + saved ELSE 0)
                             /\ reasons'[b][n] = reasons[b][n] + (IF n = m THEN some ELSE 0)
      <3>1. got[b][m] + some + saved = got[b][m] + (some + saved)
        BY <1>2, <2>1
      <3>2. \A n \in Message : got'[b][n] = got[b][n] + (IF n = m THEN some + saved ELSE 0)
        <4>1. got \in [Mailbox -> [Message -> Nat]]
          BY DEF Counters
        <4>2. /\ got'[b][m] = got[b][m] + (some + saved)
              /\ \A n \in Message \ {m} : got'[b][n] = got[b][n]
          BY <1>1, <2>1, <2>2, <3>1, <4>1
        <4> HIDE DEF m
        <4>3. \A n \in Message \ {m} : got'[b][n] = got[b][n] + 0
          BY <1>2, <4>2
        <4> QED
          BY <4>2, <4>3
      <3>3. \A n \in Message : reasons'[b][n] = reasons[b][n] + (IF n = m THEN some ELSE 0)
        BY <1>1, <1>2, <2>1, <2>2 DEF Counters, Again
      <3> QED
        BY <3>2, <3>3
    <2>4. \A n \in Message \ {m} : Same(n)
      BY <1>2, <2>3
    <2>5. CASE saved = 1
      <3>1. got'[b][m] - got[b][m] = reasons'[b][m] - reasons[b][m] + 1
        BY <1>2, <2>1, <2>3, <2>5
      <3>2. pc'[t] = "mark" /\ todo' = todo
        BY <2>2, <2>5
      <3> HIDE DEF m
      <3> QED
        BY <1>9, <1>11, <2>1, <2>4, <3>1, <3>2 DEF m
    <2>6. CASE saved = 0
      <3>1. Same(m)
        BY <1>2, <2>1, <2>3, <2>6
      <3>2. pc'[t] = "fetch" \/ pc'[t] = Freeing(t)
        BY <2>2, <2>6 DEF Onward, Following
      <3>3. Held(t) \subseteq Held(t)'
        BY <1>1, <1>5, <2>1, <3>2 DEF Recorded, Fetched, Freeing
      <3> QED
        BY <2>4, <3>1, <3>3
    <2> QED
      BY <2>2, <2>5, <2>6
  <1>14. ASSUME Mark(t) PROVE Goal
    <2> DEFINE m == First(todo[t])
    <2>1. /\ pc[t] = "mark" /\ UNCHANGED <<db, box>> /\ got' = got
          /\ seen' = [seen EXCEPT ![t] = @ \cup {m}]
      BY <1>14 DEF Mark, remote
    <2>2. pc'[t] = "fetch" \/ pc'[t] = Freeing(t)
      BY <1>14 DEF Mark, Onward, Following
    <2>3. Recorded(b)' = Recorded(b)
      BY <1>1, <2>1 DEF Recorded
    <2>4. CASE Leave(t)
      <3>1. reasons' = reasons
        BY <1>14, <2>4 DEF Mark
      <3>2. Fetched(t) \subseteq Fetched(t)'
        BY <1>1, <2>1, <2>2, <2>4 DEF Fetched, Freeing
      <3> QED
        BY <1>2, <1>5, <2>1, <2>3, <3>1, <3>2
    <2>5. CASE ~Leave(t) /\ marks' = [marks EXCEPT ![t] = @ \cup {m}] /\ reasons' = reasons
      <3>1. Fetched(t) \subseteq Fetched(t)'
        BY <1>1, <2>1, <2>2, <2>5 DEF Fetched, Freeing
      <3> QED
        BY <1>2, <1>5, <2>1, <2>3, <2>5, <3>1
    <2>6. CASE ~Leave(t) /\ marks' = marks /\ Again(b, {m})
      <3>1. Fetched(t) \ {m} \subseteq Fetched(t)'
        BY <1>1, <2>1, <2>2, <2>6 DEF Fetched, Freeing
      <3>2. \A n \in Message : Same(n) /\ (n = m => Reason(n))
        BY <1>4, <2>1, <2>6
      <3> QED
        BY <1>5, <2>3, <3>1, <3>2
    <2> QED
      BY <1>14, <2>4, <2>5, <2>6 DEF Mark, b
  <1>15. ASSUME WriteSeenDB(t) PROVE Goal
    <2>1. /\ pc[t] = "write" /\ pc'[t] = "flush" /\ UNCHANGED <<box, seen, marks, got>>
          /\ db' = [db EXCEPT ![b] = {}] /\ Again(b, db[b] \ seen[t])
      BY <1>15 DEF WriteSeenDB, session, remote, b
    <2>2. Leave(t)
      BY <2>1 DEF Stages
    <2>3. Fetched(t)' = seen[t] /\ Fetched(t) = seen[t]
      BY <1>1, <2>1, <2>2 DEF Fetched
    <2>4. Held(t) \ (db[b] \ seen[t]) \subseteq Held(t)'
      BY <1>1, <1>5, <2>1, <2>3 DEF Recorded
    <2> QED
      BY <1>4, <2>1, <2>4
  <1>16. ASSUME WriteFails(t) PROVE Goal
    <2>1. /\ pc[t] = "write" /\ UNCHANGED <<box, db, got>> /\ Again(b, seen[t] \ db[b])
      BY <1>16 DEF WriteFails, remote, b
    <2>2. Leave(t)
      BY <2>1 DEF Stages
    <2>3. Fetched(t) = seen[t]
      BY <2>1, <2>2 DEF Fetched
    <2>4. Held(t) \ (seen[t] \ db[b]) \subseteq Held(t)'
      BY <1>1, <1>5, <2>1, <2>3 DEF Recorded
    <2> QED
      BY <1>4, <2>1, <2>4
  <1>17. ASSUME FlushSeenDB(t) PROVE Goal
    <2>1. /\ pc[t] = "flush" /\ UNCHANGED <<box, got>>
          /\ \E written : db' = [db EXCEPT ![b] = written] /\ Again(b, seen[t] \ written)
      BY <1>17 DEF FlushSeenDB, remote, b
    <2>2. PICK written : db' = [db EXCEPT ![b] = written] /\ Again(b, seen[t] \ written)
      BY <2>1
    <2>3. Leave(t) /\ db[b] = {}
      BY <2>1 DEF Stages, TodoIsNew, NewTodo, Listing, b
    <2>4. Fetched(t) = seen[t]
      BY <2>1, <2>3 DEF Fetched
    <2>5. Held(t) \ (seen[t] \ written) \subseteq Held(t)'
      BY <1>1, <1>5, <2>1, <2>2, <2>3, <2>4 DEF Recorded
    <2> QED
      BY <1>4, <2>1, <2>2, <2>5
  <1>18. ASSUME Quit(t) PROVE Goal
    <2>1. pc[t] = "quit" /\ UNCHANGED <<db, got>>
      BY <1>18 DEF Quit
    <2>2. Fetched(t) = marks[t] /\ marks[t] \subseteq 1..arrived[b]
      BY <2>1 DEF TodoIsNew, NewTodo, Listing, Fetched, b
    <2>3. CASE box' = [box EXCEPT ![b] = @ \ marks[t]] /\ reasons' = reasons
      <3>1. Held(t) \subseteq Held(t)'
        BY <1>1, <1>5, <2>1, <2>2, <2>3 DEF Recorded
      <3> QED
        BY <1>2, <2>1, <2>3, <3>1
    <2>4. CASE box' = box /\ Again(b, marks[t])
      <3>1. Held(t) \ marks[t] \subseteq Held(t)'
        BY <1>1, <1>5, <2>1, <2>2, <2>4 DEF Recorded
      <3> QED
        BY <1>4, <2>1, <2>4, <3>1
    <2> QED
      BY <1>18, <2>3, <2>4 DEF Quit, b
  <1>19. Goal
    BY <1>6, <1>7, <1>8, <1>12, <1>13, <1>14, <1>15, <1>16, <1>17, <1>18 DEF Sync
  <1> QED
    BY <1>19, SettledByThread, SettledIsEnough DEF b

\* At the end of the server each message that a session fetched and did not
\* settle has its reason.
LEMMA HaltExplained ==
    ASSUME IInv, TodoIsNew, Explained, Counters', Halt
    PROVE  Explained'
  <1> USE DEF IInv, Shape
  <1>1. UNCHANGED <<link, db, arrived, box, got>> /\ pc' = [t \in Thread |-> "idle"]
    BY DEF Halt, remote
  <1>2. \A b \in Mailbox, m \in Message : reasons'[b][m] = reasons[b][m] + Cardinality(CutOff(b, m))
    BY DEF Halt, CutOff
  <1>3. \A b \in Mailbox, m \in Message : IsFiniteSet(CutOff(b, m)) /\ Cardinality(CutOff(b, m)) \in Nat
    BY ThreadsFinite DEF CutOff
  <1>4. ASSUME NEW b \in Mailbox, NEW m \in Message PROVE Settled(b, m)
    <2>1. got[b][m] \in Nat /\ reasons[b][m] \in Nat
      BY DEF Counters
    <2>2. Recorded(b)' = Recorded(b)
      BY <1>1 DEF Recorded
    <2>3. CASE m \in Recorded(b)
      <3>1. Charged(b, m)'
        BY <2>2, <2>3 DEF Charged
      <3>2. got'[b][m] - got[b][m] <= reasons'[b][m] - reasons[b][m]
        BY <1>1, <1>2, <1>3, <2>1
      <3> QED
        BY <3>1, <3>2 DEF Settled
    <2>4. CASE m \notin Recorded(b) /\ Charged(b, m)
      <3>1. PICK t \in Thread : pc[t] # "idle" /\ BoxOf(t) = b /\ m \in Fetched(t)
        BY <2>4 DEF Charged
      <3>2. pc[t] \in Listing
        BY <3>1, NothingFetched
      <3>3. m \in Unsettled(t)
        BY <2>4, <3>1, <3>2 DEF Unsettled, Fetched, Recorded, Listing, Counted, TodoIsNew, NewTodo
      <3>4. t \in CutOff(b, m)
        BY <3>1, <3>3 DEF CutOff
      <3>5. Cardinality(CutOff(b, m)) # 0
        BY <1>3, <3>4, FS_EmptySet
      <3>6. got'[b][m] = got[b][m] /\ reasons'[b][m] - reasons[b][m] >= 1
        BY <1>1, <1>2, <1>3, <2>1, <3>5
      <3> QED
        BY <3>6 DEF Settled
    <2>5. CASE ~Charged(b, m)
      <3>1. got'[b][m] - got[b][m] <= reasons'[b][m] - reasons[b][m]
        BY <1>1, <1>2, <1>3, <2>1
      <3> QED
        BY <2>5, <3>1 DEF Settled
    <2> QED
      BY <2>3, <2>4, <2>5
  <1> QED
    BY <1>4, SettledIsEnough

\* Every step keeps the account of the fetches.
LEMMA ExplainedStep ==
    ASSUME Agreement, LInv, IInv', [Next]_vars
    PROVE  Explained'
  <1> USE DEF LInv
  <1>1. Shape /\ Shape' /\ Stages /\ Stages' /\ Capacity /\ Counters /\ Counters'
    BY DEF IInv, Shape
  <1>2. ASSUME UNCHANGED history,
               \A b \in Mailbox, m \in Message : Charged(b, m) => Charged(b, m)'
        PROVE  Explained'
    <2>1. \A b \in Mailbox, m \in Message : got[b][m] \in Nat /\ reasons[b][m] \in Nat
      BY <1>1 DEF Counters
    <2>2. \A b \in Mailbox, m \in Message : Settled(b, m)
      BY <1>2, <2>1 DEF Settled, history
    <2> QED
      BY <1>1, <2>2, SettledIsEnough
  <1>3. ASSUME UNCHANGED <<pc, link, todo, seen, marks, history>>,
               \A b \in Mailbox : Recorded(b) \subseteq Recorded(b)'
        PROVE  Explained'
    BY <1>2, <1>3 DEF Charged, Fetched, BoxOf, Leave
  <1>4. ASSUME Start \/ AskStop \/ TellStop \/ Cleanup PROVE Explained'
    <2>1. UNCHANGED <<pc, link, todo, seen, marks, history, db, remote>>
      BY <1>4 DEF Start, AskStop, TellStop, Cleanup, session
    <2> QED
      BY <1>3, <2>1 DEF remote, Recorded
  <1>5. CASE PSYNCCreateSyncThread
    <2>1. UNCHANGED <<todo, seen, marks, history, db, remote>>
      BY <1>5 DEF PSYNCCreateSyncThread, others, session
    <2>2. PICK t \in Thread : /\ pc[t] = "idle"
                              /\ pc' = [pc EXCEPT ![t] = "lock"]
                              /\ link' = [link EXCEPT ![t] = Head(pending)]
      BY <1>1, <1>5, CreateTakesIdle
    <2>3. \A u \in Thread : pc[u] # "idle" => /\ pc'[u] # "idle" /\ BoxOf(u)' = BoxOf(u)
                                               /\ Fetched(u)' = Fetched(u)
      BY <1>1, <2>1, <2>2 DEF Shape, Control, BoxOf, Leave, Fetched
    <2>4. \A b \in Mailbox : Recorded(b)' = Recorded(b)
      BY <2>1 DEF Recorded, remote
    <2> QED
      BY <1>2, <2>1, <2>3, <2>4 DEF Charged
  <1>6. ASSUME PSYNCStartTransfer \/ SkipLink \/ NextLink \/ TakeSlot \/ CreateFails \/ EndTransfer
                \/ StopLoop \/ WaitClients
        PROVE  Explained'
    <2>1. UNCHANGED <<pc, link, todo, seen, marks, history, db, remote>>
      BY <1>6 DEF PSYNCStartTransfer, SkipLink, NextLink, TakeSlot, CreateFails, EndTransfer,
         StopLoop, WaitClients, others, session
    <2> QED
      BY <1>3, <2>1 DEF remote, Recorded
  <1>7. ASSUME NEW b \in Mailbox, Arrive(b) PROVE Explained'
    <2>1. UNCHANGED <<pc, link, todo, seen, marks, history, db>>
      BY <1>7 DEF Arrive, session
    <2>2. /\ arrived' = [arrived EXCEPT ![b] = @ + 1]
          /\ box' = [box EXCEPT ![b] = @ \cup {arrived'[b]}]
      BY <1>7 DEF Arrive
    <2>3. \A c \in Mailbox : arrived[c] \in Nat
      BY <1>1 DEF Shape, Files, Message
    <2>4. \A c \in Mailbox : (1..arrived[c] \ box[c]) \subseteq (1..arrived'[c] \ box'[c])
      BY <1>1, <2>2, <2>3 DEF Shape, Files
    <2> QED
      BY <1>3, <2>1, <2>4 DEF Recorded
  <1>8. ASSUME UNCHANGED vars PROVE Explained'
    <2>1. UNCHANGED <<pc, link, todo, seen, marks, history, db, remote>>
      BY <1>8 DEF vars, session
    <2> QED
      BY <1>3, <2>1 DEF remote, Recorded
  <1> QED
    BY <1>1, <1>4, <1>5, <1>6, <1>7, <1>8, HaltExplained, SyncExplained DEF Next, PSYNCThreadProc

\* A message is fetched once, and once more for each reason, of sessions lost
\* before their QUIT (UPopCloseChannel), of a database cut short or not written
\* (UPopSChanWriteSeenDB), and of a delivery that failed after the first
\* recipient: if the links of one mailbox agree on "Leave".
THEOREM SpecFetchesAreExplained ==
    ASSUME Agreement
    PROVE  Spec => []FetchesAreExplained
  <1>1. Init => LInv
    <2> SUFFICES ASSUME Init PROVE TodoIsNew /\ DatabasesOfLeave /\ Explained
      BY InitIInv DEF LInv
    <2>1. TodoIsNew /\ DatabasesOfLeave
      BY DEF Init, TodoIsNew, NewTodo, DatabasesOfLeave, Listing, Mailbox
    <2>2. Explained
      BY DEF Init, Explained
    <2> QED
      BY <2>1, <2>2
  <1>2. ASSUME LInv, count \in Nat, [Next]_vars PROVE (LInv /\ count \in Nat)'
    <2>1. IInv' /\ count' \in Nat
      BY <1>2, IInvStep DEF LInv
    <2> QED
      BY <1>2, <2>1, TodoIsNewStep, DatabasesOfLeaveStep, ExplainedStep DEF LInv
  <1>3. LInv => FetchesAreExplained
    <2> SUFFICES ASSUME LInv, NEW b \in Mailbox, NEW m \in Message
                 PROVE  got[b][m] <= 1 + reasons[b][m]
      BY DEF FetchesAreExplained
    <2>1. got[b][m] \in Nat /\ reasons[b][m] \in Nat
      BY DEF LInv, IInv, Shape, Counters
    <2>2. got[b][m] <= reasons[b][m] + 1 \/ got[b][m] <= reasons[b][m] + 0
      BY DEF LInv, Explained
    <2> QED
      BY <2>1, <2>2
  <1>4. Init => count \in Nat
    BY InitIInv
  <1> QED
    BY <1>1, <1>2, <1>3, <1>4, PTL DEF Spec
=============================================================================
