------------------------------- MODULE PopSync -------------------------------
(***************************************************************************)
(* Fetching mail from mailboxes of other servers: the PSYNC service        *)
(* (PSYNCSvr.cpp, its start and end in MailSvr.cpp), the locks of the      *)
(* links and the database of seen messages (POP3GwLink.cpp), and the       *)
(* synchronisation of one link (UPopSyncRemoteLink in POP3Utils.cpp).      *)
(*                                                                         *)
(* The main thread starts a thread for each link, at most Slots at a time. *)
(* A thread locks the remote mailbox of its link with a file, fetches and  *)
(* delivers its messages, and deletes them there or, for a link with       *)
(* "Leave", writes down which it has seen.  The remote server is external: *)
(* it answers, refuses or is lost, and removes what was marked at QUIT.    *)
(***************************************************************************)
EXTENDS Integers, Sequences, FiniteSets

CONSTANTS
    Links,          \* the table of links, in order
    Home,           \* remote server and name of a link: its mailbox
    Leaves,         \* links with the option "Leave"
    FromHeader,     \* links whose recipients are those in a message's header:
                    \* the others have one account
    Slots,          \* bound on iNumSyncThreads
    NumSyncThreads, \* iNumSyncThreads, given at each start
    ErrorAccount,   \* Pop3SyncErrorAccount is set
    Faults,         \* what may fail: "reply", "spool", "disk"
    \* Bounds: messages that arrive after the first ones, synchronisations,
    \* faults, starts of the server.
    MaxArrivals, MaxSyncs, MaxFaults, MaxStarts

Link == {Links[i] : i \in 1..Len(Links)}
Mailbox == {Home[l] : l \in Link}
Thread == 1..Slots
Message == 1..(1 + MaxArrivals)

ASSUME LinksAssumption ==
    /\ Links \in Seq(DOMAIN Home)
    /\ Leaves \subseteq Link
    /\ FromHeader \subseteq Link
ASSUME BoundsAssumption ==
    /\ Slots \in Nat \ {0}
    /\ ErrorAccount \in BOOLEAN
    /\ MaxArrivals \in Nat /\ MaxSyncs \in Nat /\ MaxFaults \in Nat /\ MaxStarts \in Nat
    /\ NumSyncThreads \in [1..MaxStarts -> 1..Slots]

VARIABLES
    up,             \* the server runs
    shutdown,       \* "no", "asked" (SvrInShutdown), "told" (PSYNCF_STOP_SERVER)
    closed,         \* SvrCleanupPSYNC closed the block and the semaphore
    \* the main thread, PSYNCThreadProc
    main, pending,  \* its stage, and the links to go in this round
    \* shared by the threads
    slots,          \* hSyncSem
    count,          \* lThreadCount
    \* the thread of a link
    pc, link,
    alive,          \* the connection
    todo, seen,     \* rest of SyncMList, SeenMList
    marks,          \* messages the remote server will remove at QUIT
    \* files
    locks,          \* lock files of the mailboxes
    stuck,          \* those that could not be removed
    db,             \* database of seen messages of each mailbox
    \* the remote mailboxes
    arrived, box,
    \* what happened
    done,           \* messages delivered whole, to all their recipients or
                    \* to the error account
    partly,         \* messages delivered to some recipients, the others
                    \* passed over
    cut,            \* messages delivered from a copy that was cut short
    got,            \* how often a message was delivered
    reasons,        \* how often there was a reason to fetch it again
    syncs, faults, starts

service == <<up, shutdown, closed>>
round == <<main, pending, syncs>>
session == <<alive, todo, seen, marks>>
remote == <<arrived, box>>
locking == <<locks, stuck>>
outcome == <<done, partly, cut>>
history == <<outcome, got, reasons>>
vars == <<service, round, slots, count, pc, link, session, locking, db, remote, history,
          faults, starts>>

Init ==
    /\ up = FALSE /\ shutdown = "no" /\ closed = FALSE
    /\ main = "none" /\ pending = <<>> /\ syncs = 0
    /\ slots = 0 /\ count = 0
    /\ pc = [t \in Thread |-> "idle"] /\ link = [t \in Thread |-> Links[1]]
    /\ alive = [t \in Thread |-> FALSE]
    /\ todo = [t \in Thread |-> {}] /\ seen = todo /\ marks = todo
    /\ locks = {} /\ stuck = {} /\ db = [b \in Mailbox |-> {}]
    /\ arrived = [b \in Mailbox |-> 1] /\ box = [b \in Mailbox |-> {1}]
    /\ done = [b \in Mailbox |-> {}] /\ partly = done /\ cut = done
    /\ got = [b \in Mailbox |-> [m \in Message |-> 0]] /\ reasons = got
    /\ faults = 0 /\ starts = 0

-----------------------------------------------------------------------------
(* Helpers.                                                                *)

\* Something fails, of the kind k.
Fault(k) == k \in Faults /\ faults < MaxFaults /\ faults' = faults + 1
NoFault == UNCHANGED faults

BoxOf(t) == Home[link[t]]
Leave(t) == link[t] \in Leaves
First(ms) == CHOOSE m \in ms : \A n \in ms : m <= n
Goto(t, stage) == pc' = [pc EXCEPT ![t] = stage]

\* The messages ms of the mailbox b may be fetched once more.
Again(b, ms) ==
    reasons' = [reasons EXCEPT ![b] = [m \in Message |->
                    @[m] + (IF m \in ms THEN 1 ELSE 0)]]

\* A thread between the two changes of the thread count.
Counted == {"fill", "fetch", "mark", "write", "flush", "quit", "uncount"}

\* First step of UPopSChanFree, and the step before the messages ms.
Freeing(t) == IF Leave(t) THEN "write" ELSE "quit"
Following(t, ms) == IF ms = {} THEN Freeing(t) ELSE "fetch"

-----------------------------------------------------------------------------
(* The server.                                                             *)

\* SvrSetupPSYNC, with GwLkClearLinkLocksDir, whose result SvrMain does not
\* look at: a file that cannot be removed leaves it and those after it.
Start ==
    /\ ~up /\ starts < MaxStarts
    /\ up' = TRUE /\ shutdown' = "no" /\ closed' = FALSE
    /\ main' = "sleep"
    /\ slots' = NumSyncThreads[starts + 1] /\ count' = 0
    /\ \E left \in SUBSET locks :
        /\ IF left = {} THEN NoFault ELSE Fault("disk")
        /\ locks' = left /\ stuck' = left
    /\ starts' = starts + 1
    /\ UNCHANGED <<pending, syncs, pc, link, session, db, remote, history>>

\* SvrSetShutdown, and what SvrMain makes of it: SvrDoShutdown.
AskStop ==
    /\ up /\ shutdown = "no" /\ shutdown' = "asked"
    /\ UNCHANGED <<up, closed, round, slots, count, pc, link, session, locking, db,
                   remote, history, faults, starts>>
TellStop ==
    /\ up /\ shutdown = "asked" /\ shutdown' = "told"
    /\ UNCHANGED <<up, closed, round, slots, count, pc, link, session, locking, db,
                   remote, history, faults, starts>>

\* SvrCleanupPSYNC waits for the main thread for SVR_EXIT_WAIT, which
\* SysWaitThread takes for milliseconds, closes what the threads share, and
\* cancels the main thread where it waits.
Cleanup ==
    /\ up /\ shutdown = "told" /\ ~closed
    /\ closed' = TRUE
    /\ main' = IF main \in {"sleep", "slot", "wait"} THEN "none" ELSE main
    /\ UNCHANGED <<up, shutdown, pending, syncs, slots, count, pc, link, session, locking,
                   db, remote, history, faults, starts>>

\* The process ends, after the cleanup or at any moment, and its connections
\* with it: what the sessions fetched was neither deleted nor, with "Leave",
\* written down, and comes again.
Unsettled(t) ==
    LET fetched == seen[t] \cup (IF pc[t] = "mark" THEN {First(todo[t])} ELSE {})
    IN  CASE pc[t] \notin Counted \ {"uncount"} -> {}
          [] Leave(t) -> IF pc[t] = "quit" THEN {} ELSE fetched \ db[BoxOf(t)]
          [] OTHER -> fetched
Halt ==
    /\ up /\ (closed \/ starts < MaxStarts)
    /\ up' = FALSE
    /\ main' = "none" /\ pending' = <<>>
    /\ pc' = [t \in Thread |-> "idle"]
    /\ alive' = [t \in Thread |-> FALSE]
    /\ todo' = [t \in Thread |-> {}] /\ seen' = todo' /\ marks' = todo'
    /\ reasons' = [b \in Mailbox |-> [m \in Message |->
                    reasons[b][m] + Cardinality({t \in Thread :
                                        BoxOf(t) = b /\ m \in Unsettled(t)})]]
    /\ UNCHANGED <<shutdown, closed, syncs, slots, count, link, locking,
                   db, remote, outcome, got, faults, starts>>

-----------------------------------------------------------------------------
(* The main thread, PSYNCThreadProc.                                       *)

others == <<service, count, session, locking, db, remote, history, starts>>

\* The interval has passed, or the trigger file is there.  Without a copy of
\* the table (GwLkOpenDB) the round has no links.
PSYNCStartTransfer ==
    /\ up /\ main = "sleep" /\ shutdown # "told"
    /\ main' = "scan" /\ pending' \in {Links, <<>>}
    /\ UNCHANGED <<syncs, slots, pc, link, faults, others>>

\* A link that was disabled (GwLkCheckEnabled) is passed over.
SkipLink ==
    /\ up /\ main = "scan" /\ pending # <<>>
    /\ pending' = Tail(pending)
    /\ UNCHANGED <<main, syncs, slots, pc, link, faults, others>>

NextLink ==
    /\ up /\ main = "scan" /\ pending # <<>> /\ syncs < MaxSyncs
    /\ syncs' = syncs + 1 /\ main' = "slot"
    /\ UNCHANGED <<pending, slots, pc, link, faults, others>>

\* SysWaitSemaphore, without end; the slot is not given back when it is time
\* to stop.
TakeSlot ==
    /\ up /\ main = "slot" /\ slots > 0
    /\ slots' = slots - 1
    /\ main' = IF shutdown = "told" THEN "sleep" ELSE "create"
    /\ UNCHANGED <<pending, syncs, pc, link, faults, others>>

PSYNCCreateSyncThread ==
    /\ up /\ main = "create"
    /\ LET idle == {t \in Thread : pc[t] = "idle"}
           t == CHOOSE u \in idle : \A v \in idle : u <= v
       IN  pc' = [pc EXCEPT ![t] = "lock"] /\ link' = [link EXCEPT ![t] = Head(pending)]
    /\ main' = "scan" /\ pending' = Tail(pending)
    /\ UNCHANGED <<syncs, slots, faults, others>>

\* A thread that cannot be created ends the round.
CreateFails ==
    /\ up /\ main = "create" /\ Fault("disk")
    /\ slots' = slots + 1 /\ main' = "sleep"
    /\ UNCHANGED <<pending, syncs, pc, link, others>>

EndTransfer ==
    /\ up /\ main = "scan" /\ pending = <<>>
    /\ main' = "sleep"
    /\ UNCHANGED <<pending, syncs, slots, pc, link, faults, others>>

\* The loop ends at PSYNCF_STOP_SERVER, and waits for the threads it counts,
\* MAX_CLIENTS_WAIT at most; a block that is closed already says anything.
StopLoop ==
    /\ up /\ main = "sleep" /\ shutdown = "told"
    /\ main' = "wait"
    /\ UNCHANGED <<pending, syncs, slots, pc, link, faults, others>>

WaitClients ==
    /\ up /\ main = "wait"
    /\ main' \in IF closed THEN {"ended", "expired"}
                  ELSE IF count = 0 THEN {"ended"} ELSE {"expired"}
    /\ UNCHANGED <<pending, syncs, slots, pc, link, faults, others>>

-----------------------------------------------------------------------------
(* The thread of a link, PSYNCThreadSyncProc.                              *)

system == <<service, round, locking, slots, count, link, starts>>

\* Mutant: the file may be there.
LinkLock_Shares(t) ==
    /\ pc[t] = "lock"
    /\ locks' = locks \cup {BoxOf(t)}
    /\ Goto(t, "count")
    /\ UNCHANGED <<service, round, slots, count, link, session, stuck, db, remote, history,
                   faults, starts>>

\* GwLkLinkLock: the file of the remote mailbox must not be there yet.
LinkLock(t) ==
    /\ pc[t] = "lock" /\ BoxOf(t) \notin locks
    /\ locks' = locks \cup {BoxOf(t)}
    /\ Goto(t, "count")
    /\ UNCHANGED <<service, round, slots, count, link, session, stuck, db, remote, history,
                   faults, starts>>

\* Mutant: the slot is not given back on this way out.
LockFails_KeepsSlot(t) ==
    /\ pc[t] = "lock"
    /\ (BoxOf(t) \in locks /\ NoFault) \/ Fault("disk")
    /\ Goto(t, "idle")
    /\ UNCHANGED <<system, session, db, remote, history>>

\* Another thread has it, or something else fails: the thread ends.
LockFails(t) ==
    /\ pc[t] = "lock"
    /\ (BoxOf(t) \in locks /\ NoFault) \/ Fault("disk")
    /\ Goto(t, "notify")
    /\ UNCHANGED <<system, session, db, remote, history>>

\* Mutant: a count of one, whoever else is counted.
CountUp_Sets(t) ==
    /\ pc[t] = "count" /\ count' = 1
    /\ UNCHANGED <<service, round, slots, link, todo, seen, marks, locking, db, remote,
                   history, starts>>

\* PSYNCThreadCountAdd, on a block that may be closed already; then the
\* session with the remote server (UPopCreateChannel).
CountUp(t) ==
    /\ pc[t] = "count" /\ count' = count + 1
    /\ UNCHANGED <<service, round, slots, link, todo, seen, marks, locking, db, remote,
                   history, starts>>
Login(t) ==
    /\ CountUp(t)
    /\ alive' = [alive EXCEPT ![t] = TRUE] /\ NoFault
    /\ Goto(t, "fill")

\* Mutant: the thread ends at once.
LoginFails_KeepsLock(t) ==
    /\ CountUp(t) /\ Fault("reply")
    /\ Goto(t, "notify")
    /\ UNCHANGED alive

\* No such user, or no session.
LoginFails(t) ==
    /\ CountUp(t) /\ Fault("reply")
    /\ Goto(t, "uncount")
    /\ UNCHANGED alive

\* UPopSChanFillStatus: STAT, UIDL, LIST, and with "Leave" UPopSChanFilterSeen.
UPopSChanFillStatus(t) ==
    /\ pc[t] = "fill"
    /\ LET here == box[BoxOf(t)]
           known == IF Leave(t) THEN here \cap db[BoxOf(t)] ELSE {}
       IN  /\ todo' = [todo EXCEPT ![t] = here \ known]
           /\ seen' = [seen EXCEPT ![t] = known]
           /\ Goto(t, Following(t, here \ known))
    /\ UNCHANGED <<system, alive, marks, db, remote, history, faults>>

\* A command refused (for UIDL only with "Leave"), an answer that makes no
\* sense, a connection lost, a lack of memory: UPopSChanCreate frees the
\* channel, with a SeenMList to which nothing of the database was moved.
FillStatusFails(t) ==
    /\ pc[t] = "fill" /\ Fault("reply")
    /\ \E live \in BOOLEAN : alive' = [alive EXCEPT ![t] = live]
    /\ Goto(t, Freeing(t))
    /\ UNCHANGED <<system, todo, seen, marks, db, remote, history>>

\* UPopRetrieveMessage fails, or its file cannot be written: so does the rest.
RetrieveFails(t) ==
    /\ pc[t] = "fetch" /\ Fault("reply")
    /\ \E live \in BOOLEAN : alive' = [alive EXCEPT ![t] = live]
    /\ Goto(t, Freeing(t))
    /\ UNCHANGED <<system, todo, seen, marks, db, remote, history>>

\* What follows a message; SvrInShutdown may answer from its last look.
Onward(t) ==
    \/ Goto(t, Following(t, todo'[t]))
    \/ shutdown # "no" /\ Goto(t, Freeing(t))

\* UPopRetrieveMessage, which does not look at the result of its fclose, and
\* USmlDeliverFetchedMsg, which puts a copy in the spool for each recipient but
\* those it takes for invalid or not handled, and is content with one.
Deliver(t) ==
    /\ pc[t] = "fetch"
    /\ LET b == BoxOf(t)  m == First(todo[t])
       IN  /\ got' = [got EXCEPT ![b][m] = @ + 1]
           /\ \/ done' = [done EXCEPT ![b] = @ \cup {m}] /\ NoFault
                 /\ UNCHANGED <<partly, cut>>
              \/ link[t] \in FromHeader /\ NoFault
                 /\ partly' = [partly EXCEPT ![b] = @ \cup {m}]
                 /\ UNCHANGED <<done, cut>>
              \/ cut' = [cut EXCEPT ![b] = @ \cup {m}] /\ Fault("disk")
                 /\ UNCHANGED <<done, partly>>
    /\ Goto(t, "mark")
    /\ UNCHANGED <<system, session, db, remote, reasons>>

\* The error account takes the message, whole or cut short on a full disk.
Saved(b, m) ==
    /\ \/ done' = [done EXCEPT ![b] = @ \cup {m}] /\ UNCHANGED cut
       \/ "disk" \in Faults /\ cut' = [cut EXCEPT ![b] = @ \cup {m}] /\ UNCHANGED done
    /\ UNCHANGED partly

\* Mutant: what the error account says is not looked at.
DeliverFails_Marks(t) ==
    /\ pc[t] = "fetch" /\ Fault("spool")
    /\ \E some \in {0, 1}, saved \in {0, 1} :
        LET b == BoxOf(t)  m == First(todo[t])
        IN  /\ saved = 1 => ErrorAccount
            /\ got' = [got EXCEPT ![b][m] = @ + some + saved]
            /\ Again(b, IF some = 1 THEN {m} ELSE {})
            /\ IF saved = 1
               THEN Saved(b, m) /\ Goto(t, "mark") /\ UNCHANGED todo
               ELSE Goto(t, "mark") /\ UNCHANGED <<todo, outcome>>
    /\ UNCHANGED <<system, alive, seen, marks, db, remote>>

\* It fails, for want of a recipient, or after the first of several; then the
\* error account may take the message.  Else it waits for another round.
DeliverFails(t) ==
    /\ pc[t] = "fetch" /\ Fault("spool")
    /\ \E some \in {0, 1}, saved \in {0, 1} :
        LET b == BoxOf(t)  m == First(todo[t])
        IN  /\ saved = 1 => ErrorAccount
            /\ got' = [got EXCEPT ![b][m] = @ + some + saved]
            /\ Again(b, IF some = 1 THEN {m} ELSE {})
            /\ IF saved = 1
               THEN Saved(b, m) /\ Goto(t, "mark") /\ UNCHANGED todo
               ELSE /\ todo' = [todo EXCEPT ![t] = @ \ {m}]
                    /\ Onward(t) /\ UNCHANGED outcome
    /\ UNCHANGED <<system, alive, seen, marks, db, remote>>

\* UPopDeleteMessage, without "Leave", whose result is not looked at: DELE may
\* be refused, or answered too late or not at all.
Mark(t) ==
    /\ pc[t] = "mark"
    /\ LET b == BoxOf(t)  m == First(todo[t])
       IN  /\ seen' = [seen EXCEPT ![t] = @ \cup {m}]
           /\ todo' = [todo EXCEPT ![t] = @ \ {m}]
           /\ \/ /\ marks' = IF Leave(t) THEN marks
                             ELSE [marks EXCEPT ![t] = @ \cup {m}]
                 /\ NoFault /\ UNCHANGED <<alive, reasons>>
              \/ /\ ~Leave(t) /\ Fault("reply")
                 /\ \E live \in BOOLEAN : alive' = [alive EXCEPT ![t] = live]
                 /\ Again(b, {m}) /\ UNCHANGED marks
    /\ Onward(t)
    /\ UNCHANGED <<system, db, remote, outcome, got>>

\* UPopSChanWriteSeenDB: fopen empties the file, fclose fills it.
WriteSeenDB(t) ==
    /\ pc[t] = "write"
    /\ db' = [db EXCEPT ![BoxOf(t)] = {}]
    /\ Again(BoxOf(t), db[BoxOf(t)] \ seen[t])
    /\ Goto(t, "flush")
    /\ UNCHANGED <<system, session, remote, outcome, got, faults>>

WriteFails(t) ==
    /\ pc[t] = "write" /\ Fault("disk")
    /\ Again(BoxOf(t), seen[t] \ db[BoxOf(t)])
    /\ Goto(t, "quit")
    /\ UNCHANGED <<system, session, db, remote, outcome, got>>

\* No result of the writes is looked at: a full disk cuts the file short.
FlushSeenDB(t) ==
    /\ pc[t] = "flush"
    /\ \E written \in SUBSET seen[t] :
        /\ \/ written = seen[t] /\ NoFault
           \/ written # seen[t] /\ Fault("disk")
        /\ db' = [db EXCEPT ![BoxOf(t)] = written]
        /\ Again(BoxOf(t), seen[t] \ written)
    /\ Goto(t, "quit")
    /\ UNCHANGED <<system, session, remote, outcome, got>>

\* UPopCloseChannel: at QUIT the remote server removes what was marked, unless
\* the connection is lost; its answer may be lost too.
Quit(t) ==
    /\ pc[t] = "quit"
    /\ LET b == BoxOf(t)
       IN  \/ /\ alive[t] /\ NoFault
              /\ box' = [box EXCEPT ![b] = @ \ marks[t]]
              /\ UNCHANGED reasons
           \/ /\ alive[t] => Fault("reply")
              /\ ~alive[t] => NoFault
              /\ Again(b, marks[t])
              /\ UNCHANGED box
    /\ alive' = [alive EXCEPT ![t] = FALSE]
    /\ marks' = [marks EXCEPT ![t] = {}] /\ seen' = [seen EXCEPT ![t] = {}]
    /\ todo' = [todo EXCEPT ![t] = {}]
    /\ Goto(t, "uncount")
    /\ UNCHANGED <<system, db, arrived, outcome, got>>

CountDown(t) ==
    /\ pc[t] = "uncount" /\ count' = count - 1
    /\ Goto(t, "unlock")
    /\ UNCHANGED <<service, round, slots, link, session, locking, db, remote, history,
                   faults, starts>>

\* GwLkLinkUnlock, whose result is not looked at.
LinkUnlock(t) ==
    /\ pc[t] = "unlock"
    /\ \/ /\ locks' = locks \ {BoxOf(t)} /\ NoFault
          /\ UNCHANGED stuck
       \/ /\ stuck' = stuck \cup {BoxOf(t)} /\ Fault("disk")
          /\ UNCHANGED locks
    /\ Goto(t, "notify")
    /\ UNCHANGED <<service, round, slots, count, link, session, db, remote, history,
                   starts>>

\* PSYNCThreadNotifyExit.
NotifyExit(t) ==
    /\ pc[t] = "notify" /\ slots' = slots + 1
    /\ Goto(t, "idle")
    /\ UNCHANGED <<service, round, count, link, session, locking, db, remote, history,
                   faults, starts>>

\* A message comes to a remote mailbox (to one of them, as a bound); a session
\* does not see it before the next one.
Arrive(b) ==
    /\ arrived[b] <= MaxArrivals /\ \A c \in Mailbox \ {b} : arrived[c] = 1
    /\ arrived' = [arrived EXCEPT ![b] = @ + 1]
    /\ box' = [box EXCEPT ![b] = @ \cup {arrived'[b]}]
    /\ UNCHANGED <<service, round, slots, count, pc, link, session, locking, db, history,
                   faults, starts>>

-----------------------------------------------------------------------------
Sync(t) ==
    \/ LinkLock(t) \/ LockFails(t) \/ Login(t) \/ LoginFails(t)
    \/ UPopSChanFillStatus(t) \/ FillStatusFails(t)
    \/ RetrieveFails(t) \/ Deliver(t) \/ DeliverFails(t) \/ Mark(t)
    \/ WriteSeenDB(t) \/ WriteFails(t) \/ FlushSeenDB(t) \/ Quit(t)
    \/ CountDown(t) \/ LinkUnlock(t) \/ NotifyExit(t)

PSYNCThreadProc ==
    \/ PSYNCStartTransfer \/ SkipLink \/ NextLink \/ TakeSlot \/ PSYNCCreateSyncThread
    \/ CreateFails \/ EndTransfer \/ StopLoop \/ WaitClients

Next ==
    \/ Start \/ AskStop \/ TellStop \/ Cleanup \/ Halt
    \/ PSYNCThreadProc
    \/ \E t \in Thread : Sync(t)
    \/ \E b \in Mailbox : Arrive(b)

\* Every wait for the remote server ends with its answer or a timeout, every
\* other step of a thread with a result: some thread that can go on does.
Fairness == WF_vars(PSYNCThreadProc \/ \E t \in Thread : Sync(t))

Spec == Init /\ [][Next]_vars /\ Fairness

-----------------------------------------------------------------------------
(* Properties.                                                             *)

TypeOK ==
    /\ up \in BOOLEAN /\ shutdown \in {"no", "asked", "told"} /\ closed \in BOOLEAN
    /\ main \in {"none", "sleep", "scan", "slot", "create", "wait", "ended", "expired"}
    /\ pending \in Seq(Link)
    /\ slots \in 0..Slots /\ count \in Nat
    /\ pc \in [Thread -> Counted \cup {"idle", "lock", "count", "unlock", "notify"}]
    /\ DOMAIN link = Thread /\ \A t \in Thread : pc[t] # "idle" => link[t] \in Link
    /\ alive \in [Thread -> BOOLEAN]
    /\ todo \in [Thread -> SUBSET Message] /\ seen \in [Thread -> SUBSET Message]
    /\ marks \in [Thread -> SUBSET Message]
    /\ locks \subseteq Mailbox /\ stuck \subseteq Mailbox
    /\ db \in [Mailbox -> SUBSET Message]
    /\ arrived \in [Mailbox -> Message] /\ box \in [Mailbox -> SUBSET Message]
    /\ done \in [Mailbox -> SUBSET Message] /\ partly \in [Mailbox -> SUBSET Message]
    /\ cut \in [Mailbox -> SUBSET Message]
    /\ got \in [Mailbox -> [Message -> Nat]] /\ reasons \in [Mailbox -> [Message -> Nat]]
    /\ syncs \in 0..MaxSyncs /\ faults \in 0..MaxFaults /\ starts \in 0..MaxStarts

\* Messages that left their remote mailbox, or that the database says were seen.
Gone(b) == (1..arrived[b] \ box[b]) \cup db[b]

\* Messages of which some delivery succeeded, as far as it did.
Delivered == [b \in Mailbox |-> done[b] \cup partly[b] \cup cut[b]]

\* A message that is gone was delivered: whole, and to all its recipients or to
\* the error account, unless the delivery itself passed some recipients over
\* (USmlDeliverFetchedMsg, "skip invalid ( or not handled ) ones") or its copy
\* was cut short unnoticed (the fclose of UPopRetrieveMessage).  No message goes
\* of which no delivery succeeded (UPopSyncRemoteLink, "Delete remote message
\* only if successfully delivered").
NothingIsLost ==
    \A b \in Mailbox : Gone(b) \subseteq Delivered[b]

\* The same without the two exceptions, which the code does not keep.
GoneIsWhole == \A b \in Mailbox : Gone(b) \subseteq done[b]

\* A message is fetched again only as often as something happened after which
\* it must come again: a session lost before its QUIT, a database not written
\* or written without it, a delivery that failed after the first recipient.
FetchesAreExplained ==
    \A b \in Mailbox, m \in Message : got[b][m] <= 1 + reasons[b][m]

\* The service ends while no thread it counted is at work (PSYNCThreadProc,
\* "Wait for client completion"), unless the wait for them ran out or SvrMain
\* closed the block meanwhile.
ServiceOutlivesClients ==
    [][main = "wait" /\ main' = "ended" /\ ~closed
            => \A t \in Thread : pc[t] \notin Counted]_vars

\* The lock of a mailbox is there only while a thread works on it: no failure,
\* and no crash, keeps later rounds from it, but that its file cannot be removed.
LocksAreHeld ==
    up => \A b \in locks \ stuck : Cardinality({t \in Thread : BoxOf(t) = b
                /\ pc[t] \in Counted \cup {"count", "unlock"}}) = 1

\* No round waits forever for one of its threads to end.
RoundsEnd ==
    LET scanning == main \in {"scan", "slot", "create"} IN scanning ~> ~scanning

\* "Leave messages on the server, and download only the new ones"
\* (docs/Readme.txt:798).
OnlyTheNewOnes ==
    \A l \in Leaves, m \in Message : got[Home[l]][m] <= 1

\* "Wait for client completion" (PSYNCSvr.cpp:435).
ClosedAfterUse ==
    closed /\ main = "ended" => \A t \in Thread : pc[t] = "idle"
=============================================================================
