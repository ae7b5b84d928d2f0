----------------------------- MODULE MessQueue -----------------------------
(***************************************************************************)
(* The message spool (MessQueue.cpp) with the threads that use it: the     *)
(* producers that create and commit messages (SMTP sessions, LMAIL,        *)
(* bounces), the SMAIL threads that extract, process and resend or close   *)
(* them (SMAILSvr.cpp), the thread that scans the resend arena, and the    *)
(* CTRL sessions that resubmit or delete frozen messages (QueueUtils.cpp). *)
(*                                                                         *)
(* A message is its spool file, named once for ever by MscUniqueFile.  The *)
(* directory of the file and its slog file survive a crash; the queues,    *)
(* the QueueMessage handles and the threads do not.                        *)
(***************************************************************************)
EXTENDS Naturals, Sequences, FiniteSets, Functions

CONSTANTS
    Msgs,               \* spool file names
    NoMsg,
    Workers,            \* SMAIL threads
    Admins,             \* CTRL sessions
    iMaxRetry,          \* -Qr: attempts before a message expires
    RemoveSpoolErrors,  \* the server.tab variable, off by default
    IOFails,            \* whether a rename, a remove, a notification, the opening of a
                        \* slog file or an allocation may fail
    MaxRestarts         \* bound on crashes and restarts

ASSUME MsgsAssumption == IsFiniteSet(Msgs) /\ NoMsg \notin Msgs
ASSUME RetryAssumption == iMaxRetry \in Nat \ {0}
ASSUME SettingsAssumption ==
    RemoveSpoolErrors \in BOOLEAN /\ IOFails \in BOOLEAN /\ MaxRestarts \in Nat

VARIABLES
    \* on disk
    dir,                \* where the message file is
    slog,               \* [PeekTime] lines in its slog file
    \* the MessageQueue
    up,                 \* between QueOpen and QueClose
    ReadyQueue,
    iReadyCount,
    hReadyEvent,        \* manual reset event
    RsndArenaQueue,
    iRsndArenaCount,
    \* the QueueMessage of a message
    pszQueueDir,
    iNumTries,
    \* the threads
    prod,               \* of a message: how far its producer is
    wpc, wmsg,          \* of an SMAIL thread: where it is, its message
    cpc, cmsg,          \* of a CTRL session
    \* what happened
    accepted,           \* messages whose commit returned success
    delivered,          \* times SMAILProcessFile returned success for it
    notified,           \* a notification about it was committed
    filtered,           \* a filter asked for its silent removal
    deleted,            \* removed by frozdel
    listed,             \* names some frozlist has shown
    misread,            \* its slog file could not be opened when the spool was loaded
    restarts

disk == <<dir, slog>>
queue == <<ReadyQueue, iReadyCount, hReadyEvent, RsndArenaQueue, iRsndArenaCount>>
handle == <<pszQueueDir, iNumTries>>
worker == <<wpc, wmsg>>
admin == <<cpc, cmsg>>
ghost == <<accepted, delivered, notified, filtered, deleted>>
vars == <<disk, up, queue, handle, prod, worker, admin, ghost, listed, misread, restarts>>

Dirs == {"none", "temp", "mess", "rsnd", "froz", "gone"}
Spooled == {"mess", "rsnd"}

TypeOK ==
    /\ dir \in [Msgs -> Dirs]
    /\ slog \in [Msgs -> Nat]
    /\ up \in BOOLEAN
    /\ ReadyQueue \in Seq(Msgs)
    /\ iReadyCount \in Nat
    /\ hReadyEvent \in BOOLEAN
    /\ RsndArenaQueue \subseteq Msgs
    /\ iRsndArenaCount \in Nat
    /\ pszQueueDir \in [Msgs -> Dirs]
    /\ iNumTries \in [Msgs -> Nat]
    /\ prod \in [Msgs -> {"none", "writing", "moved"}]
    /\ wpc \in [Workers -> {"waiting", "woken", "extracted", "processing",
                            "resend", "moved", "remove", "freeze"}]
    /\ wmsg \in [Workers -> Msgs \cup {NoMsg}]
    /\ cpc \in [Admins -> {"idle", "submit", "reset", "moved", "delete"}]
    /\ cmsg \in [Admins -> Msgs \cup {NoMsg}]
    /\ accepted \subseteq Msgs
    /\ delivered \in [Msgs -> Nat]
    /\ notified \subseteq Msgs
    /\ filtered \subseteq Msgs
    /\ deleted \subseteq Msgs
    /\ listed \subseteq Msgs /\ misread \subseteq Msgs
    /\ restarts \in 0..MaxRestarts

\* An empty spool, before the server is started.
Init ==
    /\ dir = [m \in Msgs |-> "none"]
    /\ slog = [m \in Msgs |-> 0]
    /\ up = FALSE
    /\ ReadyQueue = <<>> /\ iReadyCount = 0 /\ hReadyEvent = FALSE
    /\ RsndArenaQueue = {} /\ iRsndArenaCount = 0
    /\ prod = [m \in Msgs |-> "none"]
    /\ wpc = [w \in Workers |-> "waiting"] /\ wmsg = [w \in Workers |-> NoMsg]
    /\ cpc = [t \in Admins |-> "idle"] /\ cmsg = [t \in Admins |-> NoMsg]
    /\ pszQueueDir = [m \in Msgs |-> "none"]
    /\ iNumTries = [m \in Msgs |-> 0]
    /\ accepted = {} /\ notified = {} /\ filtered = {} /\ deleted = {}
    /\ listed = {} /\ misread = {}
    /\ delivered = [m \in Msgs |-> 0]
    /\ restarts = 0
-----------------------------------------------------------------------------
(* Opening, closing and crashing *)

\* The orders in which the messages of a set may be appended to a list.
Orders(S) == Bijection(1..Cardinality(S), S)

\* Mutant: the resend directory is not read.
QueOpen_NoResend ==
    /\ ~up
    /\ up' = TRUE
    /\ LET mess == {m \in Msgs : dir[m] = "mess"}
       IN  /\ ReadyQueue' \in Orders(mess)
           /\ iReadyCount' = Cardinality(mess)
           /\ hReadyEvent' = (mess # {})
           /\ pszQueueDir' = [m \in Msgs |-> IF m \in mess THEN dir[m] ELSE pszQueueDir[m]]
           /\ iNumTries' = [m \in Msgs |-> IF m \in mess THEN 0 ELSE iNumTries[m]]
    /\ UNCHANGED <<disk, RsndArenaQueue, iRsndArenaCount, prod, worker, admin, ghost,
                   listed, misread, restarts>>

\* What becomes of the files of a directory: QueLoadMessages leaves out one for
\* which QueAllocMessage finds no memory, and QueLoadMessageStat returns 0 for
\* a slog file that it cannot open.
Loaded(S) == IF IOFails THEN SUBSET S ELSE {S}
Unopened(S) == IF IOFails THEN SUBSET S ELSE {{}}

\* QueLoadMessages: new messages start from nothing, those of the resend
\* directory take their number of tries from the slog file.
QueOpen ==
    /\ ~up
    /\ up' = TRUE
    /\ \E mess \in Loaded({m \in Msgs : dir[m] = "mess"}),
          rsnd \in Loaded({m \in Msgs : dir[m] = "rsnd"}) :
       \E new \in Unopened(rsnd) :
           /\ ReadyQueue' \in Orders(mess)
           /\ iReadyCount' = Cardinality(mess)
           /\ hReadyEvent' = (mess # {})
           /\ RsndArenaQueue' = rsnd
           /\ iRsndArenaCount' = Cardinality(rsnd)
           /\ pszQueueDir' = [m \in Msgs |-> IF m \in mess \cup rsnd THEN dir[m]
                                             ELSE pszQueueDir[m]]
           /\ iNumTries' = [m \in Msgs |-> IF m \in rsnd \ new THEN slog[m]
                                           ELSE IF m \in mess \cup new THEN 0 ELSE iNumTries[m]]
           /\ misread' = misread \cup new
    /\ UNCHANGED <<disk, prod, worker, admin, ghost, listed, restarts>>

\* The end of the process: files stay, everything else goes.
LoseMemory ==
    /\ up
    /\ restarts < MaxRestarts
    /\ restarts' = restarts + 1
    /\ up' = FALSE
    /\ ReadyQueue' = <<>> /\ iReadyCount' = 0 /\ hReadyEvent' = FALSE
    /\ RsndArenaQueue' = {} /\ iRsndArenaCount' = 0
    /\ prod' = [m \in Msgs |-> "none"]
    /\ wpc' = [w \in Workers |-> "waiting"] /\ wmsg' = [w \in Workers |-> NoMsg]
    /\ cpc' = [t \in Admins |-> "idle"] /\ cmsg' = [t \in Admins |-> NoMsg]
    /\ UNCHANGED <<disk, handle, ghost, listed, misread>>

\* SvrCleanupSMAIL calls QueClose when the threads have left their loops.
QueClose ==
    /\ \A w \in Workers : wpc[w] = "waiting"
    /\ \A t \in Admins : cpc[t] = "idle"
    /\ \A m \in Msgs : prod[m] = "none"
    /\ LoseMemory

Crash == LoseMemory
-----------------------------------------------------------------------------
(* Producers *)

QueCreateMessage(m) ==
    /\ up
    /\ dir[m] = "none"
    /\ dir' = [dir EXCEPT ![m] = "temp"]
    /\ prod' = [prod EXCEPT ![m] = "writing"]
    /\ pszQueueDir' = [pszQueueDir EXCEPT ![m] = "temp"]
    /\ iNumTries' = [iNumTries EXCEPT ![m] = 0]
    /\ UNCHANGED <<slog, up, queue, worker, admin, ghost, listed, misread, restarts>>

\* A write error or a failed commit: every producer answers it with
\* QueCleanupMessage and QueCloseMessage, which remove the file.
Abandon(m) ==
    /\ prod[m] = "writing"
    /\ prod' = [prod EXCEPT ![m] = "none"]
    /\ dir' = [dir EXCEPT ![m] = "gone"]
    /\ UNCHANGED <<slog, up, queue, handle, worker, admin, ghost, listed, misread, restarts>>

\* The rename of QueCommitMessage from temp to mess ...
CommitMove(m) ==
    /\ prod[m] = "writing"
    /\ prod' = [prod EXCEPT ![m] = "moved"]
    /\ dir' = [dir EXCEPT ![m] = "mess"]
    /\ pszQueueDir' = [pszQueueDir EXCEPT ![m] = "mess"]
    /\ UNCHANGED <<slog, up, queue, iNumTries, worker, admin, ghost, listed, misread, restarts>>

QueAddNew(m) ==
    /\ ReadyQueue' = Append(ReadyQueue, m)
    /\ iReadyCount' = iReadyCount + 1
    /\ hReadyEvent' = TRUE
    /\ UNCHANGED <<RsndArenaQueue, iRsndArenaCount>>

\* ... and its QueAddNew, after which the producer answers for the message.
QueCommitMessage(m) ==
    /\ prod[m] = "moved"
    /\ prod' = [prod EXCEPT ![m] = "none"]
    /\ QueAddNew(m)
    /\ accepted' = accepted \cup {m}
    /\ UNCHANGED <<disk, up, handle, worker, admin, delivered, notified, filtered, deleted, listed, misread, restarts>>
-----------------------------------------------------------------------------
(* The resend arena.  The order in the arena only decides the order in     *)
(* which one scan appends, so the arena is kept as a set.                  *)

\* Mutant: a message that is made ready stays in the arena.
MoveToReady_Kept(S) ==
    /\ \E s \in Orders(S) : ReadyQueue' = ReadyQueue \o s
    /\ iReadyCount' = iReadyCount + Cardinality(S)
    /\ hReadyEvent' = (hReadyEvent \/ iReadyCount' > 0)
    /\ UNCHANGED <<RsndArenaQueue, iRsndArenaCount>>

\* Mutant: the messages are appended and the event is not set.
MoveToReady_NoEvent(S) ==
    /\ RsndArenaQueue' = RsndArenaQueue \ S
    /\ iRsndArenaCount' = iRsndArenaCount - Cardinality(S)
    /\ \E s \in Orders(S) : ReadyQueue' = ReadyQueue \o s
    /\ iReadyCount' = iReadyCount + Cardinality(S)
    /\ UNCHANGED hReadyEvent

MoveToReady(S) ==
    /\ RsndArenaQueue' = RsndArenaQueue \ S
    /\ iRsndArenaCount' = iRsndArenaCount - Cardinality(S)
    /\ \E s \in Orders(S) : ReadyQueue' = ReadyQueue \o s
    /\ iReadyCount' = iReadyCount + Cardinality(S)
    /\ hReadyEvent' = (hReadyEvent \/ iReadyCount' > 0)

\* S: those whose retry time has passed (QueMessageReadyToSend).
QueScanRsndArena(S) ==
    /\ up
    /\ S \subseteq RsndArenaQueue
    /\ MoveToReady(S)
    /\ UNCHANGED <<disk, up, handle, prod, worker, admin, ghost, listed, misread, restarts>>

\* S: those whose destination matches the ETRN argument (QueMessageDestMatch).
QueFlushRsndArena(S) ==
    /\ up
    /\ S \subseteq RsndArenaQueue
    /\ MoveToReady(S)
    /\ UNCHANGED <<disk, up, handle, prod, worker, admin, ghost, listed, misread, restarts>>
-----------------------------------------------------------------------------
(* SMAIL threads *)

Goto(w, place) == wpc' = [wpc EXCEPT ![w] = place]

\* The thread has no message any more and starts over.
Release(w) ==
    /\ Goto(w, "waiting")
    /\ wmsg' = [wmsg EXCEPT ![w] = NoMsg]

\* SysWaitEvent of QueExtractMessage, before the mutex is taken.
WaitReadyEvent(w) ==
    /\ up
    /\ wpc[w] = "waiting"
    /\ hReadyEvent
    /\ Goto(w, "woken")
    /\ UNCHANGED <<disk, up, queue, handle, prod, wmsg, admin, ghost, listed, misread, restarts>>

\* Mutant: the event is reset when a message is left.
QueExtractMessage_EarlyReset(w) ==
    /\ wpc[w] = "woken"
    /\ ReadyQueue # <<>>
    /\ Goto(w, "extracted")
    /\ wmsg' = [wmsg EXCEPT ![w] = Head(ReadyQueue)]
    /\ ReadyQueue' = Tail(ReadyQueue)
    /\ iReadyCount' = iReadyCount - 1
    /\ hReadyEvent' = (hReadyEvent /\ iReadyCount' > 1)
    /\ iNumTries' = [iNumTries EXCEPT ![Head(ReadyQueue)] = @ + 1]
    /\ UNCHANGED <<disk, up, RsndArenaQueue, iRsndArenaCount, pszQueueDir,
                   prod, admin, ghost, listed, misread, restarts>>

\* Mutant: the list is not looked at after the wait.
ExtractNothing_Ignored(w) ==
    /\ wpc[w] = "woken"
    /\ ReadyQueue = <<>>
    /\ Goto(w, "waiting")
    /\ iReadyCount' = iReadyCount - 1
    /\ UNCHANGED <<disk, up, ReadyQueue, hReadyEvent, RsndArenaQueue, iRsndArenaCount,
                   handle, prod, wmsg, admin, ghost, listed, misread, restarts>>

\* Another thread was faster.
ExtractNothing(w) ==
    /\ wpc[w] = "woken"
    /\ ReadyQueue = <<>>
    /\ Goto(w, "waiting")
    /\ UNCHANGED <<disk, up, queue, handle, prod, wmsg, admin, ghost, listed, misread, restarts>>

QueExtractMessage(w) ==
    /\ wpc[w] = "woken"
    /\ ReadyQueue # <<>>
    /\ Goto(w, "extracted")
    /\ wmsg' = [wmsg EXCEPT ![w] = Head(ReadyQueue)]
    /\ ReadyQueue' = Tail(ReadyQueue)
    /\ iReadyCount' = iReadyCount - 1
    /\ hReadyEvent' = (hReadyEvent /\ iReadyCount' # 0)
    /\ iNumTries' = [iNumTries EXCEPT ![Head(ReadyQueue)] = @ + 1]
    /\ UNCHANGED <<disk, up, RsndArenaQueue, iRsndArenaCount, pszQueueDir,
                   prod, admin, ghost, listed, misread, restarts>>

\* The error of a log file that cannot be opened is ignored.
QueStatMessage(w) ==
    /\ wpc[w] = "extracted"
    /\ Goto(w, "processing")
    /\ \/ slog' = [slog EXCEPT ![wmsg[w]] = @ + 1]
       \/ IOFails /\ UNCHANGED slog
    /\ UNCHANGED <<dir, up, queue, handle, prod, wmsg, admin, ghost, listed, misread, restarts>>

\* SMAILProcessFile succeeds: QueCleanupMessage marks the message deleted.
Deliver(w) ==
    /\ wpc[w] = "processing"
    /\ Goto(w, "remove")
    /\ delivered' = [delivered EXCEPT ![wmsg[w]] = @ + 1]
    /\ UNCHANGED <<disk, up, queue, handle, prod, wmsg, admin, accepted, notified,
                   filtered, deleted, listed, misread, restarts>>

\* SMAILProcessFile fails and QueCheckMessage finds the message still alive.
TransientFailure(w) ==
    /\ wpc[w] = "processing"
    /\ Goto(w, "resend")
    /\ UNCHANGED <<disk, up, queue, handle, prod, wmsg, admin, ghost, listed, misread, restarts>>

\* Mutant: the option is read the wrong way round.
Condemned_Swapped == IF RemoveSpoolErrors THEN "freeze" ELSE "remove"

\* What becomes of a message that had an error: the bFreeze argument of
\* QueCleanupMessage is !QueUtRemoveSpoolErrors().
Condemned == IF RemoveSpoolErrors THEN "remove" ELSE "freeze"

\* QueUtNotifyPermErrDelivery with bCleanup, QueUtCleanupNotifyRoot: the result
\* of the notification is not looked at before the message is condemned.
NotifyAndCondemn(w) ==
    /\ Goto(w, Condemned)
    /\ \/ notified' = notified \cup {wmsg[w]}
       \/ IOFails /\ UNCHANGED notified
    /\ UNCHANGED <<disk, up, queue, handle, prod, wmsg, admin, accepted, delivered,
                   filtered, deleted, listed, misread, restarts>>

\* An unreadable file, a mail loop, a recipient that does not exist, a 5xx
\* answer, a filter that rejects the message.
PermanentFailure(w) ==
    /\ wpc[w] = "processing"
    /\ NotifyAndCondemn(w)

\* The filter exit codes that reject without a notification, with and without
\* a frozen copy.
FilterOut(w) ==
    /\ wpc[w] = "processing"
    /\ Goto(w, Condemned) \/ Goto(w, "remove")
    /\ filtered' = filtered \cup {wmsg[w]}
    /\ UNCHANGED <<disk, up, queue, handle, prod, wmsg, admin, accepted, delivered,
                   notified, deleted, listed, misread, restarts>>

\* A filter left the file unreadable: frozen whatever RemoveSpoolErrors says.
FilterCorrupts(w) ==
    /\ wpc[w] = "processing"
    /\ Goto(w, "freeze")
    /\ UNCHANGED <<disk, up, queue, handle, prod, wmsg, admin, ghost, listed, misread, restarts>>

\* Mutant: one attempt more.
QueMessageExpired_OffByOne(m) == iNumTries[m] > iMaxRetry

QueMessageExpired(m) == iNumTries[m] >= iMaxRetry

ResendExpired(w) ==
    /\ wpc[w] = "resend"
    /\ QueMessageExpired(wmsg[w])
    /\ NotifyAndCondemn(w)

\* The rename of QueResendMessage; a message that comes from the arena is in
\* rsnd already.
ResendMove(w) ==
    /\ wpc[w] = "resend"
    /\ ~QueMessageExpired(wmsg[w])
    /\ Goto(w, "moved")
    /\ dir' = [dir EXCEPT ![wmsg[w]] = "rsnd"]
    /\ pszQueueDir' = [pszQueueDir EXCEPT ![wmsg[w]] = "rsnd"]
    /\ UNCHANGED <<slog, up, queue, iNumTries, prod, wmsg, admin, ghost, listed, misread, restarts>>

\* The rename fails: the error is returned up to the thread loop and nobody
\* keeps the handle.
ResendFails(w) ==
    /\ IOFails
    /\ wpc[w] = "resend"
    /\ ~QueMessageExpired(wmsg[w])
    /\ pszQueueDir[wmsg[w]] # "rsnd"
    /\ Release(w)
    /\ UNCHANGED <<disk, up, queue, handle, prod, admin, ghost, listed, misread, restarts>>

QueResendMessage(w) ==
    /\ wpc[w] = "moved"
    /\ Release(w)
    /\ RsndArenaQueue' = RsndArenaQueue \cup {wmsg[w]}
    /\ iRsndArenaCount' = iRsndArenaCount + 1
    /\ UNCHANGED <<disk, up, ReadyQueue, iReadyCount, hReadyEvent, handle,
                   prod, admin, ghost, listed, misread, restarts>>

\* QueDoMessageCleanup.  The rename to froz may fail and leave everything; the
\* remove may fail, which is not looked at, and the slog file goes all the same.
CleanupFreeze(m) ==
    /\ \/ dir' = [dir EXCEPT ![m] = "froz"]
       \/ IOFails /\ UNCHANGED dir
    /\ UNCHANGED slog

CleanupRemove(m) ==
    /\ \/ dir' = [dir EXCEPT ![m] = "gone"]
       \/ IOFails /\ UNCHANGED dir
    /\ slog' = [slog EXCEPT ![m] = 0]

QueCloseMessage(w) ==
    /\ \/ wpc[w] = "freeze" /\ CleanupFreeze(wmsg[w])
       \/ wpc[w] = "remove" /\ CleanupRemove(wmsg[w])
    /\ Release(w)
    /\ UNCHANGED <<up, queue, handle, prod, admin, ghost, listed, misread, restarts>>
-----------------------------------------------------------------------------
(* CTRL sessions.  An administrator names a message that some frozlist has *)
(* shown; it may have been resubmitted or deleted since.                   *)

FrozList(t) ==
    /\ up
    /\ cpc[t] = "idle"
    /\ listed' = listed \cup {m \in Msgs : dir[m] = "froz"}
    /\ UNCHANGED <<disk, up, queue, handle, prod, worker, admin, ghost, misread, restarts>>

FrozCommand(t, m, command) ==
    /\ up
    /\ cpc[t] = "idle"
    /\ m \in listed
    /\ cpc' = [cpc EXCEPT ![t] = command]
    /\ cmsg' = [cmsg EXCEPT ![t] = m]
    /\ UNCHANGED <<disk, up, queue, handle, prod, worker, ghost, listed, misread, restarts>>

EndCommand(t) ==
    /\ cpc' = [cpc EXCEPT ![t] = "idle"]
    /\ cmsg' = [cmsg EXCEPT ![t] = NoMsg]

\* QueInitMessageStats removes the slog file, whether or not the message is
\* still frozen.
QueInitMessageStats(t) ==
    /\ cpc[t] = "submit"
    /\ cpc' = [cpc EXCEPT ![t] = "reset"]
    /\ slog' = [slog EXCEPT ![cmsg[t]] = 0]
    /\ UNCHANGED <<dir, up, queue, handle, prod, worker, cmsg, ghost, listed, misread, restarts>>

\* Mutant: a rename that fails is not noticed.
UnFreezeMove_Unchecked(t) ==
    /\ cpc[t] = "reset"
    /\ cpc' = [cpc EXCEPT ![t] = "moved"]
    /\ dir' = [dir EXCEPT ![cmsg[t]] = IF @ = "froz" THEN "mess" ELSE @]
    /\ UNCHANGED <<slog, up, queue, handle, prod, worker, cmsg, ghost, listed, misread, restarts>>

\* The handle of the CTRL session becomes the handle of the message.
UnFreezeMove(t) ==
    /\ cpc[t] = "reset"
    /\ dir[cmsg[t]] = "froz"
    /\ cpc' = [cpc EXCEPT ![t] = "moved"]
    /\ dir' = [dir EXCEPT ![cmsg[t]] = "mess"]
    /\ pszQueueDir' = [pszQueueDir EXCEPT ![cmsg[t]] = "mess"]
    /\ iNumTries' = [iNumTries EXCEPT ![cmsg[t]] = 0]
    /\ notified' = notified \ {cmsg[t]}
    /\ filtered' = filtered \ {cmsg[t]}
    /\ delivered' = [delivered EXCEPT ![cmsg[t]] = 0]
    /\ UNCHANGED <<slog, up, queue, prod, worker, cmsg, accepted, deleted, listed, misread, restarts>>

UnFreezeFails(t) ==
    /\ cpc[t] = "reset"
    /\ dir[cmsg[t]] # "froz" \/ IOFails
    /\ EndCommand(t)
    /\ UNCHANGED <<disk, up, queue, handle, prod, worker, ghost, listed, misread, restarts>>

QueUtUnFreezeMessage(t) ==
    /\ cpc[t] = "moved"
    /\ QueAddNew(cmsg[t])
    /\ EndCommand(t)
    /\ UNCHANGED <<disk, up, handle, prod, worker, ghost, listed, misread, restarts>>

\* Mutant: the message is removed wherever it is.
QueUtDeleteFrozenMessage_AnyDir(t) ==
    /\ cpc[t] = "delete"
    /\ dir' = [dir EXCEPT ![cmsg[t]] = "gone"]
    /\ slog' = [slog EXCEPT ![cmsg[t]] = 0]
    /\ EndCommand(t)
    /\ deleted' = deleted \cup {cmsg[t]}
    /\ UNCHANGED <<up, queue, handle, prod, worker, accepted, delivered, notified,
                   filtered, listed, misread, restarts>>

\* A handle on the froz directory, cleaned up and closed: the slog file goes
\* even when the message is not frozen any more.
QueUtDeleteFrozenMessage(t) ==
    /\ cpc[t] = "delete"
    /\ LET m == cmsg[t]
       IN  /\ slog' = [slog EXCEPT ![m] = 0]
           /\ \/ /\ dir[m] = "froz"
                 /\ dir' = [dir EXCEPT ![m] = "gone"]
                 /\ deleted' = deleted \cup {m}
              \/ /\ dir[m] # "froz" \/ IOFails
                 /\ UNCHANGED <<dir, deleted>>
    /\ EndCommand(t)
    /\ UNCHANGED <<up, queue, handle, prod, worker, accepted, delivered, notified,
                   filtered, listed, misread, restarts>>
-----------------------------------------------------------------------------

Producer(m) ==
    QueCreateMessage(m) \/ Abandon(m) \/ CommitMove(m) \/ QueCommitMessage(m)

\* What an SMAIL thread does with the message it holds.
Process(w) ==
    \/ QueStatMessage(w)
    \/ Deliver(w) \/ TransientFailure(w) \/ PermanentFailure(w)
    \/ FilterOut(w) \/ FilterCorrupts(w)
    \/ ResendExpired(w) \/ ResendMove(w) \/ ResendFails(w) \/ QueResendMessage(w)
    \/ QueCloseMessage(w)

Worker(w) ==
    WaitReadyEvent(w) \/ ExtractNothing(w) \/ QueExtractMessage(w) \/ Process(w)

Admin(t) ==
    \/ FrozList(t)
    \/ \E m \in Msgs, command \in {"submit", "delete"} : FrozCommand(t, m, command)
    \/ QueInitMessageStats(t) \/ UnFreezeMove(t) \/ UnFreezeFails(t)
    \/ QueUtUnFreezeMessage(t) \/ QueUtDeleteFrozenMessage(t)

Arena == \E S \in SUBSET RsndArenaQueue : QueScanRsndArena(S) \/ QueFlushRsndArena(S)

Next ==
    \/ QueOpen \/ QueClose \/ Crash
    \/ \E m \in Msgs : Producer(m)
    \/ \E w \in Workers : Worker(w)
    \/ \E t \in Admins : Admin(t)
    \/ Arena

Spec == Init /\ [][Next]_vars

\* Threads run on, the scan thread comes round and time passes, so a message
\* in the arena becomes ready; a server that is down is started.  Nothing is
\* said of how a delivery ends.
Fairness ==
    /\ WF_vars(QueOpen)
    /\ \A w \in Workers : WF_vars(Worker(w))
    /\ \A m \in Msgs : WF_vars(QueCommitMessage(m))
    /\ \A t \in Admins : WF_vars(QueUtUnFreezeMessage(t))
    /\ \A m \in Msgs : WF_vars(\E S \in SUBSET RsndArenaQueue : m \in S /\ QueScanRsndArena(S))

FairSpec == Spec /\ Fairness
-----------------------------------------------------------------------------
(* Properties *)

Busy(w) == wpc[w] \notin {"waiting", "woken"}

\* Who has the handle of a message: a list, an SMAIL thread, the producer or
\* the CTRL session inside QueCommitMessage.
Listed(m) == m \in Range(ReadyQueue) \/ m \in RsndArenaQueue
Processed(m) == \E w \in Workers : Busy(w) /\ wmsg[w] = m
Committing(m) == prod[m] = "moved"
Resubmitting(m) == \E t \in Admins : cpc[t] = "moved" /\ cmsg[t] = m

Owned(m) == Listed(m) \/ Processed(m) \/ Committing(m) \/ Resubmitting(m)

(***************************************************************************)
(* The counters say how long the lists are, and the ready event is set     *)
(* exactly while there is something to extract: no SMAIL thread sleeps     *)
(* beside a message and none spins on an empty queue.                      *)
(***************************************************************************)
QueueCountsAgree ==
    /\ iReadyCount = Len(ReadyQueue)
    /\ iRsndArenaCount = Cardinality(RsndArenaQueue)
    /\ hReadyEvent <=> ReadyQueue # <<>>

(***************************************************************************)
(* A message is in one list, once, or with one thread: two SMAIL threads   *)
(* never process one message, and no list has a handle that was freed.     *)
(***************************************************************************)
SingleOwner ==
    /\ IsInjective(ReadyQueue)
    /\ Range(ReadyQueue) \cap RsndArenaQueue = {}
    /\ \A v, w \in Workers : (Busy(v) /\ Busy(w) /\ wmsg[v] = wmsg[w]) => v = w
    /\ \A t, u \in Admins : (cpc[t] = "moved" /\ cpc[u] = "moved" /\ cmsg[t] = cmsg[u]) => t = u
    /\ \A m \in Msgs :
        /\ Listed(m) => ~Processed(m) /\ ~Committing(m) /\ ~Resubmitting(m)
        /\ Processed(m) => ~Committing(m) /\ ~Resubmitting(m)
        /\ Committing(m) => ~Resubmitting(m)

(***************************************************************************)
(* The handle of a message that somebody owns knows where the file is, so  *)
(* that what is renamed, read or removed under it is the message.          *)
(***************************************************************************)
QueueMatchesDisk ==
    \A m \in Msgs : Owned(m) => dir[m] \in Spooled /\ pszQueueDir[m] = dir[m]

(***************************************************************************)
(* While no rename, remove or allocation fails, every file of the spool is *)
(* owned: no accepted message is forgotten on disk until the next restart. *)
(***************************************************************************)
SpoolFilesAreOwned ==
    (up /\ ~IOFails) => \A m \in Msgs : dir[m] \in Spooled => Owned(m)

Settled(m) == delivered[m] > 0 \/ m \in notified \/ m \in filtered

(***************************************************************************)
(* A message whose commit returned success is gone only when it was        *)
(* delivered, a notification went out, a filter asked for its removal, or  *)
(* an administrator deleted it, crashes included.  It needs the default of *)
(* RemoveSpoolErrors or notifications that do not fail.                    *)
(***************************************************************************)
AcceptedIsKept ==
    (RemoveSpoolErrors => ~IOFails) =>
        \A m \in accepted :
            dir[m] \in {"none", "temp", "gone"} => Settled(m) \/ m \in deleted

(***************************************************************************)
(* A message is delivered again only after a restart.                      *)
(***************************************************************************)
DeliveredOncePerRestart ==
    \A m \in Msgs : delivered[m] <= 1 + restarts

\* Messages whose tries are forgotten.
Uncounted == listed \cup misread

(***************************************************************************)
(* A message is tried at most iMaxRetry times, one more for every restart  *)
(* (which takes the tries of a message in rsnd from its slog file, where   *)
(* the tries of its time in mess are counted too).  A resubmission removes *)
(* the slog file before it looks whether the message is still frozen, so   *)
(* that nothing bounds the tries of a message administrators know of, and  *)
(* a slog file that cannot be opened when the spool is loaded counts for   *)
(* no tries at all.                                                        *)
(***************************************************************************)
RetryBound ==
    \A m \in Msgs \ Uncounted : iNumTries[m] <= iMaxRetry + restarts

(***************************************************************************)
(* "If the message has permanent delivery errors or is expired and if the  *)
(* option RemoveSpoolErrors is off, the message file is moved into froz":  *)
(* only a message that was delivered, or that a filter removes silently,   *)
(* is removed by the queue.                                                *)
(***************************************************************************)
UndeliveredIsFrozen ==
    [][ ~RemoveSpoolErrors =>
          \A m \in Msgs : (dir[m] \in Spooled /\ dir'[m] = "gone")
                            => delivered[m] > 0 \/ m \in filtered ]_vars

(***************************************************************************)
(* Every accepted message leaves the queue: it is delivered, or refused,   *)
(* or expires, and neither a lost wakeup nor a message forgotten in the    *)
(* arena or on disk stops it.                                              *)
(***************************************************************************)
SpooledIsSettled ==
    \A m \in Msgs : (dir[m] \in Spooled) ~> (dir[m] \notin Spooled)

\* A file that its producer removed was never in the spool.
StatusOf(m) ==
    IF dir[m] \in Spooled THEN "queued"
    ELSE IF dir[m] = "froz" THEN "frozen"
    ELSE IF dir[m] = "gone" /\ (m \in deleted \/ Settled(m)) THEN "gone"
    ELSE "absent"

RS == INSTANCE ReliableSpool WITH
        status <- [m \in Msgs |-> StatusOf(m)], settled <- [m \in Msgs |-> Settled(m)]

(***************************************************************************)
(* The spool of MessQueue.cpp is a reliable spool, for which a crash is    *)
(* nothing at all.                                                         *)
(***************************************************************************)
ImplementsReliableSpool == RS!Spec
-----------------------------------------------------------------------------
(* The inductive invariant *)

NamesAreMessages ==
    /\ \A w \in Workers : Busy(w) => wmsg[w] \in Msgs
    /\ \A t \in Admins : cpc[t] # "idle" => cmsg[t] \in Msgs

\* A message that is not spooled yet has no history.
DraftsAreNew ==
    \A m \in Msgs :
        /\ prod[m] = "writing" => dir[m] = "temp"
        /\ dir[m] \in {"none", "temp"} => ~Settled(m) /\ m \notin accepted /\ m \notin deleted

\* An SMAIL thread removes a message for a reason.
RemovalIsDue ==
    \A w \in Workers : wpc[w] = "remove" =>
        /\ (RemoveSpoolErrors => ~IOFails) => Settled(wmsg[w])
        /\ ~RemoveSpoolErrors => delivered[wmsg[w]] > 0 \/ wmsg[w] \in filtered

DownMeansIdle ==
    ~up => /\ \A w \in Workers : wpc[w] = "waiting"
           /\ \A t \in Admins : cpc[t] = "idle"
           /\ \A m \in Msgs : prod[m] = "none"

IInv ==
    /\ TypeOK
    /\ QueueCountsAgree
    /\ SingleOwner
    /\ QueueMatchesDisk
    /\ SpoolFilesAreOwned
    /\ AcceptedIsKept
    /\ NamesAreMessages
    /\ DraftsAreNew
    /\ RemovalIsDue
    /\ DownMeansIdle

-----------------------------------------------------------------------------
(* What the counters have to do with each other, for the bounds on tries   *)
(* and deliveries.                                                         *)

\* How often the server was started.
Starts == IF up THEN restarts + 1 ELSE restarts

\* A message that may still be delivered before the next restart.
Pending(m) ==
    \/ Listed(m) \/ Committing(m) \/ Resubmitting(m)
    \/ \E w \in Workers : Busy(w) /\ wpc[w] # "remove" /\ wmsg[w] = m

DeliveryCounted(m) ==
    /\ delivered[m] <= Starts
    /\ Pending(m) => delivered[m] < Starts

\* What the slog file may say of a message, wherever it is.
SlogOnDisk(m) ==
    /\ dir[m] \in {"none", "temp"} => slog[m] = 0
    /\ dir[m] = "mess" => slog[m] <= Starts
    /\ dir[m] = "rsnd" => slog[m] < iMaxRetry + Starts

\* The tries of a message that waits for the next one: each life of the server
\* in which it was not resent left at most a line that its handle misses.
TriesWaiting(m) ==
    /\ iNumTries[m] + 1 < iMaxRetry + Starts
    /\ slog[m] + 1 < iMaxRetry + Starts
    /\ slog[m] < iNumTries[m] + Starts
    /\ dir[m] = "mess" => iNumTries[m] = 0

\* Those of a message with an SMAIL thread, for which QueStatMessage adds a line.
TriesBusy(w, m) ==
    LET lines == IF wpc[w] = "extracted" THEN slog[m] + 1 ELSE slog[m]
    IN /\ lines < iMaxRetry + Starts
       /\ lines < iNumTries[m] + Starts
       /\ dir[m] = "mess" => iNumTries[m] = 1
       /\ wpc[w] = "moved" => dir[m] = "rsnd" /\ iNumTries[m] < iMaxRetry

TriesCounted(m) ==
    /\ iNumTries[m] < iMaxRetry + Starts
    /\ SlogOnDisk(m)
    /\ prod[m] # "none" => iNumTries[m] = 0
    /\ Listed(m) \/ Committing(m) => TriesWaiting(m)
    /\ \A w \in Workers : Busy(w) /\ wmsg[w] = m => TriesBusy(w, m)

\* CTRL sessions work on messages that some frozlist has shown.
CommandsAreListed == \A t \in Admins : cpc[t] # "idle" => cmsg[t] \in listed

CountsIInv ==
    /\ IInv
    /\ \A m \in Msgs : DeliveryCounted(m)
    /\ \A m \in Msgs \ Uncounted : TriesCounted(m)
    /\ CommandsAreListed
=============================================================================
