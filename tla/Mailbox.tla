------------------------------ MODULE Mailbox ------------------------------
(***************************************************************************)
(* One POP3 account: its mailbox directory, the POP3 sessions that read    *)
(* and empty it (POP3Svr.cpp, POP3Utils.cpp) and the SMAIL threads that    *)
(* deliver to it meanwhile (USmlLocalDelivery in SMAILUtils.cpp).          *)
(*                                                                         *)
(* A session is alone by a lock file, pop3locks/<address>.lock, that lives *)
(* on disk: it survives the death of the server.  The shared and exclusive *)
(* locks of the mailbox path (module ResLocks) only cover one operation;   *)
(* all but the update at the end of a session are one step here.           *)
(***************************************************************************)
EXTENDS Naturals, Sequences, FiniteSets, SequencesExt, FiniteSetsExt

CONSTANTS
    Msgs,           \* messages; a message delivered again keeps its file name
    Sessions,       \* POP3 client connections
    Workers,        \* SMAIL threads
    NoMsg,
    llMsgSize,      \* size of each message
    MaxMBSize,      \* quota of the account, 0 for none
    HangOnBadLogin, \* POP3F_HANG_ON_BADLOGIN
    POP3Enabled,    \* FALSE: only POP3S is, SvrSetupPOP3 returns early (-P-)
    IOFails         \* whether allocations, locks, removes and renames may fail

ASSUME MsgsAssumption == IsFiniteSet(Msgs) /\ NoMsg \notin Msgs
ASSUME WorkersAssumption == IsFiniteSet(Workers)
ASSUME SizeAssumption == llMsgSize \in [Msgs -> Nat \ {0}] /\ MaxMBSize \in Nat
ASSUME FlagsAssumption ==
    HangOnBadLogin \in BOOLEAN /\ POP3Enabled \in BOOLEAN /\ IOFails \in BOOLEAN

VARIABLES
    up,             \* the server runs
    dir,            \* messages in the mailbox directory
    lockFile,       \* the POP3 lock file exists
    stuck,          \* because it could not be removed
    iPOP3State,     \* of a session; "none": no connection
    stage,          \* of its POP3 handle: "none", "locked" (being built), "open",
                    \* "updating" (under the mailbox lock), "updated"
    list,           \* messages as the session numbers them
    deleted,        \* their numbers with POPF_MSG_DELETED
    iMsgCount,      \* messages of the session that are not marked
    llMBSize,       \* and their size
    admitted        \* message of a worker that passed the quota check

serverVars == <<iPOP3State, stage, list, deleted, iMsgCount, llMBSize>>
vars == <<up, dir, lockFile, stuck, serverVars, admitted>>

TypeOK ==
    /\ up \in BOOLEAN
    /\ dir \subseteq Msgs
    /\ lockFile \in BOOLEAN /\ stuck \in BOOLEAN
    /\ iPOP3State \in [Sessions -> {"none", "init", "user", "logged", "exit"}]
    /\ stage \in [Sessions -> {"none", "locked", "open", "updating", "updated"}]
    /\ list \in [Sessions -> Seq(Msgs)]
    /\ deleted \in [Sessions -> SUBSET Nat]
    /\ iMsgCount \in [Sessions -> Nat]
    /\ llMBSize \in [Sessions -> Nat]
    /\ admitted \in [Workers -> Msgs \cup {NoMsg}]

Init ==
    /\ up = TRUE
    /\ dir = {}
    /\ lockFile = FALSE /\ stuck = FALSE
    /\ iPOP3State = [s \in Sessions |-> "none"]
    /\ stage = [s \in Sessions |-> "none"]
    /\ list = [s \in Sessions |-> <<>>]
    /\ deleted = [s \in Sessions |-> {}]
    /\ iMsgCount = [s \in Sessions |-> 0]
    /\ llMBSize = [s \in Sessions |-> 0]
    /\ admitted = [w \in Workers |-> NoMsg]

SizeOf(S) == MapThenSumSet(LAMBDA m : llMsgSize[m], S)

\* The exclusive lock of the mailbox path is free.
MailboxFree == \A s \in Sessions : stage[s] # "updating"

\* The session holds the POP3 lock of the account.
HasLock(s) == stage[s] # "none"

\* Numbers of the listed messages without POPF_MSG_DELETED.
Kept(s) == DOMAIN list[s] \ deleted[s]
-----------------------------------------------------------------------------
\* The SMAIL thread w is about to deliver m.  The size of m does not count.
\* Mutant: a mailbox that is just full takes another message.
UPopCheckMailboxSize_OffByOne(w, m) ==
    /\ up /\ MailboxFree
    /\ \A v \in Workers : admitted[v] # m
    /\ admitted[w] = NoMsg
    /\ MaxMBSize # 0 => SizeOf(dir) <= MaxMBSize
    /\ admitted' = [admitted EXCEPT ![w] = m]
    /\ UNCHANGED <<up, dir, lockFile, stuck, serverVars>>

UPopCheckMailboxSize(w, m) ==
    /\ up /\ MailboxFree
    /\ \A v \in Workers : admitted[v] # m
    /\ admitted[w] = NoMsg
    /\ MaxMBSize # 0 => SizeOf(dir) < MaxMBSize
    /\ admitted' = [admitted EXCEPT ![w] = m]
    /\ UNCHANGED <<up, dir, lockFile, stuck, serverVars>>

\* rename() into the mailbox, over an earlier delivery of the same message.
UsrMoveToMailBox(w) ==
    /\ up /\ MailboxFree
    /\ admitted[w] # NoMsg
    /\ dir' = dir \cup {admitted[w]}
    /\ admitted' = [admitted EXCEPT ![w] = NoMsg]
    /\ UNCHANGED <<up, lockFile, stuck, serverVars>>

DeliveryFails(w) ==
    /\ up /\ IOFails
    /\ admitted[w] # NoMsg
    /\ admitted' = [admitted EXCEPT ![w] = NoMsg]
    /\ UNCHANGED <<up, dir, lockFile, stuck, serverVars>>
-----------------------------------------------------------------------------
Connect(s) ==
    /\ up
    /\ iPOP3State[s] = "none"
    /\ iPOP3State' = [iPOP3State EXCEPT ![s] = "init"]
    /\ UNCHANGED <<up, dir, lockFile, stuck, stage, list, deleted, iMsgCount, llMBSize, admitted>>

\* A command is read only when the handler of the last one has returned.
Ready(s, states) == iPOP3State[s] \in states /\ stage[s] \in {"none", "open"}

POP3HandleCmd_USER(s) ==
    /\ Ready(s, {"init"})
    /\ iPOP3State' = [iPOP3State EXCEPT ![s] = "user"]
    /\ UNCHANGED <<up, dir, lockFile, stuck, stage, list, deleted, iMsgCount, llMBSize, admitted>>

AfterBadLogin == IF HangOnBadLogin THEN "exit" ELSE "init"

\* PASS, or APOP that needs no USER: bad syntax, bad password, an account that
\* may not log in, or one whose lock file exists.
LoginRefused(s) ==
    /\ Ready(s, {"init", "user"})
    /\ \E to \in {"init", AfterBadLogin} : iPOP3State' = [iPOP3State EXCEPT ![s] = to]
    /\ UNCHANGED <<up, dir, lockFile, stuck, stage, list, deleted, iMsgCount, llMBSize, admitted>>

\* Mutant: O_EXCL is forgotten in SysLockFile.
UsrPOP3Lock_NotExclusive(s) ==
    /\ Ready(s, {"init", "user"})
    /\ lockFile' = TRUE
    /\ stage' = [stage EXCEPT ![s] = "locked"]
    /\ UNCHANGED <<up, dir, stuck, iPOP3State, list, deleted, iMsgCount, llMBSize, admitted>>

\* PASS or APOP in UPopBuildSession, once the user is known.
UsrPOP3Lock(s) ==
    /\ Ready(s, {"init", "user"})
    /\ ~lockFile
    /\ lockFile' = TRUE
    /\ stage' = [stage EXCEPT ![s] = "locked"]
    /\ UNCHANGED <<up, dir, stuck, iPOP3State, list, deleted, iMsgCount, llMBSize, admitted>>

\* The rest of UPopBuildSession; readdir gives the files in any order.
UPopBuildMessageList(s) ==
    /\ stage[s] = "locked"
    /\ MailboxFree
    /\ \E l \in SetToSeqs(dir) : list' = [list EXCEPT ![s] = l]
    /\ iMsgCount' = [iMsgCount EXCEPT ![s] = Cardinality(dir)]
    /\ llMBSize' = [llMBSize EXCEPT ![s] = SizeOf(dir)]
    /\ stage' = [stage EXCEPT ![s] = "open"]
    /\ iPOP3State' = [iPOP3State EXCEPT ![s] = "logged"]
    /\ UNCHANGED <<up, dir, lockFile, stuck, deleted, admitted>>

\* The result of the unlink in SysUnlockFile is not looked at.
UsrPOP3Unlock ==
    \/ lockFile' = FALSE /\ UNCHANGED stuck
    \/ IOFails /\ stuck' = TRUE /\ UNCHANGED lockFile

\* Mutant: an error path forgets UsrPOP3Unlock.
BuildSessionFails_KeepsLock(s) ==
    /\ IOFails
    /\ stage[s] = "locked"
    /\ stage' = [stage EXCEPT ![s] = "none"]
    /\ iPOP3State' = [iPOP3State EXCEPT ![s] = AfterBadLogin]
    /\ UNCHANGED <<up, dir, lockFile, stuck, list, deleted, iMsgCount, llMBSize, admitted>>

BuildSessionFails(s) ==
    /\ IOFails
    /\ stage[s] = "locked"
    /\ UsrPOP3Unlock
    /\ stage' = [stage EXCEPT ![s] = "none"]
    /\ iPOP3State' = [iPOP3State EXCEPT ![s] = AfterBadLogin]
    /\ UNCHANGED <<up, dir, list, deleted, iMsgCount, llMBSize, admitted>>

\* Mutant: the mark is not looked at before the counters are lowered.
UPopDeleteMessage_Twice(s, i) ==
    /\ Ready(s, {"logged"})
    /\ i \in DOMAIN list[s]
    /\ deleted' = [deleted EXCEPT ![s] = @ \cup {i}]
    /\ iMsgCount' = [iMsgCount EXCEPT ![s] = @ - 1]
    /\ llMBSize' = [llMBSize EXCEPT ![s] = @ - llMsgSize[list[s][i]]]
    /\ UNCHANGED <<up, dir, lockFile, stuck, iPOP3State, stage, list, admitted>>

\* DELE of a message that is in range and not marked yet.
UPopDeleteMessage(s, i) ==
    /\ Ready(s, {"logged"})
    /\ i \in Kept(s)
    /\ deleted' = [deleted EXCEPT ![s] = @ \cup {i}]
    /\ iMsgCount' = [iMsgCount EXCEPT ![s] = @ - 1]
    /\ llMBSize' = [llMBSize EXCEPT ![s] = @ - llMsgSize[list[s][i]]]
    /\ UNCHANGED <<up, dir, lockFile, stuck, iPOP3State, stage, list, admitted>>

\* Mutant: the size of the marked messages is not given back.
UPopResetSession_NoSize(s) ==
    /\ Ready(s, {"logged"})
    /\ deleted[s] # {}
    /\ deleted' = [deleted EXCEPT ![s] = {}]
    /\ iMsgCount' = [iMsgCount EXCEPT ![s] = @ + Cardinality(deleted[s])]
    /\ UNCHANGED <<up, dir, lockFile, stuck, iPOP3State, stage, list, llMBSize, admitted>>

\* RSET.
UPopResetSession(s) ==
    /\ Ready(s, {"logged"})
    /\ deleted[s] # {}
    /\ deleted' = [deleted EXCEPT ![s] = {}]
    /\ iMsgCount' = [iMsgCount EXCEPT ![s] = @ + Cardinality(deleted[s])]
    /\ llMBSize' = [llMBSize EXCEPT ![s] = @ + SizeOf({list[s][i] : i \in deleted[s]})]
    /\ UNCHANGED <<up, dir, lockFile, stuck, iPOP3State, stage, list, admitted>>

\* QUIT is valid in every state.
POP3HandleCmd_QUIT(s) ==
    /\ Ready(s, {"init", "user", "logged"})
    /\ iPOP3State' = [iPOP3State EXCEPT ![s] = "exit"]
    /\ UNCHANGED <<up, dir, lockFile, stuck, stage, list, deleted, iMsgCount, llMBSize, admitted>>
-----------------------------------------------------------------------------
\* Where POP3ClearSession goes with the handle: iUpdate is set only after QUIT,
\* and the update is skipped when its lock cannot be had.
\* Mutant: every end of the session updates the mailbox.
AfterLoop_AlwaysUpdates(s) == {"updating"}

AfterLoop(s) ==
    IF iPOP3State[s] = "exit" THEN {"updating"} \cup (IF IOFails THEN {"updated"} ELSE {})
    ELSE {"updated"}

\* The command loop ends: QUIT, the client is gone or too slow, or shutdown.
POP3ClearSession(s) ==
    /\ Ready(s, {"init", "user", "logged", "exit"})
    /\ IF stage[s] = "open"
       THEN /\ \E to \in AfterLoop(s) :
                  /\ to = "updating" => MailboxFree
                  /\ stage' = [stage EXCEPT ![s] = to]
            /\ UNCHANGED iPOP3State
       ELSE /\ iPOP3State' = [iPOP3State EXCEPT ![s] = "none"]
            /\ UNCHANGED stage
    /\ UNCHANGED <<up, dir, lockFile, stuck, list, deleted, iMsgCount, llMBSize, admitted>>

\* One turn of the loop of UPopUpdateMailbox.  The result of SysRemove is not
\* looked at.
RemoveMarked(s) ==
    /\ stage[s] = "updating"
    /\ \E i \in deleted[s] :
         /\ \/ dir' = dir \ {list[s][i]}
            \/ IOFails /\ UNCHANGED dir
         /\ deleted' = [deleted EXCEPT ![s] = @ \ {i}]
    /\ UNCHANGED <<up, lockFile, stuck, iPOP3State, stage, list, iMsgCount, llMBSize, admitted>>

UpdateDone(s) ==
    /\ stage[s] = "updating"
    /\ deleted[s] = {}
    /\ stage' = [stage EXCEPT ![s] = "updated"]
    /\ UNCHANGED <<up, dir, lockFile, stuck, iPOP3State, list, deleted, iMsgCount, llMBSize, admitted>>

\* The session's fields when its connection is closed.
Forget(S) ==
    /\ iPOP3State' = [s \in Sessions |-> IF s \in S THEN "none" ELSE iPOP3State[s]]
    /\ stage' = [s \in Sessions |-> IF s \in S THEN "none" ELSE stage[s]]
    /\ list' = [s \in Sessions |-> IF s \in S THEN <<>> ELSE list[s]]
    /\ deleted' = [s \in Sessions |-> IF s \in S THEN {} ELSE deleted[s]]
    /\ iMsgCount' = [s \in Sessions |-> IF s \in S THEN 0 ELSE iMsgCount[s]]
    /\ llMBSize' = [s \in Sessions |-> IF s \in S THEN 0 ELSE llMBSize[s]]

\* The end of UPopReleaseSession.
UPopReleaseSession(s) ==
    /\ stage[s] = "updated"
    /\ UsrPOP3Unlock
    /\ Forget({s})
    /\ UNCHANGED <<up, dir, admitted>>
-----------------------------------------------------------------------------
\* The server dies, or a shutdown cancels its threads where they are.
Crash ==
    /\ up
    /\ up' = FALSE
    /\ Forget(Sessions)
    /\ admitted' = [w \in Workers |-> NoMsg]
    /\ UNCHANGED <<dir, lockFile, stuck>>

\* UsrClearPop3LocksDir is called after the test that POP3 is disabled, and its
\* result is not looked at.
Restart ==
    /\ ~up
    /\ up' = TRUE
    /\ \/ lockFile' = (lockFile /\ ~POP3Enabled) /\ stuck' = (stuck /\ lockFile')
       \/ IOFails /\ POP3Enabled /\ stuck' = lockFile /\ UNCHANGED lockFile
    /\ UNCHANGED <<dir, serverVars, admitted>>

Deliver(w) ==
    \/ \E m \in Msgs : UPopCheckMailboxSize(w, m)
    \/ UsrMoveToMailBox(w) \/ DeliveryFails(w)

Login(s) ==
    \/ LoginRefused(s)
    \/ UsrPOP3Lock(s) \/ UPopBuildMessageList(s) \/ BuildSessionFails(s)

Command(s) ==
    \/ POP3HandleCmd_USER(s) \/ Login(s)
    \/ \E i \in DOMAIN list[s] : UPopDeleteMessage(s, i)
    \/ UPopResetSession(s)
    \/ POP3HandleCmd_QUIT(s)

End(s) == POP3ClearSession(s) \/ RemoveMarked(s) \/ UpdateDone(s) \/ UPopReleaseSession(s)

Next ==
    \/ \E w \in Workers : Deliver(w)
    \/ \E s \in Sessions : Connect(s) \/ Command(s) \/ End(s)
    \/ Crash \/ Restart

Spec == Init /\ [][Next]_vars

\* A thread that runs goes on, the server is started again, and a client goes
\* away or sends nothing for iSessionTimeout.
Fairness ==
    /\ WF_vars(Restart)
    /\ \A s \in Sessions :
         /\ WF_vars(UPopBuildMessageList(s) \/ BuildSessionFails(s))
         /\ WF_vars(End(s))
    /\ \A w \in Workers : WF_vars(UsrMoveToMailBox(w) \/ DeliveryFails(w))

FairSpec == Spec /\ Fairness
-----------------------------------------------------------------------------
\* A lock file of nobody is removed when the server starts (SvrSetupPOP3), if it
\* can be.
NoStaleLock == up /\ lockFile /\ ~stuck => \E s \in Sessions : HasLock(s)

(***************************************************************************)
(* At most one session has the account, and while the server runs the lock *)
(* file is there exactly when one has, or because the file itself could    *)
(* not be removed: no error path and no crash leaves the account locked    *)
(* (UPopBuildSession, SvrSetupPOP3).                                       *)
(***************************************************************************)
LockMatchesSession ==
    /\ \A s, t \in Sessions : HasLock(s) /\ HasLock(t) => s = t
    /\ (\E s \in Sessions : HasLock(s)) => lockFile
    /\ NoStaleLock

(***************************************************************************)
(* What a session listed stays in the mailbox under the number the client  *)
(* knows until the session ends, marked or not, so that RETR finds it and  *)
(* RSET brings it back (UPopSessionSendMsg opens it by that name).         *)
(***************************************************************************)
ListedMessagesExist ==
    \A s \in Sessions : stage[s] = "open" => \A i \in DOMAIN list[s] : list[s][i] \in dir

(***************************************************************************)
(* STAT tells the number and the size of the unmarked messages, whatever   *)
(* the order of DELE and RSET.                                             *)
(***************************************************************************)
CountersMatch ==
    \A s \in Sessions : stage[s] = "open" =>
        /\ iMsgCount[s] = Cardinality(Kept(s))
        /\ llMBSize[s] = SizeOf({list[s][i] : i \in Kept(s)})

(***************************************************************************)
(* The quota is checked before the delivery and not under the same lock:   *)
(* the mailbox may pass it, but only by the messages in delivery when it   *)
(* was reached, one for each SMAIL thread.                                 *)
(***************************************************************************)
QuotaOverrun ==
    MaxMBSize # 0 =>
        SizeOf(dir \cup {admitted[w] : w \in {v \in Workers : admitted[v] # NoMsg}})
            < MaxMBSize + Cardinality(Workers) * Max({llMsgSize[m] : m \in Msgs})

(***************************************************************************)
(* A message leaves the mailbox only for a session that listed it, marked  *)
(* it and was ended by QUIT (the iUpdate of UPopReleaseSession).           *)
(***************************************************************************)
OnlyQuitRemoves ==
    [][\A m \in dir \ dir' : \E s \in Sessions :
          /\ iPOP3State[s] = "exit"
          /\ \E i \in deleted[s] : list[s][i] = m]_vars

(***************************************************************************)
(* An account does not stay locked: its session ends and releases it, or   *)
(* the server is started again and removes the lock file, unless the file  *)
(* cannot be removed.                                                      *)
(***************************************************************************)
LockIsReleased == lockFile ~> ~lockFile \/ stuck
=============================================================================
