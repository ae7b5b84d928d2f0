# TLA+ models and proofs for XMail

XMail is a mail server in C++: SMTP, POP3, CTRL and FINGER services, a spool
with delivery threads, POP3 retrieval from other servers, and plain files as
its database. This directory holds TLA+ models of its core, the TLC instances
that check them, and TLAPS proofs about them. Every definition is
translated from the source; `PROJECT.json` maps each one to the lines it
models.

To check a module: `tlc -workers 2 -config smtp.cfg MCSMTPSession`. To check
proofs: `tlapm SMTPSession_proof.tla`.

1. [The system](#1-the-system)
2. [Modules](#2-modules)
3. [What each module says, and how it follows the code](#3-what-each-module-says)
4. [Runs, bounds and what they show](#4-runs)
5. [Fairness](#5-fairness)
6. [Proofs](#6-proofs)
7. [Where code and documents disagree](#7-where-code-and-documents-disagree)
8. [What is not modelled](#8-what-is-not-modelled)
9. [Plan](#9-plan)

## 1. The system

One process, many threads. `SvrMain` (MailSvr.cpp) starts the listeners of each
service, which start a thread for each connection, fixed pools of SMAIL
threads (delivery) and LMAIL threads (local submission), and one PSYNC thread
(POP3 retrieval), which starts a thread for each synchronisation, up to a
limit. They share the spool queue object, the named locks of
ResLocks.cpp, one shared block per service with its
configuration and thread count, and the files under `MAIL_ROOT`.

    SMTP session ──┐                        ┌─> mailbox directory <── POP3 session
    LMAIL, PSYNC ──┼─> temp ─> mess ─┐      │        (lock file)
    bounces ───────┘            QUEUE ──> SMAIL thread ─> MX lookup ─> other server
                         rsnd <──┘  ^       │             processing file
                           └─ scan ─┘       └─> removed, or froz <── CTRL session
    remote mailbox ──> PSYNC thread (lock file, seen messages)          │
    tables of domains, users, aliases, links  <─────────────────────────┘

| Component | State | Operations | Hard behaviour | What makes it correct |
|---|---|---|---|---|
| **Resource locks** ResLocks.cpp | 37 gates: list of lock entries, waiting counter, semaphore; one mutex | lock / try / unlock, SH and EX | sleepers of different names share a gate; nested locks; failed allocation | exclusion; counts equal holders; every sleeper has a waker |
| **Spool queue** MessQueue.cpp, QueueUtils.cpp | ready list, resend arena, counters, ready event; directories temp, mess, rsnd, froz, slog | create, commit, extract, resend, close, scan, flush, freeze, unfreeze, delete | crash between rename and enqueue; retry counts across restarts; stale names in CTRL commands | nothing accepted is lost, nothing has two owners, everything accepted is settled |
| **SMAIL threads** SMAILSvr.cpp, SMAILUtils.cpp | the message in hand, copies and pushback of processing files | deliver, run commands, retry, notify | some lines of a file fail and some do not; crash while the copy is replaced | no line forgotten, none repeated without reason |
| **Synchronisation** SysDepUnix.cpp | semaphore, mutex, event over a condition variable; child processes | wait, timed wait, release, set, reset | signal or broadcast; spurious wakeups | no lost wakeup, units conserved |
| **SMTP server** SMTPSvr.cpp | session: state, flags, logon, errors, message file, recipients | HELO … QUIT, AUTH, STARTTLS, filters, spooling | any command in any state; partial resets; partial spooling | a 250 means spooled; permissions survive resets |
| **SMTP client** SMTPUtils.cpp | connection, last error | send over gateways and MX records | fall-back order, temporary or final error, lost confirmation | last error decides bounce or retry; forced TLS is kept |
| **POP3 and mailboxes** POP3Svr.cpp, POP3Utils.cpp, Maildir.cpp, UsrAuth.cpp | lock file, message list, marks, counters; mailbox files | login, DELE, RSET, RETR, QUIT, update | deliveries beside sessions; lock file outlives the process | one session per account; only QUIT removes |
| **PSYNC** PSYNCSvr.cpp, POP3GwLink.cpp, POP3Utils.cpp | link locks, semaphore, seen-message files | schedule, fetch, save | counting of threads at shutdown; duplicates after a failure or a crash | nothing lost; fetched again only for a reason |
| **LMAIL** LMAILSvr.cpp | local spool files | snapshot, submit, remove | failed submission then removal | nothing removed unsubmitted |
| **CTRL, FINGER** CTRLSvr.cpp, FINGSvr.cpp | session | edit tables, froz commands | several sessions edit one table | edits are atomic |
| **Users and tables** UsrUtils.cpp, ExtAliases.cpp, MailDomains.cpp, TabIndex.cpp … | .tab files and index files, mailbox directories | add, modify, remove, look up | one command, several tables and directories under one lock after the other; table replaced by a copy; index older than table | rows and directories agree; a new user inherits nothing |
| **DNS, MX cache** DNS.cpp, DNSCache.cpp | cache files | query, cache, expire | several name servers, each of which may fail; expiry | a failure is not taken for an answer |
| **Filters** Filter.cpp | filter files, outcomes | run chain, modify message | file changed behind an open handle | verdict is honoured |
| **Lifecycle** MailSvr.cpp, ShBlocks.cpp | shared blocks, thread counts, stop flags | start, stop, wait | waits of 480 ms where seconds are meant (MailSvr.cpp:76) | nobody uses a closed object |
| **Network, SSL, strings, lists, hashes, digests, crypt, other platforms** | buffers | byte-level and sequential code | – | – |

Each hazard the code is exposed to is listed with its line and the properties
that watch it under `hazards` in `PROJECT.json`.

## 2. Modules

| Module | Models | Extends / instances |
|---|---|---|
| `RWLock` | abstract named read/write lock | |
| `ResLocks` | ResLocks.cpp | INSTANCE `RWLock` |
| `ReliableSpool` | abstract spool | |
| `MessQueue` | MessQueue.cpp, QueueUtils.cpp, the SMAIL thread loop, froz commands of CTRL | INSTANCE `ReliableSpool` |
| `SysWait` | semaphores, mutexes, events of SysDepUnix.cpp | |
| `Mailbox` | POP3 sessions and deliveries of one account | |
| `SMTPSession` | one SMTP session | |
| `MailProc` | what SMAILProcessFile does with one message | |
| `AtLeastOnce` | abstract delivery to one remote recipient | |
| `RemoteDelivery` | one message to one remote recipient: SMAILRemoteMsgSMTPSend, the SMTP client (SMTPUtils.cpp), the search for MX records (DNS.cpp, DNSCache.cpp) | INSTANCE `AtLeastOnce` |
| `Accounts` | tables and directories of domains, users, aliases and links under the commands of CTRL | |
| `PopSync` | the PSYNC service, its links and seen-message databases, the POP3 client | |
| `MC…` | instances of the above for TLC | EXTENDS the module |
| `…_proof` | theorems about the above; `Locks_proof` has those about `ResLocks` and `SysWait` | EXTENDS the module and TLAPS |

How they fit. `SysWait` is the layer below `ResLocks` and `MessQueue`: what
their mutexes, semaphores and events are assumed to do is what it shows of the
condition variable code (`OneHolder`, `UnitsConserved`, `SleepersAreCalled`).
`ResLocks` is the lock of which `Mailbox` takes one operation at a time as a
step (`MutualExclusion`). `SMTPSession` ends where `MessQueue` begins: its
`SubmitRcpt` is a create and a commit of the queue. `MailProc` refines the
delivery step of `MessQueue`: that one thread at a time has the message is
`SingleOwner` there, and its settled outcomes are `Deliver`,
`NotifyAndCondemn` and `ResendExpired` there. `RemoteDelivery` is one step of
both: what its attempt ends with is `Deliver` or `NotifyAndCondemn` of
`MessQueue` for a message to a remote recipient, and `LineDone`,
`LineTransient` or `LineRefused` of `MailProc` for an `smtprelay` line.
`Accounts` takes the lock of a table by a step, which is what `ResLocks`
justifies, and its deliveries are those of `Mailbox`, seen from the directory
that may go. `Deliver` of `PopSync` is a create and a commit of `MessQueue` per
recipient, as in `SMTPSession`. The composition is by these interfaces;
there is no module whose state is the product of two of them, as
their product is beyond TLC without adding a behaviour that neither has.

## 3. What each module says

Actions have the names of the functions they model. Where one function is
several steps the comment over the action says at which lock, file operation or
wait it was cut. A "bound" below is a constant that exists to keep the state
space finite and is a guard in the module.

### ResLocks

State: `pResList`, `iShLocks`, `iExLocks` (the `ResLockEntry` of a name),
`iWaitingProcesses` and `semCounter` of a gate, and for each *handle slot*
where it is (`idle`, `trying`, `asleep`, `holding`, `lost`). A thread that
takes a lock inside another has two slots, related by `Enclosing`.

`hRLMutex` covers each try and each unlock, so each is one action
(`LockGranted`, `LockRefused`, `LockBlocked`, `RLckUnlock`). The wait on the
semaphore happens after the mutex is dropped, so `WakeUp` is separate, and
between the two anything may happen. `RLckDoUnlockEX/SH` release the tokens of
*all* waiters of the gate when an entry goes, which is what
`RemoveAndRelease` does. `lost` is the lock that is taken when the allocation
of the returned name then fails: the code takes the lock and returns
`INVALID_RLCK_HANDLE`.

- `EntryCountsHolders`: the entry of a name counts exactly its handles.
- `SleepersHaveAWaker`: a sleeper has a token or a locked name at its gate.
- `ServedUnlessOvertaken`: a call waits for ever only while other calls keep
  coming (liveness), when names that nest do not share a gate; see section 7 for
  when they do. Nothing bounds the number of calls. Without the excuse it is
  `EveryCallServed`, which is false: `RLckTryLockSH` lets a new reader in beside
  the readers a writer waits for (ResLocks.cpp:270-275), and a sleeper that was
  woken competes with everyone else for the name, so that a caller may starve.
- `ImplementsRWLock`: the abstract lock.
- `MutualExclusion`, `SleepersAccounted`: parts of the inductive invariant;
  proved, and implied by the refinement and by `SleepersHaveAWaker` in runs.

### MessQueue

State on disk: `dir` and `slog` of a message; in memory: both lists with their
counters, the manual reset event, the handle (`pszQueueDir`, `iNumTries`), and
the program counters of producers, SMAIL threads and CTRL sessions. `QueClose`
is the orderly end, when all threads have left their loops; a server whose
threads are still busy 480 ms after the stop ends as in `Crash`. Both keep the
disk and lose the rest; `QueOpen` reads mess and rsnd back, in any
order within a directory. With `IOFails` it passes over a file for which there
is no memory (MessQueue.cpp:245, 271) and takes a slog file that it cannot open
for an empty one (`misread`): `QueLoadMessageStat` returns 0 all the same.

The mutex of the queue covers list operations; the event is waited for
before it, so waking (`WaitReadyEvent`) and extracting
(`QueExtractMessage`, `ExtractNothing`) are two steps. A rename and the list
operation after it are two steps (`CommitMove`/`QueCommitMessage`,
`ResendMove`/`QueResendMessage`, `UnFreezeMove`/`QueUtUnFreezeMessage`), as a
crash or another thread may come between. The resend scan takes any subset of
the arena (the messages whose time has come, as time is abstract). CTRL
commands act on names a `frozlist` printed earlier (`listed`).

- `QueueCountsAgree`: counters are lengths, event set iff the list is not empty.
- `SingleOwner`: a handle is in one list, once, or with one thread.
- `QueueMatchesDisk`: a handle knows where its file is.
- `SpoolFilesAreOwned`: without I/O errors no file of the spool is forgotten.
- `AcceptedIsKept`: accepted and gone means delivered, notified, filtered or deleted.
- `DeliveredOncePerRestart`, `RetryBound`: repeats only by restarts. The tries
  are bounded for a message no `frozlist` has shown and whose slog file could
  always be opened (`Uncounted`): a resubmission removes the
  slog file before it looks whether the message is still frozen, so that one
  that comes late takes the tries of a message being retried, and after the next
  restart it is tried anew.
- `UndeliveredIsFrozen`: with RemoveSpoolErrors off nothing undelivered is removed.
- `SpooledIsSettled`: every spooled message leaves the queue (liveness).
- `ImplementsReliableSpool`: the abstract spool, for which a crash is a stutter.

### SysWait

One object of one of four kinds, with the count a wait may take, and threads
outside, asleep in `pthread_cond_wait`, called out of it, or holding the
mutex. `SemWakeup` and `EventWakeup` are the choices between
`pthread_cond_signal` and `_broadcast`. Spurious wakeups are actions, and so
are timed waits, which the code has only on the spool's ready event and on the
end of a thread, both manual reset (broadcast).

- `SleepersAreCalled`: beside a sleeper there are as many called threads as units.
- `UnitsConserved`, `OneHolder`; `UnitsAreTaken` (liveness).

### Mailbox

State: messages in the directory, the lock file, and for each POP3 session its
state, its stage (locked, open, updating, updated), its list, marks and
counters; for each SMAIL thread the message that passed the quota check. The
update at QUIT removes file by file, so `RemoveMarked` is a step per file, and
may fail or be cut by a crash; every other operation runs under the lock of the
mailbox path and is one step. `AfterLoop` holds the code's decision of which
end of a session updates the mailbox.

- `LockMatchesSession`, `LockIsReleased`: one session; no stale lock file, unless
  it could not be removed (`stuck`): neither `UsrPOP3Unlock` (UsrUtils.cpp:1911) nor
  the start of the server (MailSvr.cpp:687) looks whether the removal succeeded,
  and the account is then locked until a start that removes the file.
- `ListedMessagesExist`: numbers stay valid for the session.
- `CountersMatch`: STAT after any DELE and RSET.
- `OnlyQuitRemoves`: a message goes only if marked, and by QUIT.
- `QuotaOverrun`: the check-then-deliver race is bounded by one message per thread.

### SMTPSession

State: `iSMTPState`, `ulFlags`, logon, TLS, errors, message file and its
recipient lines, and as history what the client was told (`accepted`, `acked`)
and what is in the `spool`. A handler is one step with its resets in order;
`SMTPResetSession`, `SMTPFullResetSession`, `SMTPClearSession` and
`SMTPSendError` are operators that handlers use. DATA is a sequence of steps:
receive, spool recipient by recipient, answer.

Two failures of the message file go unnoticed, and are modelled (with `IOFails`):
`WriteLine` may lose or cut the line of a recipient, and those before it in the
same buffer, as nobody looks at what `fprintf` returns (SMTPSvr.cpp:1723), and
the 250 goes out all the same; `SubmitCutShort` ends the loop over the lines early
and with success, when one cannot be read (SMTPSvr.cpp:1833), the seek back to it
failed (SMTPSvr.cpp:1921), or it was cut. The history `unnoticed` and the field
`whole` of an acknowledgement record it; `Torn` is the address a cut line, or two
that ran together, may leave.

- `TransactionHasFile`, `FileMatchesClient`: file and dialogue agree, the latter
  exactly while no write has failed unnoticed; after one the file still has no
  line for anyone else, and `iRcptCount` counts the 250s.
- `AckedIsSpooled`: 250 means each recipient spooled exactly once, unless one of
  these failures happened; after one, nobody twice and nobody else. Without the
  excuse it is `EveryAckIsSpooled`, violated (section 7).
- `RelayIsPermitted`, `ServerRulesHold`: permissions hold throughout a transaction.
- `ErrorsEndSession`: SMTP-MaxErrors is final.
- `LogonLasts`: a logon ends only with the session or STARTTLS.
- `StateMatchesLogon`: part of the inductive invariant, proved only.

### MailProc

State: the processing file (`tab`, a sequence of commands), the copy in the
spool (line numbers of `tab`), what is left to read, what was pushed back, and
as history how often each line was carried out for each of its addresses
(`sent`), refused, dropped or skipped. The recipient's `route` is fixed for a
message: an administrator who edits the tables while a message is being
retried is left out. Result codes of commands are the outcomes `LineDone`,
`LineStops`, `LineTransient`, `LineRefused`, `LineFails`, `LineBlocked`,
`SmtpBlocked`; the file operations at the end of an attempt are `OpenFails`,
`EndOfFile`, `SavePushback`, `SaveFails`. `LateFrozDel` is an administrator's
frozdel that comes after a frozsubmit of the same message: QueDoMessageCleanup
removes files by the name of the message (MessQueue.cpp:638-657), so the copy of
a message that is live again goes with it, and the processing starts over.

- `RepeatsAreExplained`: a line is repeated only by a crash or a lost copy, a
  mailing list also by each retry.
- `NothingIsForgotten`: delivered means every line accounted for.
- `StopIsKept`: what a stop code skipped stays skipped.

`truncated` and `losses` record two things the code does and no document
forbids: an `fclose` whose error is ignored (MiscUtils.cpp:617) may lose lines,
and a copy that is removed but not replaced, or taken by `LateFrozDel`, makes the
file start over. The properties except them by name.

### RemoteDelivery

State: the configuration and the state of the world (`cfg`, fixed for a
behaviour), the stage of the attempt (`pc`), its `route`, the gateways or MX
records still to try (`list`, `mxr`), the gateway in use with its TLS option
(`gw`), what the channel has learnt (`chan`), the error record `pSMTPE`
(`err`), the stack of name servers of a nested query (`ns`) and the file of the
domain in the MX cache (`cache`). History: each server's answer of this attempt
(`said`), copies made, confirmations lost, and by which route and to which
server the message went in clear (`bare`).

Each exchange with a server is a step in which any reply, or none, may come:
`Welcome`, `Hello`, `NoTLS`/`SwitchToSSL`, `Authenticate`, `Envelope`,
`SendBody`, `USmtpCloseChannel`. `Verdict` is the loop of the callers over the
servers. `SMAILRemoteMsgSMTPSend` has the order of the routes: relay of the
command, route of the recipient, forwarders, default gateways, address literal,
MX records, A record. MX records are chosen as `USmtpGetMXFirst`/`Next` choose
them, by marking costs in place. The lookup asks the smart DNS hosts in turn or
recurses from the roots (`NsAnswers` … `NsExhausted`); `QueryFails` is the end of
a lookup before any server was asked (dnsroots cannot be opened, a badly written
SmartDNSHost, a cached list that ends in a cost without a name, no memory). The
results of writing the cache file are not looked at (DNSCache.cpp:214-219), so
`CDNS_MxSave` may keep none of it or the first records only (`Torn`), the last of
them with its name cut to one of `Remnants`.

- `TriedByPreference`: servers in the order of their list, MX records by
  preference, none twice, none left out before the message is put back. The
  records are those of the domain, or what the cache kept of them: an attempt that
  reads a file cut short leaves out exchangers and may ask a host that is none,
  and the property says so (`Records`).
- `OutcomeMatchesAnswers`: the search ends at the first server that accepts or
  refuses for good, and the outcome is its answer.
- `ImplementsAtLeastOnce`: the attempts together refine `AtLeastOnce`, in which
  only five things happen: a server takes the message and confirms it, or takes
  it unseen; a crash forgets the confirmation; the message counts as delivered,
  which needs a confirmation (or an empty list of gateways, which discards it);
  it is bounced, which needs that there is none. The mapping reads the
  confirmation off the result of USmtpSendMail (`sent`) and the doubts off the
  confirmations lost plus the crashes. Retries, the next server, the error record
  and the reply to QUIT are stuttering. What `MessQueue` and `MailProc` rest on
  is this: their `Deliver` and `LineDone` stand for a delivery here, and a copy
  that neither counts is a doubt.
- `CopiesAreExplained` follows: a second copy needs a lost confirmation or a
  crash, and so does a bounce of what was delivered. It is in no run, but proved.
- `ForcedIsSecure`: a message goes in clear only to a server for which the
  options in force on its route do not have `NeedTLS=2`.
- `AttemptEnds`: every attempt returns (liveness).
- `ARecordOnlyWithoutMX`, `SpecificOptionsWin`: what a comment and the manual
  say and the code does not do; in no run, see section 7.

### Accounts

State: the rows of six tables (`tab`), tables whose index could not be built
(`stale`) or whose file a failed copy removed (`lost`), the directories of
domains and users (`domDirs`, `dirs`), which incarnation of an account each
message in a mailbox was meant for (`mail`), each session's command and next
step (`cmd`, `at`), each delivery's target (`box`). A row about a user carries
the incarnation of the user it was made for: an account that is deleted and
added again is another one, and that is what "inherits" means.

A step is what happens under one lock: `UserAddDir` and `UserAddRow` are under
the same one, `UserDelRow` is followed by `UserCascade` over links, external
aliases and aliases and by `ClearUser` and `RemoveUserDir`, which hold none;
likewise for domains. A change of a table ends in `Store`; in an error that
changed nothing (`Fails`), or that left no index (`NoIndex`); or with rows lost:
the new one of an append, any of a rewritten table whose temporary file was cut
short unnoticed (`LosesRows`), or all of them with the file. `UserAddDir` and
`DomainAddDir` may fail to make the directory. `Crash` leaves any subset of the
rows of a table that was being copied over.

The pairs of commands that the code lets tear a name are listed in `Tears`, one
line for each race: the properties hold of every name that no such pair, no
failure and no crash has touched (`torn`), so that each race *outside* that
list would be reported. So is a wrong answer: a lookup that a bad index misled
(`Answered`), and the check of `useradd` in an alias domain, which is answered
for the target (section 7).

- `AccountsAreWhole`: rows and directories agree once no command is about them.
- `NothingIsInherited`: a new user gets no mail, link or alias of the old one.
- `NamesAreDistinct`: no name is a user and an alias, or a domain and an alias
  domain.
- `MailIsKept`: no cleaning takes messages of a user who is there.

### PopSync

State: the service (`up`, `shutdown`, `closed`), its main thread (`main`, the
links to go in `pending`), the semaphore (`slots`), the thread count (`count`),
for each thread its stage and link, the lists `SyncMList` and `SeenMList`
(`todo`, `seen`) and the messages marked at the remote server (`marks`); the lock
files and the databases of seen messages; the remote mailboxes. History: lock files
that could not be removed (`stuck`); what was delivered whole and to all its
recipients (`done`), to some of them (`partly`) or from a copy cut short (`cut`);
how often (`got`), and how often there was a reason to fetch
a message again (`reasons`).

The actions of a thread follow `PSYNCThreadSyncProc` and `UPopSyncRemoteLink`
from lock to unlock, with the failure of each step beside it. The database is
written in two steps (`fopen` empties it, `fclose` fills it). `Halt` is the end
of the process at any moment; `Cleanup` is `SvrCleanupPSYNC`, whose wait for the
main thread is 480 ms.

- `NothingIsLost`: gone from the remote mailbox, or seen, means that a delivery
  succeeded, and a whole one but in two cases which the code lets pass and the
  model names: recipients from the header (`FromHeader`) that are invalid or not
  handled are skipped (SMAILUtils.cpp:2674-2680), and a copy that a full disk cuts
  short at the `fclose` of POP3Utils.cpp:1071 is taken for whole. `GoneIsWhole`,
  without these, is violated (section 7).
- `FetchesAreExplained`: a message comes again only after something that makes
  it: a lost session, a database not written, a partial delivery.
- `LocksAreHeld`: a lock file belongs to exactly one working thread, unless it is
  one that could not be removed: the code does not look at the result
  (`GwLkLinkUnlock`, and `GwLkClearLinkLocksDir` at MailSvr.cpp:1219).
- `ServiceOutlivesClients`: the service ends with no counted thread at work.
- `RoundsEnd`: a round is not stuck for want of a slot (liveness).
- `OnlyTheNewOnes`: violated, see section 7. `ClosedAfterUse`: stated, in no
  run; a thread between its lock and its count is not waited for, and a cleanup
  may come before the wait.

## 4. Runs

| Run | Instance | Distinct states | Question |
|---|---|---|---|
| `reslocks` | 4 slots, 3 names, 2 gates, failing allocations, any number of calls | 4.7 k | counts, wakeups, service, refinement |
| `messqueue` | 2 messages, 2 workers, 2 tries, RemoveSpoolErrors on, 1 restart | 98 k | lists, ownership, retries, liveness |
| `messqueue_frozen` | 1 message, 1 worker, 2 CTRL sessions, failing I/O, RemoveSpoolErrors off, 1 restart, symmetry | 27 k | freezing, stale commands, refinement |
| `syswait` | 4 threads, all kinds, counts 1 and 2, 4 units | 1.2 k | wakeups |
| `mailbox` | 4 messages of 2 sizes, 2 sessions, 2 workers, quota 2, failing I/O | 121 k | lock file, list, quota, removal |
| `smtp` | 2 recipients, 2 users, MailAuth and WantTLS, `iMaxRcpts` 2, `iErrorsMax` 2, 2 messages, failing files | 2.8 M | transaction, permissions, acknowledgement |
| `mailproc` | all files of up to 2 commands and three of 3, 2 addresses, 2 tries, 1 crash, failing I/O, frozdel | 9.4 M | retry of processing files |
| `remote` | 15 configurations (every route; gateways of each TLS option; 4 MX records of which `MaxMX` 3 fit, two of one preference, once two of one name; `SmtpGwConfig` with each option; roots, smart DNS hosts, no domain), `MaxDepth` 1, referrals to 2, the cache file cut off, 2 attempts, 1 crash | 1.3 M | order, outcome, TLS, termination, refinement (copies) |
| `accounts` | 2 sessions (symmetric), 1 delivering thread, 2 domains, 2 accounts, 13 requests, 5 commands, 1 delivery, 1 fault or crash | 3.5 M | tables and directories together |
| `popsync` | 2 links of 2 mailboxes, one of them `Leave`, 2 slots after the first start and 1 after the second, 1 arrival, 2 synchronisations, 1 fault | 1.25 M | fetching, locks, slots, stop |
| `mailproc_blocked`, `popsync_leave` | as above, smaller | – | violated, see section 7 |

What each run checks:

| Run | Properties |
|---|---|
| `reslocks` | `SleepersHaveAWaker`, `ImplementsRWLock`, `ServedUnlessOvertaken` |
| `messqueue` | `QueueCountsAgree`, `SingleOwner`, `SpoolFilesAreOwned`, `DeliveredOncePerRestart`, `RetryBound`, `SpooledIsSettled` |
| `messqueue_frozen` | `AcceptedIsKept`, `UndeliveredIsFrozen`, `ImplementsReliableSpool` |
| `syswait` | `SleepersAreCalled`, `UnitsAreTaken` |
| `mailbox` | `LockMatchesSession`, `ListedMessagesExist`, `QuotaOverrun`, `OnlyQuitRemoves`, `LockIsReleased` |
| `smtp` | `FileMatchesClient`, `AckedIsSpooled`, `RelayIsPermitted`, `ServerRulesHold` |
| `mailproc` | `RepeatsAreExplained`, `NothingIsForgotten`, `StopIsKept` |
| `remote` | `TriedByPreference`, `OutcomeMatchesAnswers`, `ForcedIsSecure`, `ImplementsAtLeastOnce`, `AttemptEnds` |
| `accounts` | `AccountsAreWhole`, `NothingIsInherited`, `NamesAreDistinct`, `MailIsKept` |
| `popsync` | `NothingIsLost`, `FetchesAreExplained`, `LocksAreHeld`, `ServiceOutlivesClients`, `RoundsEnd` |
| `mailproc_blocked` | `NothingAfterCleanup` (violated) |
| `popsync_leave` | `OnlyTheNewOnes` (violated) |

The type invariants and what is proved or simpler (`EntryCountsHolders`,
`QueueMatchesDisk`, `UnitsConserved`, `OneHolder`, `CountersMatch`,
`CopiesAreExplained`, `TransactionHasFile`, `ErrorsEndSession`, `LogonLasts`,
`StateMatchesLogon`) are stated in the modules, hold on the same instances, and can be added to a .cfg.

Why the bounds are enough.

- *reslocks*: four slots are the least with a nested pair, a competitor inside
  and one outside; two names at one gate give sleepers that another name's
  unlock wakes. Each slot may call for ever, so no bound stands behind the
  liveness property.
- *messqueue*: two messages and two workers give two owners of one list and a
  message left behind when the event is reset; two tries give one resend and
  one expiry; one restart shows every cut, as a second one starts from states
  of the same kind. No administrators, as they are the other run.
- *messqueue_frozen*: two sessions with stale lists of one message are the
  race; the queue's own races are the other run.
- *syswait*: two units released at once with a third and fourth thread is the
  smallest case in which signal and broadcast differ after an untaken unit.
- *mailbox*: two workers admitted at once beyond a quota of 2 is the overrun;
  two sessions compete for the lock.
- *smtp*: two errors end a session, two recipients make spooling partial, two
  messages show what a reset leaves behind.
- *mailproc*: two commands show a failed line before and after a done one; the
  three-line files put one that is pushed back, stops or fails between two others.
- *remote*: two gateways show "next after a failure" and "stop after the last";
  four records of which three fit, two of equal preference, show the table's
  edge and the marking of costs; one referral level shows the nesting, as a
  deeper level repeats its step; a second attempt with one crash shows what an
  attempt leaves behind (only the cache).
- *accounts*: a race needs two sessions, and a third command cannot come in
  between two that already interleave at every lock without being one of the
  pairs again; five commands are add, remove, add again with one more beside
  each; one fault before, in or after any of them.
- *popsync*: two slots and two links give two sessions at once, on two
  mailboxes or on one in two rounds; a third session would meet what the second
  meets. One arrival comes between a listing and a QUIT; two starts show what a
  crash leaves to the next, which waits for its only slot.

Deadlock is checked except where the program may stop: in `reslocks` (every slot
may come to sleep behind a lock whose handle could not be allocated), `mailproc`
and `remote` (the message is settled), `accounts` (all commands given) and `popsync` (the last start has ended).

Each property has a mutant in `PROJECT.json`, a plausible bug in a mapped
definition (a dropped guard, a missing reset, a signal for a broadcast) under
which the same run reports the property violated.

## 5. Fairness

Only weak fairness, and only of steps that the scheduler or a finite wait
brings about:

- *ResLocks*: a thread that runs makes its next pass, a token wakes a sleeper,
  and a holder gives its lock back (`WF` of `LockPass`, `WakeUp`,
  `RLckUnlock`). The latter is the callers' duty: none keeps a lock while it
  waits for a client without a timeout.
- *MessQueue*: the server is started again; an SMAIL thread goes on; a producer
  and a CTRL session finish the commit they began; the scan thread runs
  (`QueScanRsndArena` every few seconds) and, as the retry time of a message
  passes, includes it. No fairness for clients, administrators, ETRN flushes or
  any particular outcome of an attempt: a message that always fails expires.
- *SysWait*: a called thread gets the pthread mutex in the end; a holder of
  the mutex unlocks it.
- *Mailbox*: the server is started again; a session is built or fails; a
  session ends (the client leaves, or is silent for `iSessionTimeout`);
  deliveries finish.
- *RemoteDelivery*: an attempt goes on (`WF` of `Attempt`): every wait for a
  server has a timeout, and then counts as its silence. No fairness for new
  attempts: `AttemptEnds` is about one that has begun.
- *PopSync*: while a thread of a link or the main thread can go on, one of them
  does, for the same reason. No fairness for starts, stops and arrivals.
- *SMTPSession*, *MailProc*, *Accounts*: safety only.

## 6. Proofs

TLC shows a property on one instance; these theorems hold for every value of
the constants that the modules' `ASSUME`s admit: any number of threads, names,
gates, messages, retries, lines, recipients and crashes. All have the same
shape: an inductive invariant `IInv`, `Init => IInv`, one lemma per group of
actions, `IInv /\ [Next]_vars => IInv'`, and the theorem by PTL. `IInv` of each
module was model-checked first.

| Module | Theorems | Inductive invariant, and why it is needed |
|---|---|---|
| `Locks_proof` | about `ResLocks`: `Invariance`, `SpecMutualExclusion`, `SpecEntryCountsHolders`, `SpecSleepersAccounted`, `SpecSleepersHaveAWaker`, `Refinement` | exclusion follows from the counts, which follow only if every holder is counted; "has a waker" needs that the waiting counter plus the tokens *equals* the sleepers, and that a gate with waiters has a locked name |
| `MessQueue_proof` | `Invariance`, `SpecTypeOK`, `SpecQueueCountsAgree`, `SpecSingleOwner`, `SpecQueueMatchesDisk`, `SpecSpoolFilesAreOwned`, `SpecAcceptedIsKept`, `SpecUndeliveredIsFrozen`, `CountsInvariance`, `SpecDeliveredOncePerRestart`, `SpecRetryBound`, `Refinement` | one owner and handle-matches-disk need each other; `AcceptedIsKept` needs that a message condemned to removal was notified or filtered (`RemovalIsDue`), that drafts were not accepted (`DraftsAreNew`), and that nothing is in memory while the server is down (`DownMeansIdle`); the counts need a second invariant, `CountsIInv`, below |
| `Locks_proof` | about `SysWait`: `SysInvariance`, `SpecSleepersAreCalled`, `SpecUnitsConserved`, `SpecOneHolder` | the three with types are inductive together |
| `Mailbox_proof` | `Invariance`, `SpecLockMatchesSession`, `SpecListedMessagesExist`, `SpecOnlyQuitRemoves`; `SpecQuotaOverrun`; `SpecTypeOK`, `SpecCountersMatch` | the lock needs the shape of a session (which stage goes with which POP3 state); the quota (`QInv`) is inductive as it stands, because a delivery moves a message from the threads to the directory and only a mailbox below its quota admits another; the counters (`CInv`) need that a list names nothing twice, that only what is listed is marked, and that a session that is not open lists nothing |
| `SMTPSession_proof` | `Invariance`, `SpecAckedIsSpooled`, `SpecTransactionHasFile`, `SpecFileMatchesClient`, `SpecRelayIsPermitted`, `SpecServerRulesHold`, `SpecStates`, `SpecLogonLasts` | the conjunction of the safety properties with the shape of a session (which phase has which file) and of the spool (message numbers not drawn yet are unused) |
| `MailProc_proof` | `Invariance`, `SpecTypeOK`, `SpecRepeatsAreExplained`, `SpecNothingIsForgotten`, `SpecStopIsKept` | a line is in one of rest, pushback, done, refused, dropped, skipped (`ListsAreApart`, `NothingLost`), and what is still to do has not been done in this life of the copy (`NotDoneYet`) |
| `RemoteDelivery_proof` | `Invariance`, `SpecTypeOK`, `SpecOutcomeMatchesAnswers`, `SpecCopiesAreExplained`, `SpecForcedIsSecure`, `SpecTriedByPreference`, `Refinement` | what was tried is the part of the gateways' list that is no longer to try (`ListInOrder`), the costs still unmarked are those of the records not tried (`Marks`), and the order of the tried ones is built along with them (`MXInOrder`); at each stage the last answer, the error record and the copies agree (`Answers`, `Copies`), with a reason for what the outcome will be (`Grounds`); a channel past the options of the gateway in use is secure or may be plain (`Secure`) |
| `PopSync_proof` | `Invariance`, `SpecTypeOK`, `SpecNothingIsLost`, `SpecLocksAreHeld`, `SpecServiceOutlivesClients`, `SpecFetchesAreExplained` | the thread count *equals* the threads between their two changes of it (`Counting`), the slots taken equal the threads at work (`Capacity`), a mailbox has one thread (`OneThreadEach`), and what a session or its database has seen was delivered (`SeenIsDone`); the fetches need a second invariant, `LInv`, below |
| `Accounts_proof` | `Invariance`, `SpecTypeOK`, `SpecAccountsAreWhole`, `SpecNothingIsInherited`, `SpecNamesAreDistinct`, `SpecMailIsKept` | for each stage of each command, what it still owes (`DomainIsWhole`, `UserIsWhole`, `RowsAreOwned`, `DomainOrAlias`, `UserOrAlias`), below |

The properties of `Accounts` are about names that no command is about; the
invariant says what holds of a name while commands are. A directory without a
row is explained by the session that made it and has its row still to write, by
one that has removed the row and is on its way to the directory, or by a late
message (`DomainIsWhole`, `UserIsWhole`); a link or an alias of a user who is
gone by a removal that has not come to that table yet (`RowsAreOwned`, in the
order of `UserTables` and `DomainTables`); what a lookup told a command is still
true at its later steps (`UserOrAlias`, `DomainOrAlias`, `Adding` and `Linking` in
the others), although the lock was given back in between. Each of these is for
names out of `torn`, and `PairsTear` is what they rest on: where another session
could undo what a lookup saw, the two commands have torn the name when the later
one began, so that the stages of the two never meet at a whole name. That the
list in `Tears` has no gap is what the proof adds to the run, for any number of
sessions, domains and accounts, any commands, faults and crashes. `RowsAreApart`
(one row for a name, and one session between a directory and its row, which the
lock of the users sees to), `DirsNest` and `MailIsOwned` are what is left.
The parts of a step that disturb nothing are shared: a `…Frame` operator says
what a part of the invariant looks at, and a lemma that it is kept. The attempt
to prove it found that the check of `useradd` was modelled as right for an alias
domain (section 7), which no request of the run reached then; it is in the run
now.

The sizes in `Mailbox` are folds over sets (`SizeOf`). They are reasoned about
through `SizeIsCount`: a message of size n stands for n parcels, and the fold is
the number of parcels of the set. That number solves the recursion of the fold
(`ParcelsAreFolded`), and every solution agrees with it on all subsets, since a
least subset where they differ would have a smaller one (`SmallestSet`, by the
library's `WFMin`). Addition, subsets and bounds then follow from the library's
facts about cardinality (`SizeFacts`, `SizeOfSubset`, `SizeOfMany`).

`SpecFetchesAreExplained` strengthens `IInv` to `LInv`: at every moment a fetch of
a message is charged either to what holds it now (the session that has it, or
the record of it: marked for deletion, removed, in the database) or to a counted
reason (`Explained`); what a session has still to do was not fetched by it
(`TodoIsNew`), and only links with `Leave` have a database (`DatabasesOfLeave`).

`SpecDeliveredOncePerRestart` and `SpecRetryBound` strengthen the invariant of
the queue to `CountsIInv`. A life of the server begins with each start
(`Starts`); in each a message is delivered at most once, and one that is still
in a list or with a thread before its delivery has one fewer (`DeliveryCounted`).
The tries are in two places, the handle and the lines of the slog file, which
agree only as far as the restarts go: each life in which the message was not
resent leaves at most a line that its next handle, taken from mess with no
tries, misses (`TriesWaiting`, `TriesBusy`). Nothing is claimed of the tries of
messages in `listed`, and sessions of CTRL work only on these
(`CommandsAreListed`).

Assumptions beyond the modules' own, each stated in the theorem:

- The theorems of `Mailbox_proof` about the lock, the lists and the removal
  assume `POP3Enabled`; without it the first is false (a stale lock file,
  section 7). The quota and the counters do not need it. `SpecQuotaOverrun`
  assumes that there is a message, as its bound names the largest one.
- `SpecTransactionHasFile` of `SMTPSession_proof` assumes `~CloseFails`; without
  it the property is false (section 7). The other theorems about the session
  hold with it too: what is acknowledged, permitted and written survives that
  a filter leaves the transaction without its file.
- `SpecFetchesAreExplained` of `PopSync_proof` assumes `Agreement`: two links of
  one remote mailbox both have `Leave` or both do not; else the one removes what
  the other recorded and the ledger of reasons is kept per mailbox only.
- `Refinement` of `MessQueue_proof` assumes `RemoveSpoolErrors => ~IOFails`: with
  removal on, a notification that cannot be spooled loses the message.

Refinements (of `RWLock`, `ReliableSpool` and `AtLeastOnce`) are proved for steps:
initial states map to initial states, each step to a step or a stutter. The
abstract specifications have no fairness. That of `AtLeastOnce` goes by the kinds
of a step that the invariant's proof has already (`LookupKinds`, `DialogueKinds`,
`VerdictFacts`): what is left is that a bounce and a new copy come only while
`sent` is false, which `Answers` says of every stage before the last reply, and
that an empty list is one of the configuration's (`EmptyListDiscards`).

Only model-checked: the liveness properties (`ServedUnlessOvertaken`,
`SpooledIsSettled`, `UnitsAreTaken`, `LockIsReleased`, `AttemptEnds`,
`RoundsEnd`), since liveness under fairness and ENABLED are out of the prover's
reach. Every safety property that a run checks has its theorem.

## 7. Where code and documents disagree

Two runs have TLC find a behaviour that a comment or the manual rules out
(`findings` in `PROJECT.json`):

- `mailproc_blocked` (SMAILSvr.cpp:878): a message that a filter blocked in an
  `smtp` line was cleaned up, but the line counts as retryable and the lines after
  it are carried out.
- `popsync_leave` (POP3Utils.cpp:1407): a session with `Leave` that breaks before
  the messages are listed frees its channel, and with that writes an empty
  database of seen messages; all messages on the server are fetched again by the
  next one. docs/Readme.txt:798 says that only the new ones are.

Properties that are stated in the modules, are violated by the code in the
configurations named here, and have no run:

- `EveryCallServed` of `ResLocks`: a caller may starve behind an unending stream
  of others (ResLocks.cpp:270-275), section 3.
- `ServedUnlessOvertaken` and `UnlockReleasesWaiters` of `ResLocks` with one gate for
  nested names (ResLocks.cpp:247, "Release waiting processes"): tokens belong to
  a gate and not to a name. When a mailbox hashes to the same gate as
  `server.tab`, which a session holds all along, a writer of `server.tab` can
  take the token meant for the session and go back to sleep; nothing then wakes
  the session.
- `NoStaleLock` of `Mailbox` without `POP3Enabled` (MailSvr.cpp:683): lock files
  are cleared by the set-up of POP3, which `-P-` skips, although POP3S uses them
  too.
- `TransactionHasFile` of `SMTPSession` with `CloseFails` (SMTPSvr.cpp:1397): when
  `fclose` fails before a filter, the transaction goes on with a NULL FILE; the
  failure of `fopen` beside it resets the session.
- `EveryAckIsSpooled` of `SMTPSession` with `IOFails`: "Send the ack only when
  everything is OK" (SMTPSvr.cpp:2068), but a write of a recipient's line that
  failed (SMTPSvr.cpp:1723), or a read (SMTPSvr.cpp:1833), is not noticed, and the
  recipient is left out of a message that was acknowledged. Three commands and one
  failure of the disk.
- `NoEmitIsHonoured` of `SMTPSession` (SMTPSvr.cpp:705): DisableEmitAuthUser of a
  user is lost with the first reset of the session.
- `ARecordOnlyWithoutMX` of `RemoteDelivery`: SMAILSvr.cpp:525 falls back to the
  A record "only if the domain has no MX records", but `DNS_RecurseQuery` gives
  the error of that case also when no name server replied (DNS.cpp:736).
- `SpecificOptionsWin` of `RemoteDelivery`: docs/Readme.txt:2096 lets a gateway's
  own options override `SmtpGwConfig`; for `DefaultSMTPGateways` the code applies
  them in the other order, so that a `NeedTLS=2` of an entry can be weakened.
- `GoneIsWhole` of `PopSync`: "Delete remote message only if successfully
  delivered" (POP3Utils.cpp:1456), but a delivery to one of several recipients
  counts, those skipped because a lookup failed included (SMAILUtils.cpp:2674-2680,
  2721-2725), and so does that of a copy cut short (POP3Utils.cpp:1071).
- `ClosedAfterUse` of `PopSync`: "Wait for client completion" (PSYNCSvr.cpp:435)
  is cut short by a clean-up that waits 480 ms where seconds are meant
  (MailSvr.cpp:76), and does not cover threads that have not counted themselves
  yet; the shared block is freed under them.

Modelled as the code does it, and worth a look:

- `USmtpCloseChannel` records the reply to QUIT as the error of the delivery
  (SMTPUtils.cpp:1394-1421), so a 5xx there turns a retry into a bounce, and a
  4xx a bounce into a retry.
- A `dnsroots` file with exactly one entry yields an empty list of roots
  (DNS.cpp:783).
- A failed copy over a table removes the table (MiscUtils.cpp:609-612); the
  results of `fprintf` when a row is appended are not looked at.
- `domaindel` beside `useradd`, `aliasadd`, `domainadd` or `aliasdomainadd`, and
  `userdel` or `useradd` beside `aliasadd`, leave rows or directories behind
  (`Tears` of `Accounts`; compare ChangeLog.txt:235 and 809). Aliases in other
  domains survive the removal of the domain they lead to.
- `useradd` in an alias domain: `MDomIsHandledDomain` (CTRLSvr.cpp:420) answers
  for the target of the alias, and the user is then put into the alias domain
  itself, which is not handled. It fails only because the alias domain has no
  directory to make the user's in (UsrUtils.cpp:1573), and a late message may
  have kept that of a domain of this name which was removed.
- A message whose RETR the remote server refuses ends each session of that
  mailbox at that message. `PSYNCThreadProc` does not give back the slot it
  waited for when it is told to stop meanwhile.

Read and not modelled: docs/Readme.txt:1843 says command aliases are tried when
the users/aliases lookup fails, while SMAILSvr.cpp:1332 tries them first;
docs/Readme.txt:2561 describes a `lock` subdirectory of the spool that the code
does not use any more; docs/Readme.txt:919 writes the options of a forwarder
behind a comma, while `USmtpGetFwdGateways` reads them from a third field of the
line (SMTPUtils.cpp:307); the number given to a new user is
that of a removed one if that was the last (so that an id is no key);
`uservarsset` of two sessions may lose one; `MscClearDirectory` leaves its search
open on an error. Some files of this commit do not compile as they are (`hFind`
twice in MiscUtils.cpp:537-545, `pHashTable` twice in TabIndex.cpp, `pUFile`
undeclared in POP3Utils.cpp): where that is so the models follow what the code
around it uses the name for.

## 8. What is not modelled

- Time: a retry interval, a session timeout and a wait are "may have passed".
- Content: messages, names and replies are values of small sets; parsing,
  formatting and logging are left out.
- `RemoteDelivery`: packets, the records of a referral (their number only), time
  to live (an entry of the cache "may have expired"), and the commands of the
  command line client SendMail.cpp. Replies of more lines than a server ever
  ends would keep an attempt busy, as each line restarts the timeout; a silent
  server is what `AttemptEnds` is about.
- `Accounts`: alias domains in the lookup of a user, wildcard aliases, passwords,
  variables, processing files and mailing lists, command aliases, external
  authentication, removal of mail by POP3 (in `Mailbox`); an account has at most one
  link and one external alias.
- `PopSync`: the remote server is external and no other client removes its
  messages; reports and logs are left out, and so are the commands that edit
  the table of links (in `Accounts`).
- `MailProc`: when the file of a command alias cannot be copied, the recipient
  falls through to that of a user or of a custom domain (SMAILSvr.cpp:1256, 1338).
  As long as the copy fails it behaves like a recipient of that route, with which
  the model starts too; a later attempt that copies the alias's file after all,
  and so mixes the two, is left out. So is the state of the info and temporary
  files that a cleanup removes: nothing of the delivery depends on them.
- Reads that fail: MscFGets and MscGetConfigLine do not tell an error from the end
  of a file. That is modelled where an acknowledgement depends on it
  (`SMTPSession`) or a table is rewritten (`LosesRows`); elsewhere a read of an
  intact file succeeds. Lookups in tables that cannot be opened are left out:
  `Finds` of `Accounts` misses only when the index is bad.
- A second fault in answer to a first: a row cut in its middle is a lost row, and
  the removal of a half-made account directory (UsrPrepareUserEnv) succeeds.
- LMAIL: a file of the local spool whose submission failed is removed with the
  others of the snapshot (LMAILSvr.cpp:436): listed as a hazard, planned.
- SysExec with its SIGCHLD thread, the chain of filter files and their macros,
  the order in which the services start and stop: planned, section 9.
- The index files of tables beyond "built, or not": which row a wrong index
  leads to does not matter, as every lookup compares the key of the row.
- Sockets, SSL, string, list, hash and digest code, other platforms, vendored
  headers: byte-level I/O or sequential code without shared state.
- Unsynchronised reads of shared flags (stop flags, `iThreadCount`), and thus
  their outcomes on weakly ordered machines: with the lifecycle.

## 9. Plan

Done, with runs and proofs: 1 `RWLock`, `ResLocks`; 2 `ReliableSpool`,
`MessQueue`; 3 `SysWait`; 4 `Mailbox`; 5 `SMTPSession`; 6 `MailProc`;
7 `AtLeastOnce`, `RemoteDelivery`; 8 `Accounts`; 9 `PopSync`.

Next, in order of importance:

10. `AtLeastOnce` as the remote step of `MailProc` and `MessQueue`, so that the
    doubts of the former are counted in the repeats of the latter.
11. `LMail`: snapshot, submission, removal, with several threads and crashes.
12. `Exec`: SysExec, the child list and the SIGCHLD thread with timeouts.
13. `Filters`: the chain of filter files over one message, and the macros.
14. `Lifecycle`: thread counts, stop flags and shutdown order of MailSvr.cpp
    with the shared blocks of all services; waits that give up.
15. Pure functions against reference definitions over bounded inputs:
    `QueNextRetryOp` schedules, wildcard matching, IP map selection.
