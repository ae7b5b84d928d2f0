------------------------------ MODULE MailProc ------------------------------
(***************************************************************************)
(* What SMAIL threads do with one message until it leaves the spool        *)
(* (SMAILProcessFile in SMAILSvr.cpp, USmlProcessLocalUserMessage in       *)
(* SMAILUtils.cpp).  A message is delivered to a mailbox, sent to another  *)
(* server or to a mailing list, or is worked off line by line with the     *)
(* commands of a processing file: that of a command alias or of a custom   *)
(* domain (SMAILCustomProcessMessage), or the mailproc.tab of a user       *)
(* (USmlProcessCustomMailingFile).                                         *)
(*                                                                         *)
(* The first attempt copies the processing file into the spool.  A command *)
(* that failed for now is pushed back: it goes to a file that replaces the *)
(* copy at the end, so that the next attempt only finds what is left.      *)
(* Module MessQueue has the queue around this; one thread at a time has    *)
(* the message (its SingleOwner).                                          *)
(***************************************************************************)
EXTENDS Naturals, Sequences, SequencesExt

CONSTANTS
    Files,          \* contents of the processing file: sequences of commands
    Routes,         \* where the recipient may lead
    Copies,         \* addresses of a redirect line, and of the mailing list
    iMaxRetry,
    IOFails,        \* files cannot be copied, created or written
    MaxRestarts     \* bound on crashes

DirectRoutes == {"local", "remote", "list", "unknown"}
FileRoutes == {"cmdalias", "domain", "user"}

\* Commands of each kind of file; lredirect only differs in the sender.
CommandsOf(r) ==
    {"external", "filter", "redirect", "smtprelay"}
        \cup (IF r = "user" THEN {"mailbox"} ELSE {"smtp"})

ASSUME RoutesAssumption == Routes \subseteq DirectRoutes \cup FileRoutes
ASSUME BoundsAssumption ==
    Copies \in Nat \ {0} /\ iMaxRetry \in Nat \ {0} /\ MaxRestarts \in Nat /\ IOFails \in BOOLEAN

VARIABLES
    route, tab,     \* of the recipient, for good
    hasCopy, copy,  \* the copy in cust or mprc: numbers of lines of tab
    phase,          \* "queued", "running", "saving" the pushback, "ended", "settled"
    direct,         \* of an attempt without a file: what it does instead, or "none"
    rest,           \* lines it has still to read
    push,           \* lines in the pushback file
    target,         \* next address of a redirect line or of the mailing list
    failed,         \* an ended attempt returned an error
    cleaned,        \* QUMF_DELETED is set in the handle
    iNumTries,
    restarts,
    \* what happened
    sent,           \* how often each line was carried out, for each of its addresses
    refused,        \* lines refused for good, their sender was notified
    dropped,        \* lines given up for an error of this host
    skipped,        \* lines after a command that stopped the processing
    truncated,      \* lines were lost by a write that failed or a crash within it
    losses,         \* how often the copy was lost
    status          \* "pending", "delivered" or "condemned"

recipient == <<route, tab>>
reading == <<rest, push, target>>
ghost == <<sent, refused, dropped, skipped, truncated, losses>>
vars == <<recipient, hasCopy, copy, phase, direct, reading, failed, cleaned, iNumTries,
          restarts, ghost, status>>

Lines == 1..Len(tab)
AllLines == [i \in Lines |-> i]

\* Line 0 stands for a delivery without a file.
AddressesOf(i) ==
    IF IF i = 0 THEN direct = "list" ELSE tab[i] = "redirect" THEN 1..Copies ELSE {1}

TypeOK ==
    /\ route \in Routes
    /\ tab \in Seq(CommandsOf(route))
    /\ hasCopy \in BOOLEAN
    /\ copy \in Seq(Lines)
    /\ phase \in {"queued", "running", "saving", "ended", "settled"}
    /\ direct \in DirectRoutes \cup {"none"}
    /\ rest \in Seq(Lines) /\ push \in Seq(Lines) /\ target \in 1..Copies
    /\ failed \in BOOLEAN /\ cleaned \in BOOLEAN
    /\ iNumTries \in Nat /\ restarts \in Nat /\ losses \in Nat
    /\ sent \in [(0..Len(tab)) \X (1..Copies) -> Nat]
    /\ refused \subseteq Lines /\ dropped \subseteq Lines /\ skipped \subseteq Lines
    /\ truncated \in BOOLEAN
    /\ status \in {"pending", "delivered", "condemned"}

\* A committed message.  Only a recipient with a processing file has one.
Init ==
    /\ route \in Routes
    /\ tab \in IF route \in FileRoutes THEN Files \cap Seq(CommandsOf(route)) ELSE {<<>>}
    /\ hasCopy = FALSE /\ copy = <<>>
    /\ phase = "queued" /\ direct = "none"
    /\ rest = <<>> /\ push = <<>> /\ target = 1
    /\ failed = FALSE /\ cleaned = FALSE
    /\ iNumTries = 0 /\ restarts = 0 /\ losses = 0
    /\ sent = [d \in (0..Len(tab)) \X (1..Copies) |-> 0]
    /\ refused = {} /\ dropped = {} /\ skipped = {}
    /\ truncated = FALSE
    /\ status = "pending"

-----------------------------------------------------------------------------
(* The beginning of an attempt *)

StartDirect ==
    /\ phase = "queued"
    /\ route \in DirectRoutes
    /\ phase' = "running"
    /\ direct' = route
    /\ UNCHANGED <<recipient, hasCopy, copy, reading, failed, cleaned, iNumTries, restarts,
                   ghost, status>>

ReadFrom(file) ==
    /\ phase' = "running"
    /\ direct' = "none"
    /\ rest' = file
    /\ UNCHANGED <<push, target>>

\* "If the file already exist inside the spool, just return the latest."
StartFromCopy ==
    /\ phase = "queued"
    /\ hasCopy
    /\ ReadFrom(copy)
    /\ UNCHANGED <<recipient, hasCopy, copy, failed, cleaned, iNumTries, restarts, ghost, status>>

\* The file of the recipient is copied; the copy may lose its end when a write
\* fails in fclose, whose result is not looked at, or when a crash follows.
FirstCopy ==
    /\ phase = "queued"
    /\ ~hasCopy
    /\ route \in FileRoutes
    /\ hasCopy' = TRUE
    /\ \/ copy' = AllLines /\ UNCHANGED truncated
       \/ IOFails /\ copy' \in Prefixes(AllLines) \ {AllLines} /\ truncated' = TRUE
    /\ ReadFrom(copy')
    /\ UNCHANGED <<recipient, failed, cleaned, iNumTries, restarts, sent, refused, dropped,
                   skipped, losses, status>>

\* When the copy fails the file counts for not being there, and the attempt
\* goes on to what is done without one.  The copy of a user is put together
\* from two files, of which the first remains if the second cannot be locked.
\* A command alias whose file cannot be copied may also lead on to the file of a
\* user or of a custom domain: the recipient is then one of that route, and
\* that a later attempt copies the alias's file after all is left out.
WithoutFile ==
    [cmdalias |-> DirectRoutes, domain |-> {"remote"}, user |-> {"local"}]

CopyFails ==
    /\ phase = "queued"
    /\ ~hasCopy
    /\ route \in FileRoutes
    /\ IOFails
    /\ \/ UNCHANGED <<hasCopy, copy, truncated>>
       \/ /\ route = "user"
          /\ hasCopy' = TRUE /\ copy' \in Prefixes(AllLines) \ {AllLines} /\ truncated' = TRUE
    /\ phase' = "running"
    /\ direct' \in WithoutFile[route]
    /\ UNCHANGED <<recipient, reading, failed, cleaned, iNumTries, restarts, sent, refused,
                   dropped, skipped, losses, status>>

-----------------------------------------------------------------------------
(* The lines of the file *)

Line == Head(rest)
Command == tab[Line]
Reads(commands) ==
    phase = "running" /\ direct = "none" /\ rest # <<>> /\ Command \in commands

CarriedOut(i) == sent' = [sent EXCEPT ![<<i, target>>] = @ + 1]

NextLine == rest' = Tail(rest) /\ target' = 1 /\ UNCHANGED <<phase, failed>>

\* ProcessFile returns at once, and the pushback file is removed.
Abort ==
    /\ phase' = "ended" /\ failed' = TRUE
    /\ rest' = <<>> /\ push' = <<>> /\ target' = 1

\* Mutant: any error of a command saves it.
Negative_Saved ==
    IF cleaned' THEN Abort ELSE NextLine /\ push' = Append(push, Line)

\* A command returned <0.  Only a message that was cleaned up stops the file
\* (QueCheckMessage); the line is not kept in any case.
Negative ==
    IF cleaned' THEN Abort ELSE NextLine /\ UNCHANGED push

LineDone ==
    /\ Reads({"external", "filter", "smtp", "smtprelay", "mailbox"})
    /\ CarriedOut(Line)
    /\ NextLine
    /\ UNCHANGED <<recipient, hasCopy, copy, direct, push, cleaned, iNumTries, restarts,
                   refused, dropped, skipped, truncated, losses, status>>

\* Mutant: the stop code is taken for success.
LineStops_Continues ==
    /\ Reads({"external", "filter"})
    /\ CarriedOut(Line)
    /\ NextLine
    /\ skipped' = skipped \cup Range(Tail(rest))
    /\ UNCHANGED <<recipient, hasCopy, copy, direct, push, cleaned, iNumTries, restarts,
                   refused, dropped, truncated, losses, status>>

\* SMAIL_STOP_PROCESSING, an exit code of the program.
LineStops ==
    /\ Reads({"external", "filter"})
    /\ CarriedOut(Line)
    /\ rest' = <<>> /\ target' = 1
    /\ skipped' = skipped \cup Range(Tail(rest))
    /\ UNCHANGED <<recipient, hasCopy, copy, phase, failed, direct, push, cleaned, iNumTries,
                   restarts, refused, dropped, truncated, losses, status>>

\* >0: "Transient error ( save the command )"
LineTransient ==
    /\ Reads({"smtp", "smtprelay"})
    /\ push' = Append(push, Line)
    /\ NextLine
    /\ UNCHANGED <<recipient, hasCopy, copy, direct, cleaned, iNumTries, restarts, ghost, status>>

\* The server at the other end gave a 5xx reply, and the sender was notified.
LineRefused ==
    /\ Reads({"smtp", "smtprelay"})
    /\ refused' = refused \cup {Line}
    /\ UNCHANGED cleaned
    /\ Negative
    /\ UNCHANGED <<recipient, hasCopy, copy, direct, iNumTries, restarts, sent, dropped,
                   skipped, truncated, losses, status>>

\* A program cannot be run, a file cannot be created, a line makes no sense.
LineFails ==
    /\ Reads(CommandsOf(route))
    /\ dropped' = dropped \cup {Line}
    /\ UNCHANGED cleaned
    /\ Negative
    /\ UNCHANGED <<recipient, hasCopy, copy, direct, iNumTries, restarts, sent, refused,
                   skipped, truncated, losses, status>>

\* A filter blocked the message, or the mailbox is full.
LineBlocked ==
    /\ Reads({"external", "filter", "smtprelay", "mailbox"})
    /\ cleaned' = TRUE
    /\ Negative
    /\ UNCHANGED <<recipient, hasCopy, copy, direct, iNumTries, restarts, ghost, status>>

\* A filter blocked the message, or the domain does not exist, which cleans the
\* message up too; neither leaves an SMTP reply, so the error counts as transient.
SmtpBlocked ==
    /\ Reads({"smtp"})
    /\ cleaned' = TRUE
    /\ push' = Append(push, Line)
    /\ NextLine
    /\ UNCHANGED <<recipient, hasCopy, copy, direct, iNumTries, restarts, ghost, status>>

\* Mutant: one address too many.
RedirectCopy_OffByOne ==
    /\ Reads({"redirect"})
    /\ CarriedOut(Line)
    /\ IF target <= Copies
       THEN target' = target + 1 /\ UNCHANGED <<phase, failed, rest>>
       ELSE NextLine
    /\ UNCHANGED <<recipient, hasCopy, copy, direct, push, cleaned, iNumTries, restarts,
                   refused, dropped, skipped, truncated, losses, status>>

\* The next address of a redirect gets a message of its own.
RedirectCopy ==
    /\ Reads({"redirect"})
    /\ CarriedOut(Line)
    /\ IF target < Copies
       THEN target' = target + 1 /\ UNCHANGED <<phase, failed, rest>>
       ELSE NextLine
    /\ UNCHANGED <<recipient, hasCopy, copy, direct, push, cleaned, iNumTries, restarts,
                   refused, dropped, skipped, truncated, losses, status>>

-----------------------------------------------------------------------------
(* The end of the file *)

\* The file or the pushback file cannot be opened, before the first line.
OpenFails ==
    /\ phase = "running" /\ direct = "none"
    /\ IOFails
    /\ rest = copy /\ target = 1
    /\ Abort
    /\ UNCHANGED <<recipient, hasCopy, copy, direct, cleaned, iNumTries, restarts, ghost, status>>

\* Mutant: the pushback is forgotten.
EndOfFile_NoPushback ==
    /\ phase = "running" /\ direct = "none" /\ rest = <<>>
    /\ hasCopy' = FALSE
    /\ phase' = "ended"
    /\ failed' = FALSE
    /\ UNCHANGED <<recipient, copy, direct, reading, cleaned, iNumTries, restarts, ghost, status>>

\* The copy is removed, and then replaced by the pushback file if that has lines.
EndOfFile ==
    /\ phase = "running" /\ direct = "none" /\ rest = <<>>
    /\ hasCopy' = FALSE
    /\ phase' = IF push = <<>> THEN "ended" ELSE "saving"
    /\ failed' = FALSE
    /\ UNCHANGED <<recipient, copy, direct, reading, cleaned, iNumTries, restarts, ghost, status>>

SavePushback ==
    /\ phase = "saving"
    /\ hasCopy' = TRUE
    /\ \/ copy' = push /\ UNCHANGED truncated
       \/ IOFails /\ copy' \in Prefixes(push) \ {push} /\ truncated' = TRUE
    /\ Abort
    /\ UNCHANGED <<recipient, direct, cleaned, iNumTries, restarts, sent, refused, dropped,
                   skipped, losses, status>>

\* MscMoveFile fails: the pushback file stays where nobody looks for it.
SaveFails ==
    /\ phase = "saving"
    /\ IOFails
    /\ losses' = losses + 1
    /\ Abort
    /\ UNCHANGED <<recipient, hasCopy, copy, direct, cleaned, iNumTries, restarts, sent, refused,
                   dropped, skipped, truncated, status>>

-----------------------------------------------------------------------------
(* Attempts without a file *)

DirectIs(kinds) == phase = "running" /\ direct \in kinds

DirectDone ==
    /\ DirectIs({"local", "remote", "list"})
    /\ CarriedOut(0)
    /\ IF direct = "list" /\ target < Copies
       THEN target' = target + 1 /\ UNCHANGED <<phase, failed>>
       ELSE target' = 1 /\ phase' = "ended" /\ failed' = FALSE
    /\ UNCHANGED <<recipient, hasCopy, copy, direct, rest, push, cleaned, iNumTries, restarts,
                   refused, dropped, skipped, truncated, losses, status>>

\* A transient error, or one of this host.
DirectFails ==
    /\ DirectIs({"local", "remote", "list"})
    /\ Abort
    /\ UNCHANGED <<recipient, hasCopy, copy, direct, cleaned, iNumTries, restarts, ghost, status>>

\* Blocked by a filter, over quota, refused by the other server or a domain or
\* user that does not exist.
DirectRefused ==
    /\ DirectIs({"local", "remote", "list", "unknown"})
    /\ target = 1
    /\ cleaned' = TRUE
    /\ Abort
    /\ UNCHANGED <<recipient, hasCopy, copy, direct, iNumTries, restarts, ghost, status>>

-----------------------------------------------------------------------------
(* The message itself (SMAILTryProcessMessage) *)

\* QueDoMessageCleanup removes the files of a message by its name from cust and
\* mprc too: a frozdel that comes after a frozsubmit takes the copy away from a
\* message that is being retried.  While the copy is read it is open, and it goes
\* at the end of the attempt anyway.
LateFrozDel ==
    /\ hasCopy
    /\ phase \in {"queued", "ended"} \/ DirectIs(DirectRoutes)
    /\ hasCopy' = FALSE
    /\ losses' = losses + 1
    /\ UNCHANGED <<recipient, copy, phase, direct, reading, failed, cleaned, iNumTries, restarts,
                   sent, refused, dropped, skipped, truncated, status>>

\* QueCloseMessage of a message that was cleaned up takes the copy along.
Settle(outcome) ==
    /\ phase' = "settled"
    /\ status' = outcome
    /\ hasCopy' = FALSE
    /\ UNCHANGED <<recipient, copy, direct, reading, failed, cleaned, iNumTries, restarts, ghost>>

\* The spool file cannot be loaded, or went through too many servers.
Unusable == phase = "queued" /\ Settle("condemned")

Delivered == phase = "ended" /\ ~failed /\ Settle("delivered")

Condemned == phase = "ended" /\ failed /\ cleaned /\ Settle("condemned")

Expired ==
    /\ phase = "ended" /\ failed /\ ~cleaned
    /\ iNumTries >= iMaxRetry
    /\ Settle("condemned")

QueResendMessage ==
    /\ phase = "ended" /\ failed /\ ~cleaned
    /\ iNumTries < iMaxRetry
    /\ phase' = "queued"
    /\ iNumTries' = iNumTries + 1
    /\ failed' = FALSE
    /\ direct' = "none"
    /\ UNCHANGED <<recipient, hasCopy, copy, reading, cleaned, restarts, ghost, status>>

\* The process ends; QUMF_DELETED and the pushback file are forgotten.
Crash ==
    /\ phase \in {"running", "saving", "ended"}
    /\ restarts < MaxRestarts
    /\ restarts' = restarts + 1
    /\ phase' = "queued"
    /\ rest' = <<>> /\ push' = <<>> /\ target' = 1
    /\ failed' = FALSE /\ cleaned' = FALSE /\ direct' = "none"
    /\ UNCHANGED <<recipient, hasCopy, copy, iNumTries, ghost, status>>

-----------------------------------------------------------------------------

Start == StartDirect \/ StartFromCopy \/ FirstCopy \/ CopyFails
ProcessLine ==
    \/ LineDone \/ LineStops \/ LineTransient \/ LineRefused \/ LineFails
    \/ LineBlocked \/ SmtpBlocked \/ RedirectCopy
ProcessDirect == DirectDone \/ DirectFails \/ DirectRefused
EndFile == OpenFails \/ EndOfFile \/ SavePushback \/ SaveFails
EndAttempt == Unusable \/ Delivered \/ Condemned \/ Expired \/ QueResendMessage

Next ==
    Start \/ ProcessLine \/ ProcessDirect \/ EndFile \/ EndAttempt \/ LateFrozDel \/ Crash

Spec == Init /\ [][Next]_vars

-----------------------------------------------------------------------------
(* Properties *)

\* A mailing list that failed half way starts over with the next attempt.
Repeatable(i) == IF i = 0 /\ route \in {"list", "cmdalias"} THEN iNumTries ELSE 0

(***************************************************************************)
(* What was carried out is not repeated: a line goes again to an address   *)
(* only after a crash or after the copy was lost, and a mailing list only  *)
(* with another attempt.  A redirect that failed half way is given up.     *)
(***************************************************************************)
RepeatsAreExplained ==
    \A d \in DOMAIN sent :
        sent[d] <= 1 + restarts + losses + Repeatable(d[1])

\* A line that is done with.
Accounted(i) ==
    \/ i \in refused \cup dropped \cup skipped
    \/ \A k \in AddressesOf(i) : sent[<<i, k>>] > 0

(***************************************************************************)
(* A message leaves the spool as delivered only when each line of its file *)
(* was carried out for all its addresses, refused with a notification,     *)
(* skipped, or failed on this host, unless a write lost lines: what was    *)
(* pushed back is tried again.  Without a file it was carried out itself.  *)
(***************************************************************************)
NothingIsForgotten ==
    status = "delivered" /\ ~truncated =>
        IF direct = "none" THEN \A i \in Lines : Accounted(i) ELSE Accounted(0)

(***************************************************************************)
(* A line after one that stopped the processing is not carried out by any  *)
(* later attempt, while no crash or failed write made the file start over. *)
(***************************************************************************)
StopIsKept ==
    restarts + losses = 0 =>
        \A i \in skipped, k \in 1..Copies : sent[<<i, k>>] = 0

(***************************************************************************)
(* "An error code might result if filters blocked the message ... and we   *)
(* MUST stop processing" (SMAILSvr.cpp:1217).                              *)
(***************************************************************************)
NothingAfterCleanup == [][cleaned => sent' = sent]_vars
=============================================================================
