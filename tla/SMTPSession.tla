---------------------------- MODULE SMTPSession ----------------------------
(***************************************************************************)
(* One SMTP session (SMTPSvr.cpp): its command state, the flags that       *)
(* permit things, and the message that a client builds with MAIL, RCPT and *)
(* DATA in a temporary file that is then spooled, one message for each     *)
(* recipient.                                                              *)
(*                                                                         *)
(* A handler is one step, but for DATA, where the client may go away, and  *)
(* the server may die between the recipients.  Nearly every handler can    *)
(* refuse, with or without a reset of the session, and in that order: the  *)
(* reset sets the state, and the refusal may then end the session.         *)
(***************************************************************************)
EXTENDS Naturals, Sequences

CONSTANTS
    Rcpts,          \* recipients a client may name
    LocalRcpts,     \* those in a domain handled here or by custom processing
    Torn,           \* the address in a line that was cut, or ran into the next
    Users,          \* accounts that clients log on with
    NoUser,
    UserPerms,      \* SmtpPerms of each user
    NoEmit,         \* and its DisableEmitAuthUser: "yes", "no" or "unset"
    ulSetupFlags,   \* from the server configuration: MailAuth, WantTLS, DisableEmitAuthUser
    IPRelay,        \* smtprelay.tab lets this client relay
    PopAuth,        \* EnableAuthSMTP-POP3
    iMaxRcpts,
    iErrorsMax,     \* SMTP-MaxErrors; 0, for no limit, is a limit never reached
    IOFails,        \* files cannot be created, written, read or opened again
    CloseFails,     \* fclose reports an error before a filter runs
    MaxMessages     \* bound on the message numbers that are drawn

Perms == {"RELAY_ENABLED", "MAIL_UNLOCKED", "EASE_TLS"}
SetupFlags == {"MAIL_LOCKED", "WANT_TLS", "NOEMIT_AUTH"}
\* BLOCKED_IP stands for MAPPED_IP, NORDNS_IP and BLOCKED_IP.
Flags == Perms \cup SetupFlags \cup {"AUTHENTICATED", "BLOCKED_IP"}

ASSUME RcptsAssumption == LocalRcpts \subseteq Rcpts /\ Torn \notin Rcpts
ASSUME UsersAssumption ==
    /\ NoUser \notin Users
    /\ UserPerms \in [Users -> SUBSET Perms]
    /\ NoEmit \in [Users -> {"yes", "no", "unset"}]
ASSUME ConfigAssumption ==
    /\ ulSetupFlags \subseteq SetupFlags
    /\ {IPRelay, PopAuth, IOFails, CloseFails} \subseteq BOOLEAN
    /\ iMaxRcpts \in Nat /\ iErrorsMax \in Nat \ {0} /\ MaxMessages \in Nat

VARIABLES
    phase,          \* "none": no session, "command": between handlers,
                    \* "data": receiving a message, "submit": spooling it
    iSMTPState,
    ulFlags,
    szLogonUser,
    tls,            \* the link is a TLS link
    iErrorsCount,
    file,           \* "none", "open": pMsgFile is, "closed": on disk, pMsgFile is NULL
    lines,          \* recipients written to it
    iRcptCount,
    ullMessageID,   \* last number drawn
    sent,           \* recipients of the message that are spooled
    unnoticed,      \* history: a line could not be written, and nobody looked
    accepted,       \* recipients the client was told 250 for since it was for MAIL
    spool,          \* messages in the spool: number, position, recipient, X-AuthUser
    acked           \* the messages that DATA was told 250 for: number, recipients
                    \* the client was told 250 for, and no failure went unnoticed

message == <<file, lines, iRcptCount, sent, unnoticed>>
session == <<phase, iSMTPState, ulFlags, szLogonUser, tls, iErrorsCount, message>>
vars == <<session, ullMessageID, accepted, spool, acked>>

Addresses == Rcpts \cup {Torn}
SpoolMessages ==
    [id : Nat, n : Nat, rcpt : Addresses, user : Users \cup {NoUser}]
Acks == [id : Nat, rcpts : Seq(Rcpts), whole : BOOLEAN]

TypeOK ==
    /\ phase \in {"none", "command", "data", "submit"}
    /\ iSMTPState \in {"init", "helo", "authenticated", "mail", "rcpt", "exit"}
    /\ ulFlags \subseteq Flags
    /\ szLogonUser \in Users \cup {NoUser}
    /\ tls \in BOOLEAN
    /\ iErrorsCount \in Nat
    /\ file \in {"none", "open", "closed"}
    /\ lines \in Seq(Addresses)
    /\ iRcptCount \in Nat
    /\ ullMessageID \in Nat
    /\ sent \in Nat
    /\ unnoticed \in BOOLEAN
    /\ accepted \in Seq(Rcpts)
    /\ spool \subseteq SpoolMessages
    /\ acked \subseteq Acks

Init ==
    /\ phase = "none"
    /\ iSMTPState = "init"
    /\ ulFlags = {}
    /\ szLogonUser = NoUser
    /\ tls = FALSE
    /\ iErrorsCount = 0
    /\ file = "none" /\ lines = <<>> /\ iRcptCount = 0 /\ sent = 0
    /\ unnoticed = FALSE
    /\ ullMessageID = 0
    /\ accepted = <<>>
    /\ spool = {}
    /\ acked = {}
-----------------------------------------------------------------------------
\* SMTPF_AUTH_MASK and SMTPF_STATIC_MASK: what survives a reset.
\* Mutant: the reset keeps the permissions and forgets who has them.
ResetMask_NoAuth == Perms \cup {"BLOCKED_IP"}

ResetMask == Perms \cup {"AUTHENTICATED", "BLOCKED_IP"}

\* Mutant: what the configuration asks for is not set again.
FlagsAfterReset_NoSetup(flags) == flags \cap ResetMask

FlagsAfterReset(flags) == ulSetupFlags \cup (flags \cap ResetMask)

StateAfterReset(flags, state) ==
    IF "AUTHENTICATED" \in FlagsAfterReset(flags) THEN "authenticated"
    ELSE IF state = "init" THEN "init" ELSE "helo"

ForgetMessage ==
    /\ file' = "none" /\ lines' = <<>> /\ iRcptCount' = 0 /\ sent' = 0
    /\ unnoticed' = FALSE

\* An error reply, in a session that is otherwise in the given state.  What
\* cannot be sent is not counted.
SMTPSendError(state) ==
    \/ /\ iErrorsCount' = iErrorsCount + 1
       /\ iSMTPState' = IF iErrorsCount' >= iErrorsMax THEN "exit" ELSE state
    \/ UNCHANGED iErrorsCount /\ iSMTPState' = state

\* The three ways in which handlers end early.
Refuse == SMTPSendError(iSMTPState) /\ UNCHANGED <<ulFlags, message>>

\* Mutant: the error is sent, and counted, before the session is reset.
ResetAndRefuse_Swapped(flags) ==
    /\ ulFlags' = FlagsAfterReset(flags)
    /\ ForgetMessage
    /\ iErrorsCount' = iErrorsCount + 1
    /\ iSMTPState' = StateAfterReset(flags, iSMTPState)

ResetAndRefuse(flags) ==
    /\ ulFlags' = FlagsAfterReset(flags)
    /\ ForgetMessage
    /\ SMTPSendError(StateAfterReset(flags, iSMTPState))

SMTPResetSession ==
    /\ ulFlags' = FlagsAfterReset(ulFlags)
    /\ ForgetMessage
    /\ iSMTPState' = StateAfterReset(ulFlags, iSMTPState)
    /\ UNCHANGED iErrorsCount

\* The flags once the permissions and settings of a user are applied.
AppliedEmit(u, flags) ==
    CASE NoEmit[u] = "yes" -> flags \cup {"NOEMIT_AUTH"}
      [] NoEmit[u] = "no" -> flags \ {"NOEMIT_AUTH"}
      [] OTHER -> flags

SMTPApplyUserConfig(u) == AppliedEmit(u, (ulFlags \cup UserPerms[u]) \ {"BLOCKED_IP"})

Ready == phase = "command" /\ iSMTPState # "exit"
-----------------------------------------------------------------------------
\* An address that is banned outright gets no session.
SMTPInitSession ==
    /\ phase = "none"
    /\ phase' = "command"
    /\ \E blocked \in SUBSET {"BLOCKED_IP"} : ulFlags' = ulSetupFlags \cup blocked
    /\ tls' \in BOOLEAN
    /\ UNCHANGED <<iSMTPState, szLogonUser, iErrorsCount, message, ullMessageID,
                   accepted, spool, acked>>

\* HELO and EHLO.
SMTPHandleCmd_HELO ==
    /\ Ready
    /\ IF iSMTPState \in {"init", "helo"}
       THEN \/ Refuse
            \/ iSMTPState' = "helo" /\ UNCHANGED <<ulFlags, iErrorsCount, message>>
       ELSE ResetAndRefuse(ulFlags)
    /\ UNCHANGED <<phase, szLogonUser, tls, ullMessageID, accepted, spool, acked>>

\* The flags and the state start again, which keeps szLogonUser.
\* Mutant: the transaction goes on.
SMTPFullResetSession_KeepsMessage ==
    ulFlags' = ulSetupFlags /\ UNCHANGED <<iSMTPState, iErrorsCount, message>>

SMTPFullResetSession ==
    /\ ulFlags' = FlagsAfterReset({})
    /\ ForgetMessage
    /\ iSMTPState' = "init"
    /\ UNCHANGED iErrorsCount

SMTPHandleCmd_STARTTLS ==
    /\ Ready
    /\ \/ Refuse /\ UNCHANGED tls
       \/ /\ ~tls
          /\ \/ tls' = TRUE /\ SMTPFullResetSession
             \/ iSMTPState' = "exit" /\ UNCHANGED <<tls, ulFlags, iErrorsCount, message>>
    /\ UNCHANGED <<phase, szLogonUser, ullMessageID, accepted, spool, acked>>

SMTPHandleCmd_AUTH ==
    /\ Ready
    /\ IF iSMTPState = "helo"
       THEN \/ Refuse /\ UNCHANGED szLogonUser
            \/ \E u \in Users :
                 /\ ulFlags' = SMTPApplyUserConfig(u) \cup {"AUTHENTICATED"}
                 /\ szLogonUser' = u
                 /\ iSMTPState' = "authenticated"
                 /\ UNCHANGED <<iErrorsCount, message>>
       ELSE ResetAndRefuse(ulFlags) /\ UNCHANGED szLogonUser
    /\ UNCHANGED <<phase, tls, ullMessageID, accepted, spool, acked>>

\* What MAIL does once its sender is accepted, with the flags that are then set.
MailIsLocked(flags) ==
    \/ "BLOCKED_IP" \in flags
    \/ "MAIL_LOCKED" \in flags /\ "MAIL_UNLOCKED" \notin flags

OpenMessage(flags) ==
    /\ ~MailIsLocked(flags)
    /\ ullMessageID < MaxMessages
    /\ ullMessageID' = ullMessageID + 1
    /\ file' = "open" /\ lines' = <<>>
    /\ UNCHANGED <<iRcptCount, sent, unnoticed, iErrorsCount>>
    /\ iSMTPState' = "mail"
    /\ ulFlags' = flags
    /\ accepted' = <<>>

RefuseMail(flags) ==
    /\ ResetAndRefuse(flags)
    /\ UNCHANGED <<ullMessageID, accepted>>

TLSNeeded == "WANT_TLS" \in ulFlags /\ "EASE_TLS" \notin ulFlags /\ ~tls

\* A null sender, or any sender when POP3 authentication is not asked for.  It
\* may be refused for its syntax, its domain, its address or its size.
MailFromAny ==
    /\ \/ OpenMessage(ulFlags)
       \/ RefuseMail(ulFlags)
    /\ UNCHANGED szLogonUser

\* A user whose POP3 login from this address is recent.  The permissions
\* stay when the message is refused afterwards.
MailFromPopUser(u) ==
    /\ PopAuth
    /\ \/ OpenMessage(SMTPApplyUserConfig(u))
       \/ RefuseMail(SMTPApplyUserConfig(u))
    /\ szLogonUser' = IF szLogonUser = NoUser THEN u ELSE szLogonUser

SMTPHandleCmd_MAIL ==
    /\ Ready
    /\ IF iSMTPState \notin {"helo", "authenticated"}
       THEN RefuseMail(ulFlags) /\ UNCHANGED szLogonUser
       ELSE IF TLSNeeded
       THEN Refuse /\ UNCHANGED <<szLogonUser, ullMessageID, accepted>>
       ELSE MailFromAny \/ \E u \in Users : MailFromPopUser(u)
    /\ UNCHANGED <<phase, tls, spool, acked>>
-----------------------------------------------------------------------------
\* What a filter may do to the session, when there is one to run: it needs the
\* file closed, and open again.
\* Mutant: the recipient is taken off a count that it was not added to.
FilterRejects_Uncounts ==
    /\ SMTPSendError(iSMTPState)
    /\ iRcptCount' = iRcptCount - 1
    /\ UNCHANGED <<ulFlags, file, lines, sent, unnoticed>>

FilterRejects == Refuse

FilterCannotClose ==
    /\ CloseFails /\ file = "open"
    /\ file' = "closed"
    /\ SMTPSendError(iSMTPState)
    /\ UNCHANGED <<ulFlags, lines, iRcptCount, sent, unnoticed>>

\* Mutant: the session is not reset.
FilterCannotReopen_NoReset ==
    /\ IOFails /\ file = "open"
    /\ file' = "closed"
    /\ SMTPSendError(iSMTPState)
    /\ UNCHANGED <<ulFlags, lines, iRcptCount, sent, unnoticed>>

FilterCannotReopen == IOFails /\ file = "open" /\ ResetAndRefuse(ulFlags)

SMTPCheckRelayCapability(r) ==
    r \in LocalRcpts \/ "RELAY_ENABLED" \in ulFlags \/ IPRelay

\* The line of a recipient.  Nobody looks at what fprintf returns: when the
\* buffer cannot be flushed the line is lost, with others before it that were
\* still in the buffer, or what is left of them is cut.
WriteLine(r) ==
    \/ lines' = Append(lines, r) /\ UNCHANGED unnoticed
    \/ /\ IOFails
       /\ \E n \in 0..Len(lines) :
             lines' \in {SubSeq(lines, 1, n), Append(SubSeq(lines, 1, n), Torn)}
       /\ unnoticed' = TRUE

\* The recipient passes, and is told so whatever became of its line.
\* Mutant: the line is written before the post-rcpt filter is asked.
AcceptRcpt_BeforeFilter(r) ==
    /\ SMTPCheckRelayCapability(r) /\ file = "open"
    /\ WriteLine(r)
    /\ iRcptCount' = iRcptCount + 1
    /\ iSMTPState' = "rcpt"
    /\ accepted' \in {accepted, Append(accepted, r)}
    /\ UNCHANGED <<file, sent, ulFlags, iErrorsCount>>

AcceptRcpt(r) ==
    /\ SMTPCheckRelayCapability(r) /\ file = "open"
    /\ WriteLine(r)
    /\ iRcptCount' = iRcptCount + 1
    /\ iSMTPState' = "rcpt"
    /\ accepted' = Append(accepted, r)
    /\ UNCHANGED <<file, sent, ulFlags, iErrorsCount>>

SMTPHandleCmd_RCPT ==
    /\ Ready
    /\ IF iSMTPState \notin {"mail", "rcpt"}
       THEN ResetAndRefuse(ulFlags) /\ UNCHANGED accepted
       ELSE IF iRcptCount >= iMaxRcpts
       THEN Refuse /\ UNCHANGED accepted
       ELSE \/ /\ \/ Refuse \/ ResetAndRefuse(ulFlags)
                  \/ FilterRejects \/ FilterCannotClose \/ FilterCannotReopen
               /\ UNCHANGED accepted
            \/ \E r \in Rcpts : AcceptRcpt(r)
    /\ UNCHANGED <<phase, szLogonUser, tls, ullMessageID, spool, acked>>

\* DATA up to its 354 reply.  A reset for a rejecting filter that left no text
\* is not counted as an error.
SMTPHandleCmd_DATA ==
    /\ Ready
    /\ \/ ResetAndRefuse(ulFlags) /\ UNCHANGED phase
       \/ iSMTPState = "rcpt" /\ SMTPResetSession /\ UNCHANGED phase
       \/ /\ iSMTPState = "rcpt" /\ file = "open"
          /\ phase' = "data"
          /\ UNCHANGED <<iSMTPState, ulFlags, iErrorsCount, message>>
    /\ UNCHANGED <<szLogonUser, tls, ullMessageID, accepted, spool, acked>>

\* The message is too large, cannot be written, or is rejected by the post-data
\* filter; or the server shuts down.
DataRefused ==
    /\ phase = "data"
    /\ phase' = "command"
    /\ ResetAndRefuse(ulFlags) \/ SMTPResetSession
    /\ UNCHANGED <<szLogonUser, tls, ullMessageID, accepted, spool, acked>>

DataInterrupted ==
    /\ phase = "data"
    /\ phase' = "command"
    /\ iSMTPState' = "exit"
    /\ UNCHANGED <<ulFlags, szLogonUser, tls, iErrorsCount, message, ullMessageID,
                   accepted, spool, acked>>

DataReceived ==
    /\ phase = "data"
    /\ phase' = "submit"
    /\ file' = "closed"
    /\ UNCHANGED <<iSMTPState, ulFlags, szLogonUser, tls, iErrorsCount, lines, iRcptCount,
                   sent, unnoticed, ullMessageID, accepted, spool, acked>>

XAuthUser == IF "NOEMIT_AUTH" \in ulFlags THEN NoUser ELSE szLogonUser

\* One turn of the loop of SMTPSubmitPackedFile, up to QueCommitMessage.
SubmitRcpt ==
    /\ phase = "submit"
    /\ sent < Len(lines)
    /\ sent' = sent + 1
    /\ spool' = spool \cup {[id |-> ullMessageID, n |-> sent + 1, rcpt |-> lines[sent + 1],
                             user |-> XAuthUser]}
    /\ UNCHANGED <<phase, iSMTPState, ulFlags, szLogonUser, tls, iErrorsCount, file, lines,
                   iRcptCount, unnoticed, ullMessageID, accepted, acked>>

\* What is spooled already stays there.
SubmitFails ==
    /\ phase = "submit" /\ IOFails
    /\ phase' = "command"
    /\ ResetAndRefuse(ulFlags)
    /\ UNCHANGED <<szLogonUser, tls, ullMessageID, accepted, spool, acked>>

\* The 250, with what is known of the message then, and the reset after it.
Acknowledge(whole) ==
    /\ phase' = "command"
    /\ acked' = acked \cup {[id |-> ullMessageID, rcpts |-> accepted, whole |-> whole]}
    /\ SMTPResetSession
    /\ UNCHANGED <<szLogonUser, tls, ullMessageID, accepted, spool>>

\* Mutant: the client is answered while recipients are left.
SubmitDone_Early == phase = "submit" /\ sent > 0 /\ Acknowledge(~unnoticed)

SubmitDone == phase = "submit" /\ sent = Len(lines) /\ Acknowledge(~unnoticed)

\* The loop takes a line that cannot be read for the end of the recipients: a
\* read fails, a seek back from the data did (nobody looks), or a line was cut.
SubmitCutShort == phase = "submit" /\ IOFails /\ sent < Len(lines) /\ Acknowledge(FALSE)
-----------------------------------------------------------------------------
SMTPHandleCmd_RSET ==
    /\ Ready
    /\ SMTPResetSession
    /\ UNCHANGED <<phase, szLogonUser, tls, ullMessageID, accepted, spool, acked>>

SMTPHandleCmd_QUIT ==
    /\ Ready
    /\ iSMTPState' = "exit"
    /\ UNCHANGED <<phase, ulFlags, szLogonUser, tls, iErrorsCount, message, ullMessageID,
                   accepted, spool, acked>>

\* VRFY, ETRN and unknown commands are answered, by an error it may be.
SMTPHandleCmd_Other ==
    /\ Ready
    /\ Refuse
    /\ UNCHANGED <<phase, szLogonUser, tls, ullMessageID, accepted, spool, acked>>

\* The command loop has ended: QUIT, too many errors, a client that is gone or
\* too slow, a bad command string, or shutdown.
SMTPClearSession ==
    /\ phase' = "none"
    /\ iSMTPState' = "init"
    /\ ulFlags' = {}
    /\ szLogonUser' = NoUser
    /\ tls' = FALSE
    /\ iErrorsCount' = 0
    /\ ForgetMessage
    /\ UNCHANGED <<ullMessageID, accepted, spool, acked>>

EndSession == phase = "command" /\ SMTPClearSession

\* The server dies, by what RCPT and DATA write when pMsgFile is NULL or by
\* something else.
Crash == phase # "none" /\ SMTPClearSession

Command ==
    \/ SMTPHandleCmd_HELO \/ SMTPHandleCmd_STARTTLS \/ SMTPHandleCmd_AUTH
    \/ SMTPHandleCmd_MAIL \/ SMTPHandleCmd_RCPT \/ SMTPHandleCmd_DATA
    \/ SMTPHandleCmd_RSET \/ SMTPHandleCmd_QUIT \/ SMTPHandleCmd_Other

Data ==
    \/ DataRefused \/ DataInterrupted \/ DataReceived
    \/ SubmitRcpt \/ SubmitFails \/ SubmitDone \/ SubmitCutShort

Next == SMTPInitSession \/ Command \/ Data \/ EndSession \/ Crash

Spec == Init /\ [][Next]_vars
-----------------------------------------------------------------------------
InTransaction == phase # "none" /\ iSMTPState \in {"mail", "rcpt"}

\* Positions and recipients of the spooled messages with a number.
SpooledAs(id) == {<<m.n, m.rcpt>> : m \in {x \in spool : x.id = id}}

(***************************************************************************)
(* "We failed to re-open our own file. Cannot proceed w/out a session      *)
(* reset!" (SMTPFilterMessage): a transaction that waits for commands has  *)
(* its file open, as RCPT and DATA write to it without a look.             *)
(***************************************************************************)
TransactionHasFile == InTransaction /\ phase = "command" => file = "open"

(***************************************************************************)
(* The count that DATA rests on is that of the 250s since MAIL, and the    *)
(* file never has a line more, nor one for a recipient who was not         *)
(* accepted, but for what is left of a line that was cut.  While every     *)
(* write has worked it has exactly their lines; a write that failed        *)
(* unnoticed (SMTPSvr.cpp:1723) takes that away and nothing else does.     *)
(***************************************************************************)
FileMatchesClient ==
    /\ Len(lines) <= iRcptCount
    /\ InTransaction =>
        /\ iRcptCount = Len(accepted)
        /\ \A i \in DOMAIN lines : lines[i] = Torn \/ \E j \in DOMAIN accepted : lines[i] = accepted[j]
        /\ ~unnoticed => lines = accepted
    /\ phase # "none" => (iSMTPState = "rcpt" => iRcptCount > 0)

(***************************************************************************)
(* A 250 to DATA, whatever went before it: earlier transactions that were  *)
(* reset, refused, interrupted or half spooled.  In the spool there is at  *)
(* most one message for each position, and none for anyone who was not     *)
(* accepted, but for an address that was cut.  There is one for each       *)
(* recipient, in place, unless a write or read of the session's file       *)
(* failed unnoticed (SMTPSvr.cpp:1723, 1833): then some may be missing,    *)
(* though the client was told otherwise (EveryAckIsSpooled).               *)
(***************************************************************************)
AckedIsSpooled ==
    \A a \in acked :
        /\ a.whole => SpooledAs(a.id) = {<<i, a.rcpts[i]>> : i \in DOMAIN a.rcpts}
        /\ \A s \in SpooledAs(a.id) :
              /\ s[1] \in DOMAIN a.rcpts
              /\ s[2] = Torn \/ \E j \in DOMAIN a.rcpts : s[2] = a.rcpts[j]
        /\ \A s, t \in SpooledAs(a.id) : s[1] = t[1] => s = t

(***************************************************************************)
(* "Send the ack only when everything is OK" (SMTPHandleCmd_DATA).         *)
(* Violated with IOFails, by the failures that AckedIsSpooled names.       *)
(***************************************************************************)
EveryAckIsSpooled ==
    \A a \in acked : SpooledAs(a.id) = {<<i, a.rcpts[i]>> : i \in DOMAIN a.rcpts}

(***************************************************************************)
(* A recipient elsewhere is in the file only while the session may relay:  *)
(* what takes the permission away takes the transaction with it.  What is  *)
(* left of a line that was cut is for whoever the address then names.      *)
(***************************************************************************)
RelayIsPermitted ==
    \A i \in DOMAIN lines :
        \/ lines[i] \in LocalRcpts \cup {Torn}
        \/ "RELAY_ENABLED" \in ulFlags \/ IPRelay

(***************************************************************************)
(* Whatever resets and logons a session goes through, what MailAuth and    *)
(* WantTLS ask for holds in each of its transactions.                      *)
(***************************************************************************)
ServerRulesHold ==
    InTransaction =>
        /\ "MAIL_LOCKED" \in ulSetupFlags => "MAIL_UNLOCKED" \in ulFlags
        /\ "WANT_TLS" \in ulSetupFlags => tls \/ "EASE_TLS" \in ulFlags

(***************************************************************************)
(* SMTP-MaxErrors ends the session: no handler revives a session that its  *)
(* last error has ended.                                                   *)
(***************************************************************************)
ErrorsEndSession ==
    phase # "none" /\ iErrorsCount >= iErrorsMax => iSMTPState = "exit"

(***************************************************************************)
(* The command state and the flag of a logon agree, so that resets lead    *)
(* back to the right state.                                                *)
(***************************************************************************)
StateMatchesLogon ==
    /\ iSMTPState = "authenticated" => "AUTHENTICATED" \in ulFlags
    /\ iSMTPState \in {"init", "helo"} => "AUTHENTICATED" \notin ulFlags
    /\ "AUTHENTICATED" \in ulFlags => szLogonUser # NoUser

(***************************************************************************)
(* A logon lasts until the link becomes a TLS link or the session ends.    *)
(***************************************************************************)
LogonLasts ==
    [][/\ "AUTHENTICATED" \in ulFlags
       /\ phase' # "none"
       /\ tls' = tls
       => "AUTHENTICATED" \in ulFlags' /\ szLogonUser' = szLogonUser]_vars

(***************************************************************************)
(* DisableEmitAuthUser of a user "overrides the SERVER.TAB one when        *)
(* present" (docs/Readme.txt): no message names a user who has it set.     *)
(***************************************************************************)
NoEmitIsHonoured == \A m \in spool : m.user # NoUser => NoEmit[m.user] # "yes"
=============================================================================
