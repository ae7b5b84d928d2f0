------------------------- MODULE SMTPSession_proof -------------------------
(***************************************************************************)
(* Proofs about SMTPSession for any users, recipients, configuration and   *)
(* number of messages.                                                     *)
(***************************************************************************)
EXTENDS SMTPSession, TLAPS

\* What the session's variables have to do with each other.
Shape ==
    /\ phase = "none" => iSMTPState = "init" /\ ulFlags = {} /\ iErrorsCount = 0
    /\ phase \in {"data", "submit"} => iSMTPState = "rcpt"
    /\ phase # "none" => ulSetupFlags \ {"NOEMIT_AUTH"} \subseteq ulFlags
    /\ iSMTPState \in {"init", "helo", "authenticated"} => lines = <<>> /\ iRcptCount = 0
    /\ sent <= Len(lines)
    /\ phase # "submit" => sent = 0

\* The spool holds what was sent of the current message, and no later one.
SpoolShape ==
    /\ \A m \in spool : m.id <= ullMessageID
    /\ \A a \in acked : a.id <= ullMessageID
    /\ InTransaction =>
        /\ \A a \in acked : a.id # ullMessageID
        /\ SpooledAs(ullMessageID) = {<<i, lines[i]>> : i \in 1..sent}

\* fclose reports no error before a filter runs, or the file may be gone
\* (SMTPFilterMessage).
FileIsThere == ~CloseFails => TransactionHasFile

IInv ==
    /\ TypeOK /\ Shape /\ SpoolShape
    /\ FileIsThere /\ FileMatchesClient /\ AckedIsSpooled /\ RelayIsPermitted
    /\ ServerRulesHold /\ ErrorsEndSession /\ StateMatchesLogon

-----------------------------------------------------------------------------
LEMMA FlagFacts ==
    ASSUME NEW flags \in SUBSET Flags
    PROVE  /\ FlagsAfterReset(flags) \subseteq Flags
           /\ "AUTHENTICATED" \in FlagsAfterReset(flags) <=> "AUTHENTICATED" \in flags
           /\ ulSetupFlags \subseteq FlagsAfterReset(flags)
  BY ConfigAssumption DEF FlagsAfterReset, ResetMask, Flags, SetupFlags, Perms

\* The settings of a user leave the logon and the configuration alone.
LEMMA ApplyFacts ==
    ASSUME TypeOK, NEW u \in Users
    PROVE  /\ SMTPApplyUserConfig(u) \subseteq Flags
           /\ "AUTHENTICATED" \in SMTPApplyUserConfig(u) <=> "AUTHENTICATED" \in ulFlags
           /\ ulFlags \ {"NOEMIT_AUTH", "BLOCKED_IP"} \subseteq SMTPApplyUserConfig(u)
  <1> DEFINE base == (ulFlags \cup UserPerms[u]) \ {"BLOCKED_IP"}
  <1>1. UserPerms[u] \subseteq Perms
    BY UsersAssumption
  <1>2. base \subseteq Flags /\ ("AUTHENTICATED" \in base <=> "AUTHENTICATED" \in ulFlags)
        /\ ulFlags \ {"BLOCKED_IP"} \subseteq base
    BY <1>1 DEF TypeOK, Flags, Perms
  <1>3. AppliedEmit(u, base) \in {base, base \cup {"NOEMIT_AUTH"}, base \ {"NOEMIT_AUTH"}}
    BY UsersAssumption DEF AppliedEmit
  <1>4. SMTPApplyUserConfig(u) = AppliedEmit(u, base)
    BY DEF SMTPApplyUserConfig
  <1> HIDE DEF base
  <1>5. "NOEMIT_AUTH" \in Flags
    BY DEF Flags, SetupFlags
  <1> QED
    BY <1>2, <1>3, <1>4, <1>5

LEMMA SendErrorFacts ==
    ASSUME IInv, phase # "none", iSMTPState # "exit", NEW state, SMTPSendError(state)
    PROVE  /\ iErrorsCount' \in Nat
           /\ iSMTPState' \in {state, "exit"}
           /\ iErrorsCount' >= iErrorsMax => iSMTPState' = "exit"
  BY ConfigAssumption DEF IInv, TypeOK, ErrorsEndSession, SMTPSendError

\* A session whose message is forgotten, with any flags that agree with its
\* logon and its new state.
LEMMA ResetKeepsIInv ==
    ASSUME IInv, NEW flags \in SUBSET Flags,
           ulFlags' = FlagsAfterReset(flags), ForgetMessage, phase' = "command",
           iErrorsCount' \in Nat, iErrorsCount' >= iErrorsMax => iSMTPState' = "exit",
           iSMTPState' \in {"init", "helo", "authenticated", "exit"},
           iSMTPState' = "authenticated" => "AUTHENTICATED" \in flags,
           iSMTPState' \in {"init", "helo"} => "AUTHENTICATED" \notin flags,
           tls' \in BOOLEAN, szLogonUser' \in Users \cup {NoUser},
           "AUTHENTICATED" \in flags => szLogonUser' # NoUser,
           UNCHANGED <<ullMessageID, accepted, spool>>,
           acked' \subseteq Acks,
           \A a \in acked' : a.id <= ullMessageID, AckedIsSpooled'
    PROVE  IInv'
  <1>1. /\ file' = "none" /\ lines' = <<>> /\ iRcptCount' = 0 /\ sent' = 0
        /\ unnoticed' = FALSE
        /\ ~InTransaction'
    BY DEF ForgetMessage, InTransaction
  <1>2. /\ ulFlags' \subseteq Flags
        /\ "AUTHENTICATED" \in ulFlags' <=> "AUTHENTICATED" \in flags
        /\ ulSetupFlags \subseteq ulFlags'
    BY FlagFacts
  <1>3. lines' \in Seq(Addresses) /\ Len(lines') = 0
    BY <1>1
  <1>4. TypeOK' /\ Shape'
    <2>1. /\ phase' = "command" /\ sent' = 0 /\ iRcptCount' = 0 /\ Len(lines') = 0
          /\ iSMTPState' \in {"init", "helo", "authenticated", "exit"}
          /\ accepted' = accepted /\ spool' = spool
      BY <1>1, <1>3
    <2>2. ulSetupFlags \ {"NOEMIT_AUTH"} \subseteq ulFlags'
      BY <1>2
    <2>3. Shape'
      BY <2>1, <2>2, <1>1 DEF Shape
    <2>4. unnoticed' \in BOOLEAN
      BY <1>1
    <2>5. /\ accepted' \in Seq(Rcpts) /\ spool' \subseteq SpoolMessages
          /\ ullMessageID' \in Nat
      BY <2>1 DEF IInv, TypeOK
    <2>6. file' \in {"none", "open", "closed"} /\ iRcptCount' \in Nat /\ sent' \in Nat
      BY <1>1
    <2>7. TypeOK'
      BY <1>2, <1>3, <2>1, <2>4, <2>5, <2>6 DEF TypeOK
    <2> QED
      BY <2>3, <2>7
  <1>5. SpoolShape'
    BY <1>1 DEF IInv, SpoolShape
  <1>6. FileMatchesClient'
    BY <1>1, <1>3 DEF FileMatchesClient
  <1>7. FileIsThere' /\ ServerRulesHold' /\ RelayIsPermitted'
    BY <1>1 DEF FileIsThere, TransactionHasFile, ServerRulesHold, RelayIsPermitted
  <1>8. ErrorsEndSession' /\ StateMatchesLogon'
    BY <1>2 DEF ErrorsEndSession, StateMatchesLogon
  <1> QED
    BY <1>4, <1>5, <1>6, <1>7, <1>8 DEF IInv

\* Both ways of resetting, with the flags of the session or of a user.
LEMMA StateAfterResetFacts ==
    ASSUME NEW flags \in SUBSET Flags, NEW state
    PROVE  /\ StateAfterReset(flags, state) \in {"init", "helo", "authenticated"}
           /\ StateAfterReset(flags, state) = "authenticated" <=> "AUTHENTICATED" \in flags
  BY FlagFacts DEF StateAfterReset

LEMMA RefusedKeepsIInv ==
    ASSUME IInv, phase # "none", iSMTPState # "exit", phase' = "command",
           NEW flags \in SUBSET Flags,
           "AUTHENTICATED" \in flags <=> "AUTHENTICATED" \in ulFlags,
           szLogonUser' \in Users \cup {NoUser},
           szLogonUser # NoUser => szLogonUser' = szLogonUser,
           ResetAndRefuse(flags) \/ (flags = ulFlags /\ SMTPResetSession),
           UNCHANGED <<tls, ullMessageID, accepted, spool>>,
           acked' \subseteq Acks,
           \A a \in acked' : a.id <= ullMessageID, AckedIsSpooled'
    PROVE  IInv'
  <1> DEFINE state == StateAfterReset(flags, iSMTPState)
  <1>1. state \in {"init", "helo", "authenticated"}
        /\ (state = "authenticated" <=> "AUTHENTICATED" \in flags)
    BY StateAfterResetFacts
  <1>2. ulFlags' = FlagsAfterReset(flags) /\ ForgetMessage
    BY DEF ResetAndRefuse, SMTPResetSession
  <1>3. iErrorsCount' \in Nat /\ iSMTPState' \in {state, "exit"}
        /\ (iErrorsCount' >= iErrorsMax => iSMTPState' = "exit")
    <2>1. CASE ResetAndRefuse(flags)
      <3>1. SMTPSendError(state)
        BY <2>1 DEF ResetAndRefuse
      <3> QED
        BY <3>1, SendErrorFacts
    <2>2. CASE flags = ulFlags /\ SMTPResetSession
      <3>1. iSMTPState' = state /\ iErrorsCount' = iErrorsCount
        BY <2>2 DEF SMTPResetSession
      <3>2. iErrorsCount \in Nat /\ ~(iErrorsCount >= iErrorsMax)
        BY DEF IInv, TypeOK, ErrorsEndSession
      <3> QED
        BY <3>1, <3>2
    <2> QED
      BY <2>1, <2>2
  <1>4. tls' \in BOOLEAN /\ ("AUTHENTICATED" \in flags => szLogonUser' # NoUser)
    BY DEF IInv, TypeOK, StateMatchesLogon
  <1> HIDE DEF state
  <1> QED
    BY <1>1, <1>2, <1>3, <1>4, ResetKeepsIInv

\* A refusal changes the error count and perhaps ends the session; the file may
\* go with it only when an fclose reports an error.
LEMMA RefuseKeepsIInv ==
    ASSUME IInv, Ready, Refuse \/ FilterCannotClose,
           UNCHANGED <<phase, szLogonUser, tls, ullMessageID, accepted, spool, acked>>
    PROVE  IInv'
  <1>1. /\ iErrorsCount' \in Nat /\ iSMTPState' \in {iSMTPState, "exit"}
        /\ iErrorsCount' >= iErrorsMax => iSMTPState' = "exit"
    BY SendErrorFacts DEF Ready, Refuse, FilterCannotClose
  <1>2. /\ UNCHANGED <<ulFlags, lines, iRcptCount, sent, unnoticed>> /\ phase = "command"
        /\ file' = file \/ (CloseFails /\ file' = "closed")
    BY DEF Refuse, FilterCannotClose, message, Ready
  <1>3. TypeOK'
    BY <1>1, <1>2 DEF IInv, TypeOK
  <1>4. Shape'
    BY <1>1, <1>2 DEF IInv, Shape
  <1>5. InTransaction' => InTransaction
    BY <1>1, <1>2 DEF InTransaction
  <1>6. \A id : SpooledAs(id)' = SpooledAs(id)
    BY DEF SpooledAs
  <1>7. SpoolShape' /\ AckedIsSpooled'
    BY <1>2, <1>5, <1>6 DEF IInv, SpoolShape, AckedIsSpooled, SpooledAs
  <1>8. FileMatchesClient' /\ FileIsThere' /\ ServerRulesHold' /\ RelayIsPermitted'
    BY <1>1, <1>2, <1>5 DEF IInv, FileMatchesClient, FileIsThere, TransactionHasFile, ServerRulesHold,
       RelayIsPermitted
  <1>9. ErrorsEndSession' /\ StateMatchesLogon'
    BY <1>1, <1>2 DEF IInv, ErrorsEndSession, StateMatchesLogon
  <1> QED
    BY <1>3, <1>4, <1>7, <1>8, <1>9 DEF IInv

\* The state alone changes, to one outside a transaction or to its end.
LEMMA StateKeepsIInv ==
    ASSUME IInv, phase # "none", phase' = "command", sent = 0,
           \/ iSMTPState' = "exit"
           \/ iSMTPState' = "helo" /\ iSMTPState \in {"init", "helo"},
           UNCHANGED <<ulFlags, szLogonUser, tls, iErrorsCount, message, ullMessageID,
                       accepted, spool, acked>>
    PROVE  IInv'
  <1>1. UNCHANGED <<file, lines, iRcptCount, sent, unnoticed>>
    BY DEF message
  <1>2. TypeOK' /\ Shape'
    BY <1>1 DEF IInv, TypeOK, Shape
  <1>3. ~InTransaction'
    BY DEF InTransaction
  <1>4. \A id : SpooledAs(id)' = SpooledAs(id)
    BY DEF SpooledAs
  <1>5. SpoolShape' /\ AckedIsSpooled'
    BY <1>1, <1>3, <1>4 DEF IInv, SpoolShape, AckedIsSpooled, SpooledAs
  <1>6. FileMatchesClient' /\ FileIsThere' /\ ServerRulesHold' /\ RelayIsPermitted'
    BY <1>1, <1>3 DEF IInv, FileMatchesClient, FileIsThere, TransactionHasFile, ServerRulesHold,
       RelayIsPermitted
  <1>7. ErrorsEndSession' /\ StateMatchesLogon'
    BY DEF IInv, ErrorsEndSession, StateMatchesLogon
  <1> QED
    BY <1>2, <1>5, <1>6, <1>7 DEF IInv

\* What resets need to know about the messages that are acknowledged.
LEMMA AckedFacts ==
    ASSUME IInv, UNCHANGED <<spool, acked, ullMessageID>>
    PROVE  /\ acked' \subseteq Acks
           /\ \A a \in acked' : a.id <= ullMessageID
           /\ AckedIsSpooled'
  <1>1. \A id : SpooledAs(id)' = SpooledAs(id)
    BY DEF SpooledAs
  <1> QED
    BY <1>1 DEF IInv, TypeOK, SpoolShape, AckedIsSpooled, SpooledAs

LEMMA InitIInv == Init => IInv
  <1> SUFFICES ASSUME Init PROVE IInv
    OBVIOUS
  <1>1. TypeOK
    <2>1. lines \in Seq(Addresses) /\ accepted \in Seq(Rcpts)
      BY DEF Init
    <2>2. spool \subseteq SpoolMessages /\ acked \subseteq Acks
      BY DEF Init
    <2> QED
      BY <2>1, <2>2 DEF Init, TypeOK
  <1>2. Shape /\ ~InTransaction
    BY DEF Init, Shape, InTransaction
  <1>3. SpoolShape /\ AckedIsSpooled
    BY <1>2 DEF Init, SpoolShape, AckedIsSpooled
  <1>4. FileIsThere /\ ServerRulesHold
    BY <1>2 DEF FileIsThere, TransactionHasFile, ServerRulesHold
  <1>5. FileMatchesClient /\ RelayIsPermitted /\ ErrorsEndSession /\ StateMatchesLogon
    BY <1>2 DEF Init, FileMatchesClient, RelayIsPermitted, ErrorsEndSession, StateMatchesLogon
  <1> QED
    BY <1>1, <1>2, <1>3, <1>4, <1>5 DEF IInv

LEMMA InitSessionKeepsIInv ==
    ASSUME IInv, SMTPInitSession
    PROVE  IInv'
  <1>1. /\ phase = "none" /\ phase' = "command" /\ iSMTPState = "init"
        /\ ulFlags' \subseteq Flags /\ ulSetupFlags \subseteq ulFlags'
        /\ "AUTHENTICATED" \notin ulFlags'
        /\ tls' \in BOOLEAN /\ iErrorsCount = 0
        /\ UNCHANGED <<iSMTPState, szLogonUser, iErrorsCount, file, lines, iRcptCount, sent,
                       unnoticed, ullMessageID, accepted, spool, acked>>
    BY ConfigAssumption DEF IInv, Shape, SMTPInitSession, message, Flags, SetupFlags
  <1>2. TypeOK' /\ Shape'
    BY <1>1 DEF IInv, TypeOK, Shape
  <1>3. ~InTransaction'
    BY <1>1 DEF InTransaction
  <1>4. SpoolShape' /\ AckedIsSpooled'
    BY <1>1, <1>3, AckedFacts DEF IInv, SpoolShape
  <1>5. FileMatchesClient' /\ FileIsThere' /\ ServerRulesHold' /\ RelayIsPermitted'
    BY <1>1, <1>3 DEF IInv, Shape, FileMatchesClient, FileIsThere, TransactionHasFile, ServerRulesHold,
       RelayIsPermitted
  <1>6. ErrorsEndSession' /\ StateMatchesLogon'
    BY <1>1, ConfigAssumption DEF ErrorsEndSession, StateMatchesLogon
  <1> QED
    BY <1>2, <1>4, <1>5, <1>6 DEF IInv

LEMMA HELOKeepsIInv ==
    ASSUME IInv, SMTPHandleCmd_HELO
    PROVE  IInv'
  <1>1. /\ Ready /\ phase = "command" /\ phase' = "command" /\ iSMTPState # "exit" /\ sent = 0
        /\ ulFlags \in SUBSET Flags
        /\ UNCHANGED <<phase, szLogonUser, tls, ullMessageID, accepted, spool, acked>>
    BY DEF IInv, TypeOK, Shape, SMTPHandleCmd_HELO, Ready
  <1>2. CASE iSMTPState \in {"init", "helo"}
    BY <1>1, <1>2, RefuseKeepsIInv, StateKeepsIInv DEF SMTPHandleCmd_HELO
  <1>3. CASE iSMTPState \notin {"init", "helo"}
    <2>1. ResetAndRefuse(ulFlags)
      BY <1>3 DEF SMTPHandleCmd_HELO
    <2>2. szLogonUser \in Users \cup {NoUser}
      BY DEF IInv, TypeOK
    <2> QED
      BY <1>1, <2>1, <2>2, AckedFacts, RefusedKeepsIInv
  <1> QED
    BY <1>2, <1>3

LEMMA STARTTLSKeepsIInv ==
    ASSUME IInv, SMTPHandleCmd_STARTTLS
    PROVE  IInv'
  <1>1. /\ Ready /\ phase = "command" /\ phase' = "command" /\ iSMTPState # "exit" /\ sent = 0
        /\ UNCHANGED <<phase, szLogonUser, ullMessageID, accepted, spool, acked>>
    BY DEF IInv, Shape, SMTPHandleCmd_STARTTLS, Ready
  <1>2. CASE Refuse /\ UNCHANGED tls
    BY <1>1, <1>2, RefuseKeepsIInv
  <1>3. CASE iSMTPState' = "exit" /\ UNCHANGED <<tls, ulFlags, iErrorsCount, message>>
    BY <1>1, <1>3, StateKeepsIInv
  <1>4. CASE tls' = TRUE /\ SMTPFullResetSession
    <2>1. /\ ulFlags' = FlagsAfterReset({}) /\ ForgetMessage /\ iSMTPState' = "init"
          /\ iErrorsCount' = iErrorsCount
      BY <1>4 DEF SMTPFullResetSession
    <2>2. iErrorsCount \in Nat /\ ~(iErrorsCount >= iErrorsMax)
          /\ szLogonUser \in Users \cup {NoUser}
      BY <1>1 DEF IInv, TypeOK, ErrorsEndSession
    <2> QED
      BY <1>1, <1>4, <2>1, <2>2, AckedFacts, ResetKeepsIInv
  <1> QED
    BY <1>2, <1>3, <1>4 DEF SMTPHandleCmd_STARTTLS

LEMMA AUTHKeepsIInv ==
    ASSUME IInv, SMTPHandleCmd_AUTH
    PROVE  IInv'
  <1>1. /\ Ready /\ phase = "command" /\ phase' = "command" /\ iSMTPState # "exit" /\ sent = 0
        /\ ulFlags \in SUBSET Flags /\ szLogonUser \in Users \cup {NoUser}
        /\ UNCHANGED <<phase, tls, ullMessageID, accepted, spool, acked>>
    BY DEF IInv, TypeOK, Shape, SMTPHandleCmd_AUTH, Ready
  <1>2. CASE iSMTPState # "helo"
    BY <1>1, <1>2, AckedFacts, RefusedKeepsIInv DEF SMTPHandleCmd_AUTH
  <1>3. CASE Refuse /\ UNCHANGED szLogonUser
    BY <1>1, <1>3, RefuseKeepsIInv
  <1>4. ASSUME iSMTPState = "helo", NEW u \in Users,
               ulFlags' = SMTPApplyUserConfig(u) \cup {"AUTHENTICATED"}, szLogonUser' = u,
               iSMTPState' = "authenticated", UNCHANGED <<iErrorsCount, message>>
        PROVE  IInv'
    <2>1. /\ UNCHANGED <<file, lines, iRcptCount, sent, unnoticed>>
          /\ lines = <<>>
          /\ szLogonUser' # NoUser
      BY <1>4, UsersAssumption DEF IInv, Shape, message
    <2>2. /\ ulFlags' \subseteq Flags
          /\ "AUTHENTICATED" \in ulFlags'
          /\ ulSetupFlags \ {"NOEMIT_AUTH"} \subseteq ulFlags'
      <3>1. ulSetupFlags \ {"NOEMIT_AUTH"} \subseteq ulFlags /\ "BLOCKED_IP" \notin ulSetupFlags
        BY <1>1, ConfigAssumption DEF IInv, Shape, SetupFlags
      <3>2. "AUTHENTICATED" \in Flags
        BY DEF Flags
      <3>3. SMTPApplyUserConfig(u) \subseteq Flags
            /\ ulFlags \ {"NOEMIT_AUTH", "BLOCKED_IP"} \subseteq SMTPApplyUserConfig(u)
        BY ApplyFacts DEF IInv
      <3> QED
        BY <1>4, <3>1, <3>2, <3>3
    <2>3. TypeOK' /\ Shape'
      BY <1>1, <1>4, <2>1, <2>2 DEF IInv, TypeOK, Shape
    <2>4. ~InTransaction'
      BY <1>4 DEF InTransaction
    <2>5. SpoolShape' /\ AckedIsSpooled'
      BY <1>1, <2>4, AckedFacts DEF IInv, SpoolShape
    <2>6. FileMatchesClient' /\ FileIsThere' /\ ServerRulesHold' /\ RelayIsPermitted'
      BY <1>4, <2>1, <2>4 DEF IInv, FileMatchesClient, FileIsThere, TransactionHasFile, ServerRulesHold,
         RelayIsPermitted
    <2>7. ErrorsEndSession' /\ StateMatchesLogon'
      BY <1>1, <1>4, <2>1, <2>2 DEF IInv, ErrorsEndSession, StateMatchesLogon
    <2> QED
      BY <2>3, <2>5, <2>6, <2>7 DEF IInv
  <1> QED
    BY <1>2, <1>3, <1>4 DEF SMTPHandleCmd_AUTH

\* A new message has a number of its own, and nothing in the spool.
LEMMA OpenKeepsIInv ==
    ASSUME IInv, phase = "command", iSMTPState \in {"helo", "authenticated"}, ~TLSNeeded,
           NEW flags \in SUBSET Flags, OpenMessage(flags),
           "AUTHENTICATED" \in flags <=> "AUTHENTICATED" \in ulFlags,
           ulFlags \ {"NOEMIT_AUTH", "BLOCKED_IP"} \subseteq flags,
           szLogonUser' \in Users \cup {NoUser},
           szLogonUser # NoUser => szLogonUser' = szLogonUser,
           UNCHANGED <<phase, tls, spool, acked>>
    PROVE  IInv'
  <1>1. /\ phase' = "command" /\ iSMTPState' = "mail" /\ ulFlags' = flags /\ file' = "open"
        /\ lines' = <<>> /\ accepted' = <<>> /\ ullMessageID' = ullMessageID + 1
        /\ UNCHANGED <<iRcptCount, sent, unnoticed, iErrorsCount>>
        /\ ~MailIsLocked(flags)
    BY DEF OpenMessage
  <1>2. /\ ullMessageID \in Nat /\ sent = 0 /\ iRcptCount = 0
        /\ ulSetupFlags \ {"NOEMIT_AUTH"} \subseteq ulFlags
        /\ "BLOCKED_IP" \notin ulSetupFlags
    BY ConfigAssumption DEF IInv, TypeOK, Shape, FileMatchesClient, SetupFlags
  <1>3. ulSetupFlags \ {"NOEMIT_AUTH"} \subseteq flags
    BY <1>2
  <1>4. TypeOK'
    <2>1. lines' \in Seq(Addresses) /\ accepted' \in Seq(Rcpts)
      BY <1>1
    <2> QED
      BY <1>1, <1>2, <2>1 DEF IInv, TypeOK
  <1>5. Shape'
    BY <1>1, <1>2, <1>3 DEF Shape
  <1>6. SpoolShape'
    <2>1. \A m \in spool' : m.id < ullMessageID'
      BY <1>1, <1>2 DEF IInv, TypeOK, SpoolMessages, SpoolShape
    <2>2. \A a \in acked' : a.id < ullMessageID'
      BY <1>1, <1>2 DEF IInv, TypeOK, Acks, SpoolShape
    <2>3. \A m \in spool' : m.id \in Nat
      BY DEF IInv, TypeOK, SpoolMessages
    <2>4. \A a \in acked' : a.id \in Nat
      BY DEF IInv, TypeOK, Acks
    <2>5. ullMessageID' \in Nat
      BY <1>1, <1>2
    <2>6. SpooledAs(ullMessageID)' = {}
      BY <2>1, <2>3, <2>5 DEF SpooledAs
    <2>7. {<<i, lines'[i]>> : i \in 1..sent'} = {}
      BY <1>1, <1>2
    <2> QED
      BY <2>1, <2>2, <2>3, <2>4, <2>5, <2>6, <2>7 DEF SpoolShape
  <1>7. AckedIsSpooled'
    BY DEF IInv, AckedIsSpooled, SpooledAs
  <1>8. FileIsThere' /\ FileMatchesClient' /\ RelayIsPermitted'
    BY <1>1, <1>2 DEF FileIsThere, TransactionHasFile, FileMatchesClient, RelayIsPermitted
  <1>9. ServerRulesHold'
    <2>1. "MAIL_LOCKED" \in ulSetupFlags => "MAIL_UNLOCKED" \in flags
      BY <1>1, <1>3 DEF MailIsLocked
    <2>2. "WANT_TLS" \in ulSetupFlags => tls \/ "EASE_TLS" \in flags
      BY <1>2 DEF TLSNeeded
    <2> QED
      BY <1>1, <2>1, <2>2 DEF ServerRulesHold
  <1>10. ErrorsEndSession' /\ StateMatchesLogon'
    BY <1>1 DEF IInv, ErrorsEndSession, StateMatchesLogon
  <1> QED
    BY <1>4, <1>5, <1>6, <1>7, <1>8, <1>9, <1>10 DEF IInv

LEMMA MAILKeepsIInv ==
    ASSUME IInv, SMTPHandleCmd_MAIL
    PROVE  IInv'
  <1>1. /\ Ready /\ phase = "command" /\ phase' = "command" /\ iSMTPState # "exit"
        /\ ulFlags \in SUBSET Flags /\ szLogonUser \in Users \cup {NoUser}
        /\ UNCHANGED <<phase, tls, spool, acked>>
    BY DEF IInv, TypeOK, SMTPHandleCmd_MAIL, Ready
  <1>2. ASSUME NEW flags \in SUBSET Flags, RefuseMail(flags),
               "AUTHENTICATED" \in flags <=> "AUTHENTICATED" \in ulFlags,
               szLogonUser' \in Users \cup {NoUser},
               szLogonUser # NoUser => szLogonUser' = szLogonUser
        PROVE  IInv'
    <2>1. ResetAndRefuse(flags) /\ UNCHANGED <<ullMessageID, accepted>>
      BY <1>2 DEF RefuseMail
    <2> QED
      BY <1>1, <1>2, <2>1, AckedFacts, RefusedKeepsIInv
  <1>3. CASE iSMTPState \notin {"helo", "authenticated"}
    BY <1>1, <1>2, <1>3 DEF SMTPHandleCmd_MAIL
  <1>4. CASE iSMTPState \in {"helo", "authenticated"} /\ TLSNeeded
    BY <1>1, <1>4, RefuseKeepsIInv DEF SMTPHandleCmd_MAIL
  <1>5. CASE iSMTPState \in {"helo", "authenticated"} /\ ~TLSNeeded
    <2>1. CASE MailFromAny
      BY <1>1, <1>2, <1>5, <2>1, OpenKeepsIInv DEF MailFromAny
    <2>2. ASSUME NEW u \in Users, MailFromPopUser(u) PROVE IInv'
      <3>1. /\ SMTPApplyUserConfig(u) \in SUBSET Flags
            /\ "AUTHENTICATED" \in SMTPApplyUserConfig(u) <=> "AUTHENTICATED" \in ulFlags
            /\ ulFlags \ {"NOEMIT_AUTH", "BLOCKED_IP"} \subseteq SMTPApplyUserConfig(u)
        BY ApplyFacts DEF IInv
      <3>2. /\ szLogonUser' \in Users \cup {NoUser}
            /\ szLogonUser # NoUser => szLogonUser' = szLogonUser
        BY <1>1, <2>2 DEF MailFromPopUser
      <3>3. OpenMessage(SMTPApplyUserConfig(u)) \/ RefuseMail(SMTPApplyUserConfig(u))
        BY <2>2 DEF MailFromPopUser
      <3> QED
        BY <1>1, <1>2, <1>5, <3>1, <3>2, <3>3, OpenKeepsIInv
    <2> QED
      BY <1>5, <2>1, <2>2 DEF SMTPHandleCmd_MAIL
  <1> QED
    BY <1>3, <1>4, <1>5

\* Whether the write works or not, the file has at most one line more, and those
\* it had stay or go.
LEMMA WriteLineFacts ==
    ASSUME lines \in Seq(Addresses), unnoticed \in BOOLEAN, NEW r \in Rcpts, WriteLine(r)
    PROVE  /\ lines' \in Seq(Addresses) /\ Len(lines') <= Len(lines) + 1
           /\ \A i \in DOMAIN lines' :
                 lines'[i] \in {r, Torn} \/ (i \in DOMAIN lines /\ lines'[i] = lines[i])
           /\ unnoticed' \in BOOLEAN
           /\ ~unnoticed' => lines' = Append(lines, r) /\ ~unnoticed
  <1>1. r \in Addresses /\ Torn \in Addresses
    BY DEF Addresses
  <1>2. CASE lines' = Append(lines, r) /\ UNCHANGED unnoticed
    <2>1. lines' \in Seq(Addresses) /\ Len(lines') = Len(lines) + 1
      BY <1>1, <1>2
    <2>2. ASSUME NEW i \in DOMAIN lines'
          PROVE  lines'[i] = r \/ (i \in DOMAIN lines /\ lines'[i] = lines[i])
      BY <1>2, <2>1
    <2> QED
      BY <1>2, <2>1, <2>2
  <1>3. ASSUME NEW n \in 0..Len(lines), unnoticed' = TRUE,
               lines' = SubSeq(lines, 1, n) \/ lines' = Append(SubSeq(lines, 1, n), Torn)
        PROVE  /\ lines' \in Seq(Addresses) /\ Len(lines') <= Len(lines) + 1
               /\ \A i \in DOMAIN lines' :
                     lines'[i] = Torn \/ (i \in DOMAIN lines /\ lines'[i] = lines[i])
    <2> DEFINE kept == SubSeq(lines, 1, n)
    <2>1. /\ kept \in Seq(Addresses) /\ Len(kept) = n /\ n \in Nat /\ n <= Len(lines)
          /\ \A i \in 1..n : i \in DOMAIN lines /\ kept[i] = lines[i]
      BY <1>3
    <2> HIDE DEF kept
    <2>2. CASE lines' = kept
      BY <2>1, <2>2
    <2>3. CASE lines' = Append(kept, Torn)
      <3>1. lines' \in Seq(Addresses) /\ Len(lines') = n + 1
        BY <1>1, <2>1, <2>3
      <3>2. ASSUME NEW i \in DOMAIN lines'
            PROVE  lines'[i] = Torn \/ (i \in 1..n /\ lines'[i] = kept[i])
        BY <2>1, <2>3, <3>1
      <3> QED
        BY <2>1, <3>1, <3>2
    <2> QED
      BY <1>3, <2>2, <2>3 DEF kept
  <1>4. CASE IOFails /\ unnoticed' = TRUE
             /\ \E n \in 0..Len(lines) :
                   lines' \in {SubSeq(lines, 1, n), Append(SubSeq(lines, 1, n), Torn)}
    BY <1>3, <1>4
  <1> QED
    BY <1>2, <1>4 DEF WriteLine

LEMMA AcceptKeepsIInv ==
    ASSUME IInv, phase = "command", iSMTPState \in {"mail", "rcpt"},
           NEW r \in Rcpts, AcceptRcpt(r),
           UNCHANGED <<phase, szLogonUser, tls, ullMessageID, spool, acked>>
    PROVE  IInv'
  <1>1. /\ WriteLine(r) /\ accepted' = Append(accepted, r)
        /\ iRcptCount' = iRcptCount + 1 /\ iSMTPState' = "rcpt" /\ phase' = "command"
        /\ UNCHANGED <<file, sent, ulFlags, iErrorsCount>>
        /\ file = "open" /\ SMTPCheckRelayCapability(r)
    BY DEF AcceptRcpt
  <1>2. /\ lines \in Seq(Addresses) /\ accepted \in Seq(Rcpts) /\ unnoticed \in BOOLEAN
        /\ iRcptCount = Len(accepted) /\ iRcptCount \in Nat /\ sent = 0
        /\ Len(lines) <= iRcptCount
        /\ InTransaction
    BY DEF IInv, TypeOK, Shape, FileMatchesClient, InTransaction
  <1>W. /\ lines' \in Seq(Addresses) /\ Len(lines') <= Len(lines) + 1
        /\ \A i \in DOMAIN lines' :
              lines'[i] \in {r, Torn} \/ (i \in DOMAIN lines /\ lines'[i] = lines[i])
        /\ unnoticed' \in BOOLEAN
        /\ ~unnoticed' => lines' = Append(lines, r) /\ ~unnoticed
    BY <1>1, <1>2, WriteLineFacts
  <1>3. TypeOK' /\ Shape'
    <2>1. accepted' \in Seq(Rcpts) /\ iRcptCount' \in Nat
      BY <1>1, <1>2
    <2>2. Len(lines') \in Nat
      BY <1>W
    <2> QED
      BY <1>1, <1>2, <1>W, <2>1, <2>2 DEF IInv, TypeOK, Shape
  <1>4. SpooledAs(ullMessageID)' = SpooledAs(ullMessageID)
    BY DEF SpooledAs
  <1>5. /\ {<<i, lines[i]>> : i \in 1..sent} = {}
        /\ {<<i, lines'[i]>> : i \in 1..sent'} = {}
    BY <1>1, <1>2
  <1>6. SpoolShape'
    BY <1>2, <1>4, <1>5 DEF IInv, SpoolShape
  <1>7. AckedIsSpooled'
    BY DEF IInv, AckedIsSpooled, SpooledAs
  <1>8. FileIsThere'
    BY <1>1 DEF FileIsThere, TransactionHasFile
  <1>9. FileMatchesClient'
    <2>1. /\ Len(accepted') = Len(accepted) + 1 /\ accepted'[Len(accepted')] = r
          /\ Len(accepted') \in DOMAIN accepted'
          /\ \A j \in DOMAIN accepted : j \in DOMAIN accepted' /\ accepted'[j] = accepted[j]
      BY <1>1, <1>2
    <2>2. iRcptCount' = Len(accepted') /\ Len(lines') <= iRcptCount' /\ iRcptCount' > 0
      <3>1. Len(lines) \in Nat /\ Len(lines') \in Nat
        BY <1>2, <1>W
      <3> QED
        BY <1>1, <1>2, <1>W, <2>1, <3>1
    <2>3. ASSUME NEW i \in DOMAIN lines'
          PROVE  lines'[i] = Torn \/ \E j \in DOMAIN accepted' : lines'[i] = accepted'[j]
      <3>1. CASE lines'[i] \in {r, Torn}
        BY <2>1, <3>1
      <3>2. CASE i \in DOMAIN lines /\ lines'[i] = lines[i]
        BY <1>2, <2>1, <3>2 DEF IInv, FileMatchesClient
      <3> QED
        BY <1>W, <3>1, <3>2
    <2>4. ~unnoticed' => lines' = accepted'
      BY <1>1, <1>2, <1>W DEF IInv, FileMatchesClient
    <2> QED
      BY <2>2, <2>3, <2>4 DEF FileMatchesClient
  <1>10. RelayIsPermitted'
    <2>1. ASSUME NEW i \in DOMAIN lines'
          PROVE  lines'[i] \in {r, Torn} \/ (i \in DOMAIN lines /\ lines'[i] = lines[i])
      BY <1>W
    <2>2. r \in LocalRcpts \/ "RELAY_ENABLED" \in ulFlags \/ IPRelay
      BY <1>1 DEF SMTPCheckRelayCapability
    <2> QED
      BY <1>1, <2>1, <2>2 DEF IInv, RelayIsPermitted
  <1>11. ServerRulesHold'
    BY <1>1, <1>2 DEF IInv, ServerRulesHold
  <1>12. ErrorsEndSession' /\ StateMatchesLogon'
    BY <1>1 DEF IInv, ErrorsEndSession, StateMatchesLogon
  <1> QED
    BY <1>3, <1>6, <1>7, <1>8, <1>9, <1>10, <1>11, <1>12 DEF IInv

LEMMA RCPTKeepsIInv ==
    ASSUME IInv, SMTPHandleCmd_RCPT
    PROVE  IInv'
  <1>1. /\ Ready /\ phase = "command" /\ phase' = "command" /\ iSMTPState # "exit"
        /\ ulFlags \in SUBSET Flags /\ szLogonUser \in Users \cup {NoUser}
        /\ UNCHANGED <<phase, szLogonUser, tls, ullMessageID, spool, acked>>
    BY DEF IInv, TypeOK, SMTPHandleCmd_RCPT, Ready
  <1>2. CASE ResetAndRefuse(ulFlags) /\ UNCHANGED accepted
    BY <1>1, <1>2, AckedFacts, RefusedKeepsIInv
  <1>3. CASE Refuse /\ UNCHANGED accepted
    BY <1>1, <1>3, RefuseKeepsIInv
  <1>4. ASSUME iSMTPState \in {"mail", "rcpt"}, NEW r \in Rcpts, AcceptRcpt(r) PROVE IInv'
    BY <1>1, <1>4, AcceptKeepsIInv
  <1>5. CASE FilterCannotClose /\ UNCHANGED accepted
    BY <1>1, <1>5, RefuseKeepsIInv
  <1> QED
    BY <1>2, <1>3, <1>4, <1>5
    DEF SMTPHandleCmd_RCPT, FilterRejects, FilterCannotReopen

\* Leaving DATA, or staying in it, with the spool and the answers as they are.
LEMMA DATAKeepsIInv ==
    ASSUME IInv, SMTPHandleCmd_DATA
    PROVE  IInv'
  <1>1. /\ Ready /\ phase = "command" /\ iSMTPState # "exit" /\ sent = 0
        /\ ulFlags \in SUBSET Flags /\ szLogonUser \in Users \cup {NoUser}
        /\ UNCHANGED <<szLogonUser, tls, ullMessageID, accepted, spool, acked>>
    BY DEF IInv, TypeOK, Shape, SMTPHandleCmd_DATA, Ready
  <1>2. CASE (ResetAndRefuse(ulFlags) \/ SMTPResetSession) /\ UNCHANGED phase
    BY <1>1, <1>2, AckedFacts, RefusedKeepsIInv
  <1>3. CASE /\ iSMTPState = "rcpt" /\ file = "open" /\ phase' = "data"
             /\ UNCHANGED <<iSMTPState, ulFlags, iErrorsCount, message>>
    <2>1. UNCHANGED <<file, lines, iRcptCount, sent, unnoticed>>
      BY <1>3 DEF message
    <2>2. TypeOK' /\ Shape'
      BY <1>1, <1>3, <2>1 DEF IInv, TypeOK, Shape
    <2>3. InTransaction' /\ InTransaction
      BY <1>1, <1>3 DEF InTransaction
    <2>4. \A id : SpooledAs(id)' = SpooledAs(id)
      BY <1>1 DEF SpooledAs
    <2>5. SpoolShape' /\ AckedIsSpooled'
      BY <1>1, <2>1, <2>3, <2>4 DEF IInv, SpoolShape, AckedIsSpooled, SpooledAs
    <2>6. FileMatchesClient' /\ FileIsThere' /\ ServerRulesHold' /\ RelayIsPermitted'
      BY <1>1, <1>3, <2>1, <2>3 DEF IInv, FileMatchesClient, FileIsThere, TransactionHasFile,
         ServerRulesHold, RelayIsPermitted
    <2>7. ErrorsEndSession' /\ StateMatchesLogon'
      BY <1>1, <1>3 DEF IInv, ErrorsEndSession, StateMatchesLogon
    <2> QED
      BY <2>2, <2>5, <2>6, <2>7 DEF IInv
  <1> QED
    BY <1>2, <1>3 DEF SMTPHandleCmd_DATA

\* The steps between the handlers that leave the session in a transaction:
\* only the phase, the file and what is sent and spooled change.
LEMMA SendingKeepsIInv ==
    ASSUME IInv, phase \in {"data", "submit"}, phase' = "submit",
           file' \in {"none", "open", "closed"}, sent' \in Nat, sent' <= Len(lines),
           spool' \subseteq SpoolMessages, \A m \in spool' : m.id <= ullMessageID,
           \A a \in acked : SpooledAs(a.id)' = SpooledAs(a.id),
           SpooledAs(ullMessageID)' = {<<i, lines[i]>> : i \in 1..sent'},
           UNCHANGED <<iSMTPState, ulFlags, szLogonUser, tls, iErrorsCount, lines, iRcptCount,
                       unnoticed, ullMessageID, accepted, acked>>
    PROVE  IInv'
  <1>1. TypeOK' /\ Shape'
    BY DEF IInv, TypeOK, Shape
  <1>2. InTransaction' /\ InTransaction
    BY DEF IInv, Shape, InTransaction
  <1>3. SpoolShape'
    BY <1>2 DEF IInv, SpoolShape
  <1>4. AckedIsSpooled'
    BY DEF IInv, AckedIsSpooled, SpooledAs
  <1>5. FileMatchesClient' /\ FileIsThere' /\ ServerRulesHold' /\ RelayIsPermitted'
    BY <1>2 DEF IInv, FileMatchesClient, FileIsThere, TransactionHasFile, ServerRulesHold, RelayIsPermitted
  <1>6. ErrorsEndSession' /\ StateMatchesLogon'
    BY DEF IInv, ErrorsEndSession, StateMatchesLogon
  <1> QED
    BY <1>1, <1>3, <1>4, <1>5, <1>6 DEF IInv

LEMMA ReceivedKeepsIInv ==
    ASSUME IInv, DataReceived
    PROVE  IInv'
  <1>1. /\ phase = "data" /\ phase' = "submit" /\ file' = "closed"
        /\ UNCHANGED <<iSMTPState, ulFlags, szLogonUser, tls, iErrorsCount, lines, iRcptCount,
                       sent, unnoticed, ullMessageID, accepted, spool, acked>>
    BY DEF DataReceived
  <1>2. InTransaction
    BY <1>1 DEF IInv, Shape, InTransaction
  <1>3. \A id : SpooledAs(id)' = SpooledAs(id)
    BY <1>1 DEF SpooledAs
  <1>4. /\ SpooledAs(ullMessageID)' = {<<i, lines[i]>> : i \in 1..sent'}
        /\ \A a \in acked : SpooledAs(a.id)' = SpooledAs(a.id)
    BY <1>1, <1>2, <1>3 DEF IInv, SpoolShape, SpooledAs
  <1>5. /\ sent' \in Nat /\ sent' <= Len(lines) /\ spool' \subseteq SpoolMessages
        /\ \A m \in spool' : m.id <= ullMessageID
    BY <1>1 DEF IInv, TypeOK, Shape, SpoolShape
  <1> QED
    BY <1>1, <1>4, <1>5, SendingKeepsIInv

LEMMA SubmitRcptKeepsIInv ==
    ASSUME IInv, SubmitRcpt
    PROVE  IInv'
  <1> DEFINE new == [id |-> ullMessageID, n |-> sent + 1, rcpt |-> lines[sent + 1],
                     user |-> XAuthUser]
  <1>1. /\ phase = "submit" /\ sent < Len(lines) /\ sent' = sent + 1
        /\ spool' = spool \cup {new}
        /\ UNCHANGED <<phase, iSMTPState, ulFlags, szLogonUser, tls, iErrorsCount, file, lines,
                       iRcptCount, unnoticed, ullMessageID, accepted, acked>>
    BY DEF SubmitRcpt
  <1>2. /\ InTransaction /\ sent \in Nat /\ lines \in Seq(Addresses) /\ ullMessageID \in Nat
        /\ \A m \in spool : m.id <= ullMessageID
        /\ \A a \in acked : a.id # ullMessageID
        /\ SpooledAs(ullMessageID) = {<<i, lines[i]>> : i \in 1..sent}
    <2>1. InTransaction
      BY <1>1 DEF IInv, Shape, InTransaction
    <2> QED
      BY <2>1 DEF IInv, TypeOK, SpoolShape
  <1>3. lines[sent + 1] \in Addresses /\ sent + 1 \in Nat /\ sent + 1 <= Len(lines)
    BY <1>1, <1>2
  <1>4. new \in SpoolMessages
    <2>1. XAuthUser \in Users \cup {NoUser}
      BY DEF IInv, TypeOK, XAuthUser
    <2> QED
      BY <1>2, <1>3, <2>1 DEF SpoolMessages
  <1>5. /\ new.id = ullMessageID /\ <<new.n, new.rcpt>> = <<sent + 1, lines[sent + 1]>>
    OBVIOUS
  <1> HIDE DEF new
  <1>6. \A a \in acked : SpooledAs(a.id)' = SpooledAs(a.id)
    BY <1>1, <1>2, <1>5 DEF SpooledAs
  <1>7. SpooledAs(ullMessageID)' = SpooledAs(ullMessageID) \cup {<<sent + 1, lines[sent + 1]>>}
    BY <1>1, <1>5 DEF SpooledAs
  <1>8. 1..sent' = 1..sent \cup {sent + 1}
    BY <1>1, <1>2
  <1>9. SpooledAs(ullMessageID)' = {<<i, lines[i]>> : i \in 1..sent'}
    BY <1>2, <1>7, <1>8
  <1>10. spool' \subseteq SpoolMessages /\ \A m \in spool' : m.id <= ullMessageID
    BY <1>1, <1>2, <1>4, <1>5 DEF IInv, TypeOK
  <1> QED
    BY <1>1, <1>3, <1>6, <1>9, <1>10, SendingKeepsIInv DEF IInv, TypeOK

LEMMA DataRefusedKeepsIInv ==
    ASSUME IInv, DataRefused \/ SubmitFails
    PROVE  IInv'
  <1>1. /\ phase \in {"data", "submit"} /\ phase' = "command" /\ iSMTPState # "exit"
        /\ ulFlags \in SUBSET Flags /\ szLogonUser \in Users \cup {NoUser}
        /\ ResetAndRefuse(ulFlags) \/ SMTPResetSession
        /\ UNCHANGED <<szLogonUser, tls, ullMessageID, accepted, spool, acked>>
    BY DEF IInv, TypeOK, Shape, DataRefused, SubmitFails
  <1> QED
    BY <1>1, AckedFacts, RefusedKeepsIInv

LEMMA InterruptedKeepsIInv ==
    ASSUME IInv, DataInterrupted
    PROVE  IInv'
  BY StateKeepsIInv DEF IInv, Shape, DataInterrupted

\* What is spooled when the client is answered: as many of the lines as were
\* read, and all of those of a message that is acknowledged whole.
LEMMA AcknowledgeKeepsIInv ==
    ASSUME IInv, phase = "submit", NEW whole \in BOOLEAN, Acknowledge(whole),
           whole => ~unnoticed /\ sent = Len(lines)
    PROVE  IInv'
  <1> DEFINE new == [id |-> ullMessageID, rcpts |-> accepted, whole |-> whole]
  <1>1. /\ phase' = "command" /\ acked' = acked \cup {new}
        /\ SMTPResetSession
        /\ UNCHANGED <<szLogonUser, tls, ullMessageID, accepted, spool>>
    BY DEF Acknowledge
  <1>2. InTransaction /\ iSMTPState # "exit"
    BY DEF IInv, Shape, InTransaction
  <1>3. /\ lines \in Seq(Addresses) /\ accepted \in Seq(Rcpts) /\ ullMessageID \in Nat
        /\ sent \in Nat /\ sent <= Len(lines) /\ Len(lines) <= Len(accepted)
        /\ ~unnoticed => lines = accepted
        /\ \A i \in DOMAIN lines : lines[i] = Torn \/ \E j \in DOMAIN accepted : lines[i] = accepted[j]
        /\ SpooledAs(ullMessageID) = {<<i, lines[i]>> : i \in 1..sent}
    BY <1>2 DEF IInv, TypeOK, Shape, FileMatchesClient, SpoolShape
  <1>4. new.id = ullMessageID /\ new.rcpts = accepted /\ new.whole = whole /\ new \in Acks
    BY <1>3 DEF Acks
  <1>5. 1..sent \subseteq DOMAIN lines /\ 1..sent \subseteq DOMAIN accepted
    BY <1>3
  <1> HIDE DEF new
  <1>6. new.whole => SpooledAs(new.id) = {<<i, new.rcpts[i]>> : i \in DOMAIN new.rcpts}
    BY <1>3, <1>4
  <1>7. \A s \in SpooledAs(new.id) :
            /\ s[1] \in DOMAIN new.rcpts
            /\ s[2] = Torn \/ \E j \in DOMAIN new.rcpts : s[2] = new.rcpts[j]
    BY <1>3, <1>4, <1>5
  <1>8. \A s, t \in SpooledAs(new.id) : s[1] = t[1] => s = t
    BY <1>3, <1>4
  <1>9. AckedIsSpooled'
    <2>1. \A id : SpooledAs(id)' = SpooledAs(id)
      BY <1>1 DEF SpooledAs
    <2>2. ASSUME NEW a \in acked'
          PROVE  /\ a.whole => SpooledAs(a.id) = {<<i, a.rcpts[i]>> : i \in DOMAIN a.rcpts}
                 /\ \A s \in SpooledAs(a.id) :
                       /\ s[1] \in DOMAIN a.rcpts
                       /\ s[2] = Torn \/ \E j \in DOMAIN a.rcpts : s[2] = a.rcpts[j]
                 /\ \A s, t \in SpooledAs(a.id) : s[1] = t[1] => s = t
      <3>1. CASE a \in acked
        BY <3>1 DEF IInv, AckedIsSpooled
      <3>2. CASE a = new
        BY <1>6, <1>7, <1>8, <3>2
      <3> QED
        BY <1>1, <2>2, <3>1, <3>2
    <2> QED
      BY <2>1, <2>2 DEF AckedIsSpooled
  <1>10. acked' \subseteq Acks /\ \A a \in acked' : a.id <= ullMessageID
    BY <1>1, <1>3, <1>4 DEF IInv, TypeOK, SpoolShape
  <1>11. ulFlags \in SUBSET Flags /\ szLogonUser \in Users \cup {NoUser}
    BY DEF IInv, TypeOK
  <1> QED
    BY <1>1, <1>2, <1>9, <1>10, <1>11, RefusedKeepsIInv

LEMMA SubmitDoneKeepsIInv ==
    ASSUME IInv, SubmitDone \/ SubmitCutShort
    PROVE  IInv'
  <1>1. CASE SubmitDone
    BY <1>1, AcknowledgeKeepsIInv DEF IInv, TypeOK, SubmitDone
  <1>2. CASE SubmitCutShort
    BY <1>2, AcknowledgeKeepsIInv DEF SubmitCutShort
  <1> QED
    BY <1>1, <1>2

LEMMA EndKeepsIInv ==
    ASSUME IInv, SMTPClearSession
    PROVE  IInv'
  <1>1. /\ phase' = "none" /\ iSMTPState' = "init" /\ ulFlags' = {} /\ szLogonUser' = NoUser
        /\ tls' = FALSE /\ iErrorsCount' = 0
        /\ file' = "none" /\ lines' = <<>> /\ iRcptCount' = 0 /\ sent' = 0
        /\ unnoticed' = FALSE
        /\ UNCHANGED <<ullMessageID, accepted, spool, acked>>
    BY DEF SMTPClearSession, ForgetMessage
  <1>2. TypeOK' /\ Shape'
    <2>1. lines' \in Seq(Addresses) /\ Len(lines') = 0
      BY <1>1
    <2>2. TypeOK'
      BY <1>1, <2>1 DEF IInv, TypeOK
    <2>3. Shape'
      BY <1>1, <2>1 DEF Shape
    <2> QED
      BY <2>2, <2>3
  <1>3. ~InTransaction'
    BY <1>1 DEF InTransaction
  <1>4. SpoolShape' /\ AckedIsSpooled'
    BY <1>1, <1>3, AckedFacts DEF IInv, SpoolShape
  <1>5. FileMatchesClient' /\ FileIsThere' /\ ServerRulesHold' /\ RelayIsPermitted'
    BY <1>1, <1>3 DEF FileMatchesClient, FileIsThere, TransactionHasFile, ServerRulesHold, RelayIsPermitted
  <1>6. ErrorsEndSession' /\ StateMatchesLogon'
    BY <1>1 DEF ErrorsEndSession, StateMatchesLogon
  <1> QED
    BY <1>2, <1>4, <1>5, <1>6 DEF IInv

LEMMA OtherKeepsIInv ==
    ASSUME IInv, SMTPHandleCmd_RSET \/ SMTPHandleCmd_QUIT \/ SMTPHandleCmd_Other
    PROVE  IInv'
  <1>1. /\ Ready /\ phase = "command" /\ phase' = "command" /\ iSMTPState # "exit" /\ sent = 0
        /\ ulFlags \in SUBSET Flags /\ szLogonUser \in Users \cup {NoUser}
        /\ UNCHANGED <<phase, szLogonUser, tls, ullMessageID, accepted, spool, acked>>
    BY DEF IInv, TypeOK, Shape, SMTPHandleCmd_RSET, SMTPHandleCmd_QUIT, SMTPHandleCmd_Other,
       Ready
  <1>2. CASE SMTPHandleCmd_RSET
    BY <1>1, <1>2, AckedFacts, RefusedKeepsIInv DEF SMTPHandleCmd_RSET
  <1>3. CASE SMTPHandleCmd_QUIT
    BY <1>1, <1>3, StateKeepsIInv DEF SMTPHandleCmd_QUIT
  <1>4. CASE SMTPHandleCmd_Other
    BY <1>1, <1>4, RefuseKeepsIInv DEF SMTPHandleCmd_Other
  <1> QED
    BY <1>2, <1>3, <1>4
-----------------------------------------------------------------------------
LEMMA NextKeepsIInv == IInv /\ [Next]_vars => IInv'
  <1> SUFFICES ASSUME IInv, [Next]_vars PROVE IInv'
    OBVIOUS
  <1>1. CASE UNCHANGED vars
    BY <1>1 DEF vars, session, message, IInv, TypeOK, Shape, SpoolShape, FileIsThere, TransactionHasFile,
       FileMatchesClient, AckedIsSpooled, RelayIsPermitted, ServerRulesHold, ErrorsEndSession,
       StateMatchesLogon, InTransaction, SpooledAs
  <1>2. CASE SMTPInitSession
    BY <1>2, InitSessionKeepsIInv
  <1>3. CASE Command
    BY <1>3, HELOKeepsIInv, STARTTLSKeepsIInv, AUTHKeepsIInv, MAILKeepsIInv, RCPTKeepsIInv,
       DATAKeepsIInv, OtherKeepsIInv DEF Command
  <1>4. CASE Data
    BY <1>4, DataRefusedKeepsIInv, InterruptedKeepsIInv, ReceivedKeepsIInv,
       SubmitRcptKeepsIInv, SubmitDoneKeepsIInv DEF Data
  <1>5. CASE EndSession \/ Crash
    BY <1>5, EndKeepsIInv DEF EndSession, Crash
  <1> QED
    BY <1>1, <1>2, <1>3, <1>4, <1>5 DEF Next

(***************************************************************************)
(* The inductive invariant, and with it the types, holds always.           *)
(***************************************************************************)
THEOREM Invariance == Spec => [](TypeOK /\ IInv)
  <1>1. IInv => TypeOK
    BY DEF IInv
  <1> QED
    BY <1>1, InitIInv, NextKeepsIInv, PTL DEF Spec

(***************************************************************************)
(* A 250 to DATA stands for one spooled message for each 250 to RCPT, and  *)
(* for no other, unless a write or read of the message file failed where   *)
(* the code does not look; then some may be missing, and still none comes  *)
(* twice nor for anyone else, but for an address that was cut.             *)
(***************************************************************************)
THEOREM SpecAckedIsSpooled == Spec => []AckedIsSpooled
  <1>1. IInv => AckedIsSpooled
    BY DEF IInv
  <1> QED
    BY <1>1, Invariance, PTL

(***************************************************************************)
(* The message file is there for every command of a transaction, as long   *)
(* as fclose reports no error before a filter runs.                        *)
(***************************************************************************)
THEOREM SpecTransactionHasFile == ASSUME ~CloseFails PROVE Spec => []TransactionHasFile
  <1>1. IInv => TransactionHasFile
    BY DEF IInv, FileIsThere
  <1> QED
    BY <1>1, Invariance, PTL

(***************************************************************************)
(* The message file holds the recipients that the client was told are      *)
(* accepted, all of them while no write of a line has failed unnoticed.    *)
(***************************************************************************)
THEOREM SpecFileMatchesClient == Spec => []FileMatchesClient
  <1>1. IInv => FileMatchesClient
    BY DEF IInv
  <1> QED
    BY <1>1, Invariance, PTL

(***************************************************************************)
(* No order of commands leaves a recipient elsewhere in the file of a      *)
(* session that may not relay.                                             *)
(***************************************************************************)
THEOREM SpecRelayIsPermitted == Spec => []RelayIsPermitted
  <1>1. IInv => RelayIsPermitted
    BY DEF IInv
  <1> QED
    BY <1>1, Invariance, PTL

(***************************************************************************)
(* MailAuth and WantTLS are never got around by the order of commands.     *)
(***************************************************************************)
THEOREM SpecServerRulesHold == Spec => []ServerRulesHold
  <1>1. IInv => ServerRulesHold
    BY DEF IInv
  <1> QED
    BY <1>1, Invariance, PTL

(***************************************************************************)
(* A session that had its last error ends, and its state agrees with its   *)
(* logon.                                                                  *)
(***************************************************************************)
THEOREM SpecStates ==
    Spec => [](ErrorsEndSession /\ StateMatchesLogon)
  <1>1. IInv => ErrorsEndSession /\ StateMatchesLogon
    BY DEF IInv
  <1> QED
    BY <1>1, Invariance, PTL

\* No handler but AUTH, STARTTLS and the end of the session touches a logon,
\* and AUTH is refused to those who have one.
LEMMA StepKeepsLogon ==
    ASSUME IInv, [Next]_vars,
           "AUTHENTICATED" \in ulFlags, phase' # "none", tls' = tls
    PROVE  "AUTHENTICATED" \in ulFlags' /\ szLogonUser' = szLogonUser
  <1>1. /\ ulFlags \in SUBSET Flags /\ phase # "none"
        /\ iSMTPState \notin {"init", "helo"} /\ szLogonUser # NoUser
    BY DEF IInv, TypeOK, Shape, StateMatchesLogon
  <1>2. "AUTHENTICATED" \in FlagsAfterReset(ulFlags)
    BY <1>1, FlagFacts
  <1>3. ASSUME ResetAndRefuse(ulFlags) \/ SMTPResetSession \/ Refuse
               \/ UNCHANGED ulFlags
        PROVE  "AUTHENTICATED" \in ulFlags'
    BY <1>2, <1>3 DEF ResetAndRefuse, SMTPResetSession, Refuse
  <1>4. CASE UNCHANGED vars
    BY <1>4 DEF vars, session
  <1>5. CASE SMTPInitSession \/ EndSession \/ Crash
    BY <1>1, <1>5 DEF SMTPInitSession, EndSession, Crash, SMTPClearSession
  <1>6. CASE SMTPHandleCmd_HELO \/ SMTPHandleCmd_AUTH \/ SMTPHandleCmd_STARTTLS
    <2>1. iSMTPState # "helo"
      BY <1>1
    <2>2. /\ ResetAndRefuse(ulFlags) \/ Refuse \/ UNCHANGED ulFlags
          /\ szLogonUser' = szLogonUser
      BY <1>1, <1>6, <2>1 DEF SMTPHandleCmd_HELO, SMTPHandleCmd_AUTH, SMTPHandleCmd_STARTTLS
    <2> QED
      BY <1>3, <2>2
  <1>7. CASE SMTPHandleCmd_MAIL
    <2>1. ASSUME NEW flags, OpenMessage(flags) \/ RefuseMail(flags), flags \in SUBSET Flags,
                 "AUTHENTICATED" \in flags
          PROVE  "AUTHENTICATED" \in ulFlags'
      BY <2>1, FlagFacts DEF OpenMessage, RefuseMail, ResetAndRefuse
    <2>2. ASSUME NEW u \in Users, MailFromPopUser(u)
          PROVE  "AUTHENTICATED" \in ulFlags' /\ szLogonUser' = szLogonUser
      <3>1. "AUTHENTICATED" \in SMTPApplyUserConfig(u)
            /\ SMTPApplyUserConfig(u) \in SUBSET Flags
        BY ApplyFacts DEF IInv
      <3> QED
        BY <1>1, <2>1, <2>2, <3>1 DEF MailFromPopUser
    <2>3. CASE Refuse /\ UNCHANGED szLogonUser
      BY <1>3, <2>3
    <2>4. CASE (OpenMessage(ulFlags) \/ RefuseMail(ulFlags)) /\ UNCHANGED szLogonUser
      BY <1>1, <2>1, <2>4
    <2> QED
      BY <1>7, <2>2, <2>3, <2>4 DEF SMTPHandleCmd_MAIL, MailFromAny
  <1>8. CASE SMTPHandleCmd_RCPT
    <2>1. /\ ResetAndRefuse(ulFlags) \/ Refuse \/ UNCHANGED ulFlags
          /\ szLogonUser' = szLogonUser
      BY <1>8 DEF SMTPHandleCmd_RCPT, FilterRejects, FilterCannotClose, FilterCannotReopen,
         AcceptRcpt
    <2> QED
      BY <1>3, <2>1
  <1>9. CASE SMTPHandleCmd_DATA \/ Data
    <2>1. /\ ResetAndRefuse(ulFlags) \/ SMTPResetSession \/ UNCHANGED ulFlags
          /\ szLogonUser' = szLogonUser
      BY <1>9 DEF SMTPHandleCmd_DATA, Data, DataRefused, DataInterrupted, DataReceived,
         SubmitRcpt, SubmitFails, SubmitDone, SubmitCutShort, Acknowledge
    <2> QED
      BY <1>3, <2>1
  <1>10. CASE SMTPHandleCmd_RSET \/ SMTPHandleCmd_QUIT \/ SMTPHandleCmd_Other
    BY <1>3, <1>10 DEF SMTPHandleCmd_RSET, SMTPHandleCmd_QUIT, SMTPHandleCmd_Other
  <1> QED
    BY <1>4, <1>5, <1>6, <1>7, <1>8, <1>9, <1>10 DEF Next, Command

(***************************************************************************)
(* A logon is lost only with the session or to STARTTLS.                   *)
(***************************************************************************)
THEOREM SpecLogonLasts == Spec => LogonLasts
  <1>1. IInv /\ [Next]_vars =>
            [/\ "AUTHENTICATED" \in ulFlags
             /\ phase' # "none"
             /\ tls' = tls
             => "AUTHENTICATED" \in ulFlags' /\ szLogonUser' = szLogonUser]_vars
    BY StepKeepsLogon
  <1> QED
    BY <1>1, Invariance, PTL DEF Spec, LogonLasts
=============================================================================
