--------------------------- MODULE RemoteDelivery ---------------------------
(***************************************************************************)
(* Sending one message to one recipient of another server:                 *)
(* SMAILRemoteMsgSMTPSend and SMAILCmd_smtprelay in SMAILSvr.cpp, the SMTP *)
(* client in SMTPUtils.cpp, and the search for the mail exchangers of a    *)
(* domain in DNSCache.cpp and DNS.cpp.                                     *)
(*                                                                         *)
(* An attempt chooses a route, which gives the servers to try, and tries   *)
(* one after the other until one takes the message or refuses it for good. *)
(* pSMTPE keeps the last reply; what it says when the attempt ends decides *)
(* between another attempt and a bounce.  Modules MessQueue and MailProc   *)
(* have what surrounds an attempt: filters, retries, expiry.               *)
(*                                                                         *)
(* A reply is its class, or "lost" when the connection broke, the wait for *)
(* it ran out of time or it made no sense; then a late reply may answer    *)
(* the QUIT.  Of the last reply only whether it is fatal is used.          *)
(***************************************************************************)
EXTENDS Integers, Sequences

CONSTANTS
    Host,           \* names of servers
    Domain,         \* that of the destination domain itself (its A record)
    Remnants,       \* what may be left of a name that was cut off in a file
    Configs,        \* of the server and of the world
    MaxMX,          \* MAX_MX_RECORDS
    MaxDepth,       \* iMaxDepth of DNS_Query
    MaxReferrals,   \* bound on the name servers of one referral
    MaxAttempts,    \* bound on attempts, and MaxCrashes on crashes
    MaxCrashes

Options == {"unset", "off", "use", "force"}     \* NeedTLS
Mechanisms == {"none", "plain", "cram-md5", "login", "broken"}
Classes == {"2xx", "3xx", "4xx", "5xx"}     \* USmtpResponseClass
Replies == Classes \cup {"lost"}

\* A list of gateways, if there is one: a line of smtpfwd.tab, the arguments
\* of smtprelay, DefaultSMTPGateways.
Gateways == Seq(Seq([host : Host, option : Options]))

ASSUME ConfigsAssumption ==
  Domain \in Host /\ Remnants \subseteq Host /\ \A c \in Configs : c \in
    [relays : Gateways,     \* of the command smtprelay, if it runs
     path : Seq(Host),      \* relay of a recipient with a route, if it has one
     fwd : Gateways, gws : Gateways,
     gwConfig : Options,    \* SmtpGwConfig
     literal : BOOLEAN,     \* the domain is an IP address
     exists : BOOLEAN,      \* and so on for the world: the domain,
     mx : Seq([cost : Nat, host : Host]), a : BOOLEAN,
     smart : Nat, roots : Nat,      \* SmartDNSHost, dnsroots
     auth : Mechanisms]     \* first line of the file in userauth/smtp

ASSUME BoundsAssumption ==
    /\ MaxMX \in Nat \ {0} /\ MaxDepth \in Nat /\ MaxReferrals \in Nat
    /\ MaxAttempts \in Nat /\ MaxCrashes \in Nat

VARIABLES
    cfg,            \* the configuration, for good
    pc,             \* "queued", a stage below, or "settled"
    route,          \* of this attempt
    list,           \* gateways still to try
    mxr,            \* SmtpMXRecords: the records, iMXCost, iCurrMxCost
    gw,             \* the gateway in use: host and NeedTLS
    chan,           \* the channel: what EHLO said, secure, AUTH replies to come
    err,            \* pSMTPE: "none" when clean, "temp" or "fatal"
    sent,           \* USmtpSendMail succeeded
    ns,             \* name servers still to ask, of each nested query
    dnsErr,         \* error of the last smart DNS host
    cache,          \* the file of the domain in the MX cache
    attempts, crashes,
    \* what happened
    outcome,        \* "pending", "delivered" or "bounced"
    said,           \* answer of each server of this attempt, in order
    copies,         \* how often a server took the message
    unsure,         \* how often its confirmation was lost
    bare            \* routes and hosts by which the message was sent without TLS

dns == <<ns, dnsErr, cache>>
servers == <<list, mxr>>
world == <<cfg, attempts, crashes, copies, unsure, bare>>
vars == <<cfg, pc, route, list, mxr, gw, chan, err, sent, dns, attempts, crashes,
          outcome, said, copies, unsure, bare>>

NoMX == [recs |-> <<>>, cost |-> <<>>, curr |-> -1]
NoGateway == [host |-> Domain, tls |-> "unset"]
NoChannel == [tls |-> FALSE, large |-> FALSE, secure |-> FALSE, auth |-> 0]
NoCache == [state |-> "absent", mx |-> <<>>]

Init ==
    /\ cfg \in Configs
    /\ pc = "queued" /\ route = "none" /\ list = <<>> /\ mxr = NoMX
    /\ gw = NoGateway /\ chan = NoChannel /\ err = "none" /\ sent = FALSE
    /\ ns = <<>> /\ dnsErr = "none" /\ cache = NoCache
    /\ attempts = 0 /\ crashes = 0
    /\ outcome = "pending" /\ said = <<>> /\ copies = 0 /\ unsure = 0 /\ bare = {}

-----------------------------------------------------------------------------
(* Gateways and their options.                                             *)

\* USmtpSetGwOptions, called with one set of options after the other.
Assigned(first, second) == IF second # "unset" THEN second ELSE first

\* USmtpGetCfgGateways (smtpfwd.tab and smtprelay): SmtpGwConfig, then the line's.
CfgGateways(entries) ==
    [i \in 1..Len(entries) |->
        [host |-> entries[i].host, tls |-> Assigned(cfg.gwConfig, entries[i].option)]]

\* USmtpGetMailExchangers (DefaultSMTPGateways): the entry's, then SmtpGwConfig.
MailExchangers(entries) ==
    [i \in 1..Len(entries) |->
        [host |-> entries[i].host, tls |-> Assigned(entries[i].option, cfg.gwConfig)]]

\* USmtpGetDefaultGateway: any other host.
DefaultGateway(h) == [host |-> h, tls |-> cfg.gwConfig]

UseTLS(g) == g.tls \in {"use", "force"}

-----------------------------------------------------------------------------
(* The start of an attempt, and its end.                                   *)

\* What the callers make of the result: a fatal error is notified to the
\* sender, any other leaves the message, or the line, to the next attempt.
Settle(o) ==
    /\ pc' = "settled" /\ outcome' = o
    /\ UNCHANGED <<gw, err, list>>
TryLater ==
    /\ pc' = "queued"
    /\ UNCHANGED <<outcome, gw, err, list>>

\* USmtpCleanupError before each server.
TryServer(g, rest) ==
    /\ pc' = "connect" /\ gw' = g /\ list' = rest /\ err' = "none"
    /\ UNCHANGED outcome

\* An empty list discharges the message.
TryList(gws) ==
    IF gws = <<>> THEN Settle("delivered") ELSE TryServer(Head(gws), Tail(gws))

\* Forwarders that cannot be looked up (lock, file or memory) count as none,
\* and so do default gateways.
USmtpGetFwdGateways == {cfg.fwd, <<>>}

\* The order of the routes.
SMAILRemoteMsgSMTPSend ==
    /\ pc = "queued" /\ attempts < MaxAttempts
    /\ attempts' = attempts + 1
    /\ said' = <<>> /\ sent' = FALSE /\ mxr' = NoMX /\ chan' = NoChannel
    /\ \E fwd \in USmtpGetFwdGateways, gws \in {cfg.gws, <<>>} :
        \/ /\ cfg.relays # <<>>
           /\ route' = "smtprelay"
           /\ TryList(CfgGateways(cfg.relays[1]))
        \/ /\ cfg.relays = <<>> /\ cfg.path # <<>>
           /\ route' = "relay"
           /\ TryServer(DefaultGateway(cfg.path[1]), <<>>)
        \/ /\ cfg.relays = <<>> /\ cfg.path = <<>> /\ fwd # <<>>
           /\ route' = "forward"
           /\ TryList(CfgGateways(fwd[1]))
        \/ /\ cfg.relays = <<>> /\ cfg.path = <<>> /\ fwd = <<>> /\ gws # <<>>
           /\ route' = "gateways"
           /\ TryList(MailExchangers(gws[1]))
        \/ /\ cfg.relays = <<>> /\ cfg.path = <<>> /\ fwd = <<>> /\ gws = <<>> /\ cfg.literal
           /\ route' = "address"
           /\ TryServer(DefaultGateway(Domain), <<>>)
        \/ /\ cfg.relays = <<>> /\ cfg.path = <<>> /\ fwd = <<>> /\ gws = <<>> /\ ~cfg.literal
           /\ route' = "mx"
           /\ pc' = "lookup" /\ list' = <<>> /\ err' = "none"
           /\ UNCHANGED <<outcome, gw>>
    /\ UNCHANGED <<cfg, dns, crashes, copies, unsure, bare>>

\* Filters, the message section or the options of a gateway fail.
AttemptFails ==
    /\ pc = "queued" /\ attempts < MaxAttempts
    /\ attempts' = attempts + 1
    /\ said' = <<>> /\ sent' = FALSE /\ mxr' = NoMX /\ chan' = NoChannel
    /\ route' = "none"
    /\ TryLater
    /\ UNCHANGED <<cfg, dns, crashes, copies, unsure, bare>>

-----------------------------------------------------------------------------
(* The mail exchangers of the domain.                                      *)

Lesser(a, b) == IF a <= b THEN a ELSE b

\* The next record: of those whose cost is not below the current one, the
\* first of the cheapest.
\* Mutant: records of the same cost are skipped.
Candidates_Strict(cost, curr) == {i \in 1..Len(cost) : cost[i] > curr}
Candidates(cost, curr) == {i \in 1..Len(cost) : cost[i] >= curr}
Cheapest(cost, curr) ==
    CHOOSE i \in Candidates(cost, curr) :
        \A j \in Candidates(cost, curr) :
            cost[i] < cost[j] \/ (cost[i] = cost[j] /\ i <= j)

\* A record that was taken is marked by a cost below the current one.
Taken(m, i) ==
    [recs |-> m.recs, cost |-> [m.cost EXCEPT ![i] = m.cost[i] - 1], curr |-> m.cost[i]]

\* The records that fit in the table, and those of this attempt.
Fit(recs) == SubSeq(recs, 1, Lesser(Len(recs), MaxMX))
Records == mxr.recs

\* USmtpGetMXFirst, with the records of the cache or of an answer.
USmtpGetMXFirst(recs) ==
    LET known == Fit(recs)
        cost == [i \in 1..Len(known) |-> known[i].cost]
        i == Cheapest(cost, -1)
    IN /\ mxr' = Taken([recs |-> known, cost |-> cost, curr |-> -1], i)
       /\ TryServer(DefaultGateway(known[i].host), <<>>)

DNS_FatalError(e) == e \in {"nxdomain", "maxdepth"}

\* The domain does not exist: bounced here and now.  No MX records: its A
\* record.  Another error: later.
LookupFailed(e) ==
    /\ mxr' = NoMX /\ ns' = <<>> /\ dnsErr' = "none"
    /\ \/ /\ DNS_FatalError(e)
          /\ Settle("bounced")
          /\ UNCHANGED route
       \/ /\ e = "notfound"
          /\ route' = "direct"
          /\ TryServer(DefaultGateway(Domain), <<>>)
       \/ /\ e = "other"
          /\ TryLater
          /\ UNCHANGED route

\* CDNS_MxLoad finds a cached answer that has not expired.
CDNS_MxLoad ==
    /\ pc = "lookup" /\ cache.state = "fresh"
    /\ USmtpGetMXFirst(cache.mx)
    /\ UNCHANGED <<world, route, chan, sent, dns, said>>

\* DNS_LoadRoots links the list only if it has more than one root.
Roots == IF cfg.roots > 1 THEN cfg.roots ELSE 0

\* No cached answer, or a cache that cannot be read: ask the smart DNS hosts,
\* or else the roots.
StartQuery ==
    /\ pc = "lookup"
    /\ pc' = "query"
    /\ ns' = <<IF cfg.smart > 0 THEN cfg.smart ELSE Roots>>
    /\ dnsErr' = "none"
    /\ UNCHANGED <<world, route, servers, gw, chan, err, sent, cache, outcome, said>>

\* There is no query: the file of the roots cannot be opened, SmartDNSHost is
\* badly written, or there is no memory.  Or there is a cached answer, but a
\* line of it that ends in a cost without a name is no list of records.
QueryFails ==
    /\ pc = "lookup"
    /\ LookupFailed("other")
    /\ UNCHANGED <<world, chan, sent, cache, said>>

Querying == pc = "query" /\ ns[Len(ns)] > 0
NextServer == [ns EXCEPT ![Len(ns)] = @ - 1]

AskNext(e) ==
    /\ ns' = NextServer /\ dnsErr' = e
    /\ UNCHANGED <<pc, route, servers, gw, err, outcome>>

\* No usable reply within DNS_SEND_RETRIES datagrams (and a stream, if they
\* were truncated), an error code, or a reply without answers and referrals.
NsFails ==
    /\ Querying
    /\ AskNext("other")
    /\ UNCHANGED <<world, chan, sent, cache, said>>

\* NXDOMAIN ends a query from the roots; of smart DNS hosts the next is asked.
NsDenies ==
    /\ Querying /\ ~cfg.exists
    /\ IF cfg.smart > 0
       THEN AskNext("nxdomain")
       ELSE LookupFailed("nxdomain")
    /\ UNCHANGED <<world, chan, sent, cache, said>>

\* DNS_RecurseQuery with the servers of a referral.
NsRefers ==
    /\ Querying /\ cfg.smart = 0
    /\ \E n \in 1..MaxReferrals :
        IF Len(ns) > MaxDepth
        THEN LookupFailed("maxdepth")
        ELSE /\ ns' = Append(NextServer, n)
             /\ UNCHANGED <<pc, route, servers, gw, err, outcome, dnsErr>>
    /\ UNCHANGED <<world, chan, sent, cache, said>>

\* What is written of a list and read again: neither are the writes looked at,
\* nor does a line longer than DNS_CACHE_LINE_MAX come back whole.  The list
\* ends after some record, the name of which may be cut.
Torn(recs) ==
    UNION {{[i \in 1..n |-> IF i = n THEN [recs[n] EXCEPT !.host = h] ELSE recs[i]] :
                h \in Remnants \cup {recs[n].host}} : n \in 1..Len(recs)}

\* The file cannot be written at all, is left without a list, or has one.
CDNS_MxSave == {cache, NoCache} \cup {[state |-> "fresh", mx |-> recs] : recs \in Torn(cfg.mx)}

\* An answer with MX records is saved in the cache, and its records are used
\* unless there is no memory for them.
NsAnswers ==
    /\ Querying /\ cfg.exists /\ cfg.mx # <<>>
    /\ cache' \in CDNS_MxSave
    /\ \/ /\ ns' = <<>> /\ dnsErr' = "none"
          /\ USmtpGetMXFirst(cfg.mx)
          /\ UNCHANGED route
       \/ LookupFailed("other")
    /\ UNCHANGED <<world, chan, sent, said>>

\* An answer without MX records (CDNS_BuildStrMX); a smart DNS host may also
\* have no answer at all.
NsHasNoMX ==
    /\ Querying /\ cfg.exists /\ cfg.mx = <<>>
    /\ IF cfg.smart > 0
       THEN AskNext("notfound")
       ELSE LookupFailed("notfound")
    /\ UNCHANGED <<world, chan, sent, cache, said>>

\* All were asked.  A query from the roots reports ERR_DNS_NOTFOUND, through
\* all its levels; the smart DNS hosts leave the error of the last one.
NsExhausted ==
    /\ pc = "query" /\ ns[Len(ns)] = 0
    /\ LookupFailed(IF cfg.smart > 0 THEN dnsErr ELSE "notfound")
    /\ UNCHANGED <<world, chan, sent, cache, said>>

\* Time: an entry of the cache expires.
CacheExpires ==
    /\ cache.state = "fresh"
    /\ cache' = [cache EXCEPT !.state = "expired"]
    /\ UNCHANGED <<world, pc, route, servers, gw, chan, err, sent, ns, dnsErr, outcome, said>>

-----------------------------------------------------------------------------
(* The channel to one server.                                              *)

\* USmtpSetError and USmtpIsFatalError: 5xx, and SMTP_FATAL_ERROR.
Severity(r) == IF r \in {"5xx", "fatal"} THEN "fatal" ELSE "temp"
SetError(r) == IF r = "lost" THEN err ELSE Severity(r)

Record(res) == said' = Append(said, [host |-> gw.host, res |-> res, quit |-> "none"])

\* A step of the dialogue that goes well, and one that does not.
Proceed(next) ==
    /\ pc' = next
    /\ UNCHANGED <<err, said>>
GiveUp(r, next) ==
    /\ pc' = next
    /\ err' = SetError(r)
    /\ Record(Severity(r))
    /\ chan' = NoChannel
Channel == UNCHANGED <<cfg, attempts, crashes, route, servers, gw, dns, outcome>>

\* An address, none (ERR_BAD_SERVER_ADDR, ERR_DNS_NOTFOUND), or no answer.
SysGetHostByName ==
    {"failed"} \cup (IF gw.host = Domain THEN {} ELSE {"found", "unknown"})
               \cup (IF cfg.a THEN {"found"} ELSE {"unknown"})

\* There is no address, or no connection.  The former is fatal for the A
\* record of the domain.
ConnectFails ==
    /\ pc = "connect"
    /\ pc' = "verdict"
    /\ \E address \in SysGetHostByName :
        IF address = "unknown" /\ route = "direct"
        THEN err' = "fatal" /\ Record("fatal")
        ELSE err' = err /\ Record("temp")
    /\ UNCHANGED <<chan, sent, copies, unsure, bare>>
    /\ Channel

\* USmtpCreateChannel up to the welcome message.
Welcome ==
    /\ pc = "connect"
    /\ "found" \in SysGetHostByName
    /\ \E r \in Replies :
        \/ r = "2xx" /\ Proceed("ehlo") /\ chan' = NoChannel
        \/ r # "2xx" /\ GiveUp(r, "verdict")
    /\ UNCHANGED <<sent, copies, unsure, bare>>
    /\ Channel

\* EHLO, or HELO when the server has none; then the channel has no extensions.
Hello ==
    /\ pc = "ehlo"
    /\ \/ \E t \in BOOLEAN, large \in BOOLEAN :
            /\ chan' = [chan EXCEPT !.tls = t, !.large = large]
            /\ Proceed("tls")
       \/ /\ UNCHANGED chan
          /\ Proceed("tls")
       \/ \E r \in Replies \ {"2xx"} : GiveUp(r, "verdict")
    /\ UNCHANGED <<sent, copies, unsure, bare>>
    /\ Channel

\* How many replies the mechanism of the server's file in userauth/smtp takes.
AuthReplies(m) ==
    CASE m = "plain" -> 1 [] m = "cram-md5" -> 2 [] m = "login" -> 3 [] OTHER -> 0

\* USmtpServerAuthenticate finds the file, if there is one.
StartAuth ==
    IF cfg.auth = "broken"
    THEN GiveUp("lost", "quit")
    ELSE /\ chan' = [chan EXCEPT !.auth = AuthReplies(cfg.auth)]
         /\ Proceed(IF cfg.auth = "none" THEN "mail" ELSE "auth")

\* No TLS is wanted, or it is there already.
WithoutTLS ==
    /\ pc = "tls" /\ (~UseTLS(gw) \/ chan.secure)
    /\ StartAuth
    /\ UNCHANGED <<sent, copies, unsure, bare>>
    /\ Channel

\* Mutant: a refused STARTTLS is ignored.
NoTLS_Ignored ==
    /\ pc = "tls" /\ UseTLS(gw) /\ ~chan.secure
    /\ \/ ~chan.tls /\ IF gw.tls = "force" THEN GiveUp("fatal", "quit") ELSE StartAuth
       \/ chan.tls /\ StartAuth
    /\ UNCHANGED <<sent, copies, unsure, bare>>
    /\ Channel

\* USmtpSwitchToSSL when the server has no STARTTLS or refuses it.
NoTLS ==
    /\ pc = "tls" /\ UseTLS(gw) /\ ~chan.secure
    /\ \/ ~chan.tls /\ IF gw.tls = "force" THEN GiveUp("fatal", "quit") ELSE StartAuth
       \/ /\ chan.tls
          /\ \E r \in Classes \ {"2xx"} :
                IF gw.tls = "force" THEN GiveUp(r, "quit") ELSE StartAuth
    /\ UNCHANGED <<sent, copies, unsure, bare>>
    /\ Channel

\* Mutant: the name of the BIO is that of a plain one.
SwitchToSSL_Again ==
    /\ pc = "tls" /\ UseTLS(gw) /\ ~chan.secure /\ chan.tls
    /\ Proceed("ehlo")
    /\ UNCHANGED <<chan, sent, copies, unsure, bare>>
    /\ Channel

\* STARTTLS: the reply is lost, the handshake fails, or EHLO is sent again.
SwitchToSSL ==
    /\ pc = "tls" /\ UseTLS(gw) /\ ~chan.secure /\ chan.tls
    /\ \/ GiveUp("lost", "quit")
       \/ /\ chan' = [chan EXCEPT !.secure = TRUE, !.tls = FALSE, !.large = FALSE]
          /\ Proceed("ehlo")
    /\ UNCHANGED <<sent, copies, unsure, bare>>
    /\ Channel

\* One reply of AUTH: 3xx asks for more, 2xx ends it.
Authenticate ==
    /\ pc = "auth"
    /\ \E r \in Replies :
        IF r = (IF chan.auth > 1 THEN "3xx" ELSE "2xx")
        THEN /\ chan' = [chan EXCEPT !.auth = @ - 1]
             /\ Proceed(IF chan.auth > 1 THEN "auth" ELSE "mail")
        ELSE GiveUp(r, "quit")
    /\ UNCHANGED <<sent, copies, unsure, bare>>
    /\ Channel

\* USmtpSendMail: the size is checked against that of EHLO, then MAIL, RCPT
\* and DATA are sent.
TooLarge ==
    /\ pc = "mail" /\ chan.large
    /\ GiveUp("fatal", "quit")
    /\ UNCHANGED <<sent, copies, unsure, bare>>
    /\ Channel

Envelope ==
    /\ pc \in {"mail", "rcpt", "data"}
    /\ pc = "mail" => ~chan.large
    /\ \E r \in Replies :
        IF r = (IF pc = "data" THEN "3xx" ELSE "2xx")
        THEN /\ Proceed(CASE pc = "mail" -> "rcpt" [] pc = "rcpt" -> "data"
                          [] pc = "data" -> "body")
             /\ UNCHANGED chan
        ELSE GiveUp(r, "quit")
    /\ UNCHANGED <<sent, copies, unsure, bare>>
    /\ Channel

\* The message and its final dot.  A server that took the message may have
\* its reply lost.
SendBody ==
    /\ pc = "body"
    /\ bare' = IF chan.secure THEN bare ELSE bare \cup {[route |-> route, host |-> gw.host]}
    /\ \E r \in Replies :
        IF r = "2xx"
        THEN /\ sent' = TRUE /\ copies' = copies + 1
             /\ err' = "temp" /\ pc' = "quit"
             /\ Record("ok")
             /\ chan' = NoChannel
             /\ UNCHANGED unsure
        ELSE /\ GiveUp(r, "quit")
             /\ \/ UNCHANGED <<copies, unsure>>
                \/ r = "lost" /\ copies' = copies + 1 /\ unsure' = unsure + 1
             /\ UNCHANGED sent
    /\ Channel

\* Mutant: its result is that of the delivery.
USmtpCloseChannel_Returned ==
    /\ pc = "quit"
    /\ \E r \in Replies :
        /\ pc' = "verdict"
        /\ err' = IF r = "2xx" THEN err ELSE SetError(r)
        /\ sent' = (sent /\ r = "2xx")
        /\ said' = [said EXCEPT ![Len(said)].quit =
                        IF r \in {"2xx", "lost"} THEN "none" ELSE Severity(r)]
    /\ UNCHANGED <<chan, copies, unsure, bare>>
    /\ Channel

\* USmtpCloseChannel: a bad reply to QUIT replaces the error, whatever the
\* result of the delivery was.
USmtpCloseChannel ==
    /\ pc = "quit"
    /\ \E r \in Replies :
        /\ pc' = "verdict"
        /\ err' = IF r = "2xx" THEN err ELSE SetError(r)
        /\ said' = [said EXCEPT ![Len(said)].quit =
                        IF r \in {"2xx", "lost"} THEN "none" ELSE Severity(r)]
    /\ UNCHANGED <<chan, sent, copies, unsure, bare>>
    /\ Channel

\* USmtpGetMXNext
USmtpGetMXNext ==
    LET i == Cheapest(mxr.cost, mxr.curr)
    IN /\ mxr' = Taken(mxr, i)
       /\ TryServer(DefaultGateway(mxr.recs[i].host), <<>>)

\* Mutant: a fatal error is looked at after the loop.
Verdict_TriesAll ==
    /\ pc = "verdict"
    /\ \/ sent /\ Settle("delivered") /\ UNCHANGED mxr
       \/ ~sent /\ list # <<>> /\ TryServer(Head(list), Tail(list)) /\ UNCHANGED mxr
       \/ ~sent /\ Candidates(mxr.cost, mxr.curr) # {} /\ USmtpGetMXNext
       \/ /\ ~sent /\ list = <<>> /\ Candidates(mxr.cost, mxr.curr) = {}
          /\ (IF err = "fatal" THEN Settle("bounced") ELSE TryLater) /\ UNCHANGED mxr
    /\ UNCHANGED <<world, route, chan, sent, dns, said>>

\* The loop over the servers.
Verdict ==
    /\ pc = "verdict"
    /\ \/ sent /\ Settle("delivered") /\ UNCHANGED mxr
       \/ ~sent /\ err = "fatal" /\ Settle("bounced") /\ UNCHANGED mxr
       \/ ~sent /\ err # "fatal" /\ list # <<>> /\ TryServer(Head(list), Tail(list)) /\ UNCHANGED mxr
       \/ ~sent /\ err # "fatal" /\ Candidates(mxr.cost, mxr.curr) # {} /\ USmtpGetMXNext
       \/ /\ ~sent /\ err # "fatal" /\ list = <<>> /\ Candidates(mxr.cost, mxr.curr) = {}
          /\ TryLater /\ UNCHANGED mxr
    /\ UNCHANGED <<world, route, chan, sent, dns, said>>

\* The server dies with the attempt; the message and the cache remain.
Crash ==
    /\ pc \notin {"queued", "settled"} /\ crashes < MaxCrashes
    /\ crashes' = crashes + 1
    /\ pc' = "queued" /\ route' = "none" /\ list' = <<>> /\ mxr' = NoMX
    /\ gw' = NoGateway /\ chan' = NoChannel /\ err' = "none" /\ sent' = FALSE
    /\ ns' = <<>> /\ dnsErr' = "none" /\ said' = <<>>
    /\ UNCHANGED <<cfg, cache, attempts, outcome, copies, unsure, bare>>

Lookup == CDNS_MxLoad \/ StartQuery \/ QueryFails \/ NsFails \/ NsDenies \/ NsRefers \/ NsAnswers
            \/ NsHasNoMX \/ NsExhausted
Dialogue == ConnectFails \/ Welcome \/ Hello \/ WithoutTLS \/ NoTLS \/ SwitchToSSL
            \/ Authenticate \/ TooLarge \/ Envelope \/ SendBody \/ USmtpCloseChannel
Attempt == Lookup \/ Dialogue \/ Verdict

Next == SMAILRemoteMsgSMTPSend \/ AttemptFails \/ Attempt \/ CacheExpires \/ Crash

\* An attempt goes on: every wait for a server has a timeout.
Spec == Init /\ [][Next]_vars /\ WF_vars(Attempt)
-----------------------------------------------------------------------------
(* Properties.                                                             *)

Hosts(answers) == [i \in 1..Len(answers) |-> answers[i].host]
Retried == pc = "queued" /\ said # <<>>

Routes == {"none", "smtprelay", "relay", "forward", "gateways", "address", "mx", "direct"}
Answer == [host : Host, res : {"ok", "temp", "fatal"}, quit : {"none", "temp", "fatal"}]
Gateway == [host : Host, tls : Options]

TypeOK ==
    /\ cfg \in Configs
    /\ pc \in {"queued", "lookup", "query", "connect", "ehlo", "tls", "auth", "mail", "rcpt",
               "data", "body", "quit", "verdict", "settled"}
    /\ route \in Routes /\ list \in Seq(Gateway) /\ gw \in Gateway
    /\ mxr \in [recs : Seq([cost : Nat, host : Host]), cost : Seq(Int), curr : Int]
    /\ chan \in [tls : BOOLEAN, large : BOOLEAN, secure : BOOLEAN, auth : Nat]
    /\ err \in {"none", "temp", "fatal"} /\ sent \in BOOLEAN
    /\ ns \in Seq(Nat) /\ dnsErr \in {"none", "other", "nxdomain", "notfound"}
    /\ cache \in [state : {"absent", "fresh", "expired"}, mx : Seq([cost : Nat, host : Host])]
    /\ attempts \in 0..MaxAttempts /\ crashes \in 0..MaxCrashes
    /\ outcome \in {"pending", "delivered", "bounced"}
    /\ said \in Seq(Answer) /\ copies \in Nat /\ unsure \in Nat
    /\ bare \subseteq [route : Routes, host : Host]

\* The servers of a list are tried in its order (SMAILSvr.cpp:323, 613); the
\* mail exchangers that fit in the table by their preference, each record
\* once.  The message is left for later only when all of them were tried.  The
\* exchangers are those of the domain, or what the cache has kept of them.
ListRoutes == {"smtprelay", "forward", "gateways"}
ListOf(c) ==
    CASE route = "smtprelay" -> c.relays[1] [] route = "forward" -> c.fwd[1]
      [] route = "gateways" -> c.gws[1]
\* The order puts each record after all those of a lower cost.
ByPreference(recs, order) ==
    /\ \A i, j \in DOMAIN order : order[i] = order[j] => i = j
    /\ \A i \in DOMAIN order, r \in 1..Len(recs) :
            recs[r].cost < recs[order[i]].cost => \E k \in 1..(i - 1) : order[k] = r
TriedByPreference ==
    LET tried == Hosts(said)
    IN /\ route \in ListRoutes =>
            /\ Len(tried) <= Len(ListOf(cfg))
            /\ tried = Hosts(SubSeq(ListOf(cfg), 1, Len(tried)))
            /\ Retried => Len(tried) = Len(ListOf(cfg))
       /\ route = "mx" /\ said # <<>> => Records \in {Fit(cfg.mx), Fit(cache.mx)}
       /\ route = "mx" =>
            \E order \in [1..Len(tried) -> 1..Len(Records)] :
                /\ ByPreference(Records, order)
                /\ \A i \in 1..Len(tried) : tried[i] = Records[order[i]].host
                /\ Retried => \A r \in 1..Len(Records) : \E i \in 1..Len(tried) : order[i] = r

\* The outcome is that of the last server's answer: a server is the last one
\* exactly when it takes the message or refuses it for good.  A server that
\* does not take it has the last word with its reply to QUIT, which makes a
\* refusal of what was none, and the reverse (SMTPUtils.cpp:1408).
Refused(s) ==
    /\ s.res # "ok"
    /\ IF s.quit = "none" THEN s.res = "fatal" ELSE s.quit = "fatal"
OutcomeMatchesAnswers ==
    LET last == said[Len(said)]
    IN /\ \A i \in 1..(Len(said) - 1) : said[i].res # "ok" /\ ~Refused(said[i])
       /\ Retried => last.res # "ok" /\ ~Refused(last)
       /\ outcome = "delivered" =>
            IF said = <<>> THEN ListOf(cfg) = <<>> ELSE last.res = "ok"
       /\ outcome = "bounced" =>
            IF said = <<>> THEN route = "mx" /\ ~(cfg.exists /\ cfg.smart > 0)
            ELSE Refused(last)

\* The recipient gets one copy, and one more for each confirmation that was
\* lost and for each crash before the message is off the queue.  A sender who
\* is told of a failure has had the message delivered only in these cases.
CopiesAreExplained ==
    /\ copies <= 1 + unsure + crashes
    /\ outcome = "bounced" => copies <= unsure + crashes

\* A list of gateways that is empty discharges every message it is in charge of
\* (SMAILSvr.cpp:325, 611, 955): nothing is sent, and it counts as delivered.
Empty(gws) == gws # <<>> /\ gws[1] = <<>>
Discards ==
    \/ Empty(cfg.relays)
    \/ cfg.relays = <<>> /\ cfg.path = <<>> /\ (Empty(cfg.fwd) \/ Empty(cfg.gws))

ALO == INSTANCE AtLeastOnce WITH
        discards <- Discards, taken <- copies, confirmed <- sent, doubts <- unsure + crashes

(***************************************************************************)
(* The attempts to send a message, all together, deliver it at least once: *)
(* a new attempt after one that failed, the next server after the last, a  *)
(* reply to QUIT are nothing at all, whatever error they leave; only a     *)
(* lost confirmation or a crash makes a second copy (SMAILSvr.cpp:540).    *)
(***************************************************************************)
ImplementsAtLeastOnce == ALO!Spec

\* The message is sent over a plain connection only to a server for which the
\* options of the route in use allow it, whatever it answers to EHLO and
\* STARTTLS: never with NeedTLS=2 (SMTPUtils.cpp:1185).
RangeOf(f) == {f[i] : i \in DOMAIN f}
GatewaysOf(r) ==
    CASE r = "smtprelay" -> RangeOf(CfgGateways(cfg.relays[1]))
      [] r = "forward" -> RangeOf(CfgGateways(cfg.fwd[1]))
      [] r = "gateways" -> RangeOf(MailExchangers(cfg.gws[1]))
      [] r = "relay" -> {DefaultGateway(cfg.path[1])}
      [] r = "mx" -> {DefaultGateway(h) : h \in Host}
      [] r \in {"address", "direct"} -> {DefaultGateway(Domain)}
ForcedIsSecure ==
    \A b \in bare : \E g \in GatewaysOf(b.route) : g.host = b.host /\ g.tls # "force"

\* An attempt ends, whatever the servers do: with an outcome, or with the
\* message in the queue.
AttemptEnds == (pc \notin {"queued", "settled"}) ~> (pc \in {"queued", "settled"})

\* SMAILSvr.cpp:525: "Fall back to A record delivery only if the domain has no
\* MX records."
ARecordOnlyWithoutMX == route = "direct" => cfg.mx = <<>>

\* docs/Readme.txt:2096: the options of SmtpGwConfig "can be overridden" by
\* those of a gateway.
SpecificOptionsWin ==
    \A b \in bare : b.route = "gateways" =>
        \A i \in 1..Len(cfg.gws[1]) :
            ~(cfg.gws[1][i].host = b.host /\ cfg.gws[1][i].option = "force")
=============================================================================
