------------------------ MODULE RemoteDelivery_proof ------------------------
(***************************************************************************)
(* Proofs about RemoteDelivery: for any configuration of the server and of *)
(* the world, any number of gateways, mail exchangers, name servers,       *)
(* attempts and crashes.                                                   *)
(***************************************************************************)
EXTENDS RemoteDelivery, FiniteSetTheorems, SequenceTheorems, WellFoundedInduction, TLAPS

\* An entry of a list of gateways.
GatewayEntry == [host : Host, option : Options]

\* Stages of an attempt.
Searching == {"lookup", "query"}
InDialogue == {"connect", "ehlo", "tls", "auth", "mail", "rcpt", "data", "body"}
Closing == {"quit", "verdict"}
Talking == InDialogue \cup Closing

\* A server after which the next one is tried.
NotFinal(s) == s.res # "ok" /\ ~Refused(s)
NoneFinal(n) == \A i \in 1..n : NotFinal(said[i])

\* What the answers say of the stage, the error record and the outcome.
Answers ==
    /\ pc # "settled" <=> outcome = "pending"
    /\ pc \notin Closing \cup {"settled"} => ~sent
    /\ pc \in Searching => route = "mx" /\ said = <<>> /\ err = "none"
    /\ pc = "query" => ns # <<>>
    /\ pc \in InDialogue => err = "none"
    /\ pc \in InDialogue \cup {"queued"} => NoneFinal(Len(said))
    /\ pc \in Closing => said # <<>> /\ (sent <=> said[Len(said)].res = "ok")
    /\ pc \in Closing \cup {"settled"} => NoneFinal(Len(said) - 1)
    /\ pc = "quit" => /\ said[Len(said)].quit = "none"
                      /\ err = "fatal" <=> said[Len(said)].res = "fatal"
    /\ pc = "verdict" /\ ~sent => (err = "fatal" <=> Refused(said[Len(said)]))

\* What the outcome rests on.
Grounds ==
    /\ dnsErr = "nxdomain" => ~cfg.exists
    /\ outcome = "delivered" =>
            IF said = <<>> THEN route \in ListRoutes /\ ListOf(cfg) = <<>>
            ELSE said[Len(said)].res = "ok"
    /\ outcome = "bounced" =>
            /\ ~sent
            /\ IF said = <<>> THEN route = "mx" /\ ~(cfg.exists /\ cfg.smart > 0)
               ELSE Refused(said[Len(said)])

\* Copies are made by servers that took the message.
Copies == copies <= unsure + crashes + (IF sent THEN 1 ELSE 0)

\* The options of the gateway in use are those of the route, and after STARTTLS
\* was gone through a forced connection is secure.
Secure ==
    /\ pc \in Talking => route # "none" /\ gw \in GatewaysOf(route)
    /\ pc \in {"auth", "mail", "rcpt", "data", "body"} => chan.secure \/ gw.tls # "force"
    /\ pc = "auth" => chan.auth > 0

\* The route in use is one that the configuration has.
RouteExists ==
    /\ route = "smtprelay" => cfg.relays # <<>>
    /\ route = "relay" => cfg.path # <<>>
    /\ route = "forward" => cfg.fwd # <<>>
    /\ route = "gateways" => cfg.gws # <<>>

\* The servers that were tried, the one in use included.
Tries == IF pc \in InDialogue THEN Append(Hosts(said), gw.host) ELSE Hosts(said)

GwListOf(r) ==
    CASE r = "smtprelay" -> CfgGateways(cfg.relays[1])
      [] r = "forward" -> CfgGateways(cfg.fwd[1])
      [] r = "gateways" -> MailExchangers(cfg.gws[1])
GwList == GwListOf(route)

\* What is left of a list, and what was tried of it.
ListInOrder ==
    /\ route \in ListRoutes =>
        /\ Len(Tries) <= Len(GwList)
        /\ \A i \in 1..Len(Tries) : Tries[i] = GwList[i].host
        /\ Retried => Len(Tries) = Len(GwList)
        /\ pc \in Talking =>
            /\ Len(list) = Len(GwList) - Len(Tries)
            /\ \A i \in 1..Len(list) : list[i] = GwList[Len(Tries) + i]
    /\ route \notin ListRoutes /\ pc \in Talking => list = <<>>

\* A record that was taken has its cost marked; those that were not are the
\* candidates.
MarksOf(m) ==
    /\ DOMAIN m.cost = 1..Len(m.recs)
    /\ \A r \in 1..Len(m.recs) :
        \/ m.cost[r] = m.recs[r].cost /\ m.recs[r].cost >= m.curr
        \/ m.cost[r] = m.recs[r].cost - 1 /\ m.recs[r].cost <= m.curr
Marked(r) == mxr.cost[r] # Records[r].cost
Marks ==
    /\ pc \in Searching \/ route # "mx" => mxr = NoMX
    /\ mxr = NoMX /\ route = "mx" => said = <<>> /\ pc \notin Talking
    /\ mxr # NoMX => MarksOf(mxr) /\ Records \in {Fit(cfg.mx), Fit(cache.mx)}
    /\ cache.state = "fresh" => cache.mx # <<>>

\* The exchangers that were tried are the marked records, in order.
MXInOrder ==
    /\ route = "mx" =>
        \E order \in [1..Len(Tries) -> 1..Len(Records)] :
            /\ ByPreference(Records, order)
            /\ \A i \in 1..Len(Tries) : Tries[i] = Records[order[i]].host
            /\ mxr # NoMX => \A r \in 1..Len(Records) :
                    Marked(r) <=> \E i \in 1..Len(Tries) : order[i] = r
    /\ route = "mx" /\ Retried => \A r \in 1..Len(Records) : Marked(r)

IInv ==
    /\ TypeOK /\ Answers /\ Grounds /\ Copies
    /\ RouteExists /\ Secure /\ ForcedIsSecure
    /\ ListInOrder /\ Marks /\ MXInOrder

-----------------------------------------------------------------------------
(* Facts about the operators of the model.                                 *)

\* Every nonempty set of natural numbers has a least one.
LEMMA LeastExists ==
    ASSUME NEW ms \in SUBSET Nat, ms # {}
    PROVE  \E m \in ms : \A n \in ms : m <= n
  <1> DEFINE Upto(m) == ms \cap (0..m)
             All == {Upto(m) : m \in ms}
  <1>1. All \subseteq FiniteSubsetsOf(ms) /\ All # {}
    <2>1. ASSUME NEW m \in ms PROVE IsFiniteSet(Upto(m))
      <3>1. m \in Int /\ IsFiniteSet(0..m)
        BY FS_Interval
      <3>2. Upto(m) \in SUBSET (0..m)
        OBVIOUS
      <3> QED
        BY <3>1, <3>2, FS_Subset
    <2> QED
      BY <2>1 DEF FiniteSubsetsOf
  <1>2. PICK x \in All : \A y \in All : <<y, x>> \notin StrictSubsetOrdering(ms)
    BY <1>1, FS_StrictSubsetOrderingWellFounded, WFMin
  <1>3. PICK m \in ms : x = Upto(m)
    BY <1>2
  <1>4. ASSUME NEW n \in ms, n < m PROVE FALSE
    <2>1. Upto(n) \subseteq Upto(m) /\ m \in Upto(m) /\ m \notin Upto(n)
      BY <1>4
    <2>2. <<Upto(n), Upto(m)>> \in StrictSubsetOrdering(ms)
      BY <2>1 DEF StrictSubsetOrdering
    <2> QED
      BY <1>2, <1>3, <2>2
  <1> QED
    BY <1>4

\* The record that USmtpGetMXFirst and USmtpGetMXNext choose is one of the
\* cheapest among the candidates.
LEMMA CheapestIsCandidate ==
    ASSUME NEW cost \in Seq(Int), NEW curr \in Int, Candidates(cost, curr) # {}
    PROVE  /\ Cheapest(cost, curr) \in Candidates(cost, curr)
           /\ \A j \in Candidates(cost, curr) : cost[Cheapest(cost, curr)] <= cost[j]
  <1> DEFINE C == Candidates(cost, curr)
             above == {cost[j] - curr : j \in C}
  <1>1. C \subseteq 1..Len(cost) /\ \A j \in C : cost[j] \in Int /\ cost[j] >= curr
    BY DEF Candidates
  <1>2. above \in SUBSET Nat /\ above # {}
    BY <1>1
  <1>3. PICK least \in above : \A n \in above : least <= n
    BY <1>2, LeastExists
  <1> DEFINE firsts == {j \in C : cost[j] - curr = least}
  <1>4. firsts \in SUBSET Nat /\ firsts # {}
    BY <1>1, <1>3
  <1>5. PICK i \in firsts : \A j \in firsts : i <= j
    BY <1>4, LeastExists
  <1>6. ASSUME NEW j \in C PROVE cost[i] < cost[j] \/ (cost[i] = cost[j] /\ i <= j)
    <2>1. cost[j] - curr \in above /\ cost[i] - curr = least
      BY <1>5
    <2>2. cost[i] <= cost[j]
      <3>1. cost[i] \in Int /\ cost[j] \in Int
        BY <1>1
      <3>2. cost[i] - curr <= cost[j] - curr
        BY <1>3, <2>1
      <3> QED
        BY <3>1, <3>2
    <2>3. cost[j] = cost[i] => j \in firsts
      BY <2>1
    <2> QED
      BY <1>1, <1>5, <2>2, <2>3
  <1>7. \E k \in C : \A j \in C : cost[k] < cost[j] \/ (cost[k] = cost[j] /\ k <= j)
    BY <1>5, <1>6
  <1> HIDE DEF C
  <1>8. Cheapest(cost, curr) =
            CHOOSE k \in C : \A j \in C : cost[k] < cost[j] \/ (cost[k] = cost[j] /\ k <= j)
    BY DEF Cheapest, C
  <1>9. Cheapest(cost, curr) \in C /\ \A j \in C :
            cost[Cheapest(cost, curr)] < cost[j] \/ cost[Cheapest(cost, curr)] = cost[j]
    BY <1>7, <1>8
  <1>10. ASSUME NEW j \in C PROVE cost[Cheapest(cost, curr)] <= cost[j]
    <2> DEFINE a == cost[Cheapest(cost, curr)]
               b == cost[j]
    <2>1. a \in Int /\ b \in Int
      BY <1>1, <1>9
    <2>2. a < b \/ a = b
      BY <1>9
    <2> HIDE DEF a, b
    <2>3. a <= b
      BY <2>1, <2>2
    <2> QED
      BY <2>3 DEF a, b
  <1> QED
    BY <1>9, <1>10 DEF C

\* The parts of a configuration.
LEMMA ConfigParts ==
    ASSUME cfg \in Configs
    PROVE  /\ cfg.relays \in Gateways /\ cfg.fwd \in Gateways /\ cfg.gws \in Gateways
           /\ cfg.path \in Seq(Host) /\ cfg.gwConfig \in Options
           /\ cfg.mx \in Seq([cost : Nat, host : Host])
           /\ cfg.smart \in Nat /\ cfg.roots \in Nat /\ cfg.auth \in Mechanisms
  <1>1. cfg \in
            [relays : Gateways, path : Seq(Host), fwd : Gateways, gws : Gateways,
             gwConfig : Options, literal : BOOLEAN, exists : BOOLEAN,
             mx : Seq([cost : Nat, host : Host]), a : BOOLEAN,
             smart : Nat, roots : Nat, auth : Mechanisms]
    BY ConfigsAssumption
  <1> HIDE DEF Gateways
  <1> QED
    BY <1>1

\* Records, one at least, fit in the table, and what is left of a list in a file
\* is such a list again.
MX == [cost : Nat, host : Host]
LEMMA FitType ==
    ASSUME NEW recs \in Seq(MX)
    PROVE  Fit(recs) \in Seq(MX) /\ (recs # <<>> => Len(Fit(recs)) > 0)
  <1> DEFINE n == Lesser(Len(recs), MaxMX)
  <1>1. n \in 0..Len(recs) /\ (recs # <<>> => n > 0)
    BY BoundsAssumption DEF Lesser
  <1>2. \A i \in 1..n : recs[i] \in MX
    BY <1>1, ElementOfSeq
  <1> HIDE DEF n
  <1>3. SubSeq(recs, 1, n) \in Seq(MX) /\ Len(SubSeq(recs, 1, n)) = n
    BY <1>1, <1>2, SubSeqProperties
  <1> QED
    BY <1>1, <1>3 DEF Fit, n

LEMMA TornType ==
    ASSUME NEW recs \in Seq(MX), NEW torn \in Torn(recs)
    PROVE  torn \in Seq(MX) \ {<<>>}
  <1>1. PICK n \in 1..Len(recs) :
            torn \in {[i \in 1..n |-> IF i = n THEN [recs[n] EXCEPT !.host = h] ELSE recs[i]] :
                        h \in Remnants \cup {recs[n].host}}
    BY DEF Torn
  <1>1a. PICK h \in Remnants \cup {recs[n].host} :
            torn = [i \in 1..n |-> IF i = n THEN [recs[n] EXCEPT !.host = h] ELSE recs[i]]
    BY <1>1
  <1>2. \A i \in 1..Len(recs) : recs[i] \in MX
    BY ElementOfSeq
  <1>3. [recs[n] EXCEPT !.host = h] \in MX
    BY <1>2, ConfigsAssumption DEF MX
  <1>4. torn \in [1..n -> MX] /\ n \in Nat \ {0}
    BY <1>1a, <1>2, <1>3
  <1> QED
    BY <1>4

LEMMA GatewayListsType ==
    ASSUME cfg \in Configs, NEW entries \in Seq(GatewayEntry)
    PROVE  /\ CfgGateways(entries) \in Seq(Gateway) /\ Len(CfgGateways(entries)) = Len(entries)
           /\ \A i \in 1..Len(entries) : CfgGateways(entries)[i].host = entries[i].host
           /\ MailExchangers(entries) \in Seq(Gateway) /\ Len(MailExchangers(entries)) = Len(entries)
           /\ \A i \in 1..Len(entries) : MailExchangers(entries)[i].host = entries[i].host
  <1>1. \A i \in 1..Len(entries) : entries[i] \in GatewayEntry
    OBVIOUS
  <1>2. \A a, b \in Options : Assigned(a, b) \in Options
    BY DEF Assigned
  <1>3. \A i \in 1..Len(entries) :
            /\ CfgGateways(entries)[i] \in Gateway /\ MailExchangers(entries)[i] \in Gateway
    BY <1>1, <1>2, ConfigParts DEF CfgGateways, MailExchangers, Gateway, GatewayEntry
  <1>4. Len(entries) \in Nat
    OBVIOUS
  <1>5. CfgGateways(entries) \in Seq(Gateway) /\ Len(CfgGateways(entries)) = Len(entries)
    BY <1>3, <1>4 DEF CfgGateways
  <1>6. MailExchangers(entries) \in Seq(Gateway) /\ Len(MailExchangers(entries)) = Len(entries)
    BY <1>3, <1>4 DEF MailExchangers
  <1>7. \A i \in 1..Len(entries) : /\ CfgGateways(entries)[i].host = entries[i].host
                                   /\ MailExchangers(entries)[i].host = entries[i].host
    BY <1>4 DEF CfgGateways, MailExchangers
  <1> QED
    BY <1>5, <1>6, <1>7

LEMMA DefaultGatewayType ==
    ASSUME cfg \in Configs, NEW h \in Host
    PROVE  DefaultGateway(h) \in Gateway /\ DefaultGateway(h).host = h
  BY ConfigParts DEF DefaultGateway, Gateway

\* What is a function of the configuration keeps its value.
LEMMA SameRoute ==
    ASSUME cfg' = cfg, route' = route
    PROVE  /\ GwList' = GwList /\ ListOf(cfg)' = ListOf(cfg)
           /\ GatewaysOf(route)' = GatewaysOf(route)
  BY DEF GwList, GwListOf, ListOf, GatewaysOf, CfgGateways, MailExchangers, DefaultGateway

LEMMA SameConfig ==
    ASSUME cfg' = cfg
    PROVE  \A r : GatewaysOf(r)' = GatewaysOf(r)
  BY DEF GatewaysOf, CfgGateways, MailExchangers, DefaultGateway

LEMMA SameRecords ==
    ASSUME mxr'.recs = mxr.recs
    PROVE  /\ Records' = Records
           /\ \A order : ByPreference(Records, order)' <=> ByPreference(Records, order)
  BY DEF Records, ByPreference

\* The list of a route that has one, with its hosts.
Entries(r) ==
    CASE r = "smtprelay" -> cfg.relays[1] [] r = "forward" -> cfg.fwd[1]
      [] r = "gateways" -> cfg.gws[1]
LEMMA GwListType ==
    ASSUME cfg \in Configs, NEW r \in ListRoutes, r = "smtprelay" => cfg.relays # <<>>,
           r = "forward" => cfg.fwd # <<>>, r = "gateways" => cfg.gws # <<>>
    PROVE  /\ GwListOf(r) \in Seq(Gateway) /\ Len(GwListOf(r)) = Len(Entries(r))
           /\ Entries(r) \in Seq(GatewayEntry)
           /\ \A i \in 1..Len(GwListOf(r)) : GwListOf(r)[i].host = Entries(r)[i].host
           /\ \A i \in 1..Len(GwListOf(r)) : GwListOf(r)[i] \in GatewaysOf(r)
  <1>1. Entries(r) \in Seq(GatewayEntry)
    BY ConfigParts DEF Entries, ListRoutes, Gateways, GatewayEntry
  <1>2. GwListOf(r) = CfgGateways(Entries(r)) \/ GwListOf(r) = MailExchangers(Entries(r))
    BY DEF GwListOf, Entries, ListRoutes
  <1>3. GatewaysOf(r) = RangeOf(GwListOf(r))
    BY DEF GatewaysOf, GwListOf, ListRoutes
  <1>4. GwListOf(r) \in Seq(Gateway) /\ Len(GwListOf(r)) = Len(Entries(r))
    BY <1>1, <1>2, GatewayListsType
  <1>5. \A i \in 1..Len(Entries(r)) : GwListOf(r)[i].host = Entries(r)[i].host
    BY <1>1, <1>2, GatewayListsType
  <1>6. \A i \in 1..Len(GwListOf(r)) : GwListOf(r)[i] \in GatewaysOf(r)
    BY <1>3, <1>4 DEF RangeOf
  <1> QED
    BY <1>1, <1>4, <1>5, <1>6

-----------------------------------------------------------------------------
(* Types.                                                                  *)

\* The types of the sequences, kept folded where they are not needed.
Chan == [tls : BOOLEAN, large : BOOLEAN, secure : BOOLEAN, auth : Nat]
MXRecords == [recs : Seq(MX), cost : Seq(Int), curr : Int]
CacheFile == [state : {"absent", "fresh", "expired"}, mx : Seq(MX)]

LEMMA ConstantTypes ==
    /\ NoMX \in MXRecords /\ NoGateway \in Gateway /\ NoChannel \in Chan /\ NoCache \in CacheFile
    /\ <<>> \in Seq(Gateway) /\ <<>> \in Seq(Answer) /\ <<>> \in Seq(Nat)
  BY ConfigsAssumption DEF NoMX, NoGateway, NoChannel, NoCache, MXRecords, Gateway, Chan,
        CacheFile, Options

\* The choice of a gateway with the rest of its list.
LEMMA TryServerType ==
    ASSUME TypeOK, NEW g \in Gateway, NEW rest \in Seq(Gateway), TryServer(g, rest)
    PROVE  /\ pc' = "connect" /\ gw' \in Gateway /\ list' \in Seq(Gateway) /\ err' = "none"
           /\ outcome' = outcome
  BY DEF TryServer

LEMMA TryListType ==
    ASSUME TypeOK, NEW gws \in Seq(Gateway), TryList(gws)
    PROVE  /\ pc' \in {"connect", "settled"} /\ gw' \in Gateway /\ list' \in Seq(Gateway)
           /\ err' \in {"none", "temp", "fatal"} /\ outcome' \in {"pending", "delivered", "bounced"}
  <1>1. CASE gws = <<>>
    BY <1>1 DEF TryList, Settle, TypeOK
  <1>2. CASE gws # <<>>
    <2>1. Head(gws) \in Gateway /\ Tail(gws) \in Seq(Gateway)
      BY <1>2, HeadTailProperties
    <2> QED
      BY <1>2, <2>1 DEF TryList, TryServer, TypeOK
  <1> QED
    BY <1>1, <1>2

\* The lists of gateways of a configuration that has them.
LEMMA FirstOfGateways ==
    ASSUME NEW gs \in Gateways, gs # <<>>
    PROVE  gs[1] \in Seq(GatewayEntry)
  BY DEF Gateways, GatewayEntry

\* What an attempt starts with.
Fresh == said' = <<>> /\ sent' = FALSE /\ mxr' = NoMX /\ chan' = NoChannel
\* What the start of an attempt sets by the route.
RouteTypes ==
    /\ pc' \in {"connect", "settled", "lookup", "queued"} /\ route' \in Routes
    /\ list' \in Seq(Gateway) /\ gw' \in Gateway
    /\ err' \in {"none", "temp", "fatal"} /\ outcome' \in {"pending", "delivered", "bounced"}

LEMMA BeginType ==
    ASSUME TypeOK, SMAILRemoteMsgSMTPSend \/ AttemptFails
    PROVE  TypeOK'
  <1>1. RouteTypes
    <2>1. cfg \in Configs
      BY DEF TypeOK
    <2>2. ASSUME AttemptFails PROVE RouteTypes
      BY <2>2 DEF AttemptFails, TryLater, RouteTypes, TypeOK, Routes
    <2>3. ASSUME NEW fwd \in USmtpGetFwdGateways, NEW gws \in {cfg.gws, <<>>},
                 cfg.relays # <<>>, route' = "smtprelay", TryList(CfgGateways(cfg.relays[1]))
          PROVE  RouteTypes
      <3>1. CfgGateways(cfg.relays[1]) \in Seq(Gateway)
        BY <2>1, <2>3, ConfigParts, FirstOfGateways, GatewayListsType
      <3> QED
        BY <2>3, <3>1, TryListType DEF RouteTypes, Routes
    <2>4. ASSUME cfg.path # <<>>, route' = "relay", TryServer(DefaultGateway(cfg.path[1]), <<>>)
          PROVE  RouteTypes
      <3>1. DefaultGateway(cfg.path[1]) \in Gateway
        BY <2>1, <2>4, ConfigParts, DefaultGatewayType
      <3> QED
        BY <2>4, <3>1, TryServerType, ConstantTypes DEF RouteTypes, Routes, TypeOK
    <2>5. ASSUME NEW fwd \in USmtpGetFwdGateways, fwd # <<>>, route' = "forward",
                 TryList(CfgGateways(fwd[1]))
          PROVE  RouteTypes
      <3>1. CfgGateways(fwd[1]) \in Seq(Gateway)
        BY <2>1, <2>5, ConfigParts, FirstOfGateways, GatewayListsType DEF USmtpGetFwdGateways
      <3> QED
        BY <2>5, <3>1, TryListType DEF RouteTypes, Routes
    <2>6. ASSUME NEW gws \in {cfg.gws, <<>>}, gws # <<>>, route' = "gateways",
                 TryList(MailExchangers(gws[1]))
          PROVE  RouteTypes
      <3>1. MailExchangers(gws[1]) \in Seq(Gateway)
        BY <2>1, <2>6, ConfigParts, FirstOfGateways, GatewayListsType
      <3> QED
        BY <2>6, <3>1, TryListType DEF RouteTypes, Routes
    <2>7. ASSUME route' = "address", TryServer(DefaultGateway(Domain), <<>>)
          PROVE  RouteTypes
      <3>1. DefaultGateway(Domain) \in Gateway
        BY <2>1, ConfigsAssumption, DefaultGatewayType
      <3> QED
        BY <2>7, <3>1, TryServerType, ConstantTypes DEF RouteTypes, Routes, TypeOK
    <2>8. ASSUME route' = "mx", pc' = "lookup", list' = <<>>, err' = "none",
                 UNCHANGED <<outcome, gw>>
          PROVE  RouteTypes
      BY <2>8, ConstantTypes DEF RouteTypes, Routes, TypeOK
    <2> QED
      BY <2>2, <2>3, <2>4, <2>5, <2>6, <2>7, <2>8 DEF SMAILRemoteMsgSMTPSend
  <1>2. Fresh /\ attempts' \in 0..MaxAttempts /\ UNCHANGED <<cfg, dns, crashes, copies, unsure, bare>>
    BY BoundsAssumption DEF SMAILRemoteMsgSMTPSend, AttemptFails, Fresh, TypeOK
  <1> QED
    BY <1>1, <1>2, ConstantTypes DEF TypeOK, RouteTypes, Fresh, dns, Chan, MXRecords, MX

\* The exchanger that USmtpGetMXFirst takes.
Costs(recs) == [r \in 1..Len(recs) |-> recs[r].cost]
Table(recs) == [recs |-> recs, cost |-> Costs(recs), curr |-> -1]
LEMMA TableType ==
    ASSUME NEW recs \in Seq(MX)
    PROVE  /\ Len(recs) \in Nat /\ \A r \in 1..Len(recs) : recs[r].cost \in Nat /\ recs[r].host \in Host
           /\ Costs(recs) \in Seq(Int) /\ Len(Costs(recs)) = Len(recs)
           /\ DOMAIN Costs(recs) = 1..Len(recs)
           /\ \A r \in 1..Len(recs) : Costs(recs)[r] = recs[r].cost
           /\ Candidates(Costs(recs), -1) = 1..Len(recs)
  <1>1. Len(recs) \in Nat
    BY LenProperties
  <1>2. \A r \in 1..Len(recs) : recs[r].cost \in Nat /\ recs[r].host \in Host
    <2>1. \A r \in 1..Len(recs) : recs[r] \in MX
      BY ElementOfSeq
    <2> QED
      BY <2>1 DEF MX
  <1>3. /\ Costs(recs) \in Seq(Int) /\ Len(Costs(recs)) = Len(recs)
        /\ DOMAIN Costs(recs) = 1..Len(recs)
        /\ \A r \in 1..Len(recs) : Costs(recs)[r] = recs[r].cost
    BY <1>1, <1>2 DEF Costs
  <1>4. Candidates(Costs(recs), -1) = 1..Len(recs)
    BY <1>1, <1>2, <1>3 DEF Candidates
  <1> QED
    BY <1>1, <1>2, <1>3, <1>4

LEMMA FirstExchanger ==
    ASSUME NEW recs \in Seq(MX), recs # <<>>, USmtpGetMXFirst(recs)
    PROVE  \E i \in 1..Len(Fit(recs)) :
            /\ mxr' = Taken(Table(Fit(recs)), i)
            /\ TryServer(DefaultGateway(Fit(recs)[i].host), <<>>)
            /\ \A j \in 1..Len(Fit(recs)) : Fit(recs)[i].cost <= Fit(recs)[j].cost
  <1> DEFINE known == Fit(recs)
             i == Cheapest(Costs(known), -1)
  <1>1. known \in Seq(MX) /\ Len(known) > 0
    BY FitType
  <1>2. mxr' = Taken(Table(known), i) /\ TryServer(DefaultGateway(known[i].host), <<>>)
    BY DEF USmtpGetMXFirst, Table, Costs
  <1> HIDE DEF known
  <1>3. /\ Costs(known) \in Seq(Int) /\ Candidates(Costs(known), -1) = 1..Len(known)
        /\ Len(known) \in Nat /\ -1 \in Int
        /\ \A r \in 1..Len(known) : Costs(known)[r] = known[r].cost
    BY <1>1, TableType
  <1>4. Candidates(Costs(known), -1) # {}
    BY <1>1, <1>3
  <1>5. i \in Candidates(Costs(known), -1)
        /\ \A j \in Candidates(Costs(known), -1) : Costs(known)[i] <= Costs(known)[j]
    BY <1>3, <1>4, CheapestIsCandidate
  <1> HIDE DEF i
  <1>6. i \in 1..Len(known) /\ \A j \in 1..Len(known) : known[i].cost <= known[j].cost
    BY <1>3, <1>5
  <1> QED
    BY <1>2, <1>6 DEF known

\* The exchanger that USmtpGetMXNext takes.
LEMMA NextExchanger ==
    ASSUME TypeOK, Marks, Candidates(mxr.cost, mxr.curr) # {}, USmtpGetMXNext
    PROVE  \E i \in Candidates(mxr.cost, mxr.curr) :
            /\ mxr # NoMX /\ i \in 1..Len(Records)
            /\ mxr' = Taken(mxr, i)
            /\ TryServer(DefaultGateway(Records[i].host), <<>>)
            /\ \A j \in Candidates(mxr.cost, mxr.curr) : mxr.cost[i] <= mxr.cost[j]
  <1> DEFINE i == Cheapest(mxr.cost, mxr.curr)
  <1>1. mxr.cost \in Seq(Int) /\ mxr.curr \in Int /\ cfg \in Configs
    BY DEF TypeOK
  <1>2. i \in Candidates(mxr.cost, mxr.curr)
        /\ \A j \in Candidates(mxr.cost, mxr.curr) : mxr.cost[i] <= mxr.cost[j]
    BY <1>1, CheapestIsCandidate
  <1>3. mxr # NoMX
    BY <1>2 DEF NoMX, Candidates
  <1>4. DOMAIN mxr.cost = 1..Len(Records)
    BY <1>3 DEF Marks, MarksOf, Records
  <1>5. i \in 1..Len(Records)
    BY <1>1, <1>2, <1>4 DEF Candidates
  <1>7. mxr' = Taken(mxr, i) /\ TryServer(DefaultGateway(Records[i].host), <<>>)
    BY DEF USmtpGetMXNext, Records
  <1> HIDE DEF i
  <1> QED
    BY <1>2, <1>3, <1>5, <1>7

\* A record that is taken leaves a table of costs.
LEMMA TakenType ==
    ASSUME NEW m \in MXRecords, NEW i \in 1..Len(m.cost)
    PROVE  Taken(m, i) \in MXRecords
  <1>1. m.cost \in Seq(Int) /\ m.cost[i] \in Int
    BY DEF MXRecords
  <1>2. [m.cost EXCEPT ![i] = m.cost[i] - 1] \in Seq(Int)
    BY <1>1, ExceptSeq
  <1> QED
    BY <1>1, <1>2 DEF Taken, MXRecords

\* The host of a record has the options of any server.
LEMMA RecordGateway ==
    ASSUME cfg \in Configs, NEW recs \in Seq(MX), NEW i \in 1..Len(recs)
    PROVE  /\ recs[i].host \in Host /\ recs[i].cost \in Nat
           /\ DefaultGateway(recs[i].host) \in Gateway
           /\ DefaultGateway(recs[i].host) \in GatewaysOf("mx")
  <1>1. recs[i] \in MX
    BY ElementOfSeq
  <1>2. recs[i].host \in Host /\ recs[i].cost \in Nat
    BY <1>1 DEF MX
  <1>3. GatewaysOf("mx") = {DefaultGateway(h) : h \in Host}
    BY DEF GatewaysOf
  <1> QED
    BY <1>2, <1>3, DefaultGatewayType

-----------------------------------------------------------------------------
(* The kinds of a step of the search.                                      *)

\* The search goes on.
Asks ==
    /\ pc \in Searching /\ pc' = "query"
    /\ ns' \in Seq(Nat) \ {<<>>}
    /\ dnsErr' \in {"none", "other", "nxdomain", "notfound"}
    /\ dnsErr' = "nxdomain" => ~cfg.exists
    /\ UNCHANGED <<world, route, servers, gw, chan, err, sent, cache, outcome, said>>

\* It finds the exchangers of the domain, or has failed.
\* A cache file that is read has records.
CacheKept == cache' \in CacheFile /\ (cache'.state = "fresh" => cache'.mx # <<>>)
Finds ==
    /\ pc \in Searching
    /\ \E recs \in Seq(MX) \ {<<>>} : recs \in {cfg.mx, cache'.mx} /\ USmtpGetMXFirst(recs)
    /\ ns' \in Seq(Nat) /\ dnsErr' \in {dnsErr, "none"}
    /\ CacheKept
    /\ UNCHANGED <<world, route, chan, sent, said>>
Fails ==
    /\ pc \in Searching
    /\ \E e \in {"none", "other", "nxdomain", "notfound", "maxdepth"} :
        /\ DNS_FatalError(e) => ~(cfg.exists /\ cfg.smart > 0)
        /\ LookupFailed(e)
    /\ CacheKept
    /\ UNCHANGED <<world, chan, sent, said>>

LEMMA LookupKinds ==
    ASSUME IInv, Lookup
    PROVE  Asks \/ Finds \/ Fails
  <1>1. /\ cfg \in Configs /\ cfg.smart \in Nat /\ cfg.roots \in Nat
        /\ ns \in Seq(Nat) /\ dnsErr \in {"none", "other", "nxdomain", "notfound"}
        /\ cache \in CacheFile
        /\ cache.state = "fresh" => cache.mx # <<>>
        /\ dnsErr = "nxdomain" => ~cfg.exists
        /\ pc = "query" => ns # <<>>
    BY ConfigParts DEF IInv, TypeOK, Marks, Grounds, Answers, CacheFile, MX
  <1>0. cache' = cache => CacheKept
    BY <1>1 DEF CacheKept
  <1>2. Querying => NextServer \in Seq(Nat) \ {<<>>}
    <2> SUFFICES ASSUME Querying PROVE NextServer \in Seq(Nat) \ {<<>>}
      OBVIOUS
    <2>1. Len(ns) \in 1..Len(ns) /\ ns[Len(ns)] \in Nat /\ ns[Len(ns)] > 0
      BY <1>1 DEF Querying
    <2>2. [ns EXCEPT ![Len(ns)] = ns[Len(ns)] - 1] \in Seq(Nat)
      BY <1>1, <2>1, ExceptSeq
    <2>3. DOMAIN NextServer = 1..Len(ns) /\ 1 \in 1..Len(ns)
      BY <1>1, <2>1 DEF NextServer
    <2> QED
      BY <2>2, <2>3 DEF NextServer
  <1>3. CASE CDNS_MxLoad
    <2>1. cache.mx \in Seq(MX) \ {<<>>} /\ cache' = cache
      BY <1>1, <1>3 DEF CDNS_MxLoad, CacheFile, dns
    <2> QED
      BY <1>0, <1>1, <1>3, <2>1 DEF CDNS_MxLoad, Finds, Searching, dns
  <1>4. CASE StartQuery
    <2>1. Roots \in Nat
      BY <1>1 DEF Roots
    <2> QED
      BY <1>1, <1>4, <2>1 DEF StartQuery, Asks, Searching
  <1>5. CASE NsFails
    BY <1>1, <1>2, <1>5 DEF NsFails, AskNext, Asks, Searching, Querying
  <1>6. CASE NsDenies
    <2>1. CASE cfg.smart > 0
      BY <1>1, <1>2, <1>6, <2>1 DEF NsDenies, AskNext, Asks, Searching, Querying
    <2>2. CASE ~(cfg.smart > 0)
      BY <1>0, <1>1, <1>6, <2>2 DEF NsDenies, Fails, Searching, Querying
    <2> QED
      BY <2>1, <2>2
  <1>7. CASE NsRefers
    <2>1. PICK n \in 1..MaxReferrals :
            IF Len(ns) > MaxDepth
            THEN LookupFailed("maxdepth")
            ELSE /\ ns' = Append(NextServer, n)
                 /\ UNCHANGED <<pc, route, servers, gw, err, outcome, dnsErr>>
      BY <1>7 DEF NsRefers
    <2>2. CASE Len(ns) > MaxDepth
      BY <1>0, <1>1, <1>7, <2>1, <2>2 DEF NsRefers, Fails, Searching, Querying
    <2>3. CASE ~(Len(ns) > MaxDepth)
      <3>1. Append(NextServer, n) \in Seq(Nat) \ {<<>>}
        BY <1>2, <1>7, AppendProperties, BoundsAssumption DEF NsRefers
      <3> QED
        BY <1>1, <1>7, <2>1, <2>3, <3>1 DEF NsRefers, Asks, Searching, Querying
    <2> QED
      BY <2>2, <2>3
  <1>8. CASE NsAnswers
    <2>1. cfg.mx \in Seq(MX) \ {<<>>} /\ pc = "query"
      BY <1>1, <1>8, ConfigParts DEF NsAnswers, MX, Querying
    <2>2. CacheKept
      <3>1. cache' \in CDNS_MxSave
        BY <1>8 DEF NsAnswers
      <3>2. CASE cache' = NoCache
        BY <3>2, ConstantTypes DEF CacheKept, NoCache
      <3>3. ASSUME NEW recs \in Torn(cfg.mx), cache' = [state |-> "fresh", mx |-> recs]
            PROVE  CacheKept
        <4>1. recs \in Seq(MX) \ {<<>>}
          BY <2>1, TornType
        <4> QED
          BY <3>3, <4>1 DEF CacheKept, CacheFile
      <3> QED
        BY <1>0, <3>1, <3>2, <3>3 DEF CDNS_MxSave
    <2>3. CASE ns' = <<>> /\ dnsErr' = "none" /\ USmtpGetMXFirst(cfg.mx) /\ UNCHANGED route
      BY <1>8, <2>1, <2>2, <2>3, ConstantTypes DEF NsAnswers, Finds, Searching
    <2>4. CASE LookupFailed("other")
      BY <1>8, <2>1, <2>2, <2>4 DEF NsAnswers, Fails, Searching, DNS_FatalError
    <2> QED
      BY <1>8, <2>3, <2>4 DEF NsAnswers
  <1>9. CASE NsHasNoMX
    <2>1. CASE cfg.smart > 0
      BY <1>1, <1>2, <1>9, <2>1 DEF NsHasNoMX, AskNext, Asks, Searching, Querying
    <2>2. CASE ~(cfg.smart > 0)
      BY <1>0, <1>1, <1>9, <2>2 DEF NsHasNoMX, Fails, Searching, Querying, DNS_FatalError
    <2> QED
      BY <2>1, <2>2
  <1>10. CASE NsExhausted
    BY <1>0, <1>1, <1>10 DEF NsExhausted, Fails, Searching, DNS_FatalError
  <1>11. CASE QueryFails
    BY <1>0, <1>11 DEF QueryFails, Fails, Searching, DNS_FatalError
  <1> QED
    BY <1>11, <1>3, <1>4, <1>5, <1>6, <1>7, <1>8, <1>9, <1>10 DEF Lookup

-----------------------------------------------------------------------------
(* The kinds of a step of the dialogue.                                    *)

\* The dialogue goes on; never without TLS where it is forced.
Goes ==
    /\ pc \in InDialogue /\ pc' \in InDialogue
    /\ chan' \in Chan
    /\ pc' \in {"auth", "mail", "rcpt", "data", "body"} => chan'.secure \/ gw.tls # "force"
    /\ pc' = "auth" => chan'.auth > 0
    /\ UNCHANGED <<err, said, sent, copies, unsure, bare>>
    /\ Channel

\* The server gives its answer.
Gives ==
    /\ pc \in InDialogue /\ pc' \in Closing
    /\ chan' \in Chan /\ err' \in {"none", "temp", "fatal"}
    /\ \E res \in {"ok", "temp", "fatal"} :
        /\ Record(res)
        /\ sent' = (res = "ok")
        /\ err' = "fatal" <=> res = "fatal"
    /\ \/ ~sent' /\ UNCHANGED <<copies, unsure>>
       \/ sent' /\ copies' = copies + 1 /\ UNCHANGED unsure
       \/ ~sent' /\ copies' = copies + 1 /\ unsure' = unsure + 1
    /\ \/ bare' = bare
       \/ /\ pc = "body" /\ ~chan.secure
          /\ bare' = bare \cup {[route |-> route, host |-> gw.host]}
    /\ Channel

\* GiveUp is such an answer.
LEMMA GiveUpGives ==
    ASSUME IInv, pc \in InDialogue, NEW r \in Replies \cup {"fatal"}, NEW next \in Closing,
           GiveUp(r, next), UNCHANGED <<sent, copies, unsure, bare>>, Channel
    PROVE  Gives
  <1>1. ~sent /\ sent \in BOOLEAN /\ err = "none"
    BY DEF IInv, TypeOK, Answers, InDialogue, Closing
  <1>2. SetError(r) \in {"none", "temp", "fatal"} /\ Severity(r) \in {"temp", "fatal"}
        /\ (SetError(r) = "fatal" <=> Severity(r) = "fatal")
    BY <1>1 DEF SetError, Severity
  <1>3. sent' = FALSE
    BY <1>1
  <1>4. pc' = next /\ chan' \in Chan /\ err' = SetError(r) /\ Record(Severity(r))
    BY ConstantTypes DEF GiveUp
  <1> QED
    BY <1>2, <1>3, <1>4 DEF Gives

\* Where authentication is begun, the channel is as secure as the gateway
\* wants it.
LEMMA StartAuthKinds ==
    ASSUME IInv, pc = "tls", StartAuth, chan.secure \/ gw.tls # "force",
           UNCHANGED <<sent, copies, unsure, bare>>, Channel
    PROVE  Goes \/ Gives
  <1>1. chan \in Chan /\ cfg.auth \in Mechanisms
    BY ConfigParts DEF IInv, TypeOK, Chan
  <1>2. CASE cfg.auth = "broken"
    <2>1. GiveUp("lost", "quit")
      BY <1>2 DEF StartAuth
    <2> QED
      BY <2>1, GiveUpGives DEF InDialogue, Replies, Closing
  <1>3. CASE cfg.auth # "broken"
    <2>1. AuthReplies(cfg.auth) \in Nat /\ (cfg.auth # "none" => AuthReplies(cfg.auth) > 0)
      BY <1>1, <1>3 DEF AuthReplies, Mechanisms
    <2>2. chan' = [chan EXCEPT !.auth = AuthReplies(cfg.auth)]
          /\ Proceed(IF cfg.auth = "none" THEN "mail" ELSE "auth")
      BY <1>3 DEF StartAuth
    <2>3. chan' \in Chan /\ chan'.secure = chan.secure /\ chan'.auth = AuthReplies(cfg.auth)
      BY <1>1, <2>1, <2>2 DEF Chan
    <2> QED
      BY <2>1, <2>2, <2>3 DEF Goes, Proceed, InDialogue
  <1> QED
    BY <1>2, <1>3

LEMMA DialogueKinds ==
    ASSUME IInv, Dialogue
    PROVE  Goes \/ Gives \/ USmtpCloseChannel
  <1>1. /\ chan \in Chan /\ gw \in Gateway
        /\ pc \in InDialogue => ~sent /\ sent = FALSE /\ err = "none"
        /\ pc \in {"auth", "mail", "rcpt", "data", "body"} => chan.secure \/ gw.tls # "force"
        /\ pc = "auth" => chan.auth > 0
    BY DEF IInv, TypeOK, Answers, Secure, Chan, InDialogue, Closing
  <1>2. CASE ConnectFails
    <2>1. pc = "connect" /\ pc' = "verdict" /\ UNCHANGED <<chan, sent, copies, unsure, bare>> /\ Channel
      BY <1>2 DEF ConnectFails
    <2>2. PICK address \in SysGetHostByName :
            IF address = "unknown" /\ route = "direct"
            THEN err' = "fatal" /\ Record("fatal")
            ELSE err' = err /\ Record("temp")
      BY <1>2 DEF ConnectFails
    <2>3. \E res \in {"temp", "fatal"} : Record(res) /\ err' \in {"none", "fatal"}
                                        /\ (err' = "fatal" <=> res = "fatal")
      BY <1>1, <2>1, <2>2 DEF InDialogue
    <2> QED
      BY <1>1, <2>1, <2>3 DEF Gives, InDialogue, Closing
  <1>3. CASE Welcome
    <2>1. pc = "connect" /\ UNCHANGED <<sent, copies, unsure, bare>> /\ Channel
      BY <1>3 DEF Welcome
    <2>2. PICK r \in Replies : \/ r = "2xx" /\ Proceed("ehlo") /\ chan' = NoChannel
                               \/ r # "2xx" /\ GiveUp(r, "verdict")
      BY <1>3 DEF Welcome
    <2>3. CASE r = "2xx"
      BY <2>1, <2>2, <2>3, ConstantTypes DEF Goes, Proceed, InDialogue
    <2>4. CASE r # "2xx"
      BY <2>1, <2>2, <2>4, GiveUpGives DEF InDialogue, Closing
    <2> QED
      BY <2>3, <2>4
  <1>4. CASE Hello
    <2>1. pc = "ehlo" /\ UNCHANGED <<sent, copies, unsure, bare>> /\ Channel
      BY <1>4, ZenonT(30) DEF Hello
    <2>2. ASSUME NEW t \in BOOLEAN, NEW large \in BOOLEAN,
                 chan' = [chan EXCEPT !.tls = t, !.large = large], Proceed("tls")
          PROVE  Goes
      BY <1>1, <2>1, <2>2 DEF Goes, Proceed, InDialogue, Chan
    <2>3. ASSUME UNCHANGED chan, Proceed("tls") PROVE Goes
      BY <1>1, <2>1, <2>3 DEF Goes, Proceed, InDialogue
    <2>4. ASSUME NEW r \in Replies \ {"2xx"}, GiveUp(r, "verdict") PROVE Gives
      BY <2>1, <2>4, GiveUpGives DEF InDialogue, Closing
    <2> QED
      BY <1>4, <2>2, <2>3, <2>4, ZenonT(30) DEF Hello
  <1>5. CASE WithoutTLS
    <2>1. chan.secure \/ gw.tls # "force"
      BY <1>1, <1>5 DEF WithoutTLS, UseTLS
    <2> QED
      BY <1>5, <2>1, StartAuthKinds DEF WithoutTLS
  <1>6. CASE NoTLS
    <2>1. pc = "tls" /\ UNCHANGED <<sent, copies, unsure, bare>> /\ Channel
      BY <1>6 DEF NoTLS
    <2>2. \/ \E r \in Replies \cup {"fatal"} : GiveUp(r, "quit")
          \/ StartAuth /\ gw.tls # "force"
      BY <1>6 DEF NoTLS, Replies
    <2>3. CASE \E r \in Replies \cup {"fatal"} : GiveUp(r, "quit")
      BY <2>1, <2>3, GiveUpGives DEF InDialogue, Closing
    <2>4. CASE StartAuth /\ gw.tls # "force"
      BY <2>1, <2>4, StartAuthKinds
    <2> QED
      BY <2>2, <2>3, <2>4
  <1>7. CASE SwitchToSSL
    <2>1. pc = "tls" /\ UNCHANGED <<sent, copies, unsure, bare>> /\ Channel
      BY <1>7 DEF SwitchToSSL
    <2>2. CASE GiveUp("lost", "quit")
      BY <2>1, <2>2, GiveUpGives DEF InDialogue, Closing, Replies
    <2>3. CASE /\ chan' = [chan EXCEPT !.secure = TRUE, !.tls = FALSE, !.large = FALSE]
               /\ Proceed("ehlo")
      BY <1>1, <2>1, <2>3 DEF Goes, Proceed, InDialogue, Chan
    <2> QED
      BY <1>7, <2>2, <2>3 DEF SwitchToSSL
  <1>8. CASE Authenticate
    <2>1. pc = "auth" /\ UNCHANGED <<sent, copies, unsure, bare>> /\ Channel
      BY <1>8 DEF Authenticate
    <2>2. PICK r \in Replies :
            IF r = (IF chan.auth > 1 THEN "3xx" ELSE "2xx")
            THEN /\ chan' = [chan EXCEPT !.auth = @ - 1]
                 /\ Proceed(IF chan.auth > 1 THEN "auth" ELSE "mail")
            ELSE GiveUp(r, "quit")
      BY <1>8 DEF Authenticate
    <2>3. CASE r = (IF chan.auth > 1 THEN "3xx" ELSE "2xx")
      <3>1. chan.auth \in Nat /\ chan.auth > 0
        BY <1>1, <2>1 DEF Chan
      <3>2. chan' \in Chan /\ chan'.secure = chan.secure /\ chan'.auth = chan.auth - 1
        BY <1>1, <2>2, <2>3, <3>1 DEF Chan
      <3> QED
        BY <1>1, <2>1, <2>2, <2>3, <3>1, <3>2 DEF Goes, Proceed, InDialogue
    <2>4. CASE r # (IF chan.auth > 1 THEN "3xx" ELSE "2xx")
      BY <2>1, <2>2, <2>4, GiveUpGives DEF InDialogue, Closing
    <2> QED
      BY <2>3, <2>4
  <1>9. CASE TooLarge
    BY <1>9, GiveUpGives DEF TooLarge, InDialogue, Closing
  <1>10. CASE Envelope
    <2>1. pc \in {"mail", "rcpt", "data"} /\ UNCHANGED <<sent, copies, unsure, bare>> /\ Channel
      BY <1>10 DEF Envelope
    <2>2. PICK r \in Replies :
            IF r = (IF pc = "data" THEN "3xx" ELSE "2xx")
            THEN /\ Proceed(CASE pc = "mail" -> "rcpt" [] pc = "rcpt" -> "data"
                              [] pc = "data" -> "body")
                 /\ UNCHANGED chan
            ELSE GiveUp(r, "quit")
      BY <1>10 DEF Envelope
    <2>3. CASE r = (IF pc = "data" THEN "3xx" ELSE "2xx")
      <3>1. pc' \in {"rcpt", "data", "body"} /\ UNCHANGED <<err, said, chan>>
        BY <2>1, <2>2, <2>3 DEF Proceed
      <3> QED
        BY <1>1, <2>1, <3>1 DEF Goes, InDialogue
    <2>4. CASE r # (IF pc = "data" THEN "3xx" ELSE "2xx")
      BY <2>1, <2>2, <2>4, GiveUpGives DEF InDialogue, Closing
    <2> QED
      BY <2>3, <2>4
  <1>11. CASE SendBody
    <2>1. /\ pc = "body" /\ Channel
          /\ \/ bare' = bare
             \/ ~chan.secure /\ bare' = bare \cup {[route |-> route, host |-> gw.host]}
      BY <1>11 DEF SendBody
    <2>2. ASSUME sent' = TRUE, copies' = copies + 1, err' = "temp", pc' = "quit",
                 Record("ok"), chan' = NoChannel, UNCHANGED unsure
          PROVE  Gives
      BY <2>1, <2>2, ConstantTypes DEF Gives, InDialogue, Closing
    <2>3. ASSUME NEW r \in Replies, GiveUp(r, "quit"), UNCHANGED sent,
                 \/ UNCHANGED <<copies, unsure>>
                 \/ copies' = copies + 1 /\ unsure' = unsure + 1
          PROVE  Gives
      <3>1. SetError(r) \in {"none", "temp", "fatal"} /\ Severity(r) \in {"temp", "fatal"}
            /\ (SetError(r) = "fatal" <=> Severity(r) = "fatal")
        BY <1>1, <2>1 DEF SetError, Severity, InDialogue
      <3>2. pc' = "quit" /\ chan' \in Chan /\ err' = SetError(r) /\ Record(Severity(r))
        BY <2>3, ConstantTypes DEF GiveUp
      <3>3. sent' = FALSE
        BY <1>1, <2>1, <2>3 DEF InDialogue
      <3> QED
        BY <2>1, <2>3, <3>1, <3>2, <3>3 DEF Gives, InDialogue, Closing
    <2> QED
      BY <1>11, <2>2, <2>3 DEF SendBody
  <1> QED
    BY <1>2, <1>3, <1>4, <1>5, <1>6, <1>7, <1>8, <1>9, <1>10, <1>11 DEF Dialogue

-----------------------------------------------------------------------------
(* The servers tried.                                                      *)

LEMMA HostsProperties ==
    ASSUME NEW s \in Seq(Answer)
    PROVE  /\ Hosts(s) \in Seq(Host) /\ Len(Hosts(s)) = Len(s)
           /\ \A i \in 1..Len(s) : Hosts(s)[i] = s[i].host
           /\ \A a \in Answer : Hosts(Append(s, a)) = Append(Hosts(s), a.host)
  <1>1. Len(s) \in Nat /\ \A i \in 1..Len(s) : s[i] \in Answer /\ s[i].host \in Host
    <2>1. ASSUME NEW i \in 1..Len(s) PROVE s[i] \in Answer
      BY ElementOfSeq
    <2> QED
      BY <2>1, LenProperties DEF Answer
  <1>2. Hosts(s) \in Seq(Host) /\ Len(Hosts(s)) = Len(s)
    BY <1>1 DEF Hosts
  <1>3. \A i \in 1..Len(s) : Hosts(s)[i] = s[i].host
    BY DEF Hosts
  <1>4. ASSUME NEW a \in Answer PROVE Hosts(Append(s, a)) = Append(Hosts(s), a.host)
    <2>1. a.host \in Host
      BY DEF Answer
    <2>2. Append(s, a) \in Seq(Answer) /\ Len(Append(s, a)) = Len(s) + 1
          /\ \A i \in 1..Len(s) : Append(s, a)[i] = s[i]
          /\ Append(s, a)[Len(s) + 1] = a
      BY AppendProperties
    <2>3. Append(Hosts(s), a.host) \in Seq(Host) /\ Len(Append(Hosts(s), a.host)) = Len(s) + 1
          /\ \A i \in 1..Len(s) : Append(Hosts(s), a.host)[i] = Hosts(s)[i]
          /\ Append(Hosts(s), a.host)[Len(s) + 1] = a.host
      BY <1>2, <2>1, AppendProperties
    <2>4. /\ \A i \in 1..(Len(s) + 1) : Append(s, a)[i].host = Append(Hosts(s), a.host)[i]
          /\ \A i \in 1..(Len(s) + 1) : Append(Hosts(s), a.host)[i] \in Host
      BY <1>1, <1>3, <2>1, <2>2, <2>3
    <2>5. Hosts(Append(s, a)) \in Seq(Host) /\ Len(Hosts(Append(s, a))) = Len(s) + 1
          /\ \A i \in 1..(Len(s) + 1) : Hosts(Append(s, a))[i] = Append(s, a)[i].host
      BY <1>1, <2>2, <2>4 DEF Hosts
    <2> QED
      BY <2>3, <2>4, <2>5, SeqEqual
  <1> QED
    BY <1>2, <1>3, <1>4

LEMMA TriesProperties ==
    ASSUME TypeOK
    PROVE  /\ Tries \in Seq(Host)
           /\ pc \notin InDialogue => Tries = Hosts(said) /\ Len(Tries) = Len(said)
           /\ pc \in InDialogue => /\ Len(Tries) = Len(said) + 1
                                   /\ \A i \in 1..Len(said) : Tries[i] = said[i].host
                                   /\ Tries[Len(said) + 1] = gw.host
  <1>1. said \in Seq(Answer) /\ gw.host \in Host
    BY DEF TypeOK, Gateway
  <1>2. Hosts(said) \in Seq(Host) /\ Len(Hosts(said)) = Len(said)
        /\ \A i \in 1..Len(said) : Hosts(said)[i] = said[i].host
    BY <1>1, HostsProperties
  <1>3. /\ Append(Hosts(said), gw.host) \in Seq(Host)
        /\ Len(Append(Hosts(said), gw.host)) = Len(said) + 1
        /\ \A i \in 1..Len(said) : Append(Hosts(said), gw.host)[i] = Hosts(said)[i]
        /\ Append(Hosts(said), gw.host)[Len(said) + 1] = gw.host
    BY <1>1, <1>2, AppendProperties
  <1> QED
    BY <1>2, <1>3 DEF Tries

\* An answer, and its part in QUIT, leave the servers tried as they are.
LEMMA TriesKept ==
    ASSUME TypeOK, Answers, Goes \/ Gives \/ USmtpCloseChannel
    PROVE  /\ Tries' = Tries /\ pc \in Talking /\ pc' \in Talking
           /\ UNCHANGED <<cfg, route, list, gw, mxr, cache>>
  <1>1. CASE Goes
    BY <1>1 DEF Goes, Channel, servers, dns, Talking, Tries, Hosts
  <1>2. CASE Gives
    <2>1. PICK res \in {"ok", "temp", "fatal"} : Record(res)
      BY <1>2 DEF Gives
    <2> DEFINE a == [host |-> gw.host, res |-> res, quit |-> "none"]
    <2>2. said' = Append(said, a)
      BY <2>1 DEF Record
    <2>3. a \in Answer /\ a.host = gw.host /\ said \in Seq(Answer)
      BY DEF TypeOK, Answer, Gateway
    <2>4. Hosts(said') = Append(Hosts(said), gw.host)
      BY <2>2, <2>3, HostsProperties
    <2>5. pc \in InDialogue /\ pc' \in Closing /\ pc' \notin InDialogue
      BY <1>2 DEF Gives, InDialogue, Closing
    <2>6. Hosts(said)' = Hosts(said')
      BY DEF Hosts
    <2>7. Tries = Append(Hosts(said), gw.host) /\ Tries' = Hosts(said)'
      BY <2>5 DEF Tries
    <2> QED
      BY <1>2, <2>4, <2>5, <2>6, <2>7 DEF Gives, Channel, servers, dns, Talking
  <1>3. CASE USmtpCloseChannel
    <2>1. pc = "quit" /\ pc' = "verdict" /\ Channel
      BY <1>3 DEF USmtpCloseChannel
    <2>2. PICK q : said' = [said EXCEPT ![Len(said)].quit = q]
      BY <1>3 DEF USmtpCloseChannel
    <2>3. said \in Seq(Answer) /\ said # <<>>
      BY <2>1 DEF TypeOK, Answers, Closing
    <2>4. Len(said') = Len(said) /\ \A i \in 1..Len(said) : said'[i].host = said[i].host
      <3>1. Len(said) \in Nat /\ DOMAIN said' = 1..Len(said)
        BY <2>2, <2>3
      <3>2. ASSUME NEW i \in 1..Len(said) PROVE said'[i].host = said[i].host
        <4>1. said[i] \in Answer
          BY <2>3, ElementOfSeq
        <4> QED
          BY <2>2, <2>3, <4>1 DEF Answer
      <3>3. said' \in Seq({said'[i] : i \in 1..Len(said)}) /\ Len(said') = Len(said)
        <4> DEFINE T == {said'[i] : i \in 1..Len(said)}
        <4>1. said' \in [1..Len(said) -> T]
          BY <2>2, <3>1
        <4> QED
          BY <3>1, <4>1
      <3> QED
        BY <3>2, <3>3
    <2>5. Hosts(said)' = Hosts(said)
      BY <2>4 DEF Hosts
    <2> QED
      BY <2>1, <2>5 DEF Tries, InDialogue, Talking, Closing, Channel, servers, dns
  <1> QED
    BY <1>1, <1>2, <1>3

\* So they keep what is said of the order of the tries.
LEMMA OrderKept ==
    ASSUME TypeOK, Answers, RouteExists, ListInOrder, Marks, MXInOrder,
           Goes \/ Gives \/ USmtpCloseChannel
    PROVE  RouteExists' /\ ListInOrder' /\ Marks' /\ MXInOrder'
  <1>1. /\ Tries' = Tries /\ pc \in Talking /\ pc' \in Talking
        /\ UNCHANGED <<cfg, route, list, gw, mxr, cache>>
    BY TriesKept
  <1>2. pc \notin Searching \cup {"queued"} /\ pc' \notin Searching \cup {"queued"}
    BY <1>1 DEF Talking, InDialogue, Closing, Searching
  <1>3. GwList' = GwList /\ Records' = Records
        /\ \A order : ByPreference(Records, order)' <=> ByPreference(Records, order)
    BY <1>1, SameRoute, SameRecords
  <1>4. RouteExists'
    BY <1>1 DEF RouteExists
  <1>5. ListInOrder'
    BY <1>1, <1>2, <1>3 DEF ListInOrder, Retried
  <1>6. Marks'
    BY <1>1, <1>2, <1>3 DEF Marks, MarksOf
  <1>7. MXInOrder'
    <2>1. \A r : Marked(r)' <=> Marked(r)
      BY <1>1, <1>3 DEF Marked
    <2> QED
      BY <1>1, <1>2, <1>3, <2>1 DEF MXInOrder, Retried
  <1> QED
    BY <1>4, <1>5, <1>6, <1>7

-----------------------------------------------------------------------------
(* The dialogue preserves the invariant.                                   *)

\* What is known of an answer that was given.
LEMMA LastAnswer ==
    ASSUME TypeOK, NEW res \in {"ok", "temp", "fatal"}, Record(res)
    PROVE  /\ said' \in Seq(Answer) /\ Len(said') = Len(said) + 1 /\ said' # <<>>
           /\ \A i \in 1..Len(said) : said'[i] = said[i]
           /\ said'[Len(said')] = [host |-> gw.host, res |-> res, quit |-> "none"]
  <1> DEFINE a == [host |-> gw.host, res |-> res, quit |-> "none"]
  <1>1. a \in Answer /\ said \in Seq(Answer)
    BY DEF TypeOK, Gateway, Answer
  <1>2. said' = Append(said, a)
    BY DEF Record
  <1> HIDE DEF a
  <1>3. /\ said' \in Seq(Answer) /\ Len(said') = Len(said) + 1 /\ said' # <<>>
        /\ \A i \in 1..Len(said) : said'[i] = said[i]
        /\ said'[Len(said')] = a
    BY <1>1, <1>2, AppendProperties
  <1> QED
    BY <1>3 DEF a

LEMMA GoesInv ==
    ASSUME IInv, Goes
    PROVE  IInv'
  <1>1. /\ pc \in InDialogue /\ pc' \in InDialogue /\ chan' \in Chan
        /\ UNCHANGED <<err, said, sent, copies, unsure, bare>> /\ Channel
    BY DEF Goes
  <1>2. UNCHANGED <<cfg, attempts, crashes, route, list, mxr, gw, ns, dnsErr, cache, outcome>>
    BY <1>1 DEF Channel, servers, dns
  <1>3. TypeOK'
    BY <1>1, <1>2 DEF IInv, TypeOK, Chan, InDialogue
  <1>4. Answers'
    BY <1>1, <1>2 DEF IInv, Answers, InDialogue, Searching, Closing, NoneFinal, NotFinal, Refused
  <1>5. Grounds'
    BY <1>1, <1>2 DEF IInv, Grounds, ListOf, Refused
  <1>6. Copies'
    BY <1>1, <1>2 DEF IInv, Copies
  <1>7. Secure'
    BY <1>1, <1>2, SameConfig DEF IInv, Secure, Goes, Talking
  <1>8. ForcedIsSecure'
    BY <1>1, <1>2, SameConfig DEF IInv, ForcedIsSecure
  <1>9. RouteExists' /\ ListInOrder' /\ Marks' /\ MXInOrder'
    BY OrderKept DEF IInv
  <1> QED
    BY <1>3, <1>4, <1>5, <1>6, <1>7, <1>8, <1>9 DEF IInv

LEMMA GivesInv ==
    ASSUME IInv, Gives
    PROVE  IInv'
  <1>1. /\ pc \in InDialogue /\ pc' \in Closing
        /\ chan' \in Chan /\ err' \in {"none", "temp", "fatal"} /\ Channel
    BY DEF Gives
  <1>2. UNCHANGED <<cfg, attempts, crashes, route, list, mxr, gw, ns, dnsErr, cache, outcome>>
    BY <1>1 DEF Channel, servers, dns
  <1>3. PICK res \in {"ok", "temp", "fatal"} :
            Record(res) /\ sent' = (res = "ok") /\ (err' = "fatal" <=> res = "fatal")
    BY DEF Gives
  <1>4. /\ said' \in Seq(Answer) /\ Len(said') = Len(said) + 1 /\ said' # <<>>
        /\ \A i \in 1..Len(said) : said'[i] = said[i]
        /\ said'[Len(said')].res = res /\ said'[Len(said')].quit = "none"
    <2>1. TypeOK
      BY DEF IInv
    <2> QED
      BY <1>3, <2>1, LastAnswer
  <1>5. route \in Routes /\ gw \in Gateway /\ gw.host \in Host
    BY DEF IInv, TypeOK, Gateway
  <1>6. TypeOK'
    <2>1. copies' \in Nat /\ unsure' \in Nat
      BY DEF Gives, IInv, TypeOK
    <2>2. bare' \subseteq [route : Routes, host : Host]
      BY <1>5 DEF Gives, IInv, TypeOK
    <2>3. sent' \in BOOLEAN
      BY <1>3
    <2>4. pc' \in {"quit", "verdict"}
      BY <1>1 DEF Closing
    <2> QED
      BY <1>1, <1>2, <1>4, <2>1, <2>2, <2>3, <2>4 DEF IInv, TypeOK, Chan
  <1>7. Answers'
    <2>1. pc \notin {"settled", "queued"} /\ pc \notin Searching /\ Len(said) \in Nat
      BY <1>1 DEF InDialogue, Searching, IInv, TypeOK
    <2>2. outcome = "pending" /\ NoneFinal(Len(said))
      BY <1>1, <2>1 DEF IInv, Answers
    <2>3. /\ pc' # "settled" /\ pc' \notin Searching /\ pc' \notin InDialogue
          /\ pc' # "query" /\ pc' # "queued"
      BY <1>1 DEF Searching, InDialogue, Closing
    <2>4. NoneFinal(Len(said) - 1)'
      BY <1>4, <2>1, <2>2 DEF NoneFinal, NotFinal, Refused
    <2>5. Refused(said[Len(said)])' <=> res = "fatal"
      BY <1>4 DEF Refused
    <2> QED
      BY <1>1, <1>2, <1>3, <1>4, <2>2, <2>3, <2>4, <2>5 DEF Answers
  <1>8. Grounds'
    <2>1. outcome' = "pending"
      BY <1>1, <1>2 DEF IInv, Answers, InDialogue
    <2> QED
      BY <1>2, <2>1 DEF IInv, Grounds
  <1>9. Copies'
    <2>1. ~sent
      BY <1>1 DEF IInv, Answers, InDialogue, Closing
    <2>2. copies \in Nat /\ unsure \in Nat /\ crashes \in Nat /\ crashes' = crashes
      BY <1>2, BoundsAssumption DEF IInv, TypeOK
    <2>3. copies <= unsure + crashes
      BY <2>1, <2>2 DEF IInv, Copies
    <2>4. CASE UNCHANGED <<copies, unsure>>
      BY <2>2, <2>3, <2>4 DEF Copies
    <2>5. CASE sent' /\ copies' = copies + 1 /\ UNCHANGED unsure
      BY <2>2, <2>3, <2>5 DEF Copies
    <2>6. CASE copies' = copies + 1 /\ unsure' = unsure + 1
      BY <2>2, <2>3, <2>6 DEF Copies
    <2> QED
      BY <2>4, <2>5, <2>6 DEF Gives
  <1>10. Secure'
    <2>1. pc \in Talking /\ pc' \notin {"auth", "mail", "rcpt", "data", "body"}
      BY <1>1 DEF Talking, Closing
    <2> QED
      BY <1>2, <2>1, SameConfig DEF IInv, Secure
  <1>11. ForcedIsSecure'
    <2>1. \A b \in bare : \E g \in GatewaysOf(b.route) : g.host = b.host /\ g.tls # "force"
      BY DEF IInv, ForcedIsSecure
    <2>2. CASE pc = "body" /\ ~chan.secure /\ bare' = bare \cup {[route |-> route, host |-> gw.host]}
      <3>1. gw \in GatewaysOf(route) /\ gw.tls # "force"
        BY <2>2 DEF IInv, Secure, Talking, InDialogue
      <3>2. ASSUME NEW b \in bare'
            PROVE  \E g \in GatewaysOf(b.route) : g.host = b.host /\ g.tls # "force"
        <4>1. CASE b \in bare
          BY <2>1, <4>1
        <4>2. CASE b = [route |-> route, host |-> gw.host]
          <5>1. b.route = route /\ b.host = gw.host
            BY <4>2
          <5> QED
            BY <3>1, <5>1
        <4> QED
          BY <2>2, <4>1, <4>2
      <3> QED
        BY <1>2, <3>2, SameConfig DEF ForcedIsSecure
    <2>3. CASE bare' = bare
      BY <1>2, <2>1, <2>3, SameConfig DEF ForcedIsSecure
    <2> QED
      BY <2>2, <2>3 DEF Gives
  <1>12. RouteExists' /\ ListInOrder' /\ Marks' /\ MXInOrder'
    BY OrderKept DEF IInv
  <1> QED
    BY <1>6, <1>7, <1>8, <1>9, <1>10, <1>11, <1>12 DEF IInv

LEMMA ClosesInv ==
    ASSUME IInv, USmtpCloseChannel
    PROVE  IInv'
  <1>1. /\ pc = "quit" /\ pc' = "verdict"
        /\ UNCHANGED <<chan, sent, copies, unsure, bare>> /\ Channel
    BY DEF USmtpCloseChannel
  <1>2. UNCHANGED <<cfg, attempts, crashes, route, list, mxr, gw, ns, dnsErr, cache, outcome>>
    BY <1>1 DEF Channel, servers, dns
  <1>3. PICK r \in Replies :
            /\ err' = IF r = "2xx" THEN err ELSE SetError(r)
            /\ said' = [said EXCEPT ![Len(said)].quit =
                            IF r \in {"2xx", "lost"} THEN "none" ELSE Severity(r)]
    BY DEF USmtpCloseChannel
  <1> DEFINE n == Len(said)
             q == IF r \in {"2xx", "lost"} THEN "none" ELSE Severity(r)
  <1>4. /\ said \in Seq(Answer) /\ n \in Nat /\ n > 0 /\ n \in 1..n
        /\ said[n] \in Answer /\ said[n].quit = "none"
        /\ (err = "fatal" <=> said[n].res = "fatal") /\ (sent <=> said[n].res = "ok")
        /\ err \in {"none", "temp", "fatal"}
    <2>1. said \in Seq(Answer) /\ err \in {"none", "temp", "fatal"}
      BY DEF IInv, TypeOK
    <2>2. said # <<>> /\ said[n].quit = "none" /\ (err = "fatal" <=> said[n].res = "fatal")
          /\ (sent <=> said[n].res = "ok")
      BY <1>1 DEF IInv, Answers, Closing
    <2>3. n \in Nat /\ n > 0
      BY <2>1, <2>2, EmptySeq
    <2> QED
      BY <2>1, <2>2, <2>3, ElementOfSeq
  <1>5. q \in {"none", "temp", "fatal"}
    BY DEF Severity
  <1>6. /\ said' \in Seq(Answer) /\ Len(said') = n
        /\ \A i \in 1..n : i # n => said'[i] = said[i]
        /\ said'[n].res = said[n].res /\ said'[n].quit = q
    <2> DEFINE e == [said[n] EXCEPT !.quit = q]
    <2>1. e \in Answer /\ e.res = said[n].res /\ e.quit = q
      BY <1>4, <1>5 DEF Answer
    <2>2. said' = [said EXCEPT ![n] = e]
      BY <1>3
    <2> HIDE DEF e, q, n
    <2>3. said' \in Seq(Answer) /\ Len(said') = Len(said)
          /\ \A i \in 1..Len(said) : said'[i] = IF i = n THEN e ELSE said[i]
      BY <1>4, <2>1, <2>2, ExceptSeq DEF n
    <2> QED
      BY <1>4, <2>1, <2>3 DEF n
  <1>7. err' \in {"none", "temp", "fatal"}
    BY <1>3, <1>4 DEF SetError, Severity
  <1>8. TypeOK'
    BY <1>1, <1>2, <1>6, <1>7 DEF IInv, TypeOK
  <1>9. Answers'
    <2>1. NoneFinal(Len(said) - 1)'
      BY <1>1, <1>4, <1>6 DEF IInv, Answers, Closing, NoneFinal, NotFinal, Refused
    <2>2. Refused(said[Len(said)])' <=>
            said[n].res # "ok" /\ IF q = "none" THEN said[n].res = "fatal" ELSE q = "fatal"
      BY <1>6 DEF Refused
    <2>3. ~sent => (err' = "fatal" <=> Refused(said[Len(said)])')
      <3>1. CASE r \in {"2xx", "lost"}
        BY <1>3, <1>4, <2>2, <3>1 DEF SetError
      <3>2. CASE r \notin {"2xx", "lost"}
        BY <1>3, <1>4, <2>2, <3>2 DEF SetError, Severity
      <3> QED
        BY <3>1, <3>2
    <2>4. said' # <<>> /\ (sent <=> said'[Len(said')].res = "ok") /\ outcome = "pending"
      BY <1>1, <1>4, <1>6 DEF IInv, Answers
    <2> HIDE DEF n, q
    <2> QED
      BY <1>1, <1>2, <2>1, <2>3, <2>4 DEF Answers, Searching, InDialogue, Closing
  <1>10. Grounds'
    <2>1. outcome' = "pending"
      BY <1>1, <1>2 DEF IInv, Answers
    <2> QED
      BY <1>2, <2>1 DEF IInv, Grounds
  <1>11. Copies'
    BY <1>1, <1>2 DEF IInv, Copies
  <1>12. Secure'
    BY <1>1, <1>2, SameConfig DEF IInv, Secure, Talking, Closing
  <1>13. ForcedIsSecure'
    BY <1>1, <1>2, SameConfig DEF IInv, ForcedIsSecure
  <1>14. RouteExists' /\ ListInOrder' /\ Marks' /\ MXInOrder'
    BY OrderKept DEF IInv
  <1> QED
    BY <1>8, <1>9, <1>10, <1>11, <1>12, <1>13, <1>14 DEF IInv

-----------------------------------------------------------------------------
(* The next record.                                                        *)

\* The records in order o were taken, and no others, with table m.
TakenInOrder(m, n, o) ==
    /\ m \in MXRecords /\ MarksOf(m)
    /\ o \in [1..n -> 1..Len(m.recs)] /\ ByPreference(m.recs, o)
    /\ \A r \in 1..Len(m.recs) :
            m.cost[r] # m.recs[r].cost <=> \E k \in 1..n : o[k] = r
\* Record i may go next, and then does.
IsNext(m, i) ==
    /\ i \in Candidates(m.cost, m.curr)
    /\ \A j \in Candidates(m.cost, m.curr) : m.cost[i] <= m.cost[j]
Extended(o, n, i) == [k \in 1..(n + 1) |-> IF k = n + 1 THEN i ELSE o[k]]

\* The cheapest candidate is a record that was not taken, and no other such
\* record has a lower cost; so it may go next.
LEMMA NextRecord ==
    ASSUME cfg \in Configs, NEW m, NEW n \in Nat, NEW order, NEW i,
           TakenInOrder(m, n, order), IsNext(m, i)
    PROVE  /\ i \in 1..Len(m.recs) /\ Taken(m, i) # NoMX
           /\ TakenInOrder(Taken(m, i), n + 1, Extended(order, n, i))
  <1> DEFINE m2 == Taken(m, i)
             o2 == Extended(order, n, i)
  <1>1. /\ m \in MXRecords /\ MarksOf(m)
        /\ i \in Candidates(m.cost, m.curr)
        /\ \A j \in Candidates(m.cost, m.curr) : m.cost[i] <= m.cost[j]
        /\ order \in [1..n -> 1..Len(m.recs)] /\ ByPreference(m.recs, order)
        /\ \A r \in 1..Len(m.recs) :
                m.cost[r] # m.recs[r].cost <=> \E k \in 1..n : order[k] = r
    BY DEF TakenInOrder, IsNext
  <1>2. m2 = Taken(m, i) /\ o2 = Extended(order, n, i) /\ m2.recs = m.recs /\ m.recs \in Seq(MX)
    BY <1>1 DEF Taken, MXRecords
  <1> HIDE DEF m2, o2
  <1>3. /\ \A r \in 1..Len(m.recs) : m.recs[r].cost \in Nat /\ m.cost[r] \in Int
        /\ m.curr \in Int /\ Len(m.recs) \in Nat /\ DOMAIN m.cost = 1..Len(m.recs)
        /\ m.cost \in Seq(Int) /\ Len(m.cost) = Len(m.recs)
    <2>1. m.cost \in Seq(Int) /\ m.curr \in Int
      BY <1>1 DEF MXRecords
    <2>2. Len(m.recs) \in Nat /\ DOMAIN m.cost = 1..Len(m.recs)
      BY <1>1, <1>2, LenProperties DEF MarksOf
    <2>3. Len(m.cost) = Len(m.recs)
      BY <2>1, <2>2
    <2>4. \A r \in 1..Len(m.recs) : m.recs[r].cost \in Nat
      BY <1>2, RecordGateway
    <2>5. \A r \in 1..Len(m.recs) : m.cost[r] \in Int
      BY <2>1, <2>3, ElementOfSeq
    <2> QED
      BY <2>1, <2>2, <2>3, <2>4, <2>5
  <1>4. i \in 1..Len(m.recs) /\ m.cost[i] >= m.curr
    BY <1>1, <1>3 DEF Candidates
  <1>5. m.cost[i] = m.recs[i].cost
    <2>1. /\ m.cost[i] \in Int /\ m.curr \in Int /\ m.recs[i].cost \in Nat
          /\ m.cost[i] >= m.curr
      BY <1>3, <1>4
    <2>2. \/ m.cost[i] = m.recs[i].cost
          \/ m.cost[i] = m.recs[i].cost - 1 /\ m.recs[i].cost <= m.curr
      BY <1>1, <1>4 DEF MarksOf
    <2> QED
      BY <2>1, <2>2
  <1>6. ASSUME NEW r \in 1..Len(m.recs), m.cost[r] = m.recs[r].cost
        PROVE  m.recs[i].cost <= m.recs[r].cost
    <2>1. m.recs[r].cost >= m.curr
      BY <1>1, <1>3, <1>6 DEF MarksOf
    <2>2. r \in Candidates(m.cost, m.curr)
      BY <1>3, <1>6, <2>1 DEF Candidates
    <2> QED
      BY <1>1, <1>5, <1>6, <2>2
  <1>7. /\ m2.curr = m.recs[i].cost /\ DOMAIN m2.cost = 1..Len(m.recs)
        /\ m2.cost[i] = m.recs[i].cost - 1
        /\ \A r \in 1..Len(m.recs) : r # i => m2.cost[r] = m.cost[r]
    BY <1>2, <1>3, <1>4, <1>5 DEF Taken
  <1>8. m2 \in MXRecords
    BY <1>1, <1>2, <1>3, <1>4, TakenType
  <1>9. m2 # NoMX
    BY <1>3, <1>4, <1>7 DEF NoMX
  <1>10. MarksOf(m2)
    <2>1. ASSUME NEW r \in 1..Len(m.recs)
          PROVE  \/ m2.cost[r] = m.recs[r].cost /\ m.recs[r].cost >= m2.curr
                 \/ m2.cost[r] = m.recs[r].cost - 1 /\ m.recs[r].cost <= m2.curr
      <3>1. CASE r = i
        BY <1>3, <1>4, <1>7, <3>1
      <3>2. CASE r # i /\ m.cost[r] = m.recs[r].cost
        BY <1>3, <1>4, <1>6, <1>7, <3>2
      <3>3. CASE r # i /\ m.cost[r] # m.recs[r].cost
        <4>1. m.cost[r] = m.recs[r].cost - 1 /\ m.recs[r].cost <= m.curr
          BY <1>1, <3>3 DEF MarksOf
        <4>2. m2.cost[r] = m.recs[r].cost - 1
          BY <1>7, <3>3, <4>1
        <4>3. m.recs[r].cost \in Int /\ m.recs[i].cost \in Int /\ m.curr \in Int
          <5>1. m.recs[r].cost \in Nat /\ m.recs[i].cost \in Nat
            BY <1>2, <1>4, RecordGateway
          <5> QED
            BY <1>3, <5>1
        <4>4. m.recs[r].cost <= m.curr /\ m.curr <= m.recs[i].cost
          BY <1>4, <1>5, <4>1, <4>3
        <4>5. m.recs[r].cost <= m.recs[i].cost
          BY <4>3, <4>4
        <4> QED
          BY <1>7, <4>2, <4>5
      <3> QED
        BY <3>1, <3>2, <3>3
    <2> QED
      BY <1>2, <1>7, <2>1 DEF MarksOf
  <1>11. o2 \in [1..(n + 1) -> 1..Len(m.recs)]
        /\ o2[n + 1] = i /\ \A k \in 1..n : o2[k] = order[k]
    BY <1>1, <1>2, <1>4 DEF Extended
  <1>12. ByPreference(m.recs, o2)
    <2>1. \A k \in 1..n : order[k] # i
      BY <1>1, <1>4, <1>5
    <2>2. ASSUME NEW j \in DOMAIN o2, NEW k \in DOMAIN o2, o2[j] = o2[k] PROVE j = k
      <3>1. j \in 1..(n + 1) /\ k \in 1..(n + 1)
        BY <1>11
      <3>2. \A a, b \in 1..n : order[a] = order[b] => a = b
        BY <1>1 DEF ByPreference
      <3>3. CASE j \in 1..n /\ k \in 1..n
        BY <1>11, <2>2, <3>2, <3>3
      <3>4. CASE j = n + 1 \/ k = n + 1
        <4>1. \A a \in 1..n : o2[a] # o2[n + 1]
          BY <1>11, <2>1
        <4> QED
          BY <1>1, <2>2, <3>1, <3>4, <4>1
      <3> QED
        BY <1>1, <3>1, <3>3, <3>4
    <2>3. ASSUME NEW j \in DOMAIN o2, NEW r \in 1..Len(m.recs),
                 m.recs[r].cost < m.recs[o2[j]].cost
          PROVE  \E k \in 1..(j - 1) : o2[k] = r
      <3>1. CASE j \in 1..n
        <4>1. \E k \in 1..(j - 1) : order[k] = r
          BY <1>1, <1>11, <2>3, <3>1 DEF ByPreference
        <4> QED
          BY <1>11, <3>1, <4>1
      <3>2. CASE j = n + 1
        <4>1. m.recs[r].cost < m.recs[i].cost
          BY <1>11, <2>3, <3>2
        <4>2. m.cost[r] # m.recs[r].cost
          <5>1. m.recs[r].cost \in Int /\ m.recs[i].cost \in Int
            BY <1>2, <1>4, RecordGateway
          <5>2. ~(m.recs[i].cost <= m.recs[r].cost)
            BY <4>1, <5>1
          <5> QED
            BY <1>6, <5>2
        <4> QED
          BY <1>1, <1>11, <3>2, <4>2
      <3>3. j \in 1..(n + 1)
        BY <1>11
      <3>4. j \in 1..n \/ j = n + 1
        BY <3>3
      <3> QED
        BY <3>1, <3>2, <3>4
    <2> QED
      BY <2>2, <2>3 DEF ByPreference
  <1>13. ASSUME NEW r \in 1..Len(m.recs)
         PROVE  m2.cost[r] # m.recs[r].cost <=> \E k \in 1..(n + 1) : o2[k] = r
    <2>1. CASE r = i
      BY <1>3, <1>4, <1>7, <1>11, <2>1
    <2>2. CASE r # i
      <3>1. m2.cost[r] # m.recs[r].cost <=> \E k \in 1..n : order[k] = r
        BY <1>1, <1>7, <2>2
      <3>2. (\E k \in 1..(n + 1) : o2[k] = r) <=> \E k \in 1..n : order[k] = r
        <4>1. 1..(n + 1) = 1..n \cup {n + 1}
          OBVIOUS
        <4> QED
          BY <1>11, <2>2, <4>1
      <3> QED
        BY <3>1, <3>2
    <2> QED
      BY <2>1, <2>2
  <1> QED
    BY <1>2, <1>4, <1>8, <1>9, <1>10, <1>11, <1>12, <1>13 DEF TakenInOrder

-----------------------------------------------------------------------------
(* The search preserves the invariant.                                     *)

\* Before the first server, no order is broken.
LEMMA NoTries ==
    ASSUME said' = <<>>, pc' \notin InDialogue, cfg \in Configs, cfg' = cfg
    PROVE  /\ Tries' = <<>> /\ ~Retried'
           /\ mxr' = NoMX => MXInOrder'
  <1>1. Tries' = <<>>
    BY DEF Tries, Hosts
  <1>2. ~Retried'
    BY DEF Retried
  <1>3. ASSUME mxr' = NoMX PROVE MXInOrder'
    <2> DEFINE o == [k \in 1..0 |-> 1]
    <2>1. o \in [1..0 -> 1..Len(Records)'] /\ DOMAIN o = {} /\ Len(Tries') = 0
      BY <1>1
    <2>2. ByPreference(Records, o)'
      BY <2>1 DEF ByPreference
    <2> HIDE DEF o
    <2>3. \E order \in [1..Len(Tries)' -> 1..Len(Records)'] :
            /\ ByPreference(Records, order)'
            /\ \A i \in 1..Len(Tries)' : Tries'[i] = Records'[order[i]].host
      BY <2>1, <2>2
    <2> QED
      BY <1>2, <1>3, <2>3 DEF MXInOrder
  <1> QED
    BY <1>1, <1>2, <1>3

LEMMA AsksInv ==
    ASSUME IInv, Asks
    PROVE  IInv'
  <1>1. /\ pc \in Searching /\ pc' = "query" /\ route = "mx" /\ said = <<>> /\ err = "none"
        /\ mxr = NoMX /\ outcome = "pending" /\ ~sent /\ cfg \in Configs
    BY DEF Asks, IInv, TypeOK, Answers, Marks, Searching, Closing
  <1>2. UNCHANGED <<cfg, attempts, crashes, copies, unsure, bare, route, list, mxr, gw, chan, err,
                    sent, cache, outcome, said>>
    BY DEF Asks, world, servers
  <1>3. TypeOK'
    BY <1>1, <1>2 DEF Asks, IInv, TypeOK
  <1>4. Answers'
    BY <1>1, <1>2 DEF Asks, Answers, Searching, InDialogue, Closing
  <1>5. Grounds'
    BY <1>1, <1>2 DEF Asks, IInv, Grounds
  <1>6. Copies'
    BY <1>2 DEF IInv, Copies
  <1>7. RouteExists' /\ ForcedIsSecure'
    BY <1>2, SameConfig DEF IInv, RouteExists, ForcedIsSecure
  <1>8. Secure' /\ ListInOrder'
    BY <1>1, <1>2 DEF Secure, ListInOrder, ListRoutes, Talking, InDialogue, Closing
  <1>9. Marks'
    BY <1>1, <1>2 DEF IInv, Marks, Talking, InDialogue, Closing
  <1>10. MXInOrder'
    BY <1>1, <1>2, NoTries DEF InDialogue
  <1> QED
    BY <1>3, <1>4, <1>5, <1>6, <1>7, <1>8, <1>9, <1>10 DEF IInv

LEMMA FailsInv ==
    ASSUME IInv, Fails
    PROVE  IInv'
  <1>1. /\ pc \in Searching /\ route = "mx" /\ said = <<>> /\ err = "none"
        /\ mxr = NoMX /\ outcome = "pending" /\ sent = FALSE /\ cfg \in Configs
    BY DEF Fails, IInv, TypeOK, Answers, Marks, Searching, Closing
  <1>2. /\ UNCHANGED <<cfg, attempts, crashes, copies, unsure, bare, chan, sent, said>>
        /\ mxr' = NoMX /\ ns' = <<>> /\ dnsErr' = "none"
        /\ cache' \in CacheFile /\ (cache'.state = "fresh" => cache'.mx # <<>>)
    BY DEF Fails, LookupFailed, world, CacheKept
  <1>3. Copies' /\ ForcedIsSecure'
    BY <1>2, SameConfig DEF IInv, Copies, ForcedIsSecure
  <1>4. \/ /\ pc' = "settled" /\ outcome' = "bounced" /\ UNCHANGED <<gw, err, list, route>>
           /\ ~(cfg.exists /\ cfg.smart > 0)
        \/ /\ route' = "direct" /\ pc' = "connect" /\ gw' = DefaultGateway(Domain)
           /\ list' = <<>> /\ err' = "none" /\ UNCHANGED outcome
        \/ pc' = "queued" /\ UNCHANGED <<gw, err, list, outcome, route>>
    BY DEF Fails, LookupFailed, Settle, TryServer, TryLater
  <1>5. CASE /\ pc' = "settled" /\ outcome' = "bounced" /\ UNCHANGED <<gw, err, list, route>>
             /\ ~(cfg.exists /\ cfg.smart > 0)
    <2>1. TypeOK'
      BY <1>2, <1>5, ConstantTypes DEF IInv, TypeOK, MXRecords, CacheFile, MX
    <2>2. Answers'
      BY <1>1, <1>2, <1>5 DEF Answers, Searching, InDialogue, Closing, NoneFinal
    <2>3. Grounds'
      BY <1>1, <1>2, <1>5 DEF Grounds
    <2>4. RouteExists' /\ Secure' /\ ListInOrder'
      BY <1>1, <1>2, <1>5
         DEF RouteExists, Secure, ListInOrder, ListRoutes, Talking, InDialogue, Closing
    <2>5. Marks'
      BY <1>1, <1>2, <1>5 DEF IInv, Marks, Talking, InDialogue, Closing
    <2>6. MXInOrder'
      BY <1>1, <1>2, <1>5, NoTries DEF InDialogue
    <2> QED
      BY <1>3, <2>1, <2>2, <2>3, <2>4, <2>5, <2>6 DEF IInv
  <1>6. CASE /\ route' = "direct" /\ pc' = "connect" /\ gw' = DefaultGateway(Domain)
             /\ list' = <<>> /\ err' = "none" /\ UNCHANGED outcome
    <2>1. DefaultGateway(Domain) \in Gateway /\ DefaultGateway(Domain) \in GatewaysOf("direct")
      BY <1>1, ConfigsAssumption, DefaultGatewayType DEF GatewaysOf
    <2>2. TypeOK'
      BY <1>2, <1>6, <2>1, ConstantTypes DEF IInv, TypeOK, MXRecords, CacheFile, MX, Routes
    <2>3. Answers'
      BY <1>1, <1>2, <1>6 DEF Answers, Searching, InDialogue, Closing, NoneFinal
    <2>4. Grounds'
      BY <1>1, <1>2, <1>6 DEF Grounds
    <2>5. Secure'
      BY <1>2, <1>6, <2>1, SameConfig DEF Secure
    <2>6. RouteExists' /\ ListInOrder'
      BY <1>6 DEF RouteExists, ListInOrder, ListRoutes
    <2>7. Marks' /\ MXInOrder'
      BY <1>1, <1>2, <1>6 DEF IInv, Marks, MXInOrder
    <2> QED
      BY <1>3, <2>2, <2>3, <2>4, <2>5, <2>6, <2>7 DEF IInv
  <1>7. CASE pc' = "queued" /\ UNCHANGED <<gw, err, list, outcome, route>>
    <2>1. TypeOK'
      BY <1>2, <1>7, ConstantTypes DEF IInv, TypeOK, MXRecords, CacheFile, MX
    <2>2. Answers'
      BY <1>1, <1>2, <1>7 DEF Answers, Searching, InDialogue, Closing, NoneFinal
    <2>3. Grounds'
      BY <1>1, <1>2, <1>7 DEF Grounds
    <2>4. RouteExists' /\ Secure' /\ ListInOrder'
      BY <1>1, <1>2, <1>7
         DEF RouteExists, Secure, ListInOrder, ListRoutes, Talking, InDialogue, Closing
    <2>5. Marks'
      BY <1>1, <1>2, <1>7 DEF IInv, Marks, Talking, InDialogue, Closing
    <2>6. MXInOrder'
      BY <1>1, <1>2, <1>7, NoTries DEF InDialogue
    <2> QED
      BY <1>3, <2>1, <2>2, <2>3, <2>4, <2>5, <2>6 DEF IInv
  <1> QED
    BY <1>4, <1>5, <1>6, <1>7

LEMMA FindsInv ==
    ASSUME IInv, Finds
    PROVE  IInv'
  <1>1. /\ pc \in Searching /\ route = "mx" /\ said = <<>> /\ err = "none"
        /\ outcome = "pending" /\ sent = FALSE /\ cfg \in Configs
    BY DEF Finds, IInv, TypeOK, Answers, Marks, Searching, Closing
  <1>2. /\ UNCHANGED <<cfg, attempts, crashes, copies, unsure, bare, chan, sent, route, said>>
        /\ ns' \in Seq(Nat) /\ dnsErr' \in {dnsErr, "none"} /\ cache' \in CacheFile
        /\ cache'.state = "fresh" => cache'.mx # <<>>
    BY DEF Finds, world, CacheKept
  <1>2a. PICK all \in Seq(MX) \ {<<>>} : all \in {cfg.mx, cache'.mx} /\ USmtpGetMXFirst(all)
    BY DEF Finds
  <1> DEFINE recs == Fit(all)
  <1>3. PICK i \in 1..Len(recs) :
            /\ mxr' = Taken(Table(recs), i)
            /\ TryServer(DefaultGateway(recs[i].host), <<>>)
            /\ \A j \in 1..Len(recs) : recs[i].cost <= recs[j].cost
    BY <1>2a, FirstExchanger
  <1>3a. recs \in Seq(MX) /\ recs \in {Fit(cfg.mx), Fit(cache'.mx)}
    BY <1>2a, FitType
  <1> HIDE DEF recs
  <1>4. /\ pc' = "connect" /\ gw' = DefaultGateway(recs[i].host) /\ list' = <<>>
        /\ err' = "none" /\ UNCHANGED outcome
    BY <1>3 DEF TryServer
  <1>5. gw' \in Gateway /\ gw' \in GatewaysOf("mx") /\ gw'.host = recs[i].host
    BY <1>1, <1>3a, <1>4, RecordGateway, DefaultGatewayType
  <1> DEFINE m == Table(recs)
             o == [k \in 1..0 |-> i]
             o2 == Extended(o, 0, i)
  <1>6. mxr' # NoMX /\ TakenInOrder(mxr', 1, o2)
    <2>1. /\ Len(recs) \in Nat /\ \A r \in 1..Len(recs) : recs[r].cost \in Nat
          /\ Costs(recs) \in Seq(Int) /\ DOMAIN Costs(recs) = 1..Len(recs)
          /\ \A r \in 1..Len(recs) : Costs(recs)[r] = recs[r].cost
          /\ Candidates(Costs(recs), -1) = 1..Len(recs)
      BY <1>3a, TableType
    <2>2. m.recs = recs /\ m.cost = Costs(recs) /\ m.curr = -1
      BY DEF Table
    <2>3. m \in MXRecords /\ MarksOf(m)
      <3>1. m \in MXRecords
        BY <1>3a, <2>1 DEF MXRecords, Table
      <3> HIDE DEF m
      <3>2. MarksOf(m)
        BY <2>1, <2>2 DEF MarksOf
      <3> QED
        BY <3>1, <3>2
    <2>4. IsNext(m, i)
      <3> HIDE DEF m
      <3> QED
        BY <1>3, <2>1, <2>2 DEF IsNext
    <2>5. TakenInOrder(m, 0, o)
      <3> HIDE DEF m
      <3> QED
        BY <2>1, <2>2, <2>3 DEF TakenInOrder, ByPreference
    <2> HIDE DEF m, o
    <2>6. /\ Taken(m, i) # NoMX
          /\ TakenInOrder(Taken(m, i), 0 + 1, Extended(o, 0, i))
      BY <1>1, <2>4, <2>5, NextRecord
    <2> QED
      BY <1>3, <2>6 DEF m
  <1>6a. Records' = recs
    BY <1>3 DEF Records, Taken, Table
  <1>7. TypeOK'
    BY <1>2, <1>4, <1>5, <1>6, ConstantTypes DEF IInv, TypeOK, MXRecords, CacheFile, TakenInOrder, MX
  <1>8. Answers'
    BY <1>1, <1>2, <1>4 DEF Answers, Searching, InDialogue, Closing, NoneFinal
  <1>9. Grounds'
    BY <1>1, <1>2, <1>4 DEF IInv, Grounds
  <1>10. Copies' /\ ForcedIsSecure'
    BY <1>2, SameConfig DEF IInv, Copies, ForcedIsSecure
  <1>11. RouteExists'
    BY <1>1, <1>2 DEF RouteExists
  <1>12. Secure'
    BY <1>1, <1>2, <1>4, <1>5, SameConfig DEF Secure
  <1>13. ListInOrder'
    BY <1>1, <1>2, <1>4 DEF ListInOrder, ListRoutes
  <1>14. MarksOf(mxr)'
    BY <1>6 DEF MarksOf, TakenInOrder
  <1>15. Marks'
    <2>1. pc' \notin Searching /\ Records' \in {Fit(cfg'.mx), Fit(cache'.mx)}
      BY <1>2, <1>3a, <1>4, <1>6a DEF Searching
    <2> QED
      BY <1>1, <1>2, <1>6, <1>14, <2>1 DEF Marks
  <1>16. MXInOrder'
    <2>1. Tries' = <<recs[i].host>>
      BY <1>1, <1>2, <1>4, <1>5 DEF Tries, Hosts, InDialogue
    <2>2. ~Retried'
      BY <1>4 DEF Retried
    <2>3. /\ o2[1] = i /\ Len(Tries') = 1
          /\ o2 \in [1..1 -> 1..Len(recs)] /\ ByPreference(recs, o2)
          /\ \A r \in 1..Len(recs) :
                mxr'.cost[r] # recs[r].cost <=> \E k \in 1..1 : o2[k] = r
      BY <1>6, <1>6a, <2>1 DEF TakenInOrder, Extended, Records
    <2> HIDE DEF o2
    <2>4. \E order \in [1..Len(Tries') -> 1..Len(Records)'] :
            /\ ByPreference(Records, order)'
            /\ \A k \in 1..Len(Tries') : Tries'[k] = Records'[order[k]].host
            /\ \A r \in 1..Len(Records)' : Marked(r)' <=> \E k \in 1..Len(Tries') : order[k] = r
      BY <1>6a, <2>1, <2>3 DEF Marked, ByPreference
    <2> QED
      BY <2>2, <2>4 DEF MXInOrder
  <1> QED
    BY <1>7, <1>8, <1>9, <1>10, <1>11, <1>12, <1>13, <1>15, <1>16 DEF IInv

-----------------------------------------------------------------------------
(* The start of an attempt preserves the invariant.                        *)

\* What is the same for all routes.
LEMMA BeginCommon ==
    ASSUME IInv, SMAILRemoteMsgSMTPSend \/ AttemptFails
    PROVE  /\ TypeOK' /\ Copies' /\ ForcedIsSecure' /\ cfg \in Configs
           /\ pc = "queued" /\ outcome = "pending" /\ sent = FALSE
           /\ UNCHANGED <<cfg, ns, dnsErr, cache, crashes, copies, unsure, bare>>
           /\ said' = <<>> /\ sent' = FALSE /\ mxr' = NoMX
  <1>1. /\ UNCHANGED <<cfg, ns, dnsErr, cache, crashes, copies, unsure, bare>>
        /\ said' = <<>> /\ sent' = FALSE /\ mxr' = NoMX /\ pc = "queued"
    BY DEF SMAILRemoteMsgSMTPSend, AttemptFails, dns
  <1>2. cfg \in Configs /\ outcome = "pending" /\ sent = FALSE
    BY <1>1 DEF IInv, TypeOK, Answers, Closing
  <1>3. TypeOK'
    BY BeginType DEF IInv
  <1>4. Copies' /\ ForcedIsSecure'
    BY <1>1, <1>2, SameConfig DEF IInv, Copies, ForcedIsSecure
  <1> QED
    BY <1>1, <1>2, <1>3, <1>4

\* A route with a list of gateways.
LEMMA BeginList ==
    ASSUME IInv, SMAILRemoteMsgSMTPSend, route' \in ListRoutes,
           route' = "smtprelay" => cfg.relays # <<>>,
           route' = "forward" => cfg.fwd # <<>>, route' = "gateways" => cfg.gws # <<>>,
           TryList(GwListOf(route'))
    PROVE  IInv'
  <1> DEFINE gws == GwListOf(route')
  <1>1. /\ TypeOK' /\ Copies' /\ ForcedIsSecure' /\ cfg \in Configs
        /\ pc = "queued" /\ outcome = "pending" /\ sent = FALSE
        /\ UNCHANGED <<cfg, ns, dnsErr, cache, crashes, copies, unsure, bare>>
        /\ said' = <<>> /\ sent' = FALSE /\ mxr' = NoMX
    BY BeginCommon
  <1>2. /\ gws \in Seq(Gateway) /\ Len(gws) = Len(Entries(route'))
        /\ Entries(route') \in Seq(GatewayEntry)
        /\ \A i \in 1..Len(gws) : gws[i] \in GatewaysOf(route')
    BY <1>1, GwListType
  <1>3. GwList' = gws /\ ListOf(cfg)' = Entries(route') /\ GatewaysOf(route)' = GatewaysOf(route')
    BY <1>1, SameConfig DEF GwList, GwListOf, ListOf, Entries, CfgGateways, MailExchangers,
        GatewaysOf, DefaultGateway
  <1>4. RouteExists'
    BY <1>1 DEF RouteExists, ListRoutes
  <1>5. Marks'
    BY <1>1 DEF IInv, Marks, ListRoutes
  <1>6. MXInOrder'
    BY DEF MXInOrder, ListRoutes
  <1>7. Hosts(said)' = <<>>
    BY <1>1 DEF Hosts
  <1> HIDE DEF gws
  <1>8. CASE gws = <<>>
    <2>1. pc' = "settled" /\ outcome' = "delivered" /\ UNCHANGED <<gw, err, list>>
      BY <1>8 DEF TryList, Settle, gws
    <2>2. Answers'
      BY <1>1, <2>1 DEF Answers, Searching, InDialogue, Closing, NoneFinal
    <2>3. Len(gws) = 0 /\ ListOf(cfg)' = <<>>
      BY <1>2, <1>3, <1>8
    <2>4. Grounds'
      BY <1>1, <2>1, <2>3 DEF IInv, Grounds
    <2>5. Secure'
      BY <2>1 DEF Secure, Talking, InDialogue, Closing
    <2>6. ListInOrder'
      <3>1. Tries' = <<>> /\ ~Retried' /\ pc' \notin Talking
        BY <1>7, <2>1 DEF Tries, Retried, Talking, InDialogue, Closing
      <3> QED
        BY <1>2, <1>3, <3>1 DEF ListInOrder
    <2> QED
      BY <1>1, <1>4, <1>5, <1>6, <2>2, <2>4, <2>5, <2>6 DEF IInv
  <1>9. CASE gws # <<>>
    <2>1. /\ pc' = "connect" /\ gw' = Head(gws) /\ list' = Tail(gws) /\ err' = "none"
          /\ outcome' = outcome
      BY <1>9 DEF TryList, TryServer, gws
    <2>2. /\ Head(gws) = gws[1] /\ Len(gws) \in Nat /\ Len(gws) > 0
          /\ Len(Tail(gws)) = Len(gws) - 1
          /\ \A i \in 1..Len(Tail(gws)) : Tail(gws)[i] = gws[i + 1]
      BY <1>2, <1>9, HeadTailProperties, EmptySeq
    <2>3. Answers'
      BY <1>1, <2>1 DEF Answers, Searching, InDialogue, Closing, NoneFinal
    <2>4. Grounds'
      BY <1>1, <2>1 DEF IInv, Grounds
    <2>5. gw' \in GatewaysOf(route')
      BY <1>2, <2>1, <2>2
    <2>6. Secure'
      BY <1>3, <2>1, <2>5 DEF Secure, ListRoutes
    <2>7. ListInOrder'
      <3>1. Tries' = <<gw'.host>> /\ Len(Tries') = 1
        BY <1>7, <2>1 DEF Tries, InDialogue
      <3>2. ~Retried'
        BY <2>1 DEF Retried
      <3>3. \A i \in 1..Len(list') : list'[i] = gws[1 + i]
        BY <2>1, <2>2
      <3> QED
        BY <1>3, <2>1, <2>2, <3>1, <3>2, <3>3 DEF ListInOrder
    <2> QED
      BY <1>1, <1>4, <1>5, <1>6, <2>3, <2>4, <2>6, <2>7 DEF IInv
  <1> QED
    BY <1>8, <1>9

\* A route with one server.
LEMMA BeginServer ==
    ASSUME IInv, SMAILRemoteMsgSMTPSend, route' \in {"relay", "address"},
           route' = "relay" => cfg.path # <<>>,
           NEW g, g \in GatewaysOf(route'), TryServer(g, <<>>)
    PROVE  IInv'
  <1>1. /\ TypeOK' /\ Copies' /\ ForcedIsSecure' /\ cfg \in Configs
        /\ pc = "queued" /\ outcome = "pending" /\ sent = FALSE
        /\ UNCHANGED <<cfg, ns, dnsErr, cache, crashes, copies, unsure, bare>>
        /\ said' = <<>> /\ sent' = FALSE /\ mxr' = NoMX
    BY BeginCommon
  <1>2. /\ pc' = "connect" /\ gw' = g /\ list' = <<>> /\ err' = "none" /\ outcome' = outcome
    BY DEF TryServer
  <1>3. Answers'
    BY <1>1, <1>2 DEF Answers, Searching, InDialogue, Closing, NoneFinal
  <1>4. Grounds'
    BY <1>1, <1>2 DEF IInv, Grounds
  <1>5. RouteExists'
    BY <1>1 DEF RouteExists
  <1>6. GatewaysOf(route)' = GatewaysOf(route')
    BY <1>1 DEF GatewaysOf, CfgGateways, MailExchangers, DefaultGateway
  <1>7. Secure'
    BY <1>2, <1>6 DEF Secure
  <1>8. ListInOrder'
    BY <1>2 DEF ListInOrder, ListRoutes
  <1>9. Marks' /\ MXInOrder'
    BY <1>1 DEF IInv, Marks, MXInOrder
  <1> QED
    BY <1>1, <1>3, <1>4, <1>5, <1>7, <1>8, <1>9 DEF IInv

\* No server yet: the exchangers are to be looked up, or the attempt is over.
LEMMA BeginNone ==
    ASSUME IInv, SMAILRemoteMsgSMTPSend \/ AttemptFails, outcome' = outcome,
           \/ pc' = "lookup" /\ route' = "mx" /\ err' = "none" /\ list' = <<>>
           \/ pc' = "queued" /\ route' = "none"
    PROVE  IInv'
  <1>1. /\ TypeOK' /\ Copies' /\ ForcedIsSecure' /\ cfg \in Configs
        /\ pc = "queued" /\ outcome = "pending" /\ sent = FALSE
        /\ UNCHANGED <<cfg, ns, dnsErr, cache, crashes, copies, unsure, bare>>
        /\ said' = <<>> /\ sent' = FALSE /\ mxr' = NoMX
    BY BeginCommon
  <1>2. Answers'
    BY <1>1 DEF Answers, Searching, InDialogue, Closing, NoneFinal
  <1>3. Grounds'
    BY <1>1 DEF IInv, Grounds
  <1>4. RouteExists' /\ Secure' /\ ListInOrder'
    BY <1>1 DEF RouteExists, Secure, ListInOrder, ListRoutes, Talking, InDialogue, Closing
  <1>5. Marks'
    BY <1>1 DEF IInv, Marks, Talking, InDialogue, Closing
  <1>6. MXInOrder'
    BY <1>1, NoTries DEF InDialogue
  <1> QED
    BY <1>1, <1>2, <1>3, <1>4, <1>5, <1>6 DEF IInv

LEMMA BeginInv ==
    ASSUME IInv, SMAILRemoteMsgSMTPSend \/ AttemptFails
    PROVE  IInv'
  <1>1. cfg \in Configs /\ outcome = "pending" /\ cfg' = cfg
    BY BeginCommon
  <1>2. CASE AttemptFails
    BY <1>2, BeginNone DEF AttemptFails, TryLater
  <1>3. CASE SMAILRemoteMsgSMTPSend
    <2>1. ASSUME cfg.relays # <<>>, route' = "smtprelay", TryList(CfgGateways(cfg.relays[1]))
          PROVE  IInv'
      <3>1. GwListOf(route') = CfgGateways(cfg.relays[1])
        BY <2>1 DEF GwListOf
      <3> QED
        BY <1>3, <2>1, <3>1, BeginList DEF ListRoutes
    <2>2. ASSUME cfg.path # <<>>, route' = "relay", TryServer(DefaultGateway(cfg.path[1]), <<>>)
          PROVE  IInv'
      <3>1. DefaultGateway(cfg.path[1]) \in GatewaysOf(route')
        BY <2>2 DEF GatewaysOf
      <3> QED
        BY <1>3, <2>2, <3>1, BeginServer
    <2>3. ASSUME NEW fwd \in USmtpGetFwdGateways, fwd # <<>>, route' = "forward",
                 TryList(CfgGateways(fwd[1]))
          PROVE  IInv'
      <3>1. fwd = cfg.fwd /\ GwListOf(route') = CfgGateways(fwd[1])
        BY <2>3 DEF GwListOf, USmtpGetFwdGateways
      <3> QED
        BY <1>3, <2>3, <3>1, BeginList DEF ListRoutes
    <2>4. ASSUME NEW gws \in {cfg.gws, <<>>}, gws # <<>>, route' = "gateways",
                 TryList(MailExchangers(gws[1]))
          PROVE  IInv'
      <3>1. gws = cfg.gws /\ GwListOf(route') = MailExchangers(gws[1])
        BY <2>4 DEF GwListOf
      <3> QED
        BY <1>3, <2>4, <3>1, BeginList DEF ListRoutes
    <2>5. ASSUME route' = "address", TryServer(DefaultGateway(Domain), <<>>) PROVE IInv'
      <3>1. DefaultGateway(Domain) \in GatewaysOf(route')
        BY <2>5 DEF GatewaysOf
      <3> QED
        BY <1>3, <2>5, <3>1, BeginServer
    <2>6. ASSUME route' = "mx", pc' = "lookup", list' = <<>>, err' = "none",
                 UNCHANGED <<outcome, gw>>
          PROVE  IInv'
      BY <1>3, <2>6, BeginNone
    <2> QED
      BY <1>3, <2>1, <2>2, <2>3, <2>4, <2>5, <2>6 DEF SMAILRemoteMsgSMTPSend
  <1> QED
    BY <1>2, <1>3

-----------------------------------------------------------------------------
(* The verdict on a server preserves the invariant.                        *)

\* What a verdict is about.
LEMMA VerdictFacts ==
    ASSUME IInv, Verdict
    PROVE  /\ pc = "verdict" /\ cfg \in Configs /\ outcome = "pending" /\ sent \in BOOLEAN
           /\ said \in Seq(Answer) /\ said # <<>> /\ Len(said) \in Nat /\ Len(said) > 0
           /\ NoneFinal(Len(said) - 1) /\ (sent <=> said[Len(said)].res = "ok")
           /\ ~sent => (err = "fatal" <=> Refused(said[Len(said)]))
           /\ route \in Routes \ {"none"} /\ gw \in GatewaysOf(route)
           /\ Tries = Hosts(said) /\ Len(Tries) = Len(said)
           /\ UNCHANGED <<cfg, attempts, crashes, copies, unsure, bare, route, chan, sent, ns,
                          dnsErr, cache, said>>
  <1>1. pc = "verdict"
    BY DEF Verdict
  <1>2. /\ cfg \in Configs /\ sent \in BOOLEAN /\ said \in Seq(Answer) /\ route \in Routes
    BY DEF IInv, TypeOK
  <1>3. /\ outcome = "pending" /\ said # <<>> /\ NoneFinal(Len(said) - 1)
        /\ (sent <=> said[Len(said)].res = "ok")
        /\ ~sent => (err = "fatal" <=> Refused(said[Len(said)]))
    BY <1>1 DEF IInv, Answers, Closing
  <1>4. route # "none" /\ gw \in GatewaysOf(route)
    BY <1>1 DEF IInv, Secure, Talking, Closing
  <1>5. Tries = Hosts(said) /\ Len(Tries) = Len(said)
    BY <1>1, TriesProperties DEF IInv, InDialogue
  <1>6. Len(said) \in Nat /\ Len(said) > 0
    BY <1>2, <1>3, EmptySeq
  <1> QED
    BY <1>1, <1>2, <1>3, <1>4, <1>5, <1>6 DEF Verdict, world, dns

\* The attempt is over: settled, or with nothing left to try.
LEMMA VerdictEnds ==
    ASSUME IInv, Verdict, UNCHANGED <<gw, err, list, mxr>>,
           \/ pc' = "settled" /\ outcome' = "delivered" /\ sent
           \/ pc' = "settled" /\ outcome' = "bounced" /\ ~sent /\ err = "fatal"
           \/ /\ pc' = "queued" /\ outcome' = outcome /\ ~sent /\ err # "fatal"
              /\ list = <<>> /\ Candidates(mxr.cost, mxr.curr) = {}
    PROVE  IInv'
  <1>1. /\ pc = "verdict" /\ cfg \in Configs /\ outcome = "pending" /\ sent \in BOOLEAN
        /\ said \in Seq(Answer) /\ said # <<>> /\ Len(said) \in Nat /\ Len(said) > 0
        /\ NoneFinal(Len(said) - 1) /\ (sent <=> said[Len(said)].res = "ok")
        /\ ~sent => (err = "fatal" <=> Refused(said[Len(said)]))
        /\ route \in Routes \ {"none"}
        /\ Tries = Hosts(said) /\ Len(Tries) = Len(said)
        /\ UNCHANGED <<cfg, attempts, crashes, copies, unsure, bare, route, chan, sent, ns,
                       dnsErr, cache, said>>
    BY VerdictFacts
  <1>2. TypeOK'
    BY <1>1 DEF IInv, TypeOK
  <1>3. Answers'
    <2>1. pc' \notin Closing /\ pc' \notin Searching /\ pc' \notin InDialogue
      BY DEF Closing, Searching, InDialogue
    <2>2. NoneFinal(Len(said) - 1)'
      BY <1>1 DEF NoneFinal, NotFinal, Refused
    <2>3. pc' = "queued" => NoneFinal(Len(said))'
      <3> SUFFICES ASSUME pc' = "queued" PROVE NoneFinal(Len(said))'
        OBVIOUS
      <3>1. NotFinal(said[Len(said)])
        BY <1>1 DEF NotFinal
      <3>2. \A i \in 1..Len(said) : NotFinal(said[i])
        BY <1>1, <3>1 DEF NoneFinal
      <3> QED
        BY <1>1, <3>2 DEF NoneFinal, NotFinal, Refused
    <2> QED
      BY <1>1, <2>1, <2>2, <2>3 DEF Answers, Closing, Searching, InDialogue
  <1>4. Grounds'
    BY <1>1 DEF IInv, Grounds, Refused
  <1>5. Copies' /\ RouteExists' /\ ForcedIsSecure'
    BY <1>1, SameConfig DEF IInv, Copies, RouteExists, ForcedIsSecure
  <1>6. pc' \notin Talking /\ pc' \notin InDialogue /\ pc' \notin Searching
    BY DEF Talking, Searching, InDialogue, Closing
  <1>7. Secure'
    BY <1>6 DEF Secure, Talking, InDialogue
  <1>8. Tries' = Tries
    BY <1>1, <1>6 DEF Tries, Hosts
  <1>9. GwList' = GwList /\ Records' = Records
    BY <1>1, SameRoute DEF Records
  <1>10. ListInOrder'
    <2>1. route \in ListRoutes => Len(list) = Len(GwList) - Len(Tries)
      BY <1>1 DEF IInv, ListInOrder, Talking, Closing
    <2>2. ASSUME route \in ListRoutes, pc' = "queued" PROVE Len(Tries) = Len(GwList)
      <3>1. GwList \in Seq(Gateway)
        BY <1>1, <2>2, GwListType DEF IInv, RouteExists, GwList
      <3>2. Len(GwList) \in Nat /\ Len(list) = 0
        BY <2>2, <3>1, LenProperties
      <3> QED
        BY <1>1, <2>1, <2>2, <3>2
    <2> QED
      BY <1>1, <1>6, <1>8, <1>9, <2>2 DEF IInv, ListInOrder, Retried
  <1>11. Marks'
    BY <1>1, <1>6, <1>9 DEF IInv, Marks, MarksOf, Talking, Closing
  <1>12. MXInOrder'
    <2>1. \A r : Marked(r)' <=> Marked(r)
      BY <1>1, <1>9 DEF Marked
    <2>2. ASSUME route = "mx", pc' = "queued", NEW r \in 1..Len(Records) PROVE Marked(r)
      <3>1. mxr # NoMX
        BY <1>1, <2>2 DEF IInv, Marks, Talking, Closing
      <3>2. MarksOf(mxr) /\ mxr.cost \in Seq(Int)
        BY <3>1 DEF IInv, Marks, TypeOK
      <3>3. DOMAIN mxr.cost = 1..Len(Records) /\ 1..Len(mxr.cost) = 1..Len(Records)
        BY <3>2, LenProperties DEF MarksOf, Records
      <3>4. ~Marked(r) => r \in Candidates(mxr.cost, mxr.curr)
        BY <3>2, <3>3 DEF Marked, MarksOf, Candidates, Records
      <3> QED
        BY <2>2, <3>4
    <2>3. route = "mx" =>
            \E order \in [1..Len(Tries) -> 1..Len(Records)] :
                /\ ByPreference(Records, order)
                /\ \A i \in 1..Len(Tries) : Tries[i] = Records[order[i]].host
                /\ mxr # NoMX => \A r \in 1..Len(Records) :
                        Marked(r) <=> \E i \in 1..Len(Tries) : order[i] = r
      BY DEF IInv, MXInOrder
    <2>4. (\E order \in [1..Len(Tries) -> 1..Len(Records)] :
                /\ ByPreference(Records, order)
                /\ \A i \in 1..Len(Tries) : Tries[i] = Records[order[i]].host
                /\ mxr # NoMX => \A r \in 1..Len(Records) :
                        Marked(r) <=> \E i \in 1..Len(Tries) : order[i] = r)'
          \/ route # "mx"
      <3> SUFFICES ASSUME route = "mx"
                   PROVE  (\E order \in [1..Len(Tries) -> 1..Len(Records)] :
                /\ ByPreference(Records, order)
                /\ \A i \in 1..Len(Tries) : Tries[i] = Records[order[i]].host
                /\ mxr # NoMX => \A r \in 1..Len(Records) :
                        Marked(r) <=> \E i \in 1..Len(Tries) : order[i] = r)'
        OBVIOUS
      <3>1. PICK order \in [1..Len(Tries) -> 1..Len(Records)] :
                /\ ByPreference(Records, order)
                /\ \A i \in 1..Len(Tries) : Tries[i] = Records[order[i]].host
                /\ mxr # NoMX => \A r \in 1..Len(Records) :
                        Marked(r) <=> \E i \in 1..Len(Tries) : order[i] = r
        BY <2>3
      <3>2. order \in [1..Len(Tries') -> 1..Len(Records')]
        BY <1>8, <1>9
      <3>3. ByPreference(Records, order)'
        BY <1>1, <3>1, SameRecords
      <3>4. \A i \in 1..Len(Tries') : Tries'[i] = Records'[order[i]].host
        BY <1>8, <1>9, <3>1
      <3>5. mxr' # NoMX => \A r \in 1..Len(Records') :
                        Marked(r)' <=> \E i \in 1..Len(Tries') : order[i] = r
        BY <1>1, <1>8, <1>9, <2>1, <3>1
      <3> QED
        BY <3>2, <3>3, <3>4, <3>5 DEF NoMX
    <2>5. (route = "mx" /\ Retried => \A r \in 1..Len(Records) : Marked(r))'
      BY <1>1, <1>9, <2>1, <2>2 DEF Retried
    <2> QED
      BY <1>1, <2>4, <2>5 DEF MXInOrder
  <1> QED
    BY <1>2, <1>3, <1>4, <1>5, <1>7, <1>10, <1>11, <1>12 DEF IInv

\* The next server, whatever the order it comes from.
LEMMA VerdictGoesOn ==
    ASSUME IInv, Verdict, ~sent, err # "fatal",
           NEW g \in Gateway, NEW rest \in Seq(Gateway), g \in GatewaysOf(route), TryServer(g, rest),
           mxr' \in MXRecords
    PROVE  /\ TypeOK' /\ Answers' /\ Grounds' /\ Copies' /\ RouteExists' /\ Secure'
           /\ ForcedIsSecure'
           /\ Tries' = Append(Hosts(said), g.host)
  <1>1. /\ pc = "verdict" /\ cfg \in Configs /\ outcome = "pending" /\ sent \in BOOLEAN
        /\ said \in Seq(Answer) /\ said # <<>> /\ Len(said) \in Nat /\ Len(said) > 0
        /\ NoneFinal(Len(said) - 1) /\ (sent <=> said[Len(said)].res = "ok")
        /\ ~sent => (err = "fatal" <=> Refused(said[Len(said)]))
        /\ route \in Routes \ {"none"}
        /\ UNCHANGED <<cfg, attempts, crashes, copies, unsure, bare, route, chan, sent, ns,
                       dnsErr, cache, said>>
    BY VerdictFacts
  <1>2. pc' = "connect" /\ gw' = g /\ list' = rest /\ err' = "none" /\ outcome' = outcome
    BY DEF TryServer
  <1>3. TypeOK'
    BY <1>1, <1>2 DEF IInv, TypeOK, MXRecords, MX
  <1>4. Answers'
    <2>1. NotFinal(said[Len(said)])
      BY <1>1 DEF NotFinal
    <2>2. \A i \in 1..Len(said) : NotFinal(said[i])
      BY <1>1, <2>1 DEF NoneFinal
    <2>3. NoneFinal(Len(said))'
      BY <1>1, <2>2 DEF NoneFinal, NotFinal, Refused
    <2> QED
      BY <1>1, <1>2, <2>3 DEF Answers, Closing, Searching, InDialogue
  <1>5. Grounds'
    BY <1>1, <1>2 DEF IInv, Grounds
  <1>6. Copies' /\ RouteExists' /\ ForcedIsSecure'
    BY <1>1, SameConfig DEF IInv, Copies, RouteExists, ForcedIsSecure
  <1>7. Secure'
    BY <1>1, <1>2, SameRoute DEF Secure
  <1>8. Tries' = Append(Hosts(said), g.host)
    BY <1>1, <1>2 DEF Tries, Hosts, InDialogue
  <1> QED
    BY <1>3, <1>4, <1>5, <1>6, <1>7, <1>8

\* The next of a list.
LEMMA VerdictNextOfList ==
    ASSUME IInv, Verdict, ~sent, err # "fatal", list # <<>>,
           TryServer(Head(list), Tail(list)), UNCHANGED mxr
    PROVE  IInv'
  <1>1. /\ pc = "verdict" /\ cfg \in Configs /\ said \in Seq(Answer) /\ Len(said) \in Nat
        /\ Tries = Hosts(said) /\ Len(Tries) = Len(said)
        /\ UNCHANGED <<cfg, route, cache, said>>
    BY VerdictFacts
  <1>2. /\ Head(list) = list[1] /\ Head(list) \in Gateway /\ Tail(list) \in Seq(Gateway)
        /\ Len(list) \in Nat /\ Len(list) > 0 /\ Len(Tail(list)) = Len(list) - 1
        /\ \A i \in 1..Len(Tail(list)) : Tail(list)[i] = list[i + 1]
    <2>1. list \in Seq(Gateway)
      BY DEF IInv, TypeOK
    <2> QED
      BY <2>1, HeadTailProperties, EmptySeq
  <1>3. /\ route \in ListRoutes /\ Len(Tries) <= Len(GwList)
        /\ \A i \in 1..Len(Tries) : Tries[i] = GwList[i].host
        /\ Len(list) = Len(GwList) - Len(Tries)
        /\ \A i \in 1..Len(list) : list[i] = GwList[Len(Tries) + i]
    BY <1>1 DEF IInv, ListInOrder, Talking, Closing
  <1>4. /\ GwList \in Seq(Gateway) /\ Len(GwList) \in Nat
        /\ \A i \in 1..Len(GwList) : GwList[i] \in GatewaysOf(route)
    <2>1. /\ GwListOf(route) \in Seq(Gateway)
          /\ \A i \in 1..Len(GwListOf(route)) : GwListOf(route)[i] \in GatewaysOf(route)
      BY <1>1, <1>3, GwListType DEF IInv, RouteExists
    <2> QED
      BY <2>1, LenProperties DEF GwList
  <1>5. Head(list) = GwList[Len(said) + 1] /\ Len(said) + 1 \in 1..Len(GwList)
    BY <1>1, <1>2, <1>3, <1>4
  <1>6. Head(list) \in GatewaysOf(route)
    BY <1>4, <1>5
  <1>7. mxr' \in MXRecords
    BY DEF IInv, TypeOK, MXRecords, MX
  <1>8. /\ TypeOK' /\ Answers' /\ Grounds' /\ Copies' /\ RouteExists' /\ Secure'
        /\ ForcedIsSecure'
        /\ Tries' = Append(Hosts(said), Head(list).host)
    BY <1>2, <1>6, <1>7, VerdictGoesOn
  <1>9. pc' = "connect" /\ list' = Tail(list)
    BY DEF TryServer
  <1>10. GwList' = GwList /\ Records' = Records
    BY <1>1, SameRoute DEF Records
  <1>11. ListInOrder'
    <2>1. /\ Len(Tries') = Len(said) + 1 /\ Tries'[Len(said) + 1] = GwList[Len(said) + 1].host
          /\ \A i \in 1..Len(said) : Tries'[i] = Tries[i]
      <3>1. Hosts(said) \in Seq(Host) /\ Len(Hosts(said)) = Len(said) /\ Head(list).host \in Host
        BY <1>1, <1>2, HostsProperties DEF Gateway
      <3>2. /\ Len(Append(Hosts(said), Head(list).host)) = Len(said) + 1
            /\ Append(Hosts(said), Head(list).host)[Len(said) + 1] = Head(list).host
            /\ \A i \in 1..Len(said) : Append(Hosts(said), Head(list).host)[i] = Hosts(said)[i]
        BY <3>1, AppendProperties
      <3> QED
        BY <1>1, <1>5, <1>8, <3>2
    <2>2. \A i \in 1..Len(Tries') : Tries'[i] = GwList[i].host
      BY <1>1, <1>3, <2>1
    <2>3. /\ Len(list') = Len(GwList) - Len(Tries')
          /\ \A i \in 1..Len(list') : list'[i] = GwList[Len(Tries') + i]
      <3>1. Len(list') = Len(list) - 1 /\ Len(list') = Len(GwList) - Len(Tries')
        BY <1>1, <1>2, <1>3, <1>4, <1>9, <2>1
      <3>2. ASSUME NEW i \in 1..Len(list') PROVE list'[i] = GwList[Len(Tries') + i]
        <4>1. i \in Int /\ i + 1 \in 1..Len(list) /\ list'[i] = list[i + 1]
          BY <1>2, <1>9, <3>1
        <4>2. Len(Tries) + (i + 1) = Len(Tries') + i
          BY <1>1, <2>1, <4>1
        <4> QED
          BY <1>3, <4>1, <4>2
      <3> QED
        BY <3>1, <3>2
    <2>4. Len(Tries') <= Len(GwList) /\ ~Retried'
      BY <1>4, <1>5, <1>9, <2>1 DEF Retried
    <2> QED
      BY <1>1, <1>3, <1>10, <2>2, <2>3, <2>4 DEF ListInOrder
  <1>12. Marks' /\ MXInOrder'
    <2>1. route # "mx"
      BY <1>3 DEF ListRoutes
    <2> QED
      BY <1>1, <1>10, <2>1 DEF IInv, Marks, MarksOf, MXInOrder
  <1> QED
    BY <1>8, <1>11, <1>12 DEF IInv

\* The next exchanger.
LEMMA VerdictNextExchanger ==
    ASSUME IInv, Verdict, ~sent, err # "fatal", Candidates(mxr.cost, mxr.curr) # {},
           USmtpGetMXNext
    PROVE  IInv'
  <1>1. /\ pc = "verdict" /\ cfg \in Configs /\ said \in Seq(Answer) /\ Len(said) \in Nat
        /\ Tries = Hosts(said) /\ Len(Tries) = Len(said)
        /\ UNCHANGED <<cfg, route, cache, said>>
    BY VerdictFacts
  <1>2. PICK i \in Candidates(mxr.cost, mxr.curr) :
            /\ mxr # NoMX /\ i \in 1..Len(Records)
            /\ mxr' = Taken(mxr, i)
            /\ TryServer(DefaultGateway(Records[i].host), <<>>)
            /\ \A j \in Candidates(mxr.cost, mxr.curr) : mxr.cost[i] <= mxr.cost[j]
    BY NextExchanger DEF IInv
  <1>3. route = "mx"
    BY <1>2 DEF IInv, Marks
  <1>4. PICK order \in [1..Len(Tries) -> 1..Len(Records)] :
            /\ ByPreference(Records, order)
            /\ \A k \in 1..Len(Tries) : Tries[k] = Records[order[k]].host
            /\ \A r \in 1..Len(Records) : Marked(r) <=> \E k \in 1..Len(Tries) : order[k] = r
    BY <1>2, <1>3 DEF IInv, MXInOrder
  <1> DEFINE n == Len(said)
             o2 == Extended(order, n, i)
             g == DefaultGateway(Records[i].host)
  <1>5. Taken(mxr, i) # NoMX /\ TakenInOrder(Taken(mxr, i), n + 1, o2)
    <2>1. mxr \in MXRecords /\ MarksOf(mxr)
      BY <1>2 DEF IInv, TypeOK, Marks, MXRecords, MX
    <2>2. TakenInOrder(mxr, n, order)
      BY <1>1, <1>4, <2>1 DEF TakenInOrder, Marked, Records
    <2>3. IsNext(mxr, i)
      BY <1>2 DEF IsNext
    <2> QED
      BY <1>1, <2>2, <2>3, NextRecord
  <1>6. mxr' \in MXRecords /\ mxr' # NoMX
    BY <1>2, <1>5 DEF TakenInOrder
  <1>7. g \in Gateway /\ g \in GatewaysOf(route) /\ g.host = Records[i].host /\ g.host \in Host
    <2>1. Records \in Seq(MX)
      BY DEF IInv, TypeOK, Records, MX
    <2> QED
      BY <1>1, <1>2, <1>3, <2>1, RecordGateway, DefaultGatewayType
  <1>8. /\ TypeOK' /\ Answers' /\ Grounds' /\ Copies' /\ RouteExists' /\ Secure'
        /\ ForcedIsSecure'
        /\ Tries' = Append(Hosts(said), g.host)
    <2> HIDE DEF g
    <2> QED
      BY <1>2, <1>6, <1>7, ConstantTypes, VerdictGoesOn DEF g
  <1>9. pc' = "connect" /\ list' = <<>>
    BY <1>2 DEF TryServer
  <1>10. GwList' = GwList /\ Records' = Records
    BY <1>1, <1>2, SameRoute DEF Records, Taken
  <1>11. ListInOrder'
    BY <1>1, <1>3, <1>9 DEF ListInOrder, ListRoutes
  <1>12. Marks'
    <2>1. MarksOf(mxr)'
      BY <1>2, <1>5 DEF TakenInOrder, MarksOf
    <2>2. Records \in {Fit(cfg.mx), Fit(cache.mx)} /\ (cache.state = "fresh" => cache.mx # <<>>)
      BY <1>2 DEF IInv, Marks
    <2> QED
      BY <1>1, <1>3, <1>6, <1>9, <1>10, <2>1, <2>2 DEF Marks, Searching
  <1>13. MXInOrder'
    <2>1. /\ Len(Tries') = n + 1 /\ Tries'[n + 1] = Records[i].host
          /\ \A k \in 1..n : Tries'[k] = Tries[k]
      <3>1. Hosts(said) \in Seq(Host) /\ Len(Hosts(said)) = n
        BY <1>1, HostsProperties
      <3> HIDE DEF g, n
      <3>2. /\ Len(Append(Hosts(said), g.host)) = n + 1
            /\ Append(Hosts(said), g.host)[n + 1] = g.host
            /\ \A k \in 1..n : Append(Hosts(said), g.host)[k] = Hosts(said)[k]
        BY <1>7, <3>1, AppendProperties
      <3> QED
        BY <1>1, <1>7, <1>8, <3>2
    <2>2. /\ o2 \in [1..(n + 1) -> 1..Len(Records)] /\ ByPreference(Records, o2)
          /\ \A r \in 1..Len(Records) :
                mxr'.cost[r] # Records[r].cost <=> \E k \in 1..(n + 1) : o2[k] = r
          /\ \A k \in 1..(n + 1) : Tries'[k] = Records[o2[k]].host
      <3>1. Taken(mxr, i).recs = Records
        BY DEF Taken, Records
      <3> QED
        BY <1>1, <1>2, <1>4, <1>5, <2>1, <3>1 DEF TakenInOrder, Extended
    <2>3. PICK o3 \in [1..(n + 1) -> 1..Len(Records)] :
            /\ ByPreference(Records, o3)
            /\ \A r \in 1..Len(Records) :
                mxr'.cost[r] # Records[r].cost <=> \E k \in 1..(n + 1) : o3[k] = r
            /\ \A k \in 1..(n + 1) : Tries'[k] = Records[o3[k]].host
      <3> HIDE DEF o2
      <3> QED
        BY <2>2
    <2>4. ~Retried'
      BY <1>9 DEF Retried
    <2> HIDE DEF o2, n
    <2>5. /\ o3 \in [1..Len(Tries') -> 1..Len(Records)'] /\ ByPreference(Records, o3)'
          /\ \A k \in 1..Len(Tries') : Tries'[k] = Records'[o3[k]].host
          /\ \A r \in 1..Len(Records)' : Marked(r)' <=> \E k \in 1..Len(Tries') : o3[k] = r
      BY <1>1, <1>10, <2>1, <2>3, SameRecords DEF Marked, Records
    <2>6. \E o \in [1..Len(Tries') -> 1..Len(Records)'] :
            /\ ByPreference(Records, o)'
            /\ \A k \in 1..Len(Tries') : Tries'[k] = Records'[o[k]].host
            /\ \A r \in 1..Len(Records)' : Marked(r)' <=> \E k \in 1..Len(Tries') : o[k] = r
      BY <2>5
    <2> QED
      BY <2>4, <2>6 DEF MXInOrder
  <1> QED
    BY <1>8, <1>11, <1>12, <1>13 DEF IInv

LEMMA VerdictInv ==
    ASSUME IInv, Verdict
    PROVE  IInv'
  <1>1. CASE sent /\ Settle("delivered") /\ UNCHANGED mxr
    BY <1>1, VerdictEnds DEF Settle
  <1>2. CASE ~sent /\ err = "fatal" /\ Settle("bounced") /\ UNCHANGED mxr
    BY <1>2, VerdictEnds DEF Settle
  <1>3. CASE /\ ~sent /\ err # "fatal" /\ list # <<>>
             /\ TryServer(Head(list), Tail(list)) /\ UNCHANGED mxr
    BY <1>3, VerdictNextOfList
  <1>4. CASE ~sent /\ err # "fatal" /\ Candidates(mxr.cost, mxr.curr) # {} /\ USmtpGetMXNext
    BY <1>4, VerdictNextExchanger
  <1>5. CASE /\ ~sent /\ err # "fatal" /\ list = <<>> /\ Candidates(mxr.cost, mxr.curr) = {}
             /\ TryLater /\ UNCHANGED mxr
    BY <1>5, VerdictEnds DEF TryLater
  <1> QED
    BY <1>1, <1>2, <1>3, <1>4, <1>5 DEF Verdict

-----------------------------------------------------------------------------
(* The invariant.                                                          *)

\* Between attempts nothing is in hand; so it is at the start and after a crash.
LEMMA CrashInv ==
    ASSUME IInv, Crash
    PROVE  IInv'
  <1>1. /\ pc \notin {"queued", "settled"} /\ crashes < MaxCrashes /\ crashes' = crashes + 1
        /\ pc' = "queued" /\ route' = "none" /\ list' = <<>> /\ mxr' = NoMX
        /\ gw' = NoGateway /\ chan' = NoChannel /\ err' = "none" /\ sent' = FALSE
        /\ ns' = <<>> /\ dnsErr' = "none" /\ said' = <<>>
        /\ UNCHANGED <<cfg, cache, attempts, outcome, copies, unsure, bare>>
    BY DEF Crash
  <1>2. outcome = "pending"
    BY <1>1 DEF IInv, Answers
  <1>3. TypeOK'
    <2>1. crashes' \in 0..MaxCrashes
      BY <1>1, BoundsAssumption DEF IInv, TypeOK
    <2> QED
      BY <1>1, <2>1, ConstantTypes DEF IInv, TypeOK, Routes, Chan, MXRecords, MX
  <1>4. Answers'
    BY <1>1, <1>2 DEF Answers, Searching, InDialogue, Closing, NoneFinal
  <1>5. Grounds'
    BY <1>1, <1>2 DEF Grounds
  <1>6. Copies'
    BY <1>1, BoundsAssumption DEF IInv, Copies, TypeOK
  <1>7. ForcedIsSecure'
    BY <1>1, SameConfig DEF IInv, ForcedIsSecure
  <1>8. RouteExists' /\ Secure' /\ ListInOrder' /\ MXInOrder'
    BY <1>1 DEF RouteExists, Secure, ListInOrder, ListRoutes, Talking, InDialogue, Closing, MXInOrder
  <1>9. Marks'
    BY <1>1 DEF IInv, Marks
  <1> QED
    BY <1>3, <1>4, <1>5, <1>6, <1>7, <1>8, <1>9 DEF IInv

LEMMA InitInv ==
    ASSUME Init
    PROVE  IInv
  <1>1. TypeOK
    <2>1. /\ mxr \in MXRecords /\ gw \in Gateway /\ chan \in Chan /\ cache \in CacheFile
          /\ list \in Seq(Gateway) /\ said \in Seq(Answer) /\ ns \in Seq(Nat)
      BY ConstantTypes DEF Init
    <2>2. /\ attempts \in 0..MaxAttempts /\ crashes \in 0..MaxCrashes
          /\ copies \in Nat /\ unsure \in Nat /\ bare \subseteq [route : Routes, host : Host]
      BY BoundsAssumption DEF Init
    <2> QED
      BY <2>1, <2>2 DEF Init, TypeOK, Routes, Chan, MXRecords, CacheFile, MX
  <1>2. Answers /\ Grounds /\ Copies
    BY DEF Init, Answers, Grounds, Copies, Searching, InDialogue, Closing, NoneFinal
  <1>3. RouteExists /\ Secure /\ ForcedIsSecure
    BY DEF Init, RouteExists, Secure, ForcedIsSecure, Talking, InDialogue, Closing
  <1>4. ListInOrder /\ MXInOrder
    BY DEF Init, ListInOrder, ListRoutes, Talking, InDialogue, Closing, MXInOrder
  <1>5. Marks
    BY DEF Init, Marks, NoCache
  <1> QED
    BY <1>1, <1>2, <1>3, <1>4, <1>5 DEF IInv

\* An expired file of the cache is not read again, and nothing else depends on it.
LEMMA CacheExpiresInv ==
    ASSUME IInv, CacheExpires
    PROVE  IInv'
  <1>1. /\ UNCHANGED <<cfg, attempts, crashes, copies, unsure, bare, pc, route, list, mxr, gw, chan,
                       err, sent, ns, dnsErr, outcome, said>>
        /\ cache' = [cache EXCEPT !.state = "expired"]
    BY DEF CacheExpires, world, servers
  <1>2. cache' \in CacheFile /\ cache'.state = "expired"
    BY <1>1 DEF IInv, TypeOK, CacheFile, MX
  <1>3. TypeOK'
    BY <1>1, <1>2 DEF IInv, TypeOK, CacheFile, MX
  <1>4. Answers' /\ Grounds' /\ Copies'
    <2>1. Answers'
      BY <1>1 DEF IInv, Answers, ListOf, Refused, NoneFinal, NotFinal
    <2>2. Grounds'
      BY <1>1 DEF IInv, Grounds, ListOf, Refused, NoneFinal, NotFinal
    <2>3. Copies'
      BY <1>1 DEF IInv, Copies, ListOf, Refused, NoneFinal, NotFinal
    <2> QED
      BY <2>1, <2>2, <2>3
  <1>5. RouteExists' /\ Secure' /\ ForcedIsSecure'
    BY <1>1, SameConfig DEF IInv, RouteExists, Secure, ForcedIsSecure
  <1>6. Tries' = Tries /\ GwList' = GwList /\ Records' = Records
    BY <1>1, SameRoute DEF Tries, Hosts, Records
  <1>7. ListInOrder'
    BY <1>1, <1>6 DEF IInv, ListInOrder, Retried
  <1>8. Marks'
    BY <1>1, <1>2, <1>6 DEF IInv, Marks, MarksOf
  <1>9. MXInOrder'
    BY <1>1, <1>6, SameRecords DEF IInv, MXInOrder, Marked, Retried
  <1> QED
    BY <1>3, <1>4, <1>5, <1>7, <1>8, <1>9 DEF IInv

LEMMA StutterInv ==
    ASSUME IInv, UNCHANGED vars
    PROVE  IInv'
  <1>1. UNCHANGED <<cfg, attempts, crashes, copies, unsure, bare, pc, route, list, mxr, gw, chan,
                    err, sent, ns, dnsErr, cache, outcome, said>>
    BY DEF vars, dns
  <1>2. TypeOK'
    BY <1>1 DEF IInv, TypeOK
  <1>3. Answers' /\ Grounds' /\ Copies'
    <2>1. Answers'
      BY <1>1 DEF IInv, Answers, ListOf, Refused, NoneFinal, NotFinal
    <2>2. Grounds'
      BY <1>1 DEF IInv, Grounds, ListOf, Refused, NoneFinal, NotFinal
    <2>3. Copies'
      BY <1>1 DEF IInv, Copies, ListOf, Refused, NoneFinal, NotFinal
    <2> QED
      BY <2>1, <2>2, <2>3
  <1>4. RouteExists' /\ Secure' /\ ForcedIsSecure'
    BY <1>1, SameConfig DEF IInv, RouteExists, Secure, ForcedIsSecure
  <1>5. Tries' = Tries /\ GwList' = GwList /\ Records' = Records
    BY <1>1, SameRoute DEF Tries, Hosts, Records
  <1>6. ListInOrder'
    BY <1>1, <1>5 DEF IInv, ListInOrder, Retried
  <1>7. Marks'
    BY <1>1, <1>5 DEF IInv, Marks, MarksOf
  <1>8. MXInOrder'
    BY <1>1, <1>5, SameRecords DEF IInv, MXInOrder, Marked, Retried
  <1> QED
    BY <1>2, <1>3, <1>4, <1>6, <1>7, <1>8 DEF IInv

\* The inductive invariant holds, whatever servers, name servers and crashes do.
THEOREM Invariance == Spec => []IInv
  <1>1. Init => IInv
    BY InitInv
  <1>2. IInv /\ [Next]_vars => IInv'
    <2> SUFFICES ASSUME IInv, [Next]_vars PROVE IInv'
      OBVIOUS
    <2>1. CASE SMAILRemoteMsgSMTPSend \/ AttemptFails
      BY <2>1, BeginInv
    <2>2. CASE Lookup
      BY <2>2, LookupKinds, AsksInv, FindsInv, FailsInv
    <2>3. CASE Dialogue
      BY <2>3, DialogueKinds, GoesInv, GivesInv, ClosesInv
    <2>4. CASE Verdict
      BY <2>4, VerdictInv
    <2>5. CASE CacheExpires
      BY <2>5, CacheExpiresInv
    <2>6. CASE Crash
      BY <2>6, CrashInv
    <2>7. CASE UNCHANGED vars
      BY <2>7, StutterInv
    <2> QED
      BY <2>1, <2>2, <2>3, <2>4, <2>5, <2>6, <2>7 DEF Next, Attempt
  <1> QED
    BY <1>1, <1>2, PTL DEF Spec

-----------------------------------------------------------------------------
(* What follows from it.                                                   *)

\* Every variable keeps to its type.
THEOREM SpecTypeOK == Spec => []TypeOK
  <1>1. IInv => TypeOK
    BY DEF IInv
  <1> QED
    BY <1>1, Invariance, PTL

\* The outcome of an attempt is that of the last server's answer, with QUIT's:
\* a server that takes the message or refuses it for good is the last one, and
\* only such a server settles the matter (SMAILSvr.cpp:540).
THEOREM SpecOutcomeMatchesAnswers == Spec => []OutcomeMatchesAnswers
  <1>1. IInv => OutcomeMatchesAnswers
    <2> SUFFICES ASSUME IInv PROVE OutcomeMatchesAnswers
      OBVIOUS
    <2>1. said \in Seq(Answer) /\ Len(said) \in Nat
      BY DEF IInv, TypeOK
    <2>2. NoneFinal(Len(said) - 1)
      <3>1. CASE pc \in Closing \cup {"settled"}
        BY <3>1 DEF IInv, Answers
      <3>2. CASE pc \in InDialogue \cup {"queued"}
        BY <2>1, <3>2 DEF IInv, Answers, NoneFinal
      <3>3. CASE pc \in Searching
        BY <3>3 DEF IInv, Answers, NoneFinal
      <3> QED
        BY <3>1, <3>2, <3>3 DEF IInv, TypeOK, Closing, InDialogue, Searching
    <2>3. Retried => NotFinal(said[Len(said)])
      <3>1. Retried => NoneFinal(Len(said)) /\ said # <<>>
        BY DEF IInv, Answers, Retried
      <3>2. said # <<>> => Len(said) \in 1..Len(said)
        BY <2>1, EmptySeq
      <3> QED
        BY <3>1, <3>2 DEF NoneFinal
    <2> QED
      BY <2>2, <2>3 DEF IInv, Grounds, OutcomeMatchesAnswers, NoneFinal, NotFinal
  <1> QED
    BY <1>1, Invariance, PTL

\* A recipient gets one copy, and one more for each confirmation that was lost
\* and each crash; a sender who is told of a failure has had it delivered only
\* in these cases.
THEOREM SpecCopiesAreExplained == Spec => []CopiesAreExplained
  <1>1. IInv => CopiesAreExplained
    <2> SUFFICES ASSUME IInv PROVE CopiesAreExplained
      OBVIOUS
    <2>1. copies \in Nat /\ unsure \in Nat /\ crashes \in Nat
      BY BoundsAssumption DEF IInv, TypeOK
    <2>2. copies <= unsure + crashes + (IF sent THEN 1 ELSE 0)
      BY DEF IInv, Copies
    <2>3. outcome = "bounced" => ~sent
      BY DEF IInv, Grounds
    <2> QED
      BY <2>1, <2>2, <2>3 DEF CopiesAreExplained
  <1> QED
    BY <1>1, Invariance, PTL

\* No server gets the message over a plain connection unless the options of the
\* route allow it, whatever it answers to EHLO and STARTTLS (SMTPUtils.cpp:1185).
THEOREM SpecForcedIsSecure == Spec => []ForcedIsSecure
  <1>1. IInv => ForcedIsSecure
    BY DEF IInv
  <1> QED
    BY <1>1, Invariance, PTL

\* Gateways are tried in the order of their list, exchangers in that of their
\* preference, each once, and all of them before the message is left for later.
THEOREM SpecTriedByPreference == Spec => []TriedByPreference
  <1>1. IInv => TriedByPreference
    <2> SUFFICES ASSUME IInv PROVE TriedByPreference
      OBVIOUS
    <2> DEFINE tried == Hosts(said)
    <2>1. /\ cfg \in Configs /\ said \in Seq(Answer) /\ Len(said) \in Nat
          /\ tried \in Seq(Host) /\ Len(tried) = Len(said)
      BY HostsProperties DEF IInv, TypeOK
    <2>2. /\ Len(tried) <= Len(Tries) /\ Len(Tries) \in Nat
          /\ \A i \in 1..Len(tried) : tried[i] = Tries[i]
          /\ Retried => tried = Tries
      BY <2>1, TriesProperties, HostsProperties DEF IInv, Retried, InDialogue
    <2>3. ASSUME route \in ListRoutes
          PROVE  /\ Len(tried) <= Len(ListOf(cfg))
                 /\ tried = Hosts(SubSeq(ListOf(cfg), 1, Len(tried)))
                 /\ Retried => Len(tried) = Len(ListOf(cfg))
      <3>1. ListOf(cfg) = Entries(route)
        BY <2>3 DEF ListOf, Entries, ListRoutes
      <3>2. /\ ListOf(cfg) \in Seq(GatewayEntry) /\ Len(ListOf(cfg)) \in Nat
            /\ Len(GwList) = Len(ListOf(cfg))
            /\ \A i \in 1..Len(ListOf(cfg)) : GwList[i].host = ListOf(cfg)[i].host
        BY <2>1, <2>3, <3>1, GwListType DEF IInv, RouteExists, GwList
      <3>3. /\ Len(Tries) <= Len(GwList)
            /\ Retried => Len(Tries) = Len(GwList)
            /\ \A i \in 1..Len(Tries) : Tries[i] = GwList[i].host
        BY <2>3 DEF IInv, ListInOrder
      <3>4. Len(tried) <= Len(ListOf(cfg)) /\ (Retried => Len(tried) = Len(ListOf(cfg)))
        BY <2>1, <2>2, <3>2, <3>3 DEF IInv, ListInOrder
      <3>5. tried = Hosts(SubSeq(ListOf(cfg), 1, Len(tried)))
        <4> DEFINE part == SubSeq(ListOf(cfg), 1, Len(tried))
        <4>1. /\ Len(part) = Len(tried)
              /\ \A i \in 1..Len(tried) : part[i] = ListOf(cfg)[i]
          BY <2>1, <3>2, <3>4
        <4>2. \A i \in 1..Len(tried) : tried[i] = part[i].host
          BY <2>1, <2>2, <3>2, <3>3, <3>4, <4>1
        <4>3. tried = [i \in 1..Len(tried) |-> tried[i]]
          BY <2>1
        <4> HIDE DEF part, tried
        <4>4. [i \in 1..Len(tried) |-> tried[i]] = [i \in 1..Len(part) |-> part[i].host]
          BY <4>1, <4>2
        <4> QED
          BY <4>3, <4>4 DEF Hosts, part
      <3> QED
        BY <3>4, <3>5
    <2>4. ASSUME route = "mx"
          PROVE  \E order \in [1..Len(tried) -> 1..Len(Records)] :
                    /\ ByPreference(Records, order)
                    /\ \A i \in 1..Len(tried) : tried[i] = Records[order[i]].host
                    /\ Retried => \A r \in 1..Len(Records) : \E i \in 1..Len(tried) : order[i] = r
      <3>1. PICK o \in [1..Len(Tries) -> 1..Len(Records)] :
                /\ ByPreference(Records, o)
                /\ \A i \in 1..Len(Tries) : Tries[i] = Records[o[i]].host
                /\ mxr # NoMX => \A r \in 1..Len(Records) :
                        Marked(r) <=> \E i \in 1..Len(Tries) : o[i] = r
        BY <2>4 DEF IInv, MXInOrder
      <3> DEFINE order == [i \in 1..Len(tried) |-> o[i]]
      <3>2. order \in [1..Len(tried) -> 1..Len(Records)] /\ \A i \in 1..Len(tried) : order[i] = o[i]
        BY <2>1, <2>2
      <3>3. ByPreference(Records, order)
        <4>1. /\ \A i, j \in 1..Len(Tries) : o[i] = o[j] => i = j
              /\ \A i \in 1..Len(Tries), r \in 1..Len(Records) :
                    Records[r].cost < Records[o[i]].cost => \E k \in 1..(i - 1) : o[k] = r
          BY <3>1 DEF ByPreference
        <4>2. DOMAIN order = 1..Len(tried) /\ 1..Len(tried) \subseteq 1..Len(Tries)
              /\ \A i \in 1..Len(tried) : 1..(i - 1) \subseteq 1..Len(tried)
          BY <2>1, <2>2
        <4> HIDE DEF order, tried
        <4>3. \A i, j \in 1..Len(tried) : order[i] = order[j] => i = j
          BY <3>2, <4>1, <4>2
        <4>4. ASSUME NEW i \in 1..Len(tried), NEW r \in 1..Len(Records),
                     Records[r].cost < Records[order[i]].cost
              PROVE  \E k \in 1..(i - 1) : order[k] = r
          <5>1. PICK k \in 1..(i - 1) : o[k] = r
            BY <3>2, <4>1, <4>2, <4>4
          <5>2. order[k] = o[k]
            BY <3>2, <4>2
          <5> QED
            BY <5>1, <5>2
        <4> QED
          BY <4>2, <4>3, <4>4 DEF ByPreference
      <3>4. \A i \in 1..Len(tried) : tried[i] = Records[order[i]].host
        BY <2>1, <2>2, <3>1, <3>2
      <3>5. ASSUME Retried, NEW r \in 1..Len(Records)
            PROVE  \E i \in 1..Len(tried) : order[i] = r
        <4>1. mxr # NoMX
          BY <2>4, <3>5 DEF IInv, Marks, Retried
        <4>2. Marked(r)
          BY <2>4, <3>5 DEF IInv, MXInOrder
        <4>3. \E i \in 1..Len(Tries) : o[i] = r
          BY <3>1, <4>1, <4>2
        <4> QED
          BY <2>2, <3>2, <3>5, <4>3
      <3> HIDE DEF order
      <3> QED
        BY <3>2, <3>3, <3>4, <3>5
    <2>5. route = "mx" /\ said # <<>> => Records \in {Fit(cfg.mx), Fit(cache.mx)}
      BY DEF IInv, Marks
    <2> QED
      BY <2>3, <2>4, <2>5 DEF TriedByPreference
  <1> QED
    BY <1>1, Invariance, PTL
-----------------------------------------------------------------------------
(* The promise of AtLeastOnce, step by step.                               *)

\* What AtLeastOnce cannot see.
LEMMA UnseenStep ==
    ASSUME UNCHANGED <<cfg, outcome, copies, sent, unsure, crashes>>
    PROVE  UNCHANGED ALO!vars
  BY DEF ALO!vars, Discards, Empty

\* A list without gateways is that of a configuration which discards messages.
LEMMA EmptyListDiscards ==
    ASSUME cfg \in Configs, NEW fwd \in USmtpGetFwdGateways, NEW gws \in {cfg.gws, <<>>}
    PROVE  /\ cfg.relays # <<>> /\ CfgGateways(cfg.relays[1]) = <<>> => Discards
           /\ /\ cfg.relays = <<>> /\ cfg.path = <<>>
              /\ \/ fwd # <<>> /\ CfgGateways(fwd[1]) = <<>>
                 \/ gws # <<>> /\ MailExchangers(gws[1]) = <<>>
              => Discards
  <1>1. /\ cfg.relays \in Gateways /\ cfg.fwd \in Gateways /\ cfg.gws \in Gateways
    BY ConfigParts
  <1>2. \A lists \in Gateways : lists # <<>> => lists[1] \in Seq(GatewayEntry)
    <2> SUFFICES ASSUME NEW lists \in Seq(Seq(GatewayEntry)), lists # <<>>
                 PROVE  lists[1] \in Seq(GatewayEntry)
      BY DEF Gateways, GatewayEntry
    <2>1. 1 \in 1..Len(lists)
      BY EmptySeq, LenProperties
    <2> QED
      BY <2>1, ElementOfSeq
  <1>3. ASSUME NEW entries \in Seq(GatewayEntry)
        PROVE  /\ CfgGateways(entries) = <<>> => entries = <<>>
               /\ MailExchangers(entries) = <<>> => entries = <<>>
    <2>1. Len(entries) \in Nat /\ DOMAIN CfgGateways(entries) = 1..Len(entries)
          /\ DOMAIN MailExchangers(entries) = 1..Len(entries)
      BY LenProperties DEF CfgGateways, MailExchangers
    <2>2. DOMAIN <<>> = {}
      OBVIOUS
    <2>3. Len(entries) = 0 => entries = <<>>
      BY EmptySeq
    <2>4. 1..Len(entries) = {} => Len(entries) = 0
      BY <2>1
    <2> QED
      BY <2>1, <2>2, <2>3, <2>4
  <1> HIDE DEF Gateways
  <1> QED
    BY <1>1, <1>2, <1>3 DEF USmtpGetFwdGateways, Discards, Empty

LEMMA InitIsAtLeastOnce ==
    ASSUME Init
    PROVE  ALO!Init
  <1>1. Discards \in BOOLEAN
    BY DEF Discards
  <1>2. unsure + crashes = 0
    BY DEF Init
  <1> QED
    BY <1>1, <1>2 DEF Init, ALO!Init

\* An attempt begins: nothing is seen of it, unless there is nobody to send to.
LEMMA BeginIsAtLeastOnce ==
    ASSUME IInv, SMAILRemoteMsgSMTPSend \/ AttemptFails
    PROVE  [ALO!Next]_ALO!vars
  <1>1. /\ cfg \in Configs /\ outcome = "pending" /\ sent = FALSE /\ sent' = FALSE
        /\ UNCHANGED <<cfg, copies, unsure, crashes>>
    <2>1. pc = "queued" /\ sent' = FALSE /\ UNCHANGED <<cfg, copies, unsure, crashes>>
      BY DEF SMAILRemoteMsgSMTPSend, AttemptFails
    <2> QED
      BY <2>1 DEF IInv, TypeOK, Answers, Closing
  <1>2. outcome' = outcome \/ (outcome' = "delivered" /\ Discards)
    <2>1. CASE AttemptFails
      BY <2>1 DEF AttemptFails, TryLater
    <2>2. CASE SMAILRemoteMsgSMTPSend
      <3>1. PICK fwd \in USmtpGetFwdGateways, gws \in {cfg.gws, <<>>} :
              \/ UNCHANGED outcome
              \/ cfg.relays # <<>> /\ TryList(CfgGateways(cfg.relays[1]))
              \/ /\ cfg.relays = <<>> /\ cfg.path = <<>>
                 /\ \/ fwd # <<>> /\ TryList(CfgGateways(fwd[1]))
                    \/ gws # <<>> /\ TryList(MailExchangers(gws[1]))
        BY <2>2 DEF SMAILRemoteMsgSMTPSend, TryServer
      <3>2. ASSUME NEW entries, TryList(entries)
            PROVE  outcome' = outcome \/ (outcome' = "delivered" /\ entries = <<>>)
        BY <3>2 DEF TryList, Settle, TryServer
      <3> QED
        BY <1>1, <3>1, <3>2, EmptyListDiscards
    <2> QED
      BY <2>1, <2>2
  <1>3. CASE outcome' = outcome
    BY <1>1, <1>3, UnseenStep
  <1>4. CASE outcome' = "delivered" /\ Discards
    <2>1. Discards' = Discards
      BY <1>1 DEF Discards, Empty
    <2>2. ALO!Deliver
      BY <1>1, <1>4, <2>1 DEF ALO!Deliver
    <2> QED
      BY <2>2 DEF ALO!Next
  <1> QED
    BY <1>2, <1>3, <1>4

\* The search for mail exchangers sends nothing, so that a domain which does not
\* exist may be reported.
LEMMA LookupIsAtLeastOnce ==
    ASSUME IInv, Lookup
    PROVE  [ALO!Next]_ALO!vars
  <1>1. /\ outcome = "pending" /\ ~sent
        /\ UNCHANGED <<cfg, sent, copies, unsure, crashes>>
        /\ outcome' \in {outcome, "bounced"}
    <2>1. /\ pc \in Searching /\ UNCHANGED <<world, sent>>
          /\ outcome' \in {outcome, "bounced"}
      BY LookupKinds DEF Asks, Finds, Fails, LookupFailed, USmtpGetMXFirst, TryServer,
         TryLater, Settle
    <2> QED
      BY <2>1 DEF IInv, Answers, Searching, Closing, world
  <1>2. CASE outcome' = outcome
    BY <1>1, <1>2, UnseenStep
  <1>3. CASE outcome' = "bounced"
    <2>1. Discards' = Discards
      BY <1>1 DEF Discards, Empty
    <2>2. ALO!Bounce
      BY <1>1, <1>3, <2>1 DEF ALO!Bounce
    <2> QED
      BY <2>2 DEF ALO!Next
  <1> QED
    BY <1>1, <1>2, <1>3

\* Of the dialogue only the answer of a server that took the message is seen;
\* its reply to QUIT is not.
LEMMA DialogueIsAtLeastOnce ==
    ASSUME IInv, Dialogue
    PROVE  [ALO!Next]_ALO!vars
  <1>1. CASE Goes \/ USmtpCloseChannel
    <2>1. UNCHANGED <<cfg, outcome, copies, sent, unsure, crashes>>
      BY <1>1 DEF Goes, USmtpCloseChannel, Channel
    <2> QED
      BY <2>1, UnseenStep
  <1>2. CASE Gives
    <2>1. /\ outcome = "pending" /\ sent = FALSE /\ sent' \in BOOLEAN
          /\ UNCHANGED <<cfg, outcome, crashes>>
      BY <1>2 DEF Gives, Channel, IInv, TypeOK, Answers, InDialogue, Closing
    <2>2. copies \in Nat /\ unsure \in Nat /\ crashes \in Nat
      BY BoundsAssumption DEF IInv, TypeOK
    <2>3. Discards' = Discards
      BY <2>1 DEF Discards, Empty
    <2>4. CASE ~sent' /\ UNCHANGED <<copies, unsure>>
      BY <2>1, <2>4, UnseenStep
    <2>5. CASE sent' /\ copies' = copies + 1 /\ UNCHANGED unsure
      <3>1. ALO!Confirm
        BY <2>1, <2>3, <2>5 DEF ALO!Confirm
      <3> QED
        BY <3>1 DEF ALO!Next
    <2>6. CASE ~sent' /\ copies' = copies + 1 /\ unsure' = unsure + 1
      <3>1. unsure' + crashes' = unsure + crashes + 1
        BY <2>1, <2>2, <2>6
      <3>2. sent' = FALSE
        BY <2>1, <2>6
      <3>3. ALO!TakeUnseen
        BY <2>1, <2>3, <2>6, <3>1, <3>2 DEF ALO!TakeUnseen
      <3> QED
        BY <3>3 DEF ALO!Next
    <2> QED
      BY <1>2, <2>4, <2>5, <2>6 DEF Gives
  <1> QED
    BY <1>1, <1>2, DialogueKinds

\* The loop over the servers ends with what was confirmed.
LEMMA VerdictIsAtLeastOnce ==
    ASSUME IInv, Verdict
    PROVE  [ALO!Next]_ALO!vars
  <1>1. outcome = "pending" /\ UNCHANGED <<cfg, copies, sent, unsure, crashes>>
    BY VerdictFacts
  <1>2. Discards' = Discards
    BY <1>1 DEF Discards, Empty
  <1>3. \/ sent /\ outcome' = "delivered"
        \/ ~sent /\ outcome' = "bounced"
        \/ outcome' = outcome
    BY DEF Verdict, Settle, TryServer, TryLater, USmtpGetMXNext
  <1>4. CASE sent /\ outcome' = "delivered"
    <2>1. ALO!Deliver
      BY <1>1, <1>2, <1>4 DEF ALO!Deliver
    <2> QED
      BY <2>1 DEF ALO!Next
  <1>5. CASE ~sent /\ outcome' = "bounced"
    <2>1. ALO!Bounce
      BY <1>1, <1>2, <1>5 DEF ALO!Bounce
    <2> QED
      BY <2>1 DEF ALO!Next
  <1>6. CASE outcome' = outcome
    BY <1>1, <1>6, UnseenStep
  <1> QED
    BY <1>3, <1>4, <1>5, <1>6

LEMMA CrashIsAtLeastOnce ==
    ASSUME IInv, Crash
    PROVE  [ALO!Next]_ALO!vars
  <1>1. /\ outcome = "pending" /\ sent' = FALSE /\ crashes' = crashes + 1
        /\ UNCHANGED <<cfg, outcome, copies, unsure>>
    BY DEF Crash, IInv, Answers
  <1>2. unsure \in Nat /\ crashes \in Nat
    BY BoundsAssumption DEF IInv, TypeOK
  <1>3. unsure' + crashes' = unsure + crashes + 1
    BY <1>1, <1>2
  <1>4. Discards' = Discards
    BY <1>1 DEF Discards, Empty
  <1>5. ALO!Forget
    BY <1>1, <1>3, <1>4 DEF ALO!Forget
  <1> QED
    BY <1>5 DEF ALO!Next

\* All attempts together deliver at least once, whatever the servers answer and
\* however often this one crashes; a message is bounced only while no copy is
\* known to have arrived, and a second copy needs a doubt (SMAILSvr.cpp:540).
THEOREM Refinement == Spec => ImplementsAtLeastOnce
  <1>1. Init => ALO!Init
    BY InitIsAtLeastOnce
  <1>2. IInv /\ [Next]_vars => [ALO!Next]_ALO!vars
    <2> SUFFICES ASSUME IInv, [Next]_vars PROVE [ALO!Next]_ALO!vars
      OBVIOUS
    <2>1. CASE CacheExpires \/ UNCHANGED vars
      <3>1. UNCHANGED <<cfg, outcome, copies, sent, unsure, crashes>>
        BY <2>1 DEF CacheExpires, vars, world
      <3> QED
        BY <3>1, UnseenStep
    <2> QED
      BY <2>1, BeginIsAtLeastOnce, LookupIsAtLeastOnce, DialogueIsAtLeastOnce,
         VerdictIsAtLeastOnce, CrashIsAtLeastOnce DEF Next, Attempt
  <1>3. Spec => ALO!Init /\ [][ALO!Next]_ALO!vars
    BY <1>1, <1>2, Invariance, PTL DEF Spec
  <1> QED
    BY <1>3 DEF ImplementsAtLeastOnce, ALO!Spec
=============================================================================
