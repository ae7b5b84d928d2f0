--------------------------- MODULE Accounts_proof ---------------------------
(***************************************************************************)
(* Proofs about Accounts for any number of sessions, threads, domains and  *)
(* accounts, any commands, and any number of faults and crashes.           *)
(***************************************************************************)
EXTENDS Accounts, TLAPS

(***************************************************************************)
(* What each step of each command still owes.  A session is past the row   *)
(* of its userdel or domaindel when it has removed it and goes on.         *)
(***************************************************************************)
UserPast == {"links", "extaliases", "aliases", "clear", "rmdir"}
DomainPast == {"users", "aliases", "extaliases", "links", "adomains", "clear", "rmdir"}
LabelsOf(op) ==
    CASE op = "none" -> {"idle"}
      [] op = "useradd" -> {"check", "alias", "dir", "row"}
      [] op = "userdel" -> {"check", "row"} \cup UserPast
      [] op = "domainadd" -> {"check", "row", "dir"}
      [] op = "domaindel" -> {"row"} \cup DomainPast
      [] op \in {"aliasadd", "adomainadd"} -> {"target", "overlap", "row"}
      [] OTHER -> {"row"}

Adding(s, a, steps) == cmd[s].op = "useradd" /\ cmd[s].a = a /\ at[s] \in steps
Deleting(s, a, steps) == cmd[s].op = "userdel" /\ cmd[s].a = a /\ at[s] \in steps
DomAdding(s, d, steps) == cmd[s].op = "domainadd" /\ cmd[s].d = d /\ at[s] \in steps
DomDeleting(s, d, steps) == cmd[s].op = "domaindel" /\ cmd[s].d = d /\ at[s] \in steps
Linking(s, a, to, steps) == cmd[s].op = "aliasadd" /\ cmd[s].a = a /\ cmd[s].to = to /\ at[s] \in steps
DomLinking(s, d, to, steps) ==
    cmd[s].op = "adomainadd" /\ cmd[s].d = d /\ cmd[s].to = to /\ at[s] \in steps
User(a) == RowsFor("users", a)

\* Sessions are where their commands can be.
StepsFit ==
    /\ \A s \in Sessions : at[s] \in LabelsOf(cmd[s].op)
    /\ \A s \in Sessions : seen[s] # {} => cmd[s].op = "domaindel" /\ at[s] = "rmdir"
    /\ \A s \in Sessions : \A a \in seen[s] : DomainOf[a] = cmd[s].d

\* Commands that overlap have torn what they may tear.
PairsTear == \A s, q \in Sessions : Tears(cmd[s], cmd[q]) \subseteq torn

\* Rows of users: one for an account, of an incarnation that was born.  The
\* lock of the users lets one session at a time be between its directory and
\* its row.
RowsAreApart ==
    /\ \A u, v \in tab["users"] : u.a = v.a => u = v
    /\ \A u \in tab["users"] : u.gen # 0
    /\ \A r, q \in tab["adomains"] : r.d = q.d => r = q
    /\ \A p \in Deliverers : box[p] # Nobody => box[p].gen # 0
    /\ \A s \in Sessions, a \in Accounts : Adding(s, a, {"row"}) => User(a) = {} /\ born[a] # 0
    /\ \A s, q \in Sessions : \A a, b \in Accounts :
            Adding(s, a, {"row"}) /\ Adding(q, b, {"row"}) => s = q

DirsNest ==
    /\ \A a \in dirs : DomainOf[a] \in domDirs
    /\ \A a \in Accounts \ dirs : mail[a] = {}

DomainIsWhole(d) ==
    /\ Handled(d) => d \in domDirs \/ \E s \in Sessions : DomAdding(s, d, {"dir"})
    /\ d \in domDirs =>
        \/ Handled(d)
        \/ \E s \in Sessions : DomDeleting(s, d, DomainPast)
        \/ \E a \in late \cup torn : a \in Accounts /\ DomainOf[a] = d
    /\ \A s \in Sessions :
        /\ DomAdding(s, d, {"dir"}) => Handled(d)
        /\ DomDeleting(s, d, DomainPast) => ~Handled(d)
        /\ DomDeleting(s, d, DomainPast \ {"users"}) => UsersIn(d) = {}
        /\ DomDeleting(s, d, {"rmdir"}) => \A a \in dirs : DomainOf[a] = d =>
                a \in seen[s] /\ (mail[a] # {} => a \in late)

UserIsWhole(a) ==
    /\ User(a) # {} =>
        /\ a \in dirs
        /\ Handled(DomainOf[a]) \/ \E s \in Sessions : DomDeleting(s, DomainOf[a], {"users"})
    /\ a \in dirs =>
        \/ User(a) # {} \/ a \in late
        \/ \E s \in Sessions : Adding(s, a, {"row"}) \/ Deleting(s, a, UserPast)
                               \/ DomDeleting(s, DomainOf[a], DomainPast)
    /\ \A s \in Sessions :
        /\ Adding(s, a, {"alias", "dir", "row"}) => Handled(DomainOf[a])
        /\ Adding(s, a, {"row"}) => a \in dirs
        /\ Deleting(s, a, UserPast) =>
            /\ User(a) = {}
            /\ a \in dirs \/ ~Handled(DomainOf[a])
            /\ \A q \in Sessions : ~Adding(q, a, {"row"}) /\ (Deleting(q, a, UserPast) => q = s)
        /\ Deleting(s, a, {"rmdir"}) => mail[a] = {} \/ a \in late

\* What is in a mailbox is for the user who has it, or came late.
MailIsOwned ==
    \A a \in Accounts \ late :
        /\ \A u \in User(a) : mail[a] \subseteq {u.gen}
        /\ \A s \in Sessions : Adding(s, a, {"row"}) => mail[a] = {}

\* A row of a user who is gone is about to be removed.
RowsAreOwned(a) ==
    /\ \A t \in Owned : \A r \in RowsFor(t, a) :
        \/ r.gen = 0 \/ \E u \in User(a) : u.gen = r.gen
        \/ \E s \in Sessions :
            \/ Deleting(s, a, {"links"} \cup {t})
            \/ DomDeleting(s, DomainOf[a], {"aliases", "extaliases", t})
    /\ \A r \in AliasesTo(a) : DomainOf[r.a] = DomainOf[a] =>
        \/ \E u \in User(a) : u.gen = r.gen
        \/ \E s \in Sessions :
            \/ Deleting(s, a, {"links", "extaliases", "aliases"})
            \/ DomDeleting(s, DomainOf[a], {"aliases"})
    /\ \A s \in Sessions, b \in Accounts :
            Linking(s, b, a, {"overlap", "row"}) => User(a) # {}

UserOrAlias(a) ==
    /\ User(a) = {} \/ RowsFor("aliases", a) = {}
    /\ \A s \in Sessions :
        /\ Adding(s, a, {"dir", "row"}) => RowsFor("aliases", a) = {}
        /\ \A b \in Accounts : Linking(s, a, b, {"row"}) => User(a) = {}

DomainOrAlias(d) ==
    /\ \A r \in AliasDomain(d) : r.to \notin torn =>
        /\ ~Handled(d)
        /\ Handled(r.to) \/ \E s \in Sessions : DomDeleting(s, r.to, DomainPast \ {"clear", "rmdir"})
    /\ \A s \in Sessions :
        /\ DomAdding(s, d, {"row"}) => \A r \in AliasDomain(d) : r.to \in torn
        /\ \A to \in Domains \ torn : DomLinking(s, d, to, {"overlap", "row"}) => Handled(to)
        /\ \A to \in Domains : DomLinking(s, d, to, {"row"}) => ~Handled(d)

IInv ==
    /\ TypeOK /\ StepsFit /\ PairsTear /\ RowsAreApart /\ DirsNest /\ MailIsOwned
    /\ \A d \in Domains \ torn : DomainIsWhole(d) /\ DomainOrAlias(d)
    /\ \A a \in Accounts \ torn : UserOrAlias(a)
    /\ \A a \in Accounts : Whole(a) => UserIsWhole(a) /\ RowsAreOwned(a)
-----------------------------------------------------------------------------
(* Commands, and what their steps do. *)

LEMMA CommandFields ==
    ASSUME TypeOK, NEW s \in Sessions
    PROVE  LET c == cmd[s]
           IN  /\ c.op \in {"none", "useradd", "userdel", "aliasdel", "aliasadd", "ownadd", "owndel",
                            "domainadd", "domaindel", "adomaindel", "adomainadd"}
               /\ c.op = "none" <=> c = None
               /\ c.op \in {"useradd", "userdel", "aliasdel", "ownadd", "owndel", "aliasadd"} => c.a \in Accounts
               /\ c.op = "aliasadd" => c.to \in Accounts
               /\ c.op \in {"ownadd", "owndel"} => c.table \in Owned
               /\ c.op \in {"domainadd", "domaindel", "adomaindel", "adomainadd"} => c.d \in Domains
               /\ c.op = "adomainadd" => c.to \in Domains
  <1>1. cmd[s] \in Commands \cup {None}
    BY AccountsAssumption DEF TypeOK
  <1> QED
    BY <1>1 DEF Commands, None

\* The session is at label next, and has no command left at "idle".
Goes(s, next) ==
    /\ at' = [at EXCEPT ![s] = next]
    /\ cmd' = [cmd EXCEPT ![s] = IF next = "idle" THEN None ELSE cmd[s]]

LEMMA GotoGoes ==
    ASSUME TypeOK, NEW s \in Sessions, NEW next,
           IF next = "idle" THEN End(s) ELSE Goto(s, next)
    PROVE  Goes(s, next)
  BY DEF TypeOK, End, Goto, Goes

Only(t) == /\ tab' = [tab EXCEPT ![t] = tab'[t]]
           /\ \A u \in Tables \ {t} : tab'[u] = tab[u]
HistoryTyped == stale' \subseteq Tables /\ used' \in [{"commands", "deliveries", "faults"} -> Nat]

LEMMA FaultEffect ==
    ASSUME TypeOK, NEW s \in Sessions, NEW next, Fault(s, next)
    PROVE  /\ torn' = torn \cup Names(cmd[s]) /\ Goes(s, next)
           /\ used' \in [{"commands", "deliveries", "faults"} -> Nat]
  BY GotoGoes DEF TypeOK, Fault, Count

\* A row is added to a table, or a fault hurts the names of the command.
LEMMA AppendEffect ==
    ASSUME TypeOK, NEW s \in Sessions, NEW t \in Tables, NEW row, NEW next, Append(s, t, row, next)
    PROVE  /\ Only(t) /\ HistoryTyped /\ lost' = lost
           /\ \/ tab'[t] = tab[t] \cup {row} /\ torn' = torn /\ Goes(s, next)
              \/ /\ tab'[t] \in {tab[t], tab[t] \cup {row}}
                 /\ torn' = torn \cup Names(cmd[s])
                 /\ Goes(s, next) \/ Goes(s, "idle")
  <1>0. /\ stale \subseteq Tables /\ used \in [{"commands", "deliveries", "faults"} -> Nat]
        /\ tab = [u \in Tables |-> tab[u]]
    BY DEF TypeOK
  <1>1. CASE Store(s, t, tab[t] \cup {row}, next)
    BY <1>0, <1>1, GotoGoes DEF Store, Only, HistoryTyped
  <1>2. CASE NoIndex(s, t, tab[t] \cup {row}, "idle")
    BY <1>0, <1>2, FaultEffect DEF NoIndex, Only, HistoryTyped
  <1>3. CASE Fault(s, next) /\ stale' = stale \ {t} /\ UNCHANGED <<tab, lost>>
    BY <1>0, <1>3, FaultEffect DEF Only, HistoryTyped
  <1>4. CASE Fails(s, "idle")
    BY <1>0, <1>4, FaultEffect DEF Fails, Only, HistoryTyped
  <1> QED
    BY <1>1, <1>2, <1>3, <1>4 DEF Append

\* Rows are removed from a table, or a fault hurts the names of the command,
\* and those of the users or domains whose rows are lost with them.
LostRow(t, r) == r \notin tab'[t] => /\ t = "users" => r.a \in torn'
                                     /\ t = "domains" => r.d \in torn'
Removed(s, t, gone, next, onError) ==
    \/ tab'[t] = tab[t] \ gone /\ torn' = torn /\ Goes(s, next)
    \/ /\ tab'[t] \subseteq tab[t] /\ torn \cup Names(cmd[s]) \subseteq torn'
       /\ \A r \in tab[t] \ gone : LostRow(t, r)
       /\ Goes(s, next) \/ Goes(s, onError)

LEMMA VanishedRows ==
    ASSUME NEW t, NEW rows, Vanished(t, rows) \subseteq torn'
    PROVE  \A r \in rows : (t = "users" => r.a \in torn') /\ (t = "domains" => r.d \in torn')
  BY DEF Vanished

LEMMA VanishedTyped ==
    ASSUME TypeOK, NEW t \in Tables
    PROVE  \A rows : Vanished(t, tab[t] \ rows) \subseteq Accounts \cup Domains
  <1>1. tab["users"] \subseteq RowsOf.users /\ tab["domains"] \subseteq RowsOf.domains
    BY DEF TypeOK, Tables
  <1> QED
    BY <1>1 DEF Vanished, RowsOf

LEMMA NamesTyped == TypeOK => \A s \in Sessions : Names(cmd[s]) \subseteq Accounts \cup Domains
  BY CommandFields DEF Names

LEMMA RemoveEffect ==
    ASSUME TypeOK, NEW s \in Sessions, NEW t \in Tables, NEW gone, gone \subseteq tab[t],
           NEW next, NEW onError, RemoveRows(s, t, gone, next, onError)
    PROVE  /\ Free(t) /\ Only(t) /\ HistoryTyped /\ lost' \subseteq Tables
           /\ torn' \subseteq Accounts \cup Domains
           /\ UNCHANGED <<domDirs, dirs, mail, seen, box, born, late>>
           /\ Removed(s, t, gone, next, onError)
  <1>0. /\ stale \subseteq Tables /\ used \in [{"commands", "deliveries", "faults"} -> Nat]
        /\ tab = [u \in Tables |-> tab[u]] /\ lost \subseteq Tables
        /\ torn \subseteq Accounts \cup Domains /\ Names(cmd[s]) \subseteq Accounts \cup Domains
        /\ \A rows : Vanished(t, tab[t] \ rows) \subseteq Accounts \cup Domains
    BY NamesTyped, VanishedTyped DEF TypeOK
  <1>1. Free(t) /\ UNCHANGED <<domDirs, dirs, mail, seen, box, born, late>>
    BY DEF RemoveRows
  <1>2. CASE NoTable(s, onError)
    BY <1>0, <1>1, <1>2, GotoGoes DEF NoTable, Only, HistoryTyped, Removed, LostRow
  <1>3. CASE gone = {} /\ Skip(s, next)
    BY <1>0, <1>1, <1>3, GotoGoes DEF Skip, Only, HistoryTyped, Removed
  <1>4. CASE Store(s, t, tab[t] \ gone, next)
    BY <1>0, <1>1, <1>4, GotoGoes DEF Store, Only, HistoryTyped, Removed
  <1>5. CASE NoIndex(s, t, tab[t] \ gone, onError)
    BY <1>0, <1>1, <1>5, FaultEffect DEF NoIndex, Only, HistoryTyped, Removed, LostRow
  <1>6. CASE Fails(s, onError)
    BY <1>0, <1>1, <1>6, FaultEffect DEF Fails, Only, HistoryTyped, Removed, LostRow
  <1>7. ASSUME NEW rows, rows \subseteq tab[t], NEW label, label \in {next, onError},
               LosesRows(s, t, rows, label), stale' \subseteq stale, lost' \subseteq lost \cup {t}
        PROVE  /\ Only(t) /\ HistoryTyped /\ lost' \subseteq Tables
               /\ torn' \subseteq Accounts \cup Domains
               /\ Removed(s, t, gone, next, onError)
    <2>1. /\ tab' = [tab EXCEPT ![t] = rows] /\ tab'[t] = rows /\ Goes(s, label)
          /\ torn' = torn \cup Names(cmd[s]) \cup Vanished(t, tab[t] \ rows)
          /\ used' \in [{"commands", "deliveries", "faults"} -> Nat]
      BY <1>0, <1>7, GotoGoes DEF LosesRows, Count
    <2>2. \A r \in tab[t] \ gone : LostRow(t, r)
      BY <2>1, VanishedRows DEF LostRow
    <2> QED
      BY <1>0, <1>7, <2>1, <2>2 DEF Only, HistoryTyped, Removed
  <1>8. CASE \E rows \in SUBSET (tab[t] \ gone) :
                LosesRows(s, t, rows, next) /\ stale' = stale \ {t} /\ UNCHANGED lost
    BY <1>1, <1>7, <1>8
  <1>9. CASE LosesRows(s, t, {}, onError) /\ lost' = lost \cup {t} /\ UNCHANGED stale
    BY <1>1, <1>7, <1>9
  <1> QED
    BY <1>1, <1>2, <1>3, <1>4, <1>5, <1>6, <1>8, <1>9 DEF RemoveRows, Rewrite

LEMMA RowFields ==
    ASSUME TypeOK
    PROVE  /\ tab["users"] \subseteq [a : Accounts, gen : Incarnations]
           /\ tab["aliases"] \subseteq [a : Accounts, to : Accounts, gen : Incarnations]
           /\ tab["domains"] \subseteq [d : Domains]
           /\ tab["adomains"] \subseteq [d : Domains, to : Domains]
           /\ \A t \in Owned : t \in Tables /\ tab[t] \subseteq [a : Accounts, gen : Incarnations]
           /\ {"users", "aliases", "domains", "adomains"} \subseteq Tables
  <1>1. /\ \A t \in Tables : tab[t] \subseteq RowsOf[t]
        /\ {"users", "aliases", "domains", "adomains", "links", "extaliases"} = Tables
    BY DEF TypeOK, Tables, Owned
  <1> QED
    BY <1>1 DEF RowsOf, Owned

\* A table with other rows of its kind.
LEMMA TableTyped ==
    ASSUME TypeOK, NEW t \in Tables, Only(t), tab'[t] \subseteq RowsOf[t]
    PROVE  /\ tab' \in [Tables -> UNION {SUBSET RowsOf[u] : u \in Tables}]
           /\ \A u \in Tables : tab'[u] \subseteq RowsOf[u]
  BY DEF TypeOK, Only
-----------------------------------------------------------------------------
(* What a step leaves as it was: a part of the invariant that is not       *)
(* disturbed is kept.                                                      *)

DomainFrame(d) ==
    /\ Handled(d)' <=> Handled(d)
    /\ d \in domDirs' <=> d \in domDirs
    /\ late \cup torn \subseteq late' \cup torn' /\ late \subseteq late'
    /\ \A q \in Sessions :
        /\ DomAdding(q, d, {"dir"})' <=> DomAdding(q, d, {"dir"})
        /\ DomDeleting(q, d, DomainPast)' <=> DomDeleting(q, d, DomainPast)
        /\ DomDeleting(q, d, DomainPast \ {"users"})' => \/ UsersIn(d)' = {}
                                                        \/ /\ DomDeleting(q, d, DomainPast \ {"users"})
                                                           /\ UsersIn(d)' \subseteq UsersIn(d)
        /\ DomDeleting(q, d, {"rmdir"})' <=> DomDeleting(q, d, {"rmdir"})
        /\ DomDeleting(q, d, {"rmdir"}) =>
            /\ seen'[q] = seen[q]
            /\ \A a \in dirs' : DomainOf[a] = d =>
                    a \in dirs /\ (mail[a] = {} => mail'[a] = {} \/ a \in late')

LEMMA DomainIsKept ==
    ASSUME NEW d \in Domains, DomainIsWhole(d), DomainFrame(d)
    PROVE  DomainIsWhole(d)'
  <1>1. Handled(d)' => d \in domDirs' \/ \E s \in Sessions : DomAdding(s, d, {"dir"})'
    BY DEF DomainFrame, DomainIsWhole
  <1>2. d \in domDirs' =>
            \/ Handled(d)'
            \/ \E s \in Sessions : DomDeleting(s, d, DomainPast)'
            \/ \E a \in late' \cup torn' : a \in Accounts /\ DomainOf[a] = d
    BY DEF DomainFrame, DomainIsWhole
  <1>3. ASSUME NEW s \in Sessions
        PROVE  /\ DomAdding(s, d, {"dir"})' => Handled(d)'
               /\ DomDeleting(s, d, DomainPast)' => ~Handled(d)'
               /\ DomDeleting(s, d, DomainPast \ {"users"})' => UsersIn(d)' = {}
    BY DEF DomainFrame, DomainIsWhole
  <1>4. ASSUME NEW s \in Sessions, DomDeleting(s, d, {"rmdir"})', NEW a \in dirs', DomainOf[a] = d
        PROVE  a \in seen'[s] /\ (mail'[a] # {} => a \in late')
    BY <1>4 DEF DomainFrame, DomainIsWhole
  <1> QED
    BY <1>1, <1>2, <1>3, <1>4 DEF DomainIsWhole

AliasFrame(d) ==
    /\ Handled(d)' => Handled(d)
    /\ torn \subseteq torn'
    /\ \A r \in AliasDomain(d)' :
        /\ r \in AliasDomain(d)
        /\ r.to \notin torn' =>
            /\ Handled(r.to) => Handled(r.to)' \/ \E q \in Sessions : DomDeleting(q, r.to, {"users"})'
            /\ \A q \in Sessions : DomDeleting(q, r.to, DomainPast \ {"clear", "rmdir"})
                    => DomDeleting(q, r.to, DomainPast \ {"clear", "rmdir"})'
    /\ \A q \in Sessions :
        /\ DomAdding(q, d, {"row"})'
             => DomAdding(q, d, {"row"}) \/ \A r \in AliasDomain(d)' : r.to \in torn'
        /\ \A to \in Domains \ torn' : DomLinking(q, d, to, {"overlap", "row"})'
             => \/ Handled(to)'
                \/ DomLinking(q, d, to, {"overlap", "row"}) /\ (Handled(to) => Handled(to)')
        /\ \A to \in Domains : DomLinking(q, d, to, {"row"})'
             => DomLinking(q, d, to, {"row"}) \/ ~Handled(d)'

LEMMA DomainAliasKept ==
    ASSUME TypeOK, NEW d \in Domains, DomainOrAlias(d), AliasFrame(d)
    PROVE  DomainOrAlias(d)'
  <1>1. ASSUME NEW r \in AliasDomain(d)', r.to \notin torn'
        PROVE  /\ ~Handled(d)'
               /\ \/ Handled(r.to)'
                  \/ \E s \in Sessions : DomDeleting(s, r.to, DomainPast \ {"clear", "rmdir"})'
    <2>1. r \in AliasDomain(d) /\ r.to \notin torn
      BY <1>1 DEF AliasFrame
    <2>2. ASSUME NEW q \in Sessions, DomDeleting(q, r.to, {"users"})'
          PROVE  DomDeleting(q, r.to, DomainPast \ {"clear", "rmdir"})'
      BY <2>2 DEF DomDeleting, DomainPast
    <2> QED
      BY <1>1, <2>1, <2>2 DEF AliasFrame, DomainOrAlias
  <1>2. ASSUME NEW s \in Sessions, DomAdding(s, d, {"row"})', NEW r \in AliasDomain(d)'
        PROVE  r.to \in torn'
    BY <1>2 DEF AliasFrame, DomainOrAlias
  <1>3. ASSUME NEW s \in Sessions, NEW to \in Domains \ torn', DomLinking(s, d, to, {"overlap", "row"})'
        PROVE  Handled(to)'
    <2>1. to \in Domains \ torn
      BY DEF AliasFrame
    <2> QED
      BY <1>3, <2>1 DEF AliasFrame, DomainOrAlias
  <1>4. ASSUME NEW s \in Sessions, NEW to \in Domains, DomLinking(s, d, to, {"row"})'
        PROVE  ~Handled(d)'
    BY <1>4 DEF AliasFrame, DomainOrAlias
  <1> QED
    BY <1>1, <1>2, <1>3, <1>4 DEF DomainOrAlias

UserFrame(a) ==
    /\ User(a)' = User(a)
    /\ a \in dirs' <=> a \in dirs
    /\ Handled(DomainOf[a])' <=> Handled(DomainOf[a])
    /\ late \subseteq late'
    /\ \A q \in Sessions :
        /\ Deleting(q, a, {"rmdir"}) /\ mail[a] = {} => mail'[a] = {} \/ a \in late'
        /\ DomDeleting(q, DomainOf[a], {"users"})' <=> DomDeleting(q, DomainOf[a], {"users"})
        /\ DomDeleting(q, DomainOf[a], DomainPast)' <=> DomDeleting(q, DomainOf[a], DomainPast)
        /\ Adding(q, a, {"row"})' <=> Adding(q, a, {"row"})
        /\ Deleting(q, a, UserPast)' <=> Deleting(q, a, UserPast)
        /\ Deleting(q, a, {"rmdir"})' <=> Deleting(q, a, {"rmdir"})
        /\ Adding(q, a, {"alias", "dir", "row"})'
             => Adding(q, a, {"alias", "dir", "row"}) \/ Handled(DomainOf[a])'

LEMMA UserIsKept ==
    ASSUME NEW a \in Accounts, UserIsWhole(a), UserFrame(a)
    PROVE  UserIsWhole(a)'
  <1>1. User(a)' # {} =>
            /\ a \in dirs'
            /\ \/ Handled(DomainOf[a])'
               \/ \E s \in Sessions : DomDeleting(s, DomainOf[a], {"users"})'
    BY DEF UserFrame, UserIsWhole
  <1>2. a \in dirs' =>
            \/ User(a)' # {} \/ a \in late'
            \/ \E s \in Sessions : Adding(s, a, {"row"})' \/ Deleting(s, a, UserPast)'
                                   \/ DomDeleting(s, DomainOf[a], DomainPast)'
    BY DEF UserFrame, UserIsWhole
  <1>3. ASSUME NEW s \in Sessions
        PROVE  /\ Adding(s, a, {"alias", "dir", "row"})' => Handled(DomainOf[a])'
               /\ Adding(s, a, {"row"})' => a \in dirs'
               /\ Deleting(s, a, {"rmdir"})' => mail'[a] = {} \/ a \in late'
               /\ Deleting(s, a, UserPast)' => User(a)' = {} /\ (a \in dirs' \/ ~Handled(DomainOf[a])')
    BY DEF UserFrame, UserIsWhole
  <1>4. ASSUME NEW s \in Sessions, NEW q \in Sessions, Deleting(s, a, UserPast)'
        PROVE  ~Adding(q, a, {"row"})' /\ (Deleting(q, a, UserPast)' => q = s)
    BY <1>4 DEF UserFrame, UserIsWhole
  <1> QED
    BY <1>1, <1>2, <1>3, <1>4 DEF UserIsWhole

\* The aliases that lead to a user from its own domain.
NearAliases(a) == {r \in AliasesTo(a) : DomainOf[r.a] = DomainOf[a]}

OwnedFrame(a) ==
    /\ User(a) \subseteq User(a)'
    /\ \A t \in Owned :
        \/ RowsFor(t, a)' = {}
        \/ /\ RowsFor(t, a)' \subseteq RowsFor(t, a)
           /\ \A q \in Sessions :
                /\ Deleting(q, a, {"links"} \cup {t}) => Deleting(q, a, {"links"} \cup {t})'
                /\ DomDeleting(q, DomainOf[a], {"aliases", "extaliases", t})
                        => DomDeleting(q, DomainOf[a], {"aliases", "extaliases", t})'
    /\ \/ NearAliases(a)' = {}
       \/ /\ NearAliases(a)' \subseteq NearAliases(a)
          /\ \A q \in Sessions :
                /\ Deleting(q, a, {"links", "extaliases", "aliases"})
                        => Deleting(q, a, {"links", "extaliases", "aliases"})'
                /\ DomDeleting(q, DomainOf[a], {"aliases"}) => DomDeleting(q, DomainOf[a], {"aliases"})'
    /\ \A q \in Sessions, b \in Accounts : Linking(q, b, a, {"overlap", "row"})'
             => Linking(q, b, a, {"overlap", "row"}) \/ User(a)' # {}

LEMMA OwnedIsKept ==
    ASSUME NEW a \in Accounts, RowsAreOwned(a), OwnedFrame(a)
    PROVE  RowsAreOwned(a)'
  <1>1. ASSUME NEW t \in Owned, NEW r \in RowsFor(t, a)'
        PROVE  \/ r.gen = 0 \/ \E u \in User(a)' : u.gen = r.gen
               \/ \E s \in Sessions :
                    \/ Deleting(s, a, {"links"} \cup {t})'
                    \/ DomDeleting(s, DomainOf[a], {"aliases", "extaliases", t})'
    BY DEF OwnedFrame, RowsAreOwned
  <1>2. ASSUME NEW r \in AliasesTo(a)', DomainOf[r.a] = DomainOf[a]
        PROVE  \/ \E u \in User(a)' : u.gen = r.gen
               \/ \E s \in Sessions :
                    \/ Deleting(s, a, {"links", "extaliases", "aliases"})'
                    \/ DomDeleting(s, DomainOf[a], {"aliases"})'
    <2>1. r \in NearAliases(a)'
      BY <1>2 DEF NearAliases
    <2>2. r \in AliasesTo(a)
      BY <2>1 DEF OwnedFrame, NearAliases
    <2> QED
      BY <1>2, <2>1, <2>2 DEF OwnedFrame, RowsAreOwned
  <1>3. ASSUME NEW s \in Sessions, NEW b \in Accounts, Linking(s, b, a, {"overlap", "row"})'
        PROVE  User(a)' # {}
    BY <1>3 DEF OwnedFrame, RowsAreOwned
  <1> QED
    BY <1>1, <1>2, <1>3 DEF RowsAreOwned

NameFrame(a) ==
    /\ User(a)' \subseteq User(a)
    /\ RowsFor("aliases", a)' \subseteq RowsFor("aliases", a)
    /\ \A q \in Sessions :
        /\ Adding(q, a, {"dir", "row"})'
             => Adding(q, a, {"dir", "row"}) \/ RowsFor("aliases", a)' = {}
        /\ \A b \in Accounts : Linking(q, a, b, {"row"})'
             => Linking(q, a, b, {"row"}) \/ User(a)' = {}

LEMMA NameIsKept ==
    ASSUME NEW a \in Accounts, UserOrAlias(a), NameFrame(a)
    PROVE  UserOrAlias(a)'
  BY DEF NameFrame, UserOrAlias

\* Rows, boxes and incarnations that are as they were, or fewer.
LEMMA ApartIsKept ==
    ASSUME RowsAreApart, tab'["users"] \subseteq tab["users"], tab'["adomains"] \subseteq tab["adomains"],
           UNCHANGED <<box, born>>,
           \A q \in Sessions, a \in Accounts : Adding(q, a, {"row"})' => Adding(q, a, {"row"})
    PROVE  RowsAreApart'
  <1>1. \A a \in Accounts : User(a)' \subseteq User(a)
    BY DEF User, RowsFor
  <1>2. \A s \in Sessions, a \in Accounts : Adding(s, a, {"row"})' => User(a)' = {} /\ born'[a] # 0
    BY <1>1 DEF RowsAreApart
  <1>3. \A s, q \in Sessions : \A a, b \in Accounts :
            Adding(s, a, {"row"})' /\ Adding(q, b, {"row"})' => s = q
    BY DEF RowsAreApart
  <1> QED
    BY <1>2, <1>3 DEF RowsAreApart

LEMMA MailIsKeptOwned ==
    ASSUME MailIsOwned, tab'["users"] \subseteq tab["users"], late \subseteq late',
           \A a \in Accounts : mail'[a] \subseteq mail[a],
           \A q \in Sessions, a \in Accounts : Adding(q, a, {"row"})' => Adding(q, a, {"row"})
    PROVE  MailIsOwned'
  <1>1. \A a \in Accounts : User(a)' \subseteq User(a)
    BY DEF User, RowsFor
  <1> SUFFICES ASSUME NEW a \in Accounts \ late'
               PROVE  /\ \A u \in User(a)' : mail'[a] \subseteq {u.gen}
                      /\ \A s \in Sessions : Adding(s, a, {"row"})' => mail'[a] = {}
    BY DEF MailIsOwned
  <1>2. a \in Accounts \ late
    OBVIOUS
  <1>3. \A u \in User(a) : mail[a] \subseteq {u.gen}
    BY <1>2 DEF MailIsOwned
  <1>4. \A s \in Sessions : Adding(s, a, {"row"}) => mail[a] = {}
    BY <1>2 DEF MailIsOwned
  <1> QED
    BY <1>1, <1>2, <1>3, <1>4
-----------------------------------------------------------------------------
(* Steps that change no table and no directory. *)

LEMMA GoesOne ==
    ASSUME TypeOK, NEW s \in Sessions, NEW next \in Labels, Goes(s, next)
    PROVE  /\ cmd' \in [Sessions -> Requests \cup {None}] /\ at' \in [Sessions -> Labels]
           /\ \A q \in Sessions \ {s} : cmd'[q] = cmd[q] /\ at'[q] = at[q]
           /\ at'[s] = next
           /\ IF next = "idle" THEN cmd'[s] = None ELSE cmd'[s] = cmd[s]
  BY DEF TypeOK, Goes

LEMMA TearsIsKept ==
    ASSUME PairsTear, torn \subseteq torn', tab'["adomains"] \subseteq tab["adomains"],
           \A q \in Sessions : cmd'[q] \in {cmd[q], None}
    PROVE  PairsTear'
  <1> SUFFICES ASSUME NEW s \in Sessions, NEW q \in Sessions
               PROVE  Tears(cmd[s], cmd[q])' \subseteq torn'
    BY DEF PairsTear
  <1>1. CASE cmd'[s] = None \/ cmd'[q] = None
    BY <1>1 DEF Tears, None
  <1>2. CASE cmd'[s] = cmd[s] /\ cmd'[q] = cmd[q]
    <2>1. Tears(cmd[s], cmd[q])' \subseteq Tears(cmd[s], cmd[q])
      BY <1>2 DEF Tears
    <2> QED
      BY <2>1 DEF PairsTear
  <1> QED
    BY <1>1, <1>2

\* A session goes on, or ends, short of the steps that others have to know of.
Quiet(s, next) ==
    /\ next \in Labels /\ (next = "idle" \/ next \in LabelsOf(cmd[s].op))
    /\ Goes(s, next)
    /\ UNCHANGED <<tab, domDirs, dirs, mail, seen, box, born, late>>
    /\ torn \subseteq torn' /\ torn' \subseteq Accounts \cup Domains
    /\ HistoryTyped /\ lost' \subseteq Tables
    /\ \/ cmd[s].op = "useradd" /\ {at[s], next} \subseteq {"check", "alias", "dir", "idle"}
       \/ cmd[s].op \in {"userdel", "domainadd"} /\ {at[s], next} \subseteq {"check", "row", "idle"}
       \/ cmd[s].op = "domainadd" /\ next = "idle" /\ cmd[s].d \in torn'
       \/ cmd[s].op \in {"aliasadd", "adomainadd", "ownadd"}

\* What it has found out on its way.
Learns(s, next) ==
    LET c == cmd[s]
    IN  /\ c.op = "useradd" =>
            /\ next \in {"alias", "dir"} /\ {c.a, DomainOf[c.a]} \cap torn' = {} => Handled(DomainOf[c.a])
            /\ next = "dir" /\ c.a \notin torn' => RowsFor("aliases", c.a) = {}
        /\ c.op = "aliasadd" =>
            /\ next \in {"overlap", "row"} /\ {c.to, DomainOf[c.to]} \cap torn' = {} => User(c.to) # {}
            /\ next = "row" /\ c.a \notin torn' => User(c.a) = {}
        /\ c.op = "domainadd" /\ next = "row" /\ c.d \notin torn' =>
                \A r \in AliasDomain(c.d) : r.to \in torn'
        /\ c.op = "adomainadd" =>
            /\ next \in {"overlap", "row"} /\ {c.d, c.to} \cap torn' = {} => Handled(c.to)
            /\ next = "row" /\ c.d \notin torn' => ~Handled(c.d)

LEMMA QuietKeepsIInv ==
    ASSUME IInv, NEW s \in Sessions, NEW next, Quiet(s, next), Learns(s, next)
    PROVE  IInv'
  <1>0. /\ TypeOK /\ next \in Labels /\ StepsFit
        /\ UNCHANGED <<tab, domDirs, dirs, mail, seen, box, born, late>>
        /\ torn \subseteq torn'
    BY DEF IInv, Quiet
  <1>1. /\ \A q \in Sessions \ {s} : cmd'[q] = cmd[q] /\ at'[q] = at[q]
        /\ at'[s] = next
        /\ IF next = "idle" THEN cmd'[s] = None ELSE cmd'[s] = cmd[s]
    BY <1>0, GoesOne DEF Quiet
  <1>2. TypeOK'
    BY <1>0, GoesOne DEF Quiet, TypeOK, HistoryTyped
  <1>3. StepsFit'
    BY <1>0, <1>1 DEF Quiet, StepsFit, LabelsOf, None
  <1>4. PairsTear'
    BY <1>0, <1>1, TearsIsKept DEF IInv
  <1>5. RowsAreApart'
    <2>1. \A q \in Sessions, a \in Accounts : Adding(q, a, {"row"})' => Adding(q, a, {"row"})
      BY <1>1 DEF Quiet, Adding, None
    <2> QED
      BY <1>0, <2>1, ApartIsKept DEF IInv
  <1>6. DirsNest'
    BY <1>0 DEF IInv, DirsNest
  <1>7. MailIsOwned'
    <2>1. \A q \in Sessions, a \in Accounts : Adding(q, a, {"row"})' => Adding(q, a, {"row"})
      BY <1>1 DEF Quiet, Adding, None
    <2> QED
      BY <1>0, <2>1, MailIsKeptOwned DEF IInv
  <1>8. ASSUME NEW d \in Domains \ torn'
        PROVE  DomainIsWhole(d)'
    <2>1. DomainFrame(d)
      BY <1>0, <1>1 DEF DomainFrame, Quiet, DomAdding, DomDeleting, None, Handled, UsersIn
    <2> QED
      BY <1>0, <2>1, DomainIsKept DEF IInv
  <1>9. ASSUME NEW d \in Domains \ torn'
        PROVE  DomainOrAlias(d)'
    <2>1. AliasFrame(d)
      BY <1>0, <1>1 DEF AliasFrame, Quiet, Learns, DomAdding, DomDeleting, DomLinking, None, Handled,
         AliasDomain
    <2> QED
      BY <1>0, <2>1, DomainAliasKept DEF IInv
  <1>10. ASSUME NEW a \in Accounts \ torn'
         PROVE  UserOrAlias(a)'
    <2>1. NameFrame(a)
      BY <1>0, <1>1 DEF NameFrame, Quiet, Learns, Adding, Linking, None, User, RowsFor
    <2> QED
      BY <1>0, <2>1, NameIsKept DEF IInv
  <1>11. ASSUME NEW a \in Accounts, Whole(a)'
         PROVE  UserIsWhole(a)' /\ RowsAreOwned(a)'
    <2>1. UserFrame(a)
      <3>1. /\ UNCHANGED <<User(a), Handled(DomainOf[a]), dirs, mail, late>>
        BY <1>0 DEF User, RowsFor, Handled
      <3>2. ASSUME NEW q \in Sessions
            PROVE  /\ DomDeleting(q, DomainOf[a], {"users"})' <=> DomDeleting(q, DomainOf[a], {"users"})
                   /\ DomDeleting(q, DomainOf[a], DomainPast)' <=> DomDeleting(q, DomainOf[a], DomainPast)
        BY <1>1 DEF Quiet, DomDeleting, None
      <3>3. ASSUME NEW q \in Sessions
            PROVE  /\ Adding(q, a, {"row"})' <=> Adding(q, a, {"row"})
                   /\ Deleting(q, a, UserPast)' <=> Deleting(q, a, UserPast)
                   /\ Deleting(q, a, {"rmdir"})' <=> Deleting(q, a, {"rmdir"})
        BY <1>1 DEF Quiet, Adding, Deleting, None, UserPast
      <3>4. ASSUME NEW q \in Sessions, Adding(q, a, {"alias", "dir", "row"})'
            PROVE  Adding(q, a, {"alias", "dir", "row"}) \/ Handled(DomainOf[a])'
        <4>1. CASE q # s
          BY <1>1, <3>4, <4>1 DEF Adding
        <4>2. CASE q = s
          BY <1>0, <1>1, <1>11, <3>1, <3>4, <4>2 DEF Adding, Learns, Quiet, Whole, None
        <4> QED
          BY <4>1, <4>2
      <3> QED
        BY <3>1, <3>2, <3>3, <3>4 DEF UserFrame
    <2>2. OwnedFrame(a)
      <3>1. /\ UNCHANGED <<User(a), NearAliases(a)>>
            /\ \A t \in Owned : RowsFor(t, a)' = RowsFor(t, a)
        BY <1>0 DEF User, RowsFor, AliasesTo, NearAliases
      <3>2. ASSUME NEW q \in Sessions
            PROVE  /\ \A t \in Owned : Deleting(q, a, {"links"} \cup {t}) => Deleting(q, a, {"links"} \cup {t})'
                   /\ Deleting(q, a, {"links", "extaliases", "aliases"})
                        => Deleting(q, a, {"links", "extaliases", "aliases"})'
        BY <1>1 DEF Quiet, Deleting, Owned
      <3>3. ASSUME NEW q \in Sessions
            PROVE  /\ \A t \in Owned : DomDeleting(q, DomainOf[a], {"aliases", "extaliases", t})
                                => DomDeleting(q, DomainOf[a], {"aliases", "extaliases", t})'
                   /\ DomDeleting(q, DomainOf[a], {"aliases"}) => DomDeleting(q, DomainOf[a], {"aliases"})'
        BY <1>1 DEF Quiet, DomDeleting
      <3>4. ASSUME NEW q \in Sessions, NEW b \in Accounts, Linking(q, b, a, {"overlap", "row"})'
            PROVE  Linking(q, b, a, {"overlap", "row"}) \/ User(a)' # {}
        <4>1. CASE q # s
          BY <1>1, <3>4, <4>1 DEF Linking
        <4>2. CASE q = s
          BY <1>0, <1>1, <1>11, <3>1, <3>4, <4>2 DEF Linking, Learns, Quiet, Whole, None
        <4> QED
          BY <4>1, <4>2
      <3> QED
        BY <3>1, <3>2, <3>3, <3>4 DEF OwnedFrame
    <2>3. Whole(a)
      BY <1>0, <1>11 DEF Whole
    <2> QED
      BY <1>0, <2>1, <2>2, <2>3, UserIsKept, OwnedIsKept DEF IInv
  <1> QED
    BY <1>2, <1>3, <1>4, <1>5, <1>6, <1>7, <1>8, <1>9, <1>10, <1>11 DEF IInv

LEMMA AnsweredTyped ==
    ASSUME TypeOK, NEW s \in Sessions, NEW answer, NEW present, Answered(s, answer, present)
    PROVE  /\ UNCHANGED <<tab, domDirs, dirs, mail, seen, box, born, late>>
           /\ torn \subseteq torn' /\ torn' \subseteq Accounts \cup Domains
           /\ HistoryTyped /\ lost' \subseteq Tables
           /\ answer # present => Names(cmd[s]) \subseteq torn'
  <1>1. torn' \in {torn, torn \cup Names(cmd[s])}
        /\ UNCHANGED <<tab, stale, lost, domDirs, dirs, mail, seen, box, born, late, used>>
    BY DEF Answered
  <1>2. /\ torn \subseteq Accounts \cup Domains /\ Names(cmd[s]) \subseteq Accounts \cup Domains
        /\ stale \subseteq Tables /\ lost \subseteq Tables
        /\ used \in [{"commands", "deliveries", "faults"} -> Nat]
    BY NamesTyped DEF TypeOK
  <1> QED
    BY <1>1, <1>2 DEF Answered, HistoryTyped

LEMMA SkipTyped ==
    ASSUME TypeOK, NEW s \in Sessions, Skip(s, "idle"), UNCHANGED <<domDirs, dirs, mail, seen, box, born, late>>
    PROVE  /\ Goes(s, "idle") /\ UNCHANGED <<tab, domDirs, dirs, mail, seen, box, born, late>>
           /\ torn \subseteq torn' /\ torn' \subseteq Accounts \cup Domains
           /\ HistoryTyped /\ lost' \subseteq Tables
  <1>1. /\ stale \subseteq Tables /\ lost \subseteq Tables /\ torn \subseteq Accounts \cup Domains
        /\ used \in [{"commands", "deliveries", "faults"} -> Nat]
    BY DEF TypeOK
  <1>2. Goes(s, "idle")
    BY GotoGoes DEF Skip
  <1> QED
    BY <1>1, <1>2 DEF Skip, HistoryTyped

LEMMA FindsBoolean ==
    ASSUME NEW t, NEW present \in BOOLEAN
    PROVE  Finds(t, present) \subseteq BOOLEAN
  BY DEF Finds

LEMMA HandledBoolean == \A d : Handled(d) \in BOOLEAN
  BY DEF Handled

\* What MDomIsHandledDomain looks up: the only row of an alias domain.
LEMMA OnlyAliasDomain ==
    ASSUME RowsAreApart, NEW d, NEW r \in AliasDomain(d)
    PROVE  /\ AliasDomain(d) # {} /\ r \in tab["adomains"] /\ r.d = d
           /\ (CHOOSE q \in AliasDomain(d) : TRUE) = r
  <1>1. \A q \in AliasDomain(d) : q = r
    BY DEF RowsAreApart, AliasDomain
  <1> QED
    BY <1>1 DEF AliasDomain

LEMMA CheckDomainKeepsIInv ==
    ASSUME IInv, NEW s \in Sessions, CheckDomain(s)
    PROVE  IInv'
  <1>0. TypeOK /\ StepsFit /\ RowsAreApart /\ PairsTear /\ at[s] = "check"
    BY DEF IInv, CheckDomain
  <1> DEFINE d == IF cmd[s].op = "domainadd" THEN cmd[s].d ELSE DomainOf[cmd[s].a]
             real == IF AliasDomain(d) = {} THEN d ELSE (CHOOSE r \in AliasDomain(d) : TRUE).to
             meant == IF cmd[s].op = "useradd" THEN d ELSE real
  <1>1. cmd[s].op \in {"useradd", "userdel", "domainadd"}
    BY <1>0, CommandFields DEF StepsFit, LabelsOf, UserPast, DomainPast
  <1>2. PICK answer \in Finds("domains", Handled(real))
                           \cup (IF "adomains" \in stale THEN Finds("domains", Handled(d)) ELSE {}) :
            /\ Answered(s, answer, Handled(meant))
            /\ CASE cmd[s].op = "domainadd" -> IF answer THEN End(s) ELSE Goto(s, "row")
                 [] cmd[s].op = "useradd" -> IF answer THEN Goto(s, "alias") ELSE End(s)
                 [] OTHER -> IF answer THEN Goto(s, "row") ELSE End(s)
    BY DEF CheckDomain
  <1>b. answer \in BOOLEAN
    <2>1. Finds("domains", Handled(real)) \subseteq BOOLEAN /\ Finds("domains", Handled(d)) \subseteq BOOLEAN
      BY FindsBoolean, HandledBoolean
    <2> QED
      BY <1>2, <2>1
  <1>3. PICK next \in {"idle", "row", "alias"} :
            /\ next = "idle" \/ next \in LabelsOf(cmd[s].op)
            /\ next = "row" => cmd[s].op \in {"domainadd", "userdel"}
            /\ next = "row" /\ cmd[s].op = "domainadd" => answer = FALSE
            /\ next = "alias" => cmd[s].op = "useradd" /\ answer = TRUE
            /\ IF next = "idle" THEN End(s) ELSE Goto(s, next)
    BY <1>1, <1>2, <1>b DEF LabelsOf
  <1>4. Goes(s, next)
    BY <1>0, <1>3, GotoGoes
  <1> HIDE DEF d, real, meant
  <1>5. Quiet(s, next)
    BY <1>0, <1>1, <1>2, <1>3, <1>4, AnsweredTyped DEF Quiet, Labels
  <1>6. ASSUME cmd[s].op = "domainadd", next = "row", d \notin torn', NEW r \in AliasDomain(d)
        PROVE  r.to \in torn
    <2>1. d = cmd[s].d /\ d \in Domains \ torn /\ meant = r.to /\ r \in tab["adomains"] /\ r.d = d
      <3>1. torn \subseteq torn'
        BY <1>0, <1>2, AnsweredTyped
      <3>2. d = cmd[s].d /\ d \in Domains
        BY <1>0, <1>6, CommandFields DEF d
      <3>3. /\ AliasDomain(d) # {} /\ r \in tab["adomains"] /\ r.d = d
            /\ (CHOOSE q \in AliasDomain(d) : TRUE) = r
        BY <1>0, <1>6, OnlyAliasDomain
      <3> QED
        BY <1>6, <3>1, <3>2, <3>3 DEF real, meant
    <2>2. ~Handled(r.to)
      BY <1>0, <1>2, <1>3, <1>6, <2>1, AnsweredTyped DEF Names
    <2>3. ASSUME NEW q \in Sessions, DomDeleting(q, r.to, DomainPast)
          PROVE  FALSE
      <3>1. r = [d |-> d, to |-> r.to]
        BY <1>0, <2>1, RowFields
      <3>2. Tears(cmd[q], cmd[s]) = {d}
        BY <1>6, <2>1, <2>3, <3>1 DEF Tears, DomDeleting
      <3> QED
        BY <1>0, <2>1, <3>2 DEF PairsTear
    <2>4. DomainOrAlias(d)
      BY <2>1 DEF IInv
    <2> QED
      BY <1>6, <2>2, <2>3, <2>4 DEF DomainOrAlias, DomDeleting
  <1>7. ASSUME cmd[s].op = "useradd", next \in {"alias", "dir"}, cmd[s].a \notin torn'
        PROVE  Handled(DomainOf[cmd[s].a])
    BY <1>0, <1>2, <1>3, <1>7, AnsweredTyped DEF Names, d, meant
  <1>8. Learns(s, next)
    <2>1. torn \subseteq torn'
      BY <1>0, <1>2, AnsweredTyped
    <2> QED
      BY <1>1, <1>3, <1>6, <1>7, <2>1 DEF Learns, d
  <1> QED
    BY <1>5, <1>8, QuietKeepsIInv

LEMMA UserAddAliasKeepsIInv ==
    ASSUME IInv, NEW s \in Sessions, UserAddAlias(s)
    PROVE  IInv'
  <1>0. TypeOK /\ StepsFit /\ cmd[s].op = "useradd" /\ at[s] = "alias" /\ cmd[s].a \in Accounts
    BY CommandFields DEF IInv, UserAddAlias, Keeping
  <1>1. PICK answer : /\ Answered(s, answer, RowsFor("aliases", cmd[s].a) # {})
                      /\ IF answer THEN End(s) ELSE Goto(s, "dir")
                      /\ answer \in BOOLEAN
    BY DEF UserAddAlias, Finds
  <1>2. PICK next \in {"idle", "dir"} : Goes(s, next) /\ (next = "dir" => answer = FALSE)
    BY <1>0, <1>1, GotoGoes
  <1>3. Quiet(s, next)
    BY <1>0, <1>1, <1>2, AnsweredTyped DEF Quiet, Labels, LabelsOf
  <1>4. Learns(s, next)
    <2>1. ASSUME {cmd[s].a, DomainOf[cmd[s].a]} \cap torn' = {}
          PROVE  Handled(DomainOf[cmd[s].a])
      <3>1. UserIsWhole(cmd[s].a)
        BY <1>0, <1>1, <2>1, AnsweredTyped DEF IInv, Whole
      <3> QED
        BY <1>0, <3>1 DEF UserIsWhole, Adding
    <2> QED
      BY <1>0, <1>1, <1>2, <2>1, AnsweredTyped DEF Learns, Names
  <1> QED
    BY <1>3, <1>4, QuietKeepsIInv

LEMMA AliasAddLookupKeepsIInv ==
    ASSUME IInv, NEW s \in Sessions, AliasAddLookup(s)
    PROVE  IInv'
  <1> DEFINE c == cmd[s]
  <1>0. /\ TypeOK /\ StepsFit /\ c.op = "aliasadd" /\ at[s] \in {"target", "overlap"}
        /\ c.a \in Accounts /\ c.to \in Accounts
    BY CommandFields DEF IInv, AliasAddLookup
  <1>1. PICK answer : /\ Answered(s, answer, RowsFor("users", IF at[s] = "target" THEN c.to ELSE c.a) # {})
                      /\ answer \in BOOLEAN
                      /\ CASE at[s] = "target" /\ answer -> Goto(s, "overlap")
                           [] at[s] = "overlap" /\ ~answer -> Goto(s, "row")
                           [] OTHER -> End(s)
    BY DEF AliasAddLookup, Finds
  <1>2. PICK next \in {"idle", "overlap", "row"} :
            /\ Goes(s, next)
            /\ next = "overlap" => at[s] = "target" /\ answer = TRUE
            /\ next = "row" => at[s] = "overlap" /\ answer = FALSE
    <2>1. CASE at[s] = "target" /\ answer
      BY <1>0, <1>1, <2>1, GotoGoes
    <2>2. CASE at[s] = "overlap" /\ ~answer
      BY <1>0, <1>1, <2>2, GotoGoes
    <2>3. CASE End(s)
      BY <1>0, <2>3, GotoGoes
    <2> QED
      BY <1>0, <1>1, <2>1, <2>2, <2>3
  <1>3. Quiet(s, next)
    BY <1>0, <1>1, <1>2, AnsweredTyped DEF Quiet, Labels, LabelsOf
  <1>4. Learns(s, next)
    <2>0. /\ torn \subseteq torn' /\ {c.a, c.to} = Names(c) /\ tab' = tab
      BY <1>0, <1>1, AnsweredTyped DEF Names
    <2>1. ASSUME next \in {"overlap", "row"}, {c.to, DomainOf[c.to]} \cap torn' = {}
          PROVE  User(c.to) # {}
      <3>1. CASE at[s] = "target"
        BY <1>0, <1>1, <1>2, <2>0, <2>1, <3>1, AnsweredTyped DEF User
      <3>2. CASE at[s] = "overlap"
        <4>1. RowsAreOwned(c.to)
          BY <1>0, <2>0, <2>1 DEF IInv, Whole
        <4> QED
          BY <1>0, <3>2, <4>1 DEF RowsAreOwned, Linking
      <3> QED
        BY <1>0, <3>1, <3>2
    <2>2. ASSUME next = "row", c.a \notin torn'
          PROVE  User(c.a) = {}
      BY <1>0, <1>1, <1>2, <2>0, <2>2, AnsweredTyped DEF User
    <2> QED
      BY <1>0, <2>1, <2>2 DEF Learns
  <1> QED
    BY <1>3, <1>4, QuietKeepsIInv

LEMMA ADomainAddTargetKeepsIInv ==
    ASSUME IInv, NEW s \in Sessions, ADomainAddTarget(s)
    PROVE  IInv'
  <1>0. TypeOK /\ StepsFit /\ cmd[s].op = "adomainadd" /\ at[s] = "target"
    BY DEF IInv, ADomainAddTarget, Keeping
  <1>1. PICK answer : /\ Answered(s, answer, Handled(cmd[s].to)) /\ answer \in BOOLEAN
                      /\ IF answer THEN Goto(s, "overlap") ELSE End(s)
    BY FindsBoolean, HandledBoolean DEF ADomainAddTarget
  <1>2. PICK next \in {"idle", "overlap"} : Goes(s, next) /\ (next = "overlap" => answer = TRUE)
    BY <1>0, <1>1, GotoGoes
  <1>3. Quiet(s, next)
    BY <1>0, <1>1, <1>2, AnsweredTyped DEF Quiet, Labels, LabelsOf
  <1>4. Learns(s, next)
    BY <1>0, <1>1, <1>2, AnsweredTyped DEF Learns, Names, Handled
  <1> QED
    BY <1>3, <1>4, QuietKeepsIInv

LEMMA ADomainAddOverlapKeepsIInv ==
    ASSUME IInv, NEW s \in Sessions, ADomainAddOverlap(s)
    PROVE  IInv'
  <1> DEFINE c == cmd[s]
  <1>0. /\ TypeOK /\ StepsFit /\ c.op = "adomainadd" /\ at[s] = "overlap"
        /\ c.d \in Domains /\ c.to \in Domains
    BY CommandFields DEF IInv, ADomainAddOverlap, Keeping
  <1>1. PICK answer : /\ Answered(s, answer, Handled(c.d) \/ AliasDomain(c.d) # {}) /\ answer \in BOOLEAN
                      /\ IF answer THEN End(s) ELSE Goto(s, "row")
    BY DEF ADomainAddOverlap, Finds, Handled
  <1>2. PICK next \in {"idle", "row"} : Goes(s, next) /\ (next = "row" => answer = FALSE)
    BY <1>0, <1>1, GotoGoes
  <1>3. Quiet(s, next)
    BY <1>0, <1>1, <1>2, AnsweredTyped DEF Quiet, Labels, LabelsOf
  <1>4. Learns(s, next)
    <2>0. /\ torn \subseteq torn' /\ {c.d, c.to} = Names(c) /\ tab' = tab
      BY <1>0, <1>1, AnsweredTyped DEF Names
    <2>1. ASSUME {c.d, c.to} \cap torn' = {}
          PROVE  Handled(c.to)
      <3>1. DomainOrAlias(c.d)
        BY <1>0, <2>0, <2>1 DEF IInv
      <3>2. DomLinking(s, c.d, c.to, {"overlap", "row"}) /\ c.to \in Domains \ torn
        BY <1>0, <2>0, <2>1 DEF DomLinking
      <3> QED
        BY <3>1, <3>2 DEF DomainOrAlias
    <2>2. ASSUME next = "row", c.d \notin torn'
          PROVE  ~Handled(c.d)
      BY <1>0, <1>1, <1>2, <2>0, <2>2, AnsweredTyped
    <2> QED
      BY <1>0, <2>0, <2>1, <2>2 DEF Learns, Handled
  <1> QED
    BY <1>3, <1>4, QuietKeepsIInv

\* A command that ends where it finds nothing to do.
LEMMA SkipKeepsIInv ==
    ASSUME IInv, NEW s \in Sessions, Skip(s, "idle"),
           UNCHANGED <<domDirs, dirs, mail, seen, box, born, late>>,
           \/ cmd[s].op = "useradd" /\ at[s] = "dir"
           \/ cmd[s].op = "domainadd" /\ at[s] = "row"
           \/ cmd[s].op \in {"aliasadd", "adomainadd", "ownadd"}
    PROVE  IInv'
  <1>1. Quiet(s, "idle")
    BY SkipTyped DEF IInv, Quiet, Labels
  <1>2. Learns(s, "idle")
    BY DEF Learns
  <1> QED
    BY <1>1, <1>2, QuietKeepsIInv
-----------------------------------------------------------------------------
(* Steps that remove rows of a table. *)

Removal(s, t, gone, next, onError) ==
    /\ torn \subseteq torn' /\ UNCHANGED <<domDirs, dirs, mail, seen, box, born, late>>
    /\ tab'[t] \subseteq tab[t] /\ \A u \in Tables \ {t} : tab'[u] = tab[u]
    /\ \A q \in Sessions \ {s} : cmd'[q] = cmd[q] /\ at'[q] = at[q]
    /\ \/ tab'[t] = tab[t] \ gone /\ torn' = torn /\ at'[s] = next
       \/ /\ Names(cmd[s]) \subseteq torn' /\ at'[s] \in {next, onError}
          /\ \A r \in tab[t] \ gone : LostRow(t, r)
    /\ IF at'[s] = "idle" THEN cmd'[s] = None ELSE cmd'[s] = cmd[s]

LEMMA RemovalEffect ==
    ASSUME IInv, NEW s \in Sessions, NEW t \in Tables, NEW gone, gone \subseteq tab[t],
           NEW next \in Labels, NEW onError \in Labels, RemoveRows(s, t, gone, next, onError)
    PROVE  Removal(s, t, gone, next, onError)
  <1>1. /\ torn \subseteq torn' /\ tab'[t] \subseteq tab[t] /\ \A u \in Tables \ {t} : tab'[u] = tab[u]
        /\ UNCHANGED <<domDirs, dirs, mail, seen, box, born, late>>
    BY RemoveEffect DEF IInv, Removed, Only
  <1>2. CASE tab'[t] = tab[t] \ gone /\ torn' = torn /\ Goes(s, next)
    BY <1>1, <1>2, GoesOne DEF IInv, Removal
  <1>3. CASE /\ torn \cup Names(cmd[s]) \subseteq torn' /\ \A r \in tab[t] \ gone : LostRow(t, r)
             /\ Goes(s, next) \/ Goes(s, onError)
    BY <1>1, <1>3, GoesOne DEF IInv, Removal
  <1> QED
    BY <1>2, <1>3, RemoveEffect DEF IInv, Removed

\* The parts of the invariant that a removal cannot disturb.
LEMMA RemovalKeepsParts ==
    ASSUME IInv, NEW s \in Sessions, NEW t \in Tables, NEW gone, gone \subseteq tab[t],
           NEW next \in Labels, NEW onError \in Labels, RemoveRows(s, t, gone, next, onError),
           {next, onError} \subseteq LabelsOf(cmd[s].op) \cup {"idle"},
           cmd[s].op \in {"userdel", "domaindel", "aliasdel", "owndel", "adomaindel"}, at[s] # "rmdir"
    PROVE  /\ TypeOK' /\ StepsFit' /\ PairsTear' /\ RowsAreApart' /\ DirsNest' /\ MailIsOwned'
  <1>0. TypeOK /\ StepsFit /\ Removal(s, t, gone, next, onError)
    BY RemovalEffect DEF IInv
  <1>1. TypeOK'
    <2>1. cmd' \in [Sessions -> Requests \cup {None}] /\ at' \in [Sessions -> Labels]
      <3>1. Goes(s, next) \/ Goes(s, onError)
        BY <1>0, RemoveEffect DEF Removed
      <3> QED
        BY <1>0, <3>1, GoesOne
    <2>2. /\ tab' \in [Tables -> UNION {SUBSET RowsOf[u] : u \in Tables}]
          /\ \A u \in Tables : tab'[u] \subseteq RowsOf[u]
      <3>1. tab'[t] \subseteq RowsOf[t]
        BY <1>0 DEF Removal, TypeOK
      <3> QED
        BY <1>0, <3>1, RemoveEffect, TableTyped
    <2>3. /\ HistoryTyped /\ lost' \subseteq Tables /\ torn' \subseteq Accounts \cup Domains
          /\ UNCHANGED <<domDirs, dirs, mail, seen, box, born, late>>
      BY <1>0, RemoveEffect
    <2> QED
      BY <1>0, <2>1, <2>2, <2>3 DEF TypeOK, HistoryTyped
  <1>2. StepsFit'
    <2>1. /\ seen' = seen /\ seen[s] = {}
          /\ \A q \in Sessions \ {s} : cmd'[q] = cmd[q] /\ at'[q] = at[q]
      BY <1>0 DEF Removal, StepsFit
    <2>2. at'[s] \in LabelsOf(cmd'[s].op)
      <3>1. CASE at'[s] = "idle"
        <4>1. cmd'[s].op = "none"
          BY <1>0, <3>1 DEF Removal, None
        <4> QED
          BY <3>1, <4>1 DEF LabelsOf
      <3>2. CASE at'[s] # "idle"
        BY <1>0, <3>2 DEF Removal
      <3> QED
        BY <3>1, <3>2
    <2>3. ASSUME NEW q \in Sessions
          PROVE  /\ at'[q] \in LabelsOf(cmd'[q].op)
                 /\ seen'[q] # {} => cmd'[q].op = "domaindel" /\ at'[q] = "rmdir"
                 /\ \A a \in seen'[q] : DomainOf[a] = cmd'[q].d
      <3>1. CASE q = s
        BY <2>1, <2>2, <3>1
      <3>2. CASE q # s
        BY <1>0, <2>1, <3>2 DEF StepsFit
      <3> QED
        BY <3>1, <3>2
    <2> QED
      BY <2>3 DEF StepsFit, LabelsOf
  <1>3. tab'["users"] \subseteq tab["users"] /\ tab'["adomains"] \subseteq tab["adomains"]
    BY <1>0, RowFields DEF Removal
  <1>4. PairsTear'
    <2>1. \A q \in Sessions : cmd'[q] \in {cmd[q], None}
      BY <1>0 DEF Removal
    <2> QED
      BY <1>0, <1>3, <2>1, TearsIsKept DEF IInv, Removal
  <1>5. \A q \in Sessions, a \in Accounts : Adding(q, a, {"row"})' => Adding(q, a, {"row"})
    BY <1>0 DEF Removal, Adding, None
  <1>6. RowsAreApart'
    BY <1>0, <1>3, <1>5, ApartIsKept DEF IInv, Removal
  <1>7. DirsNest'
    BY <1>0 DEF IInv, DirsNest, Removal
  <1>8. MailIsOwned'
    BY <1>0, <1>3, <1>5, MailIsKeptOwned DEF IInv, Removal
  <1> QED
    BY <1>1, <1>2, <1>4, <1>6, <1>7, <1>8

\* The commands that delete one row are in nobody's way.
LEMMA DelKeepsIInv ==
    ASSUME IInv, NEW s \in Sessions, NEW t \in {"aliases", "adomains"} \cup Owned, NEW gone, gone \subseteq tab[t],
           RemoveRows(s, t, gone, "idle", "idle"),
           cmd[s].op \in {"aliasdel", "owndel", "adomaindel"}
    PROVE  IInv'
  <1>0. /\ TypeOK /\ t \in Tables /\ t \notin {"users", "domains"} /\ "idle" \in Labels
        /\ {"users", "domains", "aliases", "adomains"} \cup Owned \subseteq Tables
        /\ at[s] # "rmdir"
    BY DEF IInv, Tables, Owned, Labels, StepsFit, LabelsOf
  <1>1. Removal(s, t, gone, "idle", "idle")
    BY <1>0, RemovalEffect
  <1>2. /\ UNCHANGED <<domDirs, dirs, mail, seen, late>> /\ torn \subseteq torn'
        /\ tab'["users"] = tab["users"] /\ tab'["domains"] = tab["domains"]
        /\ \A u \in Tables : tab'[u] \subseteq tab[u]
        /\ \A q \in Sessions \ {s} : cmd'[q] = cmd[q] /\ at'[q] = at[q]
        /\ cmd'[s].op = "none"
    BY <1>0, <1>1 DEF Removal, None
  <1>3. ASSUME NEW d \in Domains \ torn'
        PROVE  DomainIsWhole(d)'
    <2>1. DomainFrame(d)
      BY <1>2 DEF DomainFrame, DomAdding, DomDeleting, Handled, UsersIn
    <2> QED
      BY <1>2, <2>1, DomainIsKept DEF IInv
  <1>4. ASSUME NEW d \in Domains \ torn'
        PROVE  DomainOrAlias(d)'
    <2>1. AliasDomain(d)' \subseteq AliasDomain(d)
      BY <1>0, <1>2 DEF AliasDomain
    <2>2. AliasFrame(d)
      BY <1>2, <2>1 DEF AliasFrame, DomAdding, DomDeleting, DomLinking, Handled
    <2> QED
      BY <1>0, <1>2, <2>2, DomainAliasKept DEF IInv
  <1>5. ASSUME NEW a \in Accounts \ torn'
        PROVE  UserOrAlias(a)'
    <2>1. NameFrame(a)
      BY <1>0, <1>2 DEF NameFrame, Adding, Linking, User, RowsFor
    <2> QED
      BY <1>2, <2>1, NameIsKept DEF IInv
  <1>6. ASSUME NEW a \in Accounts, Whole(a)'
        PROVE  UserIsWhole(a)' /\ RowsAreOwned(a)'
    <2>1. UserFrame(a)
      BY <1>2 DEF UserFrame, Adding, Deleting, DomDeleting, User, RowsFor, Handled
    <2>2. OwnedFrame(a)
      <3>1. /\ User(a)' = User(a) /\ NearAliases(a)' \subseteq NearAliases(a)
            /\ \A u \in Owned : RowsFor(u, a)' \subseteq RowsFor(u, a)
        BY <1>0, <1>2 DEF User, RowsFor, NearAliases, AliasesTo
      <3> QED
        BY <1>2, <3>1 DEF OwnedFrame, Deleting, DomDeleting, Linking
    <2>3. Whole(a)
      BY <1>2, <1>6 DEF Whole
    <2> QED
      BY <2>1, <2>2, <2>3, UserIsKept, OwnedIsKept DEF IInv
  <1> QED
    BY <1>0, <1>3, <1>4, <1>5, <1>6, RemovalKeepsParts DEF IInv

LEMMA UserDelRowKeepsIInv ==
    ASSUME IInv, NEW s \in Sessions, UserDelRow(s)
    PROVE  IInv'
  <1>a. PICK a \in Accounts : a = cmd[s].a /\ cmd[s].op = "userdel"
    BY CommandFields DEF IInv, UserDelRow, Keeping
  <1>b. PICK rows : rows = RowsFor("users", a)
    OBVIOUS
  <1>c. PICK next : next = IF rows = {} THEN "idle" ELSE "links"
    OBVIOUS
  <1>0. /\ TypeOK /\ StepsFit /\ PairsTear /\ RowsAreApart
        /\ cmd[s].op = "userdel" /\ cmd[s].a = a /\ at[s] = "row"
        /\ RemoveRows(s, "users", rows, next, "idle")
        /\ rows = User(a) /\ rows \subseteq tab["users"]
        /\ {"users", "domains", "aliases", "adomains"} \cup Owned = Tables
        /\ {next, "idle"} \subseteq LabelsOf(cmd[s].op) \cup {"idle"} /\ {next, "idle"} \subseteq Labels
    BY <1>a, <1>b, <1>c DEF IInv, UserDelRow, Keeping, User, RowsFor, Tables, Labels, Owned, LabelsOf, UserPast
  <1>1. Removal(s, "users", rows, next, "idle")
    BY <1>0, RemovalEffect
  <1>2. /\ UNCHANGED <<domDirs, dirs, mail, seen, late>> /\ torn \subseteq torn'
        /\ tab'["users"] \subseteq tab["users"] /\ \A u \in Tables \ {"users"} : tab'[u] = tab[u]
        /\ \A q \in Sessions \ {s} : cmd'[q] = cmd[q] /\ at'[q] = at[q]
        /\ cmd'[s] = cmd[s] \/ cmd'[s].op = "none"
    BY <1>0, <1>1 DEF Removal, None
  <1>3. \/ at'[s] = next /\ User(a)' = {}
        \/ a \in torn'
    <2>1. CASE tab'["users"] = tab["users"] \ rows /\ at'[s] = next
      BY <1>b, <2>1 DEF User, RowsFor
    <2>2. CASE Names(cmd[s]) \subseteq torn'
      BY <1>0, <2>2 DEF Names
    <2> QED
      BY <1>1, <2>1, <2>2 DEF Removal
  <1>4. \A b \in Accounts \ {a} : b \notin torn' => User(b)' = User(b)
    <2>1. \A r \in tab["users"] \ rows : r \in tab'["users"] \/ r.a \in torn'
      BY <1>1 DEF Removal, LostRow
    <2> QED
      BY <1>b, <1>2, <2>1 DEF User, RowsFor
  <1>5. ASSUME NEW d \in Domains \ torn'
        PROVE  DomainIsWhole(d)'
    <2>1. DomainFrame(d)
      BY <1>0, <1>2 DEF DomainFrame, DomAdding, DomDeleting, Handled, UsersIn
    <2> QED
      BY <1>2, <2>1, DomainIsKept DEF IInv
  <1>6. ASSUME NEW d \in Domains \ torn'
        PROVE  DomainOrAlias(d)'
    <2>2. AliasFrame(d)
      BY <1>0, <1>2 DEF AliasFrame, DomAdding, DomDeleting, DomLinking, Handled, AliasDomain
    <2> QED
      BY <1>0, <1>2, <2>2, DomainAliasKept DEF IInv
  <1>7. ASSUME NEW b \in Accounts \ torn'
        PROVE  UserOrAlias(b)'
    <2>1. NameFrame(b)
      BY <1>0, <1>2 DEF NameFrame, Adding, Linking, User, RowsFor
    <2> QED
      BY <1>2, <2>1, NameIsKept DEF IInv
  <1>8. ASSUME NEW b \in Accounts, Whole(b)', b # a \/ rows = {}
        PROVE  UserIsWhole(b)' /\ RowsAreOwned(b)'
    <2>0. Whole(b) /\ b \notin torn'
      BY <1>2, <1>8 DEF Whole
    <2>1. User(b)' = User(b)
      BY <1>b, <1>0, <1>2, <1>3, <1>4, <1>8, <2>0 DEF User, RowsFor
    <2>2. UNCHANGED Handled(DomainOf[b]) /\ UNCHANGED NearAliases(b)
          /\ \A u \in Owned : RowsFor(u, b)' = RowsFor(u, b)
      BY <1>0, <1>2 DEF Handled, NearAliases, AliasesTo, RowsFor, Owned
    <2>3. ASSUME NEW q \in Sessions
          PROVE  /\ Adding(q, b, {"row"})' <=> Adding(q, b, {"row"})
                 /\ Deleting(q, b, UserPast)' <=> Deleting(q, b, UserPast)
                 /\ Deleting(q, b, {"rmdir"})' <=> Deleting(q, b, {"rmdir"})
                 /\ Adding(q, b, {"alias", "dir", "row"})' => Adding(q, b, {"alias", "dir", "row"})
                 /\ \A t \in Owned : Deleting(q, b, {"links"} \cup {t}) => Deleting(q, b, {"links"} \cup {t})'
                 /\ Deleting(q, b, {"links", "extaliases", "aliases"})
                        => Deleting(q, b, {"links", "extaliases", "aliases"})'
      <3>1. CASE q # s
        BY <1>2, <3>1 DEF Adding, Deleting
      <3>2. CASE q = s
        <4>1. b = a => at'[s] = "idle" /\ cmd'[s] = None
          BY <1>c, <1>1, <1>8 DEF Removal
        <4> QED
          BY <1>0, <1>2, <3>2, <4>1 DEF Adding, Deleting, UserPast, Owned, None
      <3> QED
        BY <3>1, <3>2
    <2>4. ASSUME NEW q \in Sessions, NEW steps
          PROVE  DomDeleting(q, DomainOf[b], steps)' <=> DomDeleting(q, DomainOf[b], steps)
      BY <1>0, <1>2 DEF DomDeleting
    <2>5. UserFrame(b)
      BY <1>2, <2>1, <2>2, <2>3, <2>4 DEF UserFrame
    <2>6. ASSUME NEW q \in Sessions, NEW c \in Accounts
          PROVE  Linking(q, c, b, {"overlap", "row"})' => Linking(q, c, b, {"overlap", "row"})
      BY <1>0, <1>2 DEF Linking
    <2>7. OwnedFrame(b)
      BY <2>1, <2>2, <2>3, <2>4, <2>6 DEF OwnedFrame
    <2> QED
      BY <2>0, <2>5, <2>7, UserIsKept, OwnedIsKept DEF IInv
  <1>9. ASSUME Whole(a)', rows # {}
        PROVE  UserIsWhole(a)' /\ RowsAreOwned(a)'
    <2>0. /\ Whole(a) /\ UserIsWhole(a) /\ RowsAreOwned(a) /\ User(a)' = {} /\ at'[s] = "links"
          /\ cmd'[s] = cmd[s]
      BY <1>c, <1>0, <1>1, <1>2, <1>3, <1>9 DEF Whole, IInv, Removal
    <2>1. Deleting(s, a, {"links"})'
      BY <1>0, <2>0 DEF Deleting
    <2>2. ASSUME NEW q \in Sessions
          PROVE  ~Adding(q, a, {"row"})' /\ (Deleting(q, a, UserPast)' => q = s)
      BY <1>0, <1>2, <1>9, <2>0 DEF RowsAreApart, UserIsWhole, Adding, Deleting
    <2>3. ASSUME NEW q \in Sessions, Adding(q, a, {"alias", "dir", "row"})'
          PROVE  Handled(DomainOf[a])'
      BY <1>0, <1>2, <2>0, <2>3 DEF UserIsWhole, Adding, Handled
    <2>4. a \in dirs'
      BY <1>0, <1>2, <1>9, <2>0 DEF UserIsWhole
    <2>5. \A q \in Sessions : ~Deleting(q, a, {"rmdir"})'
      BY <1>0, <2>0, <2>2 DEF Deleting, UserPast
    <2>6. UserIsWhole(a)'
      <3>1. Deleting(s, a, UserPast)'
        BY <2>1 DEF Deleting, UserPast
      <3> QED
        BY <2>0, <2>2, <2>3, <2>4, <2>5, <3>1 DEF UserIsWhole
    <2>7. ASSUME NEW q \in Sessions, NEW b \in Accounts, Linking(q, b, a, {"overlap", "row"})'
          PROVE  FALSE
      <3>1. cmd[q].op = "aliasadd" /\ cmd[q].to = a
        BY <1>0, <1>2, <2>0, <2>7 DEF Linking
      <3>2. Tears(cmd[s], cmd[q]) = {a}
        BY <1>0, <3>1 DEF Tears
      <3> QED
        BY <1>0, <2>0, <3>2 DEF PairsTear, Whole
    <2>8. RowsAreOwned(a)'
      <3>1. /\ Deleting(s, a, {"links", "extaliases", "aliases"})'
            /\ \A t \in Owned : Deleting(s, a, {"links"} \cup {t})'
        BY <2>1 DEF Deleting
      <3> QED
        BY <2>7, <3>1 DEF RowsAreOwned
    <2> QED
      BY <2>6, <2>8
  <1> QED
    BY <1>0, <1>5, <1>6, <1>7, <1>8, <1>9, RemovalKeepsParts DEF IInv

LEMMA UserCascadeKeepsIInv ==
    ASSUME IInv, NEW s \in Sessions, UserCascade(s)
    PROVE  IInv'
  <1>a. PICK a \in Accounts : a = cmd[s].a /\ cmd[s].op = "userdel"
    BY CommandFields DEF IInv, UserCascade
  <1>b. PICK t \in {"links", "extaliases", "aliases"} : t = at[s]
    BY DEF UserCascade, UserTables
  <1>c. PICK gone : gone = IF t = "aliases" THEN AliasesTo(a) ELSE RowsFor(t, a)
    OBVIOUS
  <1>d. PICK next : next = CASE t = "links" -> "extaliases" [] t = "extaliases" -> "aliases" [] t = "aliases" -> "clear"
    OBVIOUS
  <1>0. /\ TypeOK /\ StepsFit /\ PairsTear /\ RowsAreApart
        /\ cmd[s].op = "userdel" /\ cmd[s].a = a
        /\ RemoveRows(s, t, gone, next, next)
        /\ gone \subseteq tab[t] /\ t \in Tables
        /\ {"users", "domains", "aliases", "adomains"} \cup Owned = Tables
        /\ {next, "idle"} \subseteq LabelsOf(cmd[s].op) \cup {"idle"} /\ {next, "idle"} \subseteq Labels
        /\ next \in UserPast \ {"rmdir"} /\ next # "idle"
    <2>1. next = UserTables[t] /\ next \in UserPast \ {"rmdir"} /\ next # "idle"
      BY <1>b, <1>d DEF UserTables, UserPast
    <2>2. RemoveRows(s, t, gone, next, next)
      BY <1>a, <1>b, <1>c, <2>1 DEF UserCascade
    <2>3. gone \subseteq tab[t]
      BY <1>c DEF RowsFor, AliasesTo
    <2> QED
      BY <1>a, <1>b, <2>1, <2>2, <2>3 DEF IInv, Tables, Labels, Owned, LabelsOf, UserPast
  <1>1. Removal(s, t, gone, next, next)
    BY <1>0, RemovalEffect
  <1>2. /\ UNCHANGED <<domDirs, dirs, mail, seen, late>> /\ torn \subseteq torn'
        /\ tab'[t] \subseteq tab[t] /\ \A u \in Tables \ {t} : tab'[u] = tab[u]
        /\ \A q \in Sessions \ {s} : cmd'[q] = cmd[q] /\ at'[q] = at[q]
        /\ cmd'[s] = cmd[s] /\ at'[s] = next
    BY <1>0, <1>1 DEF Removal
  <1>3. /\ tab'["users"] = tab["users"] /\ tab'["domains"] = tab["domains"]
        /\ tab'["adomains"] = tab["adomains"] /\ \A u \in Tables : tab'[u] \subseteq tab[u]
    BY <1>0, <1>b, <1>2 DEF Owned
  <1>4. a \notin torn' => tab'[t] = tab[t] \ gone
    BY <1>0, <1>1 DEF Removal, Names
  <1>5. ASSUME NEW d \in Domains \ torn'
        PROVE  DomainIsWhole(d)'
    <2>1. DomainFrame(d)
      BY <1>0, <1>2, <1>3 DEF DomainFrame, DomAdding, DomDeleting, Handled, UsersIn
    <2> QED
      BY <1>2, <2>1, DomainIsKept DEF IInv
  <1>6. ASSUME NEW d \in Domains \ torn'
        PROVE  DomainOrAlias(d)'
    <2>2. AliasFrame(d)
      BY <1>0, <1>2, <1>3 DEF AliasFrame, DomAdding, DomDeleting, DomLinking, Handled, AliasDomain
    <2> QED
      BY <1>0, <1>2, <2>2, DomainAliasKept DEF IInv
  <1>7. ASSUME NEW b \in Accounts \ torn'
        PROVE  UserOrAlias(b)'
    <2>1. NameFrame(b)
      BY <1>0, <1>2, <1>3 DEF NameFrame, Adding, Linking, User, RowsFor
    <2> QED
      BY <1>2, <2>1, NameIsKept DEF IInv
  <1>8. ASSUME NEW b \in Accounts, Whole(b)'
        PROVE  UserIsWhole(b)' /\ RowsAreOwned(b)'
    <2>0. Whole(b) /\ b \notin torn'
      BY <1>2, <1>8 DEF Whole
    <2>1. UNCHANGED <<User(b), Handled(DomainOf[b])>>
      BY <1>3 DEF User, RowsFor, Handled
    <2>2. /\ NearAliases(b)' \subseteq NearAliases(b)
          /\ \A u \in Owned : RowsFor(u, b)' \subseteq RowsFor(u, b)
      BY <1>0, <1>3 DEF NearAliases, AliasesTo, RowsFor, Owned
    <2>3. ASSUME NEW q \in Sessions
          PROVE  /\ Adding(q, b, {"row"})' <=> Adding(q, b, {"row"})
                 /\ Deleting(q, b, UserPast)' <=> Deleting(q, b, UserPast)
                 /\ Deleting(q, b, {"rmdir"})' <=> Deleting(q, b, {"rmdir"})
                 /\ Adding(q, b, {"alias", "dir", "row"})' => Adding(q, b, {"alias", "dir", "row"})
      <3>1. CASE q # s
        BY <1>2, <3>1 DEF Adding, Deleting
      <3>2. CASE q = s
        BY <1>0, <1>b, <1>2, <3>2 DEF Adding, Deleting, UserPast
      <3> QED
        BY <3>1, <3>2
    <2>4. ASSUME NEW q \in Sessions, NEW steps
          PROVE  DomDeleting(q, DomainOf[b], steps)' <=> DomDeleting(q, DomainOf[b], steps)
      BY <1>0, <1>2 DEF DomDeleting
    <2>5. UserFrame(b)
      BY <1>2, <2>1, <2>3, <2>4 DEF UserFrame
    <2>6. ASSUME NEW q \in Sessions, NEW c \in Accounts
          PROVE  Linking(q, c, b, {"overlap", "row"})' => Linking(q, c, b, {"overlap", "row"})
      BY <1>0, <1>2 DEF Linking
    <2>7. ASSUME NEW u \in Owned, RowsFor(u, b)' # {}, NEW q \in Sessions,
                 Deleting(q, b, {"links"} \cup {u})
          PROVE  Deleting(q, b, {"links"} \cup {u})'
      <3>1. CASE q # s
        BY <1>2, <2>7, <3>1 DEF Deleting
      <3>2. CASE q = s
        <4>1. b = a /\ tab'[t] = tab[t] \ gone /\ t \in {"links", u}
          BY <1>0, <1>b, <1>4, <2>0, <2>7, <3>2 DEF Deleting
        <4>2. t # u
          BY <1>c, <2>7, <4>1 DEF RowsFor, Owned
        <4>3. t = "links" /\ u = "extaliases" /\ next = "extaliases"
          BY <1>d, <4>1, <4>2 DEF Owned
        <4> QED
          BY <1>0, <1>2, <3>2, <4>1, <4>3 DEF Deleting
      <3> QED
        BY <3>1, <3>2
    <2>8. ASSUME NearAliases(b)' # {}, NEW q \in Sessions,
                 Deleting(q, b, {"links", "extaliases", "aliases"})
          PROVE  Deleting(q, b, {"links", "extaliases", "aliases"})'
      <3>1. CASE q # s
        BY <1>2, <2>8, <3>1 DEF Deleting
      <3>2. CASE q = s
        <4>1. b = a /\ tab'[t] = tab[t] \ gone
          BY <1>0, <1>4, <2>0, <2>8, <3>2 DEF Deleting
        <4>2. t # "aliases"
          BY <1>c, <2>8, <4>1 DEF NearAliases, AliasesTo
        <4> QED
          BY <1>0, <1>d, <1>b, <1>2, <3>2, <4>1, <4>2 DEF Deleting
      <3> QED
        BY <3>1, <3>2
    <2>9. OwnedFrame(b)
      BY <2>1, <2>2, <2>4, <2>6, <2>7, <2>8 DEF OwnedFrame
    <2> QED
      BY <2>0, <2>5, <2>9, UserIsKept, OwnedIsKept DEF IInv
  <1> QED
    BY <1>0, <1>b, <1>5, <1>6, <1>7, <1>8, RemovalKeepsParts DEF IInv

LEMMA DomainDelRowKeepsIInv ==
    ASSUME IInv, NEW s \in Sessions, DomainDelRow(s)
    PROVE  IInv'
  <1>a. PICK d \in Domains : d = cmd[s].d /\ cmd[s].op = "domaindel"
    BY CommandFields DEF IInv, DomainDelRow, Keeping
  <1>b. PICK rows : rows = {r \in tab["domains"] : r.d = d}
    OBVIOUS
  <1>c. PICK next : next = IF rows = {} THEN "idle" ELSE "users"
    OBVIOUS
  <1>0. /\ TypeOK /\ StepsFit /\ PairsTear /\ RowsAreApart
        /\ cmd[s].op = "domaindel" /\ cmd[s].d = d /\ at[s] = "row"
        /\ RemoveRows(s, "domains", rows, next, "idle")
        /\ rows \subseteq tab["domains"]
        /\ {"users", "domains", "aliases", "adomains"} \cup Owned = Tables
        /\ {next, "idle"} \subseteq LabelsOf(cmd[s].op) \cup {"idle"} /\ {next, "idle"} \subseteq Labels
    BY <1>a, <1>b, <1>c DEF IInv, DomainDelRow, Keeping, Tables, Labels, Owned, LabelsOf, DomainPast
  <1>1. Removal(s, "domains", rows, next, "idle")
    BY <1>0, RemovalEffect
  <1>2. /\ UNCHANGED <<domDirs, dirs, mail, seen, late>> /\ torn \subseteq torn'
        /\ tab'["domains"] \subseteq tab["domains"] /\ \A u \in Tables \ {"domains"} : tab'[u] = tab[u]
        /\ \A q \in Sessions \ {s} : cmd'[q] = cmd[q] /\ at'[q] = at[q]
        /\ IF at'[s] = "idle" THEN cmd'[s] = None ELSE cmd'[s] = cmd[s]
        /\ at'[s] \in {next, "idle"}
    BY <1>0, <1>1 DEF Removal
  <1>r. /\ \A r \in tab["domains"] : r = [d |-> r.d]
        /\ (rows = {}) <=> ~Handled(d)
    BY <1>0, <1>b, RowFields DEF Handled
  <1>3. d \notin torn' => /\ ~Handled(d)'
                          /\ IF rows = {} THEN at'[s] = "idle" /\ cmd'[s] = None
                             ELSE at'[s] = "users" /\ cmd'[s] = cmd[s]
    <2>1. CASE tab'["domains"] = tab["domains"] \ rows /\ at'[s] = next
      BY <1>b, <1>c, <1>2, <2>1 DEF Handled
    <2>2. CASE Names(cmd[s]) \subseteq torn'
      BY <1>0, <2>2 DEF Names
    <2> QED
      BY <1>1, <2>1, <2>2 DEF Removal
  <1>4. \A e \in Domains \ {d} : e \notin torn' => Handled(e)' = Handled(e)
    <2>1. \A r \in tab["domains"] \ rows : r \in tab'["domains"] \/ r.d \in torn'
      BY <1>1 DEF Removal, LostRow
    <2> QED
      BY <1>b, <1>2, <2>1 DEF Handled
  <1>5. \A e : Handled(e)' => Handled(e)
    BY <1>2 DEF Handled
  <1>6. ASSUME NEW q \in Sessions, NEW e, NEW steps
        PROVE  /\ DomAdding(q, e, steps)' <=> DomAdding(q, e, steps)
               /\ DomLinking(q, e, d, steps)' <=> DomLinking(q, e, d, steps)
               /\ \A to \in Domains : DomLinking(q, e, to, steps)' <=> DomLinking(q, e, to, steps)
               /\ e # d => (DomDeleting(q, e, steps)' <=> DomDeleting(q, e, steps))
    BY <1>0, <1>2 DEF DomAdding, DomDeleting, DomLinking, None
  <1>7. ASSUME NEW q \in Sessions, NEW a, NEW steps
        PROVE  /\ Adding(q, a, steps)' <=> Adding(q, a, steps)
               /\ Deleting(q, a, steps)' <=> Deleting(q, a, steps)
               /\ \A b \in Accounts : Linking(q, b, a, steps)' <=> Linking(q, b, a, steps)
               /\ \A b \in Accounts : Linking(q, a, b, steps)' <=> Linking(q, a, b, steps)
    BY <1>0, <1>2 DEF Adding, Deleting, Linking, None
  <1>8. ASSUME NEW q \in Sessions, NEW steps, d \notin torn',
               \/ rows = {} /\ "row" \notin steps
               \/ {"row", "users"} \cap steps = {}
               \/ q # s
        PROVE  DomDeleting(q, d, steps)' <=> DomDeleting(q, d, steps)
    <2>1. CASE q # s
      BY <1>2, <2>1 DEF DomDeleting
    <2>2. CASE q = s
      BY <1>0, <1>3, <1>8, <2>2 DEF DomDeleting, None
    <2> QED
      BY <2>1, <2>2
  <1>9. rows # {} /\ d \notin torn' => DomDeleting(s, d, {"users"})' /\ DomDeleting(s, d, DomainPast)'
    BY <1>0, <1>2, <1>3 DEF DomDeleting, DomainPast
  <1>10. ASSUME NEW e \in Domains \ torn', e # d \/ rows = {}
         PROVE  DomainIsWhole(e)'
    <2>1. Handled(e)' <=> Handled(e)
      BY <1>3, <1>4, <1>10, <1>r
    <2>2. ASSUME NEW q \in Sessions
          PROVE  /\ DomDeleting(q, e, DomainPast)' <=> DomDeleting(q, e, DomainPast)
                 /\ DomDeleting(q, e, DomainPast \ {"users"})' <=> DomDeleting(q, e, DomainPast \ {"users"})
                 /\ DomDeleting(q, e, {"rmdir"})' <=> DomDeleting(q, e, {"rmdir"})
      <3>1. "row" \notin DomainPast
        BY DEF DomainPast
      <3> QED
        BY <1>6, <1>8, <1>10, <3>1
    <2>3. UsersIn(e)' = UsersIn(e)
      BY <1>0, <1>2 DEF UsersIn
    <2>4. DomainFrame(e)
      BY <1>2, <1>6, <2>1, <2>2, <2>3 DEF DomainFrame
    <2> QED
      BY <1>2, <2>4, DomainIsKept DEF IInv
  <1>11. ASSUME rows # {}, d \notin torn'
         PROVE  DomainIsWhole(d)'
    <2>0. DomainIsWhole(d) /\ ~Handled(d)' /\ d \notin torn
      BY <1>2, <1>3, <1>11 DEF IInv
    <2>1. ASSUME NEW q \in Sessions, DomAdding(q, d, {"dir"})'
          PROVE  FALSE
      <3>1. cmd[q].op = "domainadd" /\ cmd[q].d = d
        BY <1>6, <2>1 DEF DomAdding
      <3>2. Tears(cmd[s], cmd[q]) = {d}
        BY <1>0, <3>1 DEF Tears
      <3> QED
        BY <1>0, <2>0, <3>2 DEF PairsTear
    <2>2. ASSUME NEW q \in Sessions
          PROVE  /\ DomDeleting(q, d, DomainPast \ {"users"})' => UsersIn(d)' = {}
                 /\ DomDeleting(q, d, {"rmdir"})' => \A a \in dirs' : DomainOf[a] = d =>
                        a \in seen'[q] /\ (mail'[a] # {} => a \in late')
      <3>1. UsersIn(d)' = UsersIn(d)
        BY <1>0, <1>2 DEF UsersIn
      <3>2. {"row", "users"} \cap (DomainPast \ {"users"}) = {} /\ {"row", "users"} \cap {"rmdir"} = {}
        BY DEF DomainPast
      <3>3. /\ DomDeleting(q, d, DomainPast \ {"users"})' => DomDeleting(q, d, DomainPast \ {"users"})
            /\ DomDeleting(q, d, {"rmdir"})' => DomDeleting(q, d, {"rmdir"})
        BY <1>8, <1>11, <3>2
      <3> QED
        BY <1>2, <2>0, <3>1, <3>3 DEF DomainIsWhole
    <2> QED
      BY <1>9, <1>11, <2>0, <2>1, <2>2 DEF DomainIsWhole
  <1>12. ASSUME NEW e \in Domains \ torn'
         PROVE  DomainOrAlias(e)'
    <2>1. AliasDomain(e)' = AliasDomain(e)
      BY <1>0, <1>2 DEF AliasDomain
    <2>2. ASSUME NEW to \in Domains, to \notin torn', NEW q \in Sessions
          PROVE  /\ Handled(to) => Handled(to)' \/ DomDeleting(s, to, {"users"})'
                 /\ DomDeleting(q, to, DomainPast \ {"clear", "rmdir"})
                        => DomDeleting(q, to, DomainPast \ {"clear", "rmdir"})'
      <3>1. CASE to # d
        BY <1>4, <1>6, <2>2, <3>1
      <3>2. CASE to = d
        <4>1. DomDeleting(s, d, DomainPast \ {"clear", "rmdir"}) => FALSE
          BY <1>0 DEF DomDeleting, DomainPast
        <4>2. DomDeleting(q, d, DomainPast \ {"clear", "rmdir"})
                => DomDeleting(q, d, DomainPast \ {"clear", "rmdir"})'
          BY <1>8, <2>2, <3>2, <4>1
        <4> QED
          BY <1>9, <1>r, <2>2, <3>2, <4>2
      <3> QED
        BY <3>1, <3>2
    <2>3. ASSUME NEW q \in Sessions, NEW to \in Domains \ torn', DomLinking(q, e, to, {"overlap", "row"})'
          PROVE  \/ Handled(to)'
                 \/ DomLinking(q, e, to, {"overlap", "row"}) /\ (Handled(to) => Handled(to)')
      <3>1. DomLinking(q, e, to, {"overlap", "row"})
        BY <1>6, <2>3
      <3>2. to = d => FALSE
        <4>1. to = d => Tears(cmd[s], cmd[q]) = {e}
          BY <1>0, <3>1 DEF Tears, DomLinking
        <4> QED
          BY <1>0, <1>2, <1>12, <4>1 DEF PairsTear
      <3> QED
        BY <1>4, <3>1, <3>2
    <2>4. \A r \in AliasDomain(e)' : r.to \in Domains
      BY <1>0, <2>1, RowFields DEF AliasDomain
    <2>5. AliasFrame(e)
      BY <1>2, <1>5, <1>6, <2>1, <2>2, <2>3, <2>4 DEF AliasFrame
    <2> QED
      BY <1>0, <1>2, <2>5, DomainAliasKept DEF IInv
  <1>13. ASSUME NEW b \in Accounts \ torn'
         PROVE  UserOrAlias(b)'
    <2>0. UNCHANGED <<User(b), RowsFor("aliases", b)>>
      BY <1>0, <1>2 DEF User, RowsFor
    <2>1. NameFrame(b)
      BY <1>7, <2>0 DEF NameFrame
    <2> QED
      BY <1>2, <2>1, NameIsKept DEF IInv
  <1>14. ASSUME NEW b \in Accounts, Whole(b)'
         PROVE  UserIsWhole(b)' /\ RowsAreOwned(b)'
    <2>0. /\ Whole(b) /\ UserIsWhole(b) /\ RowsAreOwned(b)
          /\ DomainOf[b] \in Domains /\ DomainOf[b] \notin torn'
      BY <1>2, <1>14, AccountsAssumption DEF Whole, IInv
    <2>1. /\ UNCHANGED <<User(b), NearAliases(b)>>
          /\ \A u \in Owned : RowsFor(u, b)' = RowsFor(u, b)
      BY <1>0, <1>2 DEF User, RowsFor, NearAliases, AliasesTo, Owned
    <2>2. OwnedFrame(b)
      <3>1. ASSUME NEW q \in Sessions, NEW steps, {"row", "users"} \cap steps = {}
            PROVE  DomDeleting(q, DomainOf[b], steps)' <=> DomDeleting(q, DomainOf[b], steps)
        BY <1>6, <1>8, <2>0, <3>1
      <3>2. \A t \in Owned : {"row", "users"} \cap {"aliases", "extaliases", t} = {}
        BY DEF Owned
      <3>3. {"row", "users"} \cap {"aliases"} = {}
        OBVIOUS
      <3> QED
        BY <1>7, <2>1, <3>1, <3>2, <3>3 DEF OwnedFrame
    <2>3. ASSUME DomainOf[b] # d \/ rows = {}
          PROVE  UserIsWhole(b)'
      <3>1. Handled(DomainOf[b])' <=> Handled(DomainOf[b])
        BY <1>3, <1>4, <1>r, <2>0, <2>3
      <3>2. ASSUME NEW q \in Sessions
            PROVE  /\ DomDeleting(q, DomainOf[b], {"users"})' <=> DomDeleting(q, DomainOf[b], {"users"})
                   /\ DomDeleting(q, DomainOf[b], DomainPast)' <=> DomDeleting(q, DomainOf[b], DomainPast)
        <4>1. "row" \notin DomainPast /\ "row" \notin {"users"}
          BY DEF DomainPast
        <4> QED
          BY <1>6, <1>8, <2>0, <2>3, <4>1
      <3>3. UserFrame(b)
        BY <1>2, <1>7, <2>1, <3>1, <3>2 DEF UserFrame
      <3> QED
        BY <2>0, <3>3, UserIsKept
    <2>4. ASSUME DomainOf[b] = d, rows # {}
          PROVE  UserIsWhole(b)'
      <3>1. DomDeleting(s, DomainOf[b], {"users"})' /\ DomDeleting(s, DomainOf[b], DomainPast)'
        BY <1>9, <2>0, <2>4
      <3>2. ASSUME NEW q \in Sessions, Adding(q, b, {"alias", "dir", "row"})'
            PROVE  FALSE
        <4>1. cmd[q].op = "useradd" /\ cmd[q].a = b
          BY <1>7, <3>2 DEF Adding
        <4>2. Tears(cmd[s], cmd[q]) = {d}
          BY <1>0, <2>4, <4>1 DEF Tears
        <4> QED
          BY <1>0, <2>0, <2>4, <4>2 DEF PairsTear, Whole
      <3>3. ASSUME NEW q \in Sessions
            PROVE  /\ Adding(q, b, {"row"})' => b \in dirs'
                   /\ Deleting(q, b, {"rmdir"})' => mail'[b] = {} \/ b \in late'
                   /\ Deleting(q, b, UserPast)' => User(b)' = {} /\ (b \in dirs' \/ ~Handled(DomainOf[b])')
        BY <1>2, <1>5, <1>7, <2>0, <2>1 DEF UserIsWhole
      <3>4. ASSUME NEW q \in Sessions, NEW p \in Sessions, Deleting(q, b, UserPast)'
            PROVE  ~Adding(p, b, {"row"})' /\ (Deleting(p, b, UserPast)' => p = q)
        BY <1>7, <2>0, <3>4 DEF UserIsWhole
      <3>5. User(b)' # {} => b \in dirs'
        BY <1>2, <2>0, <2>1 DEF UserIsWhole
      <3> QED
        BY <3>1, <3>2, <3>3, <3>4, <3>5 DEF UserIsWhole
    <2> QED
      BY <2>0, <2>2, <2>3, <2>4, OwnedIsKept
  <1> QED
    BY <1>0, <1>10, <1>11, <1>12, <1>13, <1>14, RemovalKeepsParts DEF IInv

LEMMA DomainCascadeKeepsIInv ==
    ASSUME IInv, NEW s \in Sessions, DomainCascade(s)
    PROVE  IInv'
  <1>a. PICK d \in Domains : d = cmd[s].d /\ cmd[s].op = "domaindel"
    BY CommandFields DEF IInv, DomainCascade
  <1>b. PICK t \in {"users", "aliases", "extaliases", "links", "adomains"} : t = at[s]
    BY DEF DomainCascade, DomainTables
  <1>c. PICK gone : gone = CASE t = "users" -> UsersIn(d)
                             [] t = "aliases" -> AliasesIn(d)
                             [] t = "adomains" -> LinkedDomains(d)
                             [] OTHER -> OwnedIn(t, d)
    OBVIOUS
  <1>d. PICK next : next = CASE t = "users" -> "aliases" [] t = "aliases" -> "extaliases"
                             [] t = "extaliases" -> "links" [] t = "links" -> "adomains"
                             [] t = "adomains" -> "clear"
    OBVIOUS
  <1>0. /\ TypeOK /\ StepsFit /\ PairsTear /\ RowsAreApart
        /\ cmd[s].op = "domaindel" /\ cmd[s].d = d
        /\ RemoveRows(s, t, gone, next, "idle")
        /\ gone \subseteq tab[t] /\ t \in Tables
        /\ {"users", "domains", "aliases", "adomains"} \cup Owned = Tables
        /\ {next, "idle"} \subseteq LabelsOf(cmd[s].op) \cup {"idle"} /\ {next, "idle"} \subseteq Labels
        /\ next \in DomainPast \ {"users", "rmdir"} /\ next # "idle"
    <2>1. next = DomainTables[t] /\ next \in DomainPast \ {"users", "rmdir"} /\ next # "idle"
      BY <1>b, <1>d DEF DomainTables, DomainPast
    <2>2. RemoveRows(s, t, gone, next, "idle")
      BY <1>a, <1>b, <1>c, <2>1 DEF DomainCascade
    <2>3. gone \subseteq tab[t]
      BY <1>b, <1>c DEF UsersIn, AliasesIn, LinkedDomains, OwnedIn
    <2> QED
      BY <1>a, <1>b, <2>1, <2>2, <2>3 DEF IInv, Tables, Labels, Owned, LabelsOf, DomainPast
  <1>1. Removal(s, t, gone, next, "idle")
    BY <1>0, RemovalEffect
  <1>2. /\ UNCHANGED <<domDirs, dirs, mail, seen, late>> /\ torn \subseteq torn'
        /\ tab'[t] \subseteq tab[t] /\ \A u \in Tables \ {t} : tab'[u] = tab[u]
        /\ \A q \in Sessions \ {s} : cmd'[q] = cmd[q] /\ at'[q] = at[q]
        /\ IF at'[s] = "idle" THEN cmd'[s] = None ELSE cmd'[s] = cmd[s]
    BY <1>0, <1>1 DEF Removal
  <1>3. /\ tab'["domains"] = tab["domains"] /\ \A u \in Tables : tab'[u] \subseteq tab[u]
        /\ \A e : Handled(e)' <=> Handled(e)
    BY <1>0, <1>b, <1>2 DEF Handled
  <1>4. d \notin torn' => /\ tab'[t] = tab[t] \ gone /\ at'[s] = next /\ cmd'[s] = cmd[s]
                          /\ torn' = torn
    BY <1>0, <1>1 DEF Removal, Names
  <1>5. ASSUME NEW q \in Sessions, NEW e, NEW steps
        PROVE  /\ DomAdding(q, e, steps)' <=> DomAdding(q, e, steps)
               /\ \A to \in Domains : DomLinking(q, e, to, steps)' <=> DomLinking(q, e, to, steps)
               /\ e # d => (DomDeleting(q, e, steps)' <=> DomDeleting(q, e, steps))
               /\ q # s => (DomDeleting(q, e, steps)' <=> DomDeleting(q, e, steps))
    BY <1>0, <1>2 DEF DomAdding, DomDeleting, DomLinking, None
  <1>6. ASSUME NEW q \in Sessions, NEW a, NEW steps
        PROVE  /\ Adding(q, a, steps)' <=> Adding(q, a, steps)
               /\ Deleting(q, a, steps)' <=> Deleting(q, a, steps)
               /\ \A b \in Accounts : Linking(q, b, a, steps)' <=> Linking(q, b, a, steps)
               /\ \A b \in Accounts : Linking(q, a, b, steps)' <=> Linking(q, a, b, steps)
    BY <1>0, <1>2 DEF Adding, Deleting, Linking, None
  \* The session goes from t to next.
  <1>7. ASSUME d \notin torn', NEW steps
        PROVE  /\ DomDeleting(s, d, steps) <=> t \in steps
               /\ DomDeleting(s, d, steps)' <=> next \in steps
    <2>1. DomDeleting(s, d, steps) <=> t \in steps
      BY <1>0, <1>b DEF DomDeleting
    <2>2. cmd'[s].op = "domaindel" /\ cmd'[s].d = d /\ at'[s] = next
      BY <1>0, <1>4, <1>7
    <2> QED
      BY <2>1, <2>2 DEF DomDeleting
  <1>8. ASSUME NEW e \in Domains \ torn'
        PROVE  DomainIsWhole(e)'
    <2>1. ASSUME NEW q \in Sessions
          PROVE  /\ DomDeleting(q, e, DomainPast)' <=> DomDeleting(q, e, DomainPast)
                 /\ DomDeleting(q, e, {"rmdir"})' <=> DomDeleting(q, e, {"rmdir"})
      <3>1. CASE q # s \/ e # d
        BY <1>5, <3>1
      <3>2. CASE q = s /\ e = d
        <4>1. {t, next} \subseteq DomainPast /\ "rmdir" \notin {t, next}
          BY <1>0, <1>b DEF DomainPast
        <4> QED
          BY <1>7, <1>8, <3>2, <4>1
      <3> QED
        BY <3>1, <3>2
    <2>2. UsersIn(e)' \subseteq UsersIn(e)
      BY <1>0, <1>3 DEF UsersIn
    <2>3. ASSUME NEW q \in Sessions, DomDeleting(q, e, DomainPast \ {"users"})'
          PROVE  UsersIn(e)' = {} \/ DomDeleting(q, e, DomainPast \ {"users"})
      <3>1. CASE q # s \/ e # d
        BY <1>5, <2>3, <3>1
      <3>2. CASE q = s /\ e = d
        <4>1. CASE t = "users"
          BY <1>4, <1>8, <1>c, <3>2, <4>1 DEF UsersIn
        <4>2. CASE t # "users"
          <5>1. t \in DomainPast \ {"users"}
            BY <1>b, <4>2 DEF DomainPast
          <5> QED
            BY <1>7, <1>8, <3>2, <5>1
        <4> QED
          BY <4>1, <4>2
      <3> QED
        BY <3>1, <3>2
    <2>4. DomainFrame(e)
      BY <1>2, <1>3, <1>5, <2>1, <2>2, <2>3 DEF DomainFrame
    <2> QED
      BY <1>2, <2>4, DomainIsKept DEF IInv
  <1>9. ASSUME NEW e \in Domains \ torn'
        PROVE  DomainOrAlias(e)'
    <2>1. AliasDomain(e)' \subseteq AliasDomain(e)
      BY <1>0, <1>3 DEF AliasDomain
    <2>2. ASSUME NEW r \in AliasDomain(e)', r.to \notin torn', NEW q \in Sessions,
                 DomDeleting(q, r.to, DomainPast \ {"clear", "rmdir"})
          PROVE  DomDeleting(q, r.to, DomainPast \ {"clear", "rmdir"})'
      <3>1. CASE q # s \/ r.to # d
        BY <1>5, <2>2, <3>1
      <3>2. CASE q = s /\ r.to = d
        <4>1. CASE t = "adomains"
          <5>1. r \in tab'["adomains"] /\ tab'["adomains"] = tab["adomains"] \ LinkedDomains(d)
            BY <1>c, <1>4, <2>2, <3>2, <4>1 DEF AliasDomain
          <5> QED
            BY <3>2, <5>1 DEF LinkedDomains
        <4>2. CASE t # "adomains"
          <5>1. next \in DomainPast \ {"clear", "rmdir"}
            BY <1>0, <1>b, <1>d, <4>2
          <5> QED
            BY <1>7, <2>2, <3>2, <5>1
        <4> QED
          BY <4>1, <4>2
      <3> QED
        BY <3>1, <3>2
    <2>3. AliasFrame(e)
      BY <1>2, <1>3, <1>5, <2>1, <2>2 DEF AliasFrame
    <2> QED
      BY <1>0, <1>2, <2>3, DomainAliasKept DEF IInv
  <1>10. ASSUME NEW b \in Accounts \ torn'
         PROVE  UserOrAlias(b)'
    <2>0. User(b)' \subseteq User(b) /\ RowsFor("aliases", b)' \subseteq RowsFor("aliases", b)
      BY <1>0, <1>3 DEF User, RowsFor
    <2>1. NameFrame(b)
      BY <1>6, <2>0 DEF NameFrame
    <2> QED
      BY <1>2, <2>1, NameIsKept DEF IInv
  <1>11. ASSUME NEW b \in Accounts, Whole(b)'
         PROVE  UserIsWhole(b)' /\ RowsAreOwned(b)'
    <2>0. /\ Whole(b) /\ UserIsWhole(b) /\ RowsAreOwned(b)
          /\ DomainOf[b] \in Domains /\ DomainOf[b] \notin torn' /\ b \notin torn'
      BY <1>2, <1>11, AccountsAssumption DEF Whole, IInv
    <2>1. ASSUME NEW q \in Sessions
          PROVE  DomDeleting(q, DomainOf[b], DomainPast)' <=> DomDeleting(q, DomainOf[b], DomainPast)
      <3>1. {t, next} \subseteq DomainPast
        BY <1>0, <1>b DEF DomainPast
      <3> QED
        BY <1>5, <1>7, <2>0, <3>1
    <2>2. /\ NearAliases(b)' \subseteq NearAliases(b)
          /\ \A u \in Owned : RowsFor(u, b)' \subseteq RowsFor(u, b)
      BY <1>0, <1>3 DEF NearAliases, AliasesTo, RowsFor, Owned
    <2>3. ASSUME ~(t = "users" /\ DomainOf[b] = d)
          PROVE  UserIsWhole(b)' /\ RowsAreOwned(b)'
      <3>1. User(b)' = User(b)
        <4>1. CASE t # "users"
          BY <1>0, <1>2, <4>1 DEF User, RowsFor
        <4>2. CASE t = "users" /\ DomainOf[b] # d
          <5>1. \A r \in tab["users"] \ tab'["users"] : r.a = b => FALSE
            <6>1. \A r \in gone : r.a # b
              BY <1>c, <4>2 DEF UsersIn
            <6> QED
              BY <1>1, <2>0, <4>2, <6>1 DEF Removal, LostRow
          <5> QED
            BY <1>2, <4>2, <5>1 DEF User, RowsFor
        <4> QED
          BY <2>3, <4>1, <4>2
      <3>2. ASSUME NEW q \in Sessions
            PROVE  DomDeleting(q, DomainOf[b], {"users"})' <=> DomDeleting(q, DomainOf[b], {"users"})
        BY <1>0, <1>5, <1>7, <2>0, <2>3
      <3>3. UserFrame(b)
        BY <1>2, <1>3, <1>6, <2>1, <3>1, <3>2 DEF UserFrame
      <3>4. ASSUME NEW u \in Owned, RowsFor(u, b)' # {}, NEW q \in Sessions,
                   DomDeleting(q, DomainOf[b], {"aliases", "extaliases", u})
            PROVE  DomDeleting(q, DomainOf[b], {"aliases", "extaliases", u})'
        <4>1. CASE q # s \/ DomainOf[b] # d
          BY <1>5, <3>4, <4>1
        <4>2. CASE q = s /\ DomainOf[b] = d
          <5>1. t \in {"aliases", "extaliases", u} /\ tab'[t] = tab[t] \ gone
            BY <1>4, <1>7, <2>0, <3>4, <4>2
          <5>2. t # u
            <6>1. t = u => gone = OwnedIn(u, d)
              BY <1>c DEF Owned
            <6> QED
              BY <3>4, <4>2, <5>1, <6>1 DEF OwnedIn, RowsFor
          <5>3. next \in {"aliases", "extaliases", u}
            BY <1>d, <5>1, <5>2 DEF Owned
          <5> QED
            BY <1>7, <2>0, <4>2, <5>3
        <4> QED
          BY <4>1, <4>2
      <3>5. ASSUME NearAliases(b)' # {}, NEW q \in Sessions, DomDeleting(q, DomainOf[b], {"aliases"})
            PROVE  DomDeleting(q, DomainOf[b], {"aliases"})'
        <4>1. CASE q # s \/ DomainOf[b] # d
          BY <1>5, <3>5, <4>1
        <4>2. CASE q = s /\ DomainOf[b] = d
          <5>1. t = "aliases" /\ tab'["aliases"] = tab["aliases"] \ AliasesIn(d)
            BY <1>c, <1>4, <1>7, <2>0, <3>5, <4>2
          <5> QED
            BY <3>5, <4>2, <5>1 DEF NearAliases, AliasesTo, AliasesIn
        <4> QED
          BY <4>1, <4>2
      <3>6. OwnedFrame(b)
        BY <1>6, <2>2, <3>1, <3>4, <3>5 DEF OwnedFrame
      <3> QED
        BY <2>0, <3>3, <3>6, UserIsKept, OwnedIsKept
    <2>4. ASSUME t = "users", DomainOf[b] = d
          PROVE  UserIsWhole(b)' /\ RowsAreOwned(b)'
      <3>0. /\ User(b)' = {} /\ next = "aliases" /\ d \notin torn'
            /\ DomDeleting(s, d, DomainPast)' /\ DomDeleting(s, d, {"aliases"})'
        <4>1. tab'["users"] = tab["users"] \ UsersIn(d) /\ next = "aliases" /\ d \notin torn'
          BY <1>c, <1>d, <1>4, <2>0, <2>4
        <4>2. "aliases" \in DomainPast
          BY DEF DomainPast
        <4> QED
          BY <1>7, <2>4, <4>1, <4>2 DEF User, RowsFor, UsersIn
      <3>1. ASSUME NEW q \in Sessions, Adding(q, b, {"alias", "dir", "row"})'
            PROVE  FALSE
        <4>1. cmd[q].op = "useradd" /\ cmd[q].a = b
          <5>1. Adding(q, b, {"alias", "dir", "row"})
            BY <1>6, <3>1
          <5> QED
            BY <5>1 DEF Adding
        <4>2. Tears(cmd[s], cmd[q]) = {d}
          BY <1>0, <2>4, <4>1 DEF Tears
        <4> QED
          BY <1>0, <2>0, <2>4, <4>2 DEF PairsTear, Whole
      <3>2. ASSUME NEW q \in Sessions, NEW c \in Accounts, Linking(q, c, b, {"overlap", "row"})'
            PROVE  FALSE
        <4>1. cmd[q].op = "aliasadd" /\ cmd[q].to = b
          <5>1. Linking(q, c, b, {"overlap", "row"})
            BY <1>6, <3>2
          <5> QED
            BY <5>1 DEF Linking
        <4>2. Tears(cmd[s], cmd[q]) = {b}
          BY <1>0, <2>4, <4>1 DEF Tears
        <4> QED
          BY <1>0, <2>0, <4>2 DEF PairsTear, Whole
      <3>3. ASSUME NEW q \in Sessions
            PROVE  /\ ~Adding(q, b, {"row"})'
                   /\ Deleting(q, b, {"rmdir"})' => mail'[b] = {} \/ b \in late'
                   /\ Deleting(q, b, UserPast)' => b \in dirs' \/ ~Handled(DomainOf[b])'
        <4>1. Adding(q, b, {"row"})' => Adding(q, b, {"alias", "dir", "row"})'
          BY DEF Adding
        <4> QED
          BY <1>2, <1>3, <1>6, <2>0, <3>1, <4>1 DEF UserIsWhole
      <3>4. ASSUME NEW q \in Sessions, NEW p \in Sessions, Deleting(q, b, UserPast)', Deleting(p, b, UserPast)'
            PROVE  p = q
        BY <1>6, <2>0, <3>4 DEF UserIsWhole
      <3>5. UserIsWhole(b)'
        BY <2>4, <3>0, <3>1, <3>3, <3>4 DEF UserIsWhole
      <3>6. RowsAreOwned(b)'
        <4>1. \A u \in Owned : DomDeleting(s, DomainOf[b], {"aliases", "extaliases", u})'
          BY <2>4, <3>0 DEF DomDeleting
        <4> QED
          BY <2>4, <3>0, <3>2, <4>1 DEF RowsAreOwned
      <3> QED
        BY <3>5, <3>6
    <2> QED
      BY <2>3, <2>4
  <1> QED
    BY <1>0, <1>b, <1>8, <1>9, <1>10, <1>11, RemovalKeepsParts DEF IInv
-----------------------------------------------------------------------------
(* Steps that add a row to a table. *)

Addition(s, t, row, next) ==
    /\ torn \subseteq torn' /\ UNCHANGED <<domDirs, dirs, mail, seen, box, born, late>>
    /\ \A u \in Tables \ {t} : tab'[u] = tab[u]
    /\ tab'[t] \in {tab[t], tab[t] \cup {row}}
    /\ \A q \in Sessions \ {s} : cmd'[q] = cmd[q] /\ at'[q] = at[q]
    /\ \/ tab'[t] = tab[t] \cup {row} /\ torn' = torn /\ at'[s] = next
       \/ Names(cmd[s]) \subseteq torn' /\ at'[s] \in {next, "idle"}
    /\ IF at'[s] = "idle" THEN cmd'[s] = None ELSE cmd'[s] = cmd[s]

LEMMA AdditionEffect ==
    ASSUME IInv, NEW s \in Sessions, NEW t \in Tables, NEW row \in RowsOf[t],
           NEW next \in LabelsOf(cmd[s].op) \cup {"idle"}, next \in Labels, Append(s, t, row, next),
           UNCHANGED <<domDirs, dirs, mail, seen, box, born, late>>, at[s] = "row"
    PROVE  Addition(s, t, row, next) /\ TypeOK' /\ StepsFit' /\ DirsNest'
  <1>0. /\ TypeOK /\ StepsFit /\ "idle" \in Labels
        /\ Only(t) /\ HistoryTyped /\ lost' = lost
        /\ \/ tab'[t] = tab[t] \cup {row} /\ torn' = torn /\ Goes(s, next)
           \/ /\ tab'[t] \in {tab[t], tab[t] \cup {row}}
              /\ torn' = torn \cup Names(cmd[s])
              /\ Goes(s, next) \/ Goes(s, "idle")
    BY AppendEffect DEF IInv, Labels
  <1>1. /\ torn \subseteq torn' /\ torn' \subseteq Accounts \cup Domains
        /\ \A u \in Tables \ {t} : tab'[u] = tab[u]
        /\ tab'[t] \in {tab[t], tab[t] \cup {row}}
    BY <1>0, NamesTyped DEF TypeOK, Only
  <1>2. PICK l \in {next, "idle"} :
            /\ Goes(s, l)
            /\ \/ tab'[t] = tab[t] \cup {row} /\ torn' = torn /\ l = next
               \/ Names(cmd[s]) \subseteq torn'
    BY <1>0
  <1>3. /\ cmd' \in [Sessions -> Requests \cup {None}] /\ at' \in [Sessions -> Labels]
        /\ \A q \in Sessions \ {s} : cmd'[q] = cmd[q] /\ at'[q] = at[q]
        /\ at'[s] = l
        /\ IF l = "idle" THEN cmd'[s] = None ELSE cmd'[s] = cmd[s]
    BY <1>0, <1>2, GoesOne
  <1>4. Addition(s, t, row, next)
    BY <1>1, <1>2, <1>3 DEF Addition
  <1>5. TypeOK'
    <2>1. tab'[t] \subseteq RowsOf[t]
      BY <1>0, <1>1 DEF TypeOK
    <2>2. /\ tab' \in [Tables -> UNION {SUBSET RowsOf[u] : u \in Tables}]
          /\ \A u \in Tables : tab'[u] \subseteq RowsOf[u]
      BY <1>0, <2>1, TableTyped
    <2> QED
      BY <1>0, <1>1, <1>3, <2>2 DEF TypeOK, HistoryTyped
  <1>6. StepsFit'
    BY <1>0, <1>3 DEF StepsFit, LabelsOf, None
  <1>7. DirsNest'
    BY DEF IInv, DirsNest
  <1> QED
    BY <1>4, <1>5, <1>6, <1>7

LEMMA CurrentIsAUsers ==
    ASSUME TypeOK, NEW a
    PROVE  /\ Current(a) \in Incarnations
           /\ User(a) = {} => Current(a) = 0
           /\ User(a) # {} => \E u \in User(a) : u.gen = Current(a)
  <1>1. CASE User(a) = {}
    BY <1>1, BoundsAssumption DEF Current, User, RowsFor, Incarnations
  <1>2. CASE User(a) # {}
    <2>1. PICK u \in User(a) : u = CHOOSE r \in RowsFor("users", a) : TRUE
      BY <1>2 DEF User
    <2>2. Current(a) = u.gen
      BY <1>2, <2>1 DEF Current, User
    <2>3. u \in [a : Accounts, gen : Incarnations]
      BY <2>1, RowFields DEF User, RowsFor
    <2> QED
      BY <1>2, <2>1, <2>2, <2>3
  <1> QED
    BY <1>1, <1>2

\* A link or external alias belongs to the user there is, or to none.
LEMMA OwnAddKeepsIInv ==
    ASSUME IInv, NEW s \in Sessions, OwnAdd(s)
    PROVE  IInv'
  <1>a. PICK a \in Accounts, t \in Owned : a = cmd[s].a /\ t = cmd[s].table /\ cmd[s].op = "ownadd"
    BY CommandFields DEF IInv, OwnAdd, Keeping
  <1>b. PICK row : row = [a |-> a, gen |-> Current(a)]
    OBVIOUS
  <1>0. TypeOK /\ at[s] = "row" /\ UNCHANGED <<domDirs, dirs, mail, seen, box, born, late>>
    BY DEF IInv, OwnAdd, Keeping
  <1>1. CASE Skip(s, "idle")
    BY <1>a, <1>0, <1>1, SkipKeepsIInv
  <1>2. CASE Append(s, t, row, "idle")
    <2>1. row \in RowsOf[t] /\ t \in Tables
      <3>1. row \in [a : Accounts, gen : Incarnations]
        BY <1>0, <1>b, CurrentIsAUsers
      <3>2. RowsOf[t] = [a : Accounts, gen : Incarnations]
        <4>1. /\ RowsOf["links"] = [a : Accounts, gen : Incarnations]
              /\ RowsOf["extaliases"] = [a : Accounts, gen : Incarnations]
          BY DEF RowsOf
        <4> QED
          BY <4>1 DEF Owned
      <3> QED
        BY <3>1, <3>2 DEF Owned, Tables
    <2>2. Addition(s, t, row, "idle") /\ TypeOK' /\ StepsFit' /\ DirsNest'
      BY <1>0, <1>2, <2>1, AdditionEffect DEF Labels
    <2>3. /\ \A u \in Tables \ {t} : tab'[u] = tab[u]
          /\ {"users", "domains", "adomains", "aliases"} \subseteq Tables \ {t}
          /\ torn \subseteq torn' /\ UNCHANGED <<domDirs, dirs, mail, seen, box, born, late>>
          /\ \A q \in Sessions \ {s} : cmd'[q] = cmd[q] /\ at'[q] = at[q]
          /\ cmd'[s] = None /\ cmd'[s].op = "none"
      BY <2>2 DEF Addition, Tables, Owned, None
    <2>4. ASSUME NEW q \in Sessions, NEW b, NEW steps
          PROVE  /\ Adding(q, b, steps)' <=> Adding(q, b, steps)
                 /\ Deleting(q, b, steps)' <=> Deleting(q, b, steps)
                 /\ DomAdding(q, b, steps)' <=> DomAdding(q, b, steps)
                 /\ DomDeleting(q, b, steps)' <=> DomDeleting(q, b, steps)
                 /\ \A c \in Accounts : Linking(q, b, c, steps)' <=> Linking(q, b, c, steps)
                 /\ \A c \in Accounts : Linking(q, c, b, steps)' <=> Linking(q, c, b, steps)
                 /\ \A c \in Domains : DomLinking(q, b, c, steps)' <=> DomLinking(q, b, c, steps)
      BY <1>a, <2>3 DEF Adding, Deleting, DomAdding, DomDeleting, Linking, DomLinking
    <2>5. PairsTear' /\ RowsAreApart' /\ MailIsOwned'
      <3>1. \A q \in Sessions : cmd'[q] \in {cmd[q], None}
        BY <2>3
      <3> QED
        BY <2>3, <2>4, <3>1, TearsIsKept, ApartIsKept, MailIsKeptOwned DEF IInv
    <2>6. ASSUME NEW d \in Domains \ torn'
          PROVE  DomainIsWhole(d)' /\ DomainOrAlias(d)'
      <3>1. /\ Handled(d)' = Handled(d) /\ UsersIn(d)' = UsersIn(d) /\ AliasDomain(d)' = AliasDomain(d)
            /\ \A e : Handled(e)' = Handled(e)
        BY <2>3 DEF Handled, UsersIn, AliasDomain
      <3>2. DomainFrame(d)
        BY <2>3, <2>4, <3>1 DEF DomainFrame
      <3>3. AliasFrame(d)
        BY <2>3, <2>4, <3>1 DEF AliasFrame
      <3> QED
        BY <1>0, <2>3, <3>2, <3>3, DomainIsKept, DomainAliasKept DEF IInv
    <2>7. ASSUME NEW b \in Accounts \ torn'
          PROVE  UserOrAlias(b)'
      <3>1. UNCHANGED <<User(b), RowsFor("aliases", b)>>
        BY <2>3 DEF User, RowsFor
      <3>2. NameFrame(b)
        BY <2>4, <3>1 DEF NameFrame
      <3> QED
        BY <2>3, <3>2, NameIsKept DEF IInv
    <2>8. ASSUME NEW b \in Accounts, Whole(b)'
          PROVE  UserIsWhole(b)' /\ RowsAreOwned(b)'
      <3>1. UNCHANGED <<User(b), NearAliases(b), AliasesTo(b), Handled(DomainOf[b])>> /\ Whole(b)
        BY <2>3, <2>8 DEF User, RowsFor, NearAliases, AliasesTo, Handled, Whole
      <3>2. UserFrame(b)
        BY <2>3, <2>4, <3>1 DEF UserFrame
      <3>3. \A u \in Owned : \A r \in RowsFor(u, b)' :
                r \in RowsFor(u, b) \/ r.gen = 0 \/ \E v \in User(b) : v.gen = r.gen
        <4>1. row.a = a /\ (row.gen = 0 \/ \E v \in User(a) : v.gen = row.gen)
          BY <1>0, <1>b, CurrentIsAUsers
        <4>2. \A u \in Owned : tab'[u] \subseteq tab[u] \cup {row}
          BY <2>1, <2>2 DEF Addition, Owned, Tables
        <4> QED
          BY <4>1, <4>2 DEF RowsFor
      <3>4. RowsAreOwned(b)'
        <4>0. RowsAreOwned(b)
          BY <3>1 DEF IInv
        <4>1. ASSUME NEW u \in Owned, NEW r \in RowsFor(u, b)'
              PROVE  \/ r.gen = 0 \/ \E v \in User(b)' : v.gen = r.gen
                     \/ \E q \in Sessions :
                          \/ Deleting(q, b, {"links"} \cup {u})'
                          \/ DomDeleting(q, DomainOf[b], {"aliases", "extaliases", u})'
          BY <2>4, <3>1, <3>3, <4>0 DEF RowsAreOwned
        <4>2. ASSUME NEW r \in AliasesTo(b)', DomainOf[r.a] = DomainOf[b]
              PROVE  \/ \E u \in User(b)' : u.gen = r.gen
                     \/ \E q \in Sessions :
                          \/ Deleting(q, b, {"links", "extaliases", "aliases"})'
                          \/ DomDeleting(q, DomainOf[b], {"aliases"})'
          BY <2>4, <3>1, <4>0, <4>2 DEF RowsAreOwned
        <4>3. ASSUME NEW q \in Sessions, NEW c \in Accounts, Linking(q, c, b, {"overlap", "row"})'
              PROVE  User(b)' # {}
          BY <2>4, <3>1, <4>0, <4>3 DEF RowsAreOwned
        <4> QED
          BY <4>1, <4>2, <4>3 DEF RowsAreOwned
      <3> QED
        BY <3>1, <3>2, <3>4, UserIsKept DEF IInv
    <2> QED
      BY <2>2, <2>5, <2>6, <2>7, <2>8 DEF IInv
  <1> QED
    BY <1>a, <1>b, <1>1, <1>2 DEF OwnAdd

\* The alias leads to a user, and is no user itself.
LEMMA AliasAddRowKeepsIInv ==
    ASSUME IInv, NEW s \in Sessions, AliasAddRow(s)
    PROVE  IInv'
  <1>a. PICK a \in Accounts, to \in Accounts : a = cmd[s].a /\ to = cmd[s].to /\ cmd[s].op = "aliasadd"
    BY CommandFields DEF IInv, AliasAddRow, Keeping
  <1>b. PICK row : row = [a |-> a, to |-> to, gen |-> Current(to)]
    OBVIOUS
  <1>0. /\ TypeOK /\ PairsTear /\ at[s] = "row" /\ UNCHANGED <<domDirs, dirs, mail, seen, box, born, late>>
    BY DEF IInv, AliasAddRow, Keeping
  <1>1. CASE Skip(s, "idle")
    BY <1>a, <1>0, <1>1, SkipKeepsIInv
  <1>2. CASE Append(s, "aliases", row, "idle")
    <2>1. row \in RowsOf["aliases"] /\ "aliases" \in Tables
      <3>1. row \in [a : Accounts, to : Accounts, gen : Incarnations]
        BY <1>0, <1>b, CurrentIsAUsers
      <3> QED
        BY <3>1 DEF RowsOf, Tables
    <2>2. Addition(s, "aliases", row, "idle") /\ TypeOK' /\ StepsFit' /\ DirsNest'
      BY <1>0, <1>2, <2>1, AdditionEffect DEF Labels
    <2>3. /\ \A u \in Tables \ {"aliases"} : tab'[u] = tab[u]
          /\ {"users", "domains", "adomains"} \cup Owned \subseteq Tables \ {"aliases"}
          /\ torn \subseteq torn' /\ UNCHANGED <<domDirs, dirs, mail, seen, box, born, late>>
          /\ \A q \in Sessions \ {s} : cmd'[q] = cmd[q] /\ at'[q] = at[q]
          /\ cmd'[s] = None /\ cmd'[s].op = "none"
          /\ tab'["aliases"] \subseteq tab["aliases"] \cup {row}
      BY <2>2 DEF Addition, Tables, Owned, None
    <2>4. ASSUME NEW q \in Sessions, NEW b, NEW steps
          PROVE  /\ Adding(q, b, steps)' <=> Adding(q, b, steps)
                 /\ Deleting(q, b, steps)' <=> Deleting(q, b, steps)
                 /\ DomAdding(q, b, steps)' <=> DomAdding(q, b, steps)
                 /\ DomDeleting(q, b, steps)' <=> DomDeleting(q, b, steps)
                 /\ \A c \in Accounts : Linking(q, b, c, steps)' => Linking(q, b, c, steps)
                 /\ \A c \in Accounts : Linking(q, c, b, steps)' => Linking(q, c, b, steps)
                 /\ \A c \in Domains : DomLinking(q, b, c, steps)' <=> DomLinking(q, b, c, steps)
      BY <1>a, <2>3 DEF Adding, Deleting, DomAdding, DomDeleting, Linking, DomLinking
    <2>5. PairsTear' /\ RowsAreApart' /\ MailIsOwned'
      <3>1. \A q \in Sessions : cmd'[q] \in {cmd[q], None}
        BY <2>3
      <3> QED
        BY <2>3, <2>4, <3>1, TearsIsKept, ApartIsKept, MailIsKeptOwned DEF IInv
    <2>6. ASSUME NEW d \in Domains \ torn'
          PROVE  DomainIsWhole(d)' /\ DomainOrAlias(d)'
      <3>1. /\ Handled(d)' = Handled(d) /\ UsersIn(d)' = UsersIn(d) /\ AliasDomain(d)' = AliasDomain(d)
            /\ \A e : Handled(e)' = Handled(e)
        BY <2>3 DEF Handled, UsersIn, AliasDomain
      <3>2. DomainFrame(d)
        BY <2>3, <2>4, <3>1 DEF DomainFrame
      <3>3. AliasFrame(d)
        BY <2>3, <2>4, <3>1 DEF AliasFrame
      <3> QED
        BY <1>0, <2>3, <3>2, <3>3, DomainIsKept, DomainAliasKept DEF IInv
    <2>7. ASSUME NEW b \in Accounts \ torn'
          PROVE  UserOrAlias(b)'
      <3>0. User(b)' = User(b) /\ UserOrAlias(b)
        BY <2>3 DEF User, RowsFor, IInv
      <3>1. CASE b # a
        <4>1. RowsFor("aliases", b)' \subseteq RowsFor("aliases", b)
          BY <1>b, <2>3, <3>1 DEF RowsFor
        <4>2. NameFrame(b)
          BY <2>4, <3>0, <4>1 DEF NameFrame
        <4> QED
          BY <3>0, <4>2, NameIsKept
      <3>2. CASE b = a
        <4>1. User(b) = {}
          BY <1>a, <1>0, <3>0, <3>2 DEF UserOrAlias, Linking
        <4>2. ASSUME NEW q \in Sessions, Adding(q, b, {"dir", "row"})'
              PROVE  FALSE
          <5>1. Adding(q, b, {"dir", "row"})
            BY <2>4, <4>2
          <5>2. Tears(cmd[q], cmd[s]) = {b}
            BY <1>a, <3>2, <5>1 DEF Tears, Adding
          <5> QED
            BY <1>0, <2>3, <2>7, <5>2 DEF PairsTear
        <4> QED
          BY <3>0, <4>1, <4>2 DEF UserOrAlias
      <3> QED
        BY <3>1, <3>2
    <2>8. ASSUME NEW b \in Accounts, Whole(b)'
          PROVE  UserIsWhole(b)' /\ RowsAreOwned(b)'
      <3>1. /\ UNCHANGED <<User(b), Handled(DomainOf[b])>> /\ Whole(b)
            /\ \A u \in Owned : RowsFor(u, b)' = RowsFor(u, b)
        BY <2>3, <2>8 DEF User, RowsFor, Handled, Whole
      <3>2. UserFrame(b)
        BY <2>3, <2>4, <3>1 DEF UserFrame
      <3>3. RowsAreOwned(b)
        BY <3>1 DEF IInv
      <3>4. \A r \in AliasesTo(b)' : r \in AliasesTo(b) \/ \E u \in User(b) : u.gen = r.gen
        <4>1. SUFFICES ASSUME b = to PROVE \E u \in User(b) : u.gen = row.gen
          BY <1>b, <2>3 DEF AliasesTo
        <4>2. User(b) # {}
          BY <1>a, <1>0, <3>3, <4>1 DEF RowsAreOwned, Linking
        <4> QED
          BY <1>0, <1>b, <4>1, <4>2, CurrentIsAUsers
      <3>5. RowsAreOwned(b)'
        <4>1. ASSUME NEW u \in Owned, NEW r \in RowsFor(u, b)'
              PROVE  \/ r.gen = 0 \/ \E v \in User(b)' : v.gen = r.gen
                     \/ \E q \in Sessions :
                          \/ Deleting(q, b, {"links"} \cup {u})'
                          \/ DomDeleting(q, DomainOf[b], {"aliases", "extaliases", u})'
          BY <2>4, <3>1, <3>3 DEF RowsAreOwned
        <4>2. ASSUME NEW r \in AliasesTo(b)', DomainOf[r.a] = DomainOf[b]
              PROVE  \/ \E u \in User(b)' : u.gen = r.gen
                     \/ \E q \in Sessions :
                          \/ Deleting(q, b, {"links", "extaliases", "aliases"})'
                          \/ DomDeleting(q, DomainOf[b], {"aliases"})'
          BY <2>4, <3>1, <3>3, <3>4, <4>2 DEF RowsAreOwned
        <4>3. ASSUME NEW q \in Sessions, NEW c \in Accounts, Linking(q, c, b, {"overlap", "row"})'
              PROVE  User(b)' # {}
          BY <2>4, <3>1, <3>3, <4>3 DEF RowsAreOwned
        <4> QED
          BY <4>1, <4>2, <4>3 DEF RowsAreOwned
      <3> QED
        BY <3>1, <3>2, <3>5, UserIsKept DEF IInv
    <2> QED
      BY <2>2, <2>5, <2>6, <2>7, <2>8 DEF IInv
  <1> QED
    BY <1>a, <1>b, <1>1, <1>2 DEF AliasAddRow

\* The alias domain leads to a domain, and is none itself.
LEMMA ADomainAddRowKeepsIInv ==
    ASSUME IInv, NEW s \in Sessions, ADomainAddRow(s)
    PROVE  IInv'
  <1>a. PICK d \in Domains, to \in Domains : d = cmd[s].d /\ to = cmd[s].to /\ cmd[s].op = "adomainadd"
    BY CommandFields DEF IInv, ADomainAddRow, Keeping
  <1>b. PICK row : row = [d |-> d, to |-> to]
    OBVIOUS
  <1>0. /\ TypeOK /\ PairsTear /\ RowsAreApart
        /\ at[s] = "row" /\ UNCHANGED <<domDirs, dirs, mail, seen, box, born, late>>
    BY DEF IInv, ADomainAddRow, Keeping
  <1>1. CASE Skip(s, "idle")
    BY <1>a, <1>0, <1>1, SkipKeepsIInv
  <1>2. CASE Append(s, "adomains", row, "idle") /\ AliasDomain(d) = {}
    <2>1. row \in RowsOf["adomains"] /\ "adomains" \in Tables
      <3>1. row \in [d : Domains, to : Domains]
        BY <1>b
      <3> QED
        BY <3>1 DEF RowsOf, Tables
    <2>2. Addition(s, "adomains", row, "idle") /\ TypeOK' /\ StepsFit' /\ DirsNest'
      BY <1>0, <1>2, <2>1, AdditionEffect DEF Labels
    <2>3. /\ \A u \in Tables \ {"adomains"} : tab'[u] = tab[u]
          /\ {"users", "domains", "aliases"} \cup Owned \subseteq Tables \ {"adomains"}
          /\ torn \subseteq torn' /\ UNCHANGED <<domDirs, dirs, mail, seen, box, born, late>>
          /\ \A q \in Sessions \ {s} : cmd'[q] = cmd[q] /\ at'[q] = at[q]
          /\ cmd'[s] = None /\ cmd'[s].op = "none"
          /\ tab'["adomains"] \subseteq tab["adomains"] \cup {row}
      BY <2>2 DEF Addition, Tables, Owned, None
    <2>4. ASSUME NEW q \in Sessions, NEW b, NEW steps
          PROVE  /\ Adding(q, b, steps)' <=> Adding(q, b, steps)
                 /\ Deleting(q, b, steps)' <=> Deleting(q, b, steps)
                 /\ DomAdding(q, b, steps)' <=> DomAdding(q, b, steps)
                 /\ DomDeleting(q, b, steps)' <=> DomDeleting(q, b, steps)
                 /\ \A c \in Accounts : Linking(q, b, c, steps)' <=> Linking(q, b, c, steps)
                 /\ \A c \in Accounts : Linking(q, c, b, steps)' <=> Linking(q, c, b, steps)
                 /\ \A c \in Domains : DomLinking(q, b, c, steps)' => DomLinking(q, b, c, steps)
      BY <1>a, <2>3 DEF Adding, Deleting, DomAdding, DomDeleting, Linking, DomLinking
    \* A domain that is added meanwhile has torn the name already.
    <2>5. PairsTear'
      <3> SUFFICES ASSUME NEW p \in Sessions, NEW q \in Sessions
                   PROVE  Tears(cmd[p], cmd[q])' \subseteq torn'
        BY DEF PairsTear
      <3>1. CASE p = s \/ q = s
        BY <2>3, <3>1 DEF Tears
      <3>2. CASE p # s /\ q # s
        <4>1. CASE cmd[p].op = "domaindel" /\ cmd[q].op = "domainadd" /\ cmd[q].d = d
          <5>1. Tears(cmd[q], cmd[s]) = {d}
            BY <1>a, <4>1 DEF Tears
          <5>2. Tears(cmd[p], cmd[q])' \subseteq {d}
            BY <2>3, <3>2, <4>1 DEF Tears
          <5> QED
            BY <1>0, <2>3, <5>1, <5>2 DEF PairsTear
        <4>2. CASE ~(cmd[p].op = "domaindel" /\ cmd[q].op = "domainadd" /\ cmd[q].d = d)
          <5>1. cmd[p].op = "domaindel" /\ cmd[q].op = "domainadd" =>
                    ([d |-> cmd[q].d, to |-> cmd[p].d] \in tab'["adomains"]
                        => [d |-> cmd[q].d, to |-> cmd[p].d] \in tab["adomains"])
            BY <1>b, <2>3, <4>2
          <5>2. Tears(cmd[p], cmd[q])' \subseteq Tears(cmd[p], cmd[q])
            BY <2>3, <3>2, <5>1 DEF Tears
          <5> QED
            BY <1>0, <2>3, <5>2 DEF PairsTear
        <4> QED
          BY <4>1, <4>2
      <3> QED
        BY <3>1, <3>2
    <2>6. RowsAreApart'
      <3>1. \A r, q \in tab'["adomains"] : r.d = q.d => r = q
        BY <1>0, <1>b, <1>2, <2>3 DEF RowsAreApart, AliasDomain
      <3>2. \A b \in Accounts : User(b)' = User(b)
        BY <2>3 DEF User, RowsFor
      <3>3. \A q \in Sessions, b \in Accounts : Adding(q, b, {"row"})' => User(b)' = {} /\ born'[b] # 0
        BY <1>0, <2>3, <2>4, <3>2 DEF RowsAreApart
      <3>4. \A p, q \in Sessions : \A b, c \in Accounts :
                Adding(p, b, {"row"})' /\ Adding(q, c, {"row"})' => p = q
        BY <1>0, <2>4 DEF RowsAreApart
      <3>5. /\ \A u, v \in tab'["users"] : u.a = v.a => u = v
            /\ \A u \in tab'["users"] : u.gen # 0
            /\ \A p \in Deliverers : box'[p] # Nobody => box'[p].gen # 0
        BY <1>0, <2>3 DEF RowsAreApart
      <3> QED
        BY <3>1, <3>3, <3>4, <3>5 DEF RowsAreApart
    <2>m. MailIsOwned'
      BY <2>3, <2>4, MailIsKeptOwned DEF IInv
    <2>7. ASSUME NEW e \in Domains \ torn'
          PROVE  DomainIsWhole(e)' /\ DomainOrAlias(e)'
      <3>1. /\ Handled(e)' = Handled(e) /\ UsersIn(e)' = UsersIn(e)
            /\ \A f : Handled(f)' = Handled(f)
        BY <2>3 DEF Handled, UsersIn
      <3>2. DomainFrame(e)
        BY <2>3, <2>4, <3>1 DEF DomainFrame
      <3>3. CASE e # d
        <4>1. AliasDomain(e)' \subseteq AliasDomain(e)
          BY <1>b, <2>3, <3>3 DEF AliasDomain
        <4>2. AliasFrame(e)
          BY <2>3, <2>4, <3>1, <4>1 DEF AliasFrame
        <4> QED
          BY <1>0, <2>3, <3>2, <4>2, DomainIsKept, DomainAliasKept DEF IInv
      <3>4. CASE e = d
        <4>0. DomainOrAlias(d) /\ d \notin torn /\ DomLinking(s, d, to, {"row"})
              /\ DomLinking(s, d, to, {"overlap", "row"})
          BY <1>a, <1>0, <2>3, <2>7, <3>4 DEF IInv, DomLinking
        <4>1. \A r \in AliasDomain(d)' : r = row
          BY <1>2, <2>3 DEF AliasDomain
        <4>2. ~Handled(d)' /\ (to \notin torn' => Handled(to)')
          BY <2>3, <3>1, <4>0 DEF DomainOrAlias
        <4>3. ASSUME NEW q \in Sessions, DomAdding(q, d, {"row"})'
              PROVE  FALSE
          <5>1. DomAdding(q, d, {"row"})
            BY <2>4, <4>3
          <5>2. Tears(cmd[q], cmd[s]) = {d}
            BY <1>a, <5>1 DEF Tears, DomAdding
          <5> QED
            BY <1>0, <4>0, <5>2 DEF PairsTear
        <4>4. ASSUME NEW q \in Sessions, NEW f \in Domains
              PROVE  /\ f \notin torn' /\ DomLinking(q, d, f, {"overlap", "row"})' => Handled(f)'
                     /\ DomLinking(q, d, f, {"row"})' => ~Handled(d)'
          BY <2>3, <2>4, <3>1, <4>0, <4>2 DEF DomainOrAlias
        <4>5. DomainOrAlias(d)'
          BY <1>b, <4>1, <4>2, <4>3, <4>4 DEF DomainOrAlias
        <4> QED
          BY <2>3, <3>2, <3>4, <4>5, DomainIsKept DEF IInv
      <3> QED
        BY <3>3, <3>4
    <2>8. ASSUME NEW b \in Accounts \ torn'
          PROVE  UserOrAlias(b)'
      <3>1. UNCHANGED <<User(b), RowsFor("aliases", b)>>
        BY <2>3 DEF User, RowsFor
      <3>2. NameFrame(b)
        BY <2>4, <3>1 DEF NameFrame
      <3> QED
        BY <2>3, <3>2, NameIsKept DEF IInv
    <2>9. ASSUME NEW b \in Accounts, Whole(b)'
          PROVE  UserIsWhole(b)' /\ RowsAreOwned(b)'
      <3>1. /\ UNCHANGED <<User(b), NearAliases(b), Handled(DomainOf[b])>> /\ Whole(b)
            /\ \A u \in Owned : RowsFor(u, b)' = RowsFor(u, b)
        BY <2>3, <2>9 DEF User, RowsFor, NearAliases, AliasesTo, Handled, Whole
      <3>2. UserFrame(b)
        BY <2>3, <2>4, <3>1 DEF UserFrame
      <3>3. OwnedFrame(b)
        BY <2>4, <3>1 DEF OwnedFrame
      <3> QED
        BY <3>1, <3>2, <3>3, UserIsKept, OwnedIsKept DEF IInv
    <2> QED
      BY <2>2, <2>5, <2>6, <2>m, <2>7, <2>8, <2>9 DEF IInv
  <1> QED
    BY <1>a, <1>b, <1>1, <1>2 DEF ADomainAddRow

\* A user is added to its directory, with nothing in it.
LEMMA UserAddRowKeepsIInv ==
    ASSUME IInv, NEW s \in Sessions, UserAddRow(s)
    PROVE  IInv'
  <1>a. PICK a \in Accounts : a = cmd[s].a /\ cmd[s].op = "useradd"
    BY CommandFields DEF IInv, UserAddRow, Keeping
  <1>b. PICK row : row = [a |-> a, gen |-> born[a]]
    OBVIOUS
  <1>0. /\ TypeOK /\ PairsTear /\ RowsAreApart /\ MailIsOwned
        /\ at[s] = "row" /\ UNCHANGED <<domDirs, dirs, mail, seen, box, born, late>>
        /\ Append(s, "users", row, "idle") /\ Adding(s, a, {"row"})
    BY <1>a, <1>b DEF IInv, UserAddRow, Keeping, Adding
  <1>1. row \in RowsOf["users"] /\ "users" \in Tables
    <2>1. row \in [a : Accounts, gen : Incarnations]
      BY <1>0, <1>b DEF TypeOK
    <2> QED
      BY <2>1 DEF RowsOf, Tables
  <1>2. Addition(s, "users", row, "idle") /\ TypeOK' /\ StepsFit' /\ DirsNest'
    BY <1>0, <1>1, AdditionEffect DEF Labels
  <1>3. /\ \A u \in Tables \ {"users"} : tab'[u] = tab[u]
        /\ {"aliases", "domains", "adomains"} \cup Owned \subseteq Tables \ {"users"}
        /\ torn \subseteq torn' /\ UNCHANGED <<domDirs, dirs, mail, seen, box, born, late>>
        /\ \A q \in Sessions \ {s} : cmd'[q] = cmd[q] /\ at'[q] = at[q]
        /\ cmd'[s] = None /\ cmd'[s].op = "none"
        /\ tab'["users"] \in {tab["users"], tab["users"] \cup {row}}
        /\ a \notin torn' => tab'["users"] = tab["users"] \cup {row}
    BY <1>a, <1>2 DEF Addition, Tables, Owned, None, Names
  <1>4. ASSUME NEW q \in Sessions, NEW b, NEW steps
        PROVE  /\ Adding(q, b, steps)' => Adding(q, b, steps)
               /\ b # a => (Adding(q, b, steps)' <=> Adding(q, b, steps))
               /\ Deleting(q, b, steps)' <=> Deleting(q, b, steps)
               /\ DomAdding(q, b, steps)' <=> DomAdding(q, b, steps)
               /\ DomDeleting(q, b, steps)' <=> DomDeleting(q, b, steps)
               /\ \A c \in Accounts : Linking(q, b, c, steps)' <=> Linking(q, b, c, steps)
               /\ \A c \in Accounts : Linking(q, c, b, steps)' <=> Linking(q, c, b, steps)
               /\ \A c \in Domains : DomLinking(q, b, c, steps)' <=> DomLinking(q, b, c, steps)
    BY <1>a, <1>3 DEF Adding, Deleting, DomAdding, DomDeleting, Linking, DomLinking
  \* Who was between its directory and its row was this session.
  <1>5. \A q \in Sessions, b \in Accounts : ~Adding(q, b, {"row"})'
    <2>1. \A q \in Sessions, b \in Accounts : Adding(q, b, {"row"}) => q = s
      BY <1>0 DEF RowsAreApart
    <2>2. \A b : ~Adding(s, b, {"row"})'
      BY <1>3 DEF Adding
    <2> QED
      BY <1>4, <2>1, <2>2
  <1>6. /\ User(a) = {} /\ born[a] # 0 /\ User(a)' \subseteq {row}
        /\ \A b \in Accounts \ {a} : User(b)' = User(b)
    <2>1. User(a) = {} /\ born[a] # 0
      BY <1>0 DEF RowsAreApart
    <2> QED
      BY <1>b, <1>3, <2>1 DEF User, RowsFor
  <1>7. PairsTear'
    <2>1. \A q \in Sessions : cmd'[q] \in {cmd[q], None}
      BY <1>3
    <2> QED
      BY <1>0, <1>3, <2>1, TearsIsKept
  <1>8. RowsAreApart'
    <2>1. \A u, v \in tab'["users"] : u.a = v.a => u = v
      <3>1. \A u \in tab["users"] : u.a # a
        BY <1>6 DEF User, RowsFor
      <3> QED
        BY <1>0, <1>b, <1>3, <3>1 DEF RowsAreApart
    <2>2. \A u \in tab'["users"] : u.gen # 0
      BY <1>0, <1>b, <1>3, <1>6 DEF RowsAreApart
    <2>3. /\ \A r, q \in tab'["adomains"] : r.d = q.d => r = q
          /\ \A p \in Deliverers : box'[p] # Nobody => box'[p].gen # 0
      BY <1>0, <1>3 DEF RowsAreApart
    <2> QED
      BY <1>5, <2>1, <2>2, <2>3 DEF RowsAreApart
  <1>9. MailIsOwned'
    <2> SUFFICES ASSUME NEW b \in Accounts \ late, NEW u \in User(b)'
                 PROVE  mail[b] \subseteq {u.gen}
      BY <1>3, <1>5 DEF MailIsOwned
    <2>1. CASE b = a
      BY <1>0, <2>1 DEF MailIsOwned
    <2>2. CASE b # a
      BY <1>0, <1>6, <2>2 DEF MailIsOwned
    <2> QED
      BY <2>1, <2>2
  <1>10. ASSUME NEW d \in Domains \ torn'
         PROVE  DomainIsWhole(d)' /\ DomainOrAlias(d)'
    <2>1. /\ Handled(d)' = Handled(d) /\ AliasDomain(d)' = AliasDomain(d)
          /\ \A e : Handled(e)' = Handled(e)
      BY <1>3 DEF Handled, AliasDomain
    <2>2. ASSUME NEW q \in Sessions, DomDeleting(q, d, DomainPast \ {"users"})
          PROVE  UsersIn(d)' \subseteq UsersIn(d)
      <3>1. DomainOf[a] # d
        <4>1. DomainOf[a] = d => Tears(cmd[q], cmd[s]) = {d}
          BY <1>a, <2>2 DEF Tears, DomDeleting
        <4> QED
          BY <1>0, <1>3, <1>10, <4>1 DEF PairsTear
      <3> QED
        BY <1>b, <1>3, <3>1 DEF UsersIn
    <2>3. DomainFrame(d)
      BY <1>3, <1>4, <2>1, <2>2 DEF DomainFrame
    <2>4. AliasFrame(d)
      BY <1>3, <1>4, <2>1 DEF AliasFrame
    <2> QED
      BY <1>0, <1>3, <2>3, <2>4, DomainIsKept, DomainAliasKept DEF IInv
  <1>11. ASSUME NEW b \in Accounts \ torn'
         PROVE  UserOrAlias(b)'
    <2>0. RowsFor("aliases", b)' = RowsFor("aliases", b) /\ UserOrAlias(b) /\ b \notin torn
      BY <1>3 DEF RowsFor, IInv
    <2>1. CASE b # a
      <3>1. NameFrame(b)
        BY <1>4, <1>6, <2>0, <2>1 DEF NameFrame
      <3> QED
        BY <2>0, <3>1, NameIsKept
    <2>2. CASE b = a
      <3>1. RowsFor("aliases", b) = {}
        BY <1>0, <2>0, <2>2 DEF UserOrAlias, Adding
      <3>2. ASSUME NEW q \in Sessions, NEW c \in Accounts, Linking(q, b, c, {"row"})'
            PROVE  FALSE
        <4>1. Linking(q, b, c, {"row"})
          BY <1>4, <3>2
        <4>2. Tears(cmd[s], cmd[q]) = {b}
          BY <1>a, <2>2, <4>1 DEF Tears, Linking
        <4> QED
          BY <1>0, <2>0, <4>2 DEF PairsTear
      <3> QED
        BY <2>0, <3>1, <3>2 DEF UserOrAlias
    <2> QED
      BY <2>1, <2>2
  <1>12. ASSUME NEW b \in Accounts, Whole(b)'
         PROVE  UserIsWhole(b)' /\ RowsAreOwned(b)'
    <2>1. /\ UNCHANGED <<NearAliases(b), Handled(DomainOf[b])>> /\ Whole(b) /\ User(b) \subseteq User(b)'
          /\ \A u \in Owned : RowsFor(u, b)' = RowsFor(u, b)
      BY <1>3, <1>12 DEF User, RowsFor, NearAliases, AliasesTo, Handled, Whole
    <2>2. OwnedFrame(b)
      BY <1>4, <2>1 DEF OwnedFrame
    <2>3. CASE b # a
      <3>1. UserFrame(b)
        BY <1>3, <1>4, <1>6, <2>1, <2>3 DEF UserFrame
      <3> QED
        BY <2>1, <2>2, <3>1, UserIsKept, OwnedIsKept DEF IInv
    <2>4. CASE b = a
      <3>1. /\ UserIsWhole(a) /\ a \in dirs /\ Handled(DomainOf[a])
            /\ \A q \in Sessions : ~Deleting(q, a, UserPast)
        <4>1. UserIsWhole(a) /\ Adding(s, a, {"alias", "dir", "row"})
          BY <1>0, <2>1, <2>4 DEF IInv, Adding
        <4> QED
          BY <1>0, <4>1 DEF UserIsWhole
      <3>2. User(a)' # {}
        <4>1. row \in tab'["users"] /\ row.a = a
          BY <1>b, <1>3, <1>12, <2>4 DEF Whole
        <4> QED
          BY <4>1 DEF User, RowsFor
      <3>3. ASSUME NEW q \in Sessions
            PROVE  ~Deleting(q, a, UserPast)' /\ ~Deleting(q, a, {"rmdir"})'
        <4>1. Deleting(q, a, {"rmdir"}) => Deleting(q, a, UserPast)
          BY DEF Deleting, UserPast
        <4> QED
          BY <1>4, <3>1, <4>1
      <3>4. UserIsWhole(a)'
        BY <1>3, <1>5, <2>1, <2>4, <3>1, <3>2, <3>3 DEF UserIsWhole
      <3> QED
        BY <2>1, <2>2, <2>4, <3>4, OwnedIsKept DEF IInv
    <2> QED
      BY <2>3, <2>4
  <1> QED
    BY <1>2, <1>7, <1>8, <1>9, <1>10, <1>11, <1>12 DEF IInv

\* A domain gets its row, and is about to get its directory.
LEMMA DomainAddRowKeepsIInv ==
    ASSUME IInv, NEW s \in Sessions, DomainAddRow(s)
    PROVE  IInv'
  <1>a. PICK d \in Domains : d = cmd[s].d /\ cmd[s].op = "domainadd"
    BY CommandFields DEF IInv, DomainAddRow, Keeping
  <1>b. PICK row : row = [d |-> d]
    OBVIOUS
  <1>0. /\ TypeOK /\ PairsTear /\ RowsAreApart
        /\ at[s] = "row" /\ UNCHANGED <<domDirs, dirs, mail, seen, box, born, late>>
    BY DEF IInv, DomainAddRow, Keeping
  <1>1. CASE Skip(s, "idle")
    BY <1>a, <1>0, <1>1, SkipKeepsIInv
  <1>2. CASE Append(s, "domains", row, "dir") /\ ~Handled(d)
    <2>1. row \in RowsOf["domains"] /\ "domains" \in Tables
      <3>1. row \in [d : Domains]
        BY <1>b
      <3> QED
        BY <3>1 DEF RowsOf, Tables
    <2>2. Addition(s, "domains", row, "dir") /\ TypeOK' /\ StepsFit' /\ DirsNest'
      <3>1. "dir" \in LabelsOf(cmd[s].op) /\ "dir" \in Labels
        BY <1>a DEF LabelsOf, Labels
      <3> QED
        BY <1>0, <1>2, <2>1, <3>1, AdditionEffect
    <2>3. /\ \A u \in Tables \ {"domains"} : tab'[u] = tab[u]
          /\ {"aliases", "users", "adomains"} \cup Owned \subseteq Tables \ {"domains"}
          /\ torn \subseteq torn' /\ UNCHANGED <<domDirs, dirs, mail, seen, box, born, late>>
          /\ \A q \in Sessions \ {s} : cmd'[q] = cmd[q] /\ at'[q] = at[q]
          /\ cmd'[s] \in {None, cmd[s]} /\ at'[s] \in {"dir", "idle"}
          /\ \A e \in Domains \ {d} : Handled(e)' = Handled(e)
          /\ \A e : Handled(e) => Handled(e)'
          /\ d \notin torn' => Handled(d)' /\ at'[s] = "dir" /\ cmd'[s] = cmd[s]
      BY <1>a, <1>b, <2>2 DEF Addition, Tables, Owned, Names, Handled
    <2>4. ASSUME NEW q \in Sessions, NEW b, NEW steps
          PROVE  /\ Adding(q, b, steps)' <=> Adding(q, b, steps)
                 /\ Deleting(q, b, steps)' <=> Deleting(q, b, steps)
                 /\ DomDeleting(q, b, steps)' <=> DomDeleting(q, b, steps)
                 /\ \A c \in Accounts : Linking(q, b, c, steps)' <=> Linking(q, b, c, steps)
                 /\ \A c \in Accounts : Linking(q, c, b, steps)' <=> Linking(q, c, b, steps)
                 /\ \A c \in Domains : DomLinking(q, b, c, steps)' <=> DomLinking(q, b, c, steps)
                 /\ b # d => (DomAdding(q, b, steps)' <=> DomAdding(q, b, steps))
                 /\ DomAdding(q, b, {"row"})' => DomAdding(q, b, {"row"})
      BY <1>a, <2>3 DEF Adding, Deleting, DomAdding, DomDeleting, Linking, DomLinking, None
    <2>5. PairsTear' /\ RowsAreApart' /\ MailIsOwned'
      <3>1. \A q \in Sessions : cmd'[q] \in {cmd[q], None}
        BY <2>3
      <3> QED
        BY <2>3, <2>4, <3>1, TearsIsKept, ApartIsKept, MailIsKeptOwned DEF IInv
    <2>6. d \notin torn' => \A q \in Sessions, steps \in {DomainPast, DomainPast \ {"users"}, {"rmdir"}} :
                                ~DomDeleting(q, d, steps)'
      <3> SUFFICES ASSUME d \notin torn', NEW q \in Sessions, cmd[q].op = "domaindel", cmd[q].d = d
                   PROVE  FALSE
        BY <2>4 DEF DomDeleting
      <3>1. Tears(cmd[q], cmd[s]) = {d}
        BY <1>a DEF Tears
      <3> QED
        BY <1>0, <2>3, <3>1 DEF PairsTear
    <2>7. ASSUME NEW e \in Domains \ torn'
          PROVE  DomainIsWhole(e)' /\ DomainOrAlias(e)'
      <3>0. UsersIn(e)' = UsersIn(e) /\ AliasDomain(e)' = AliasDomain(e)
            /\ DomainOrAlias(e) /\ e \notin torn /\ \A r \in AliasDomain(e) : r.to \in Domains
        BY <1>0, <2>3, RowFields DEF UsersIn, AliasDomain, IInv
      <3>1. CASE e # d
        <4>1. DomainFrame(e)
          BY <2>3, <2>4, <3>0, <3>1 DEF DomainFrame
        <4>2. AliasFrame(e)
          BY <2>3, <2>4, <3>0, <3>1 DEF AliasFrame
        <4> QED
          BY <1>0, <2>3, <4>1, <4>2, DomainIsKept, DomainAliasKept DEF IInv
      <3>2. CASE e = d
        <4>1. Handled(d)' /\ DomAdding(s, d, {"dir"})'
          BY <1>a, <2>3, <2>7, <3>2 DEF DomAdding
        <4>2. DomainIsWhole(d)'
          BY <2>6, <2>7, <3>2, <4>1 DEF DomainIsWhole
        <4>3. \A r \in AliasDomain(d)' : r.to \in torn'
          <5>1. DomAdding(s, d, {"row"})
            BY <1>a, <1>0 DEF DomAdding
          <5> QED
            BY <2>3, <3>0, <3>2, <5>1 DEF DomainOrAlias
        <4>4. ASSUME NEW q \in Sessions, NEW to \in Domains, DomLinking(q, d, to, {"row"})'
              PROVE  FALSE
          <5>1. DomLinking(q, d, to, {"row"})
            BY <2>4, <4>4
          <5>2. Tears(cmd[s], cmd[q]) = {d}
            BY <1>a, <5>1 DEF Tears, DomLinking
          <5> QED
            BY <1>0, <3>0, <3>2, <5>2 DEF PairsTear
        <4>5. ASSUME NEW q \in Sessions, NEW to \in Domains \ torn', DomLinking(q, d, to, {"overlap", "row"})'
              PROVE  Handled(to)'
          <5>1. to \in Domains \ torn /\ DomLinking(q, d, to, {"overlap", "row"})
            BY <2>3, <2>4, <4>5
          <5> QED
            BY <2>3, <3>0, <3>2, <5>1 DEF DomainOrAlias
        <4>6. DomainOrAlias(d)'
          BY <4>3, <4>4, <4>5 DEF DomainOrAlias
        <4> QED
          BY <3>2, <4>2, <4>6
      <3> QED
        BY <3>1, <3>2
    <2>8. ASSUME NEW b \in Accounts \ torn'
          PROVE  UserOrAlias(b)'
      <3>1. UNCHANGED <<User(b), RowsFor("aliases", b)>>
        BY <2>3 DEF User, RowsFor
      <3>2. NameFrame(b)
        BY <2>4, <3>1 DEF NameFrame
      <3> QED
        BY <2>3, <3>2, NameIsKept DEF IInv
    <2>9. ASSUME NEW b \in Accounts, Whole(b)'
          PROVE  UserIsWhole(b)' /\ RowsAreOwned(b)'
      <3>1. /\ UNCHANGED <<User(b), NearAliases(b)>> /\ Whole(b) /\ DomainOf[b] \in Domains
            /\ \A u \in Owned : RowsFor(u, b)' = RowsFor(u, b)
            /\ b \notin torn /\ DomainOf[b] \notin torn' /\ UserIsWhole(b)
        BY <2>3, <2>9, AccountsAssumption DEF User, RowsFor, NearAliases, AliasesTo, Whole, IInv
      <3>2. OwnedFrame(b)
        BY <2>4, <3>1 DEF OwnedFrame
      <3>3. CASE DomainOf[b] # d
        <4>1. UserFrame(b)
          BY <2>3, <2>4, <3>1, <3>3 DEF UserFrame
        <4> QED
          BY <3>1, <3>2, <4>1, UserIsKept, OwnedIsKept DEF IInv
      <3>4. CASE DomainOf[b] = d
        <4>1. Handled(DomainOf[b])'
          BY <2>3, <3>1, <3>4
        <4>2. ASSUME NEW q \in Sessions, Deleting(q, b, UserPast)
              PROVE  FALSE
          <5>1. Tears(cmd[s], cmd[q]) = {b}
            BY <1>a, <3>4, <4>2 DEF Tears, Deleting
          <5> QED
            BY <1>0, <3>1, <5>1 DEF PairsTear
        <4>3. ASSUME NEW q \in Sessions
              PROVE  /\ ~Deleting(q, b, UserPast)' /\ ~Deleting(q, b, {"rmdir"})'
                     /\ Adding(q, b, {"row"})' => b \in dirs'
          <5>1. Deleting(q, b, {"rmdir"}) => Deleting(q, b, UserPast)
            BY DEF Deleting, UserPast
          <5> QED
            BY <2>3, <2>4, <3>1, <4>2, <5>1 DEF UserIsWhole
        <4>4. User(b)' # {} => b \in dirs'
          BY <2>3, <3>1 DEF UserIsWhole
        <4>5. b \in dirs' =>
                 \/ User(b)' # {} \/ b \in late'
                 \/ \E q \in Sessions : Adding(q, b, {"row"})' \/ DomDeleting(q, DomainOf[b], DomainPast)'
          BY <2>3, <2>4, <3>1, <4>2 DEF UserIsWhole
        <4>6. UserIsWhole(b)'
          BY <4>1, <4>3, <4>4, <4>5 DEF UserIsWhole
        <4> QED
          BY <3>1, <3>2, <4>6, OwnedIsKept DEF IInv
      <3> QED
        BY <3>3, <3>4
    <2> QED
      BY <2>2, <2>5, <2>7, <2>8, <2>9 DEF IInv
  <1> QED
    BY <1>a, <1>b, <1>1, <1>2 DEF DomainAddRow
-----------------------------------------------------------------------------
(* Steps that make and remove directories. *)

\* A session goes on or ends, and no table changes.
Advances(s, next) ==
    /\ Goes(s, next) /\ next \in Labels /\ (next = "idle" \/ next \in LabelsOf(cmd[s].op))
    /\ UNCHANGED <<tab, stale, lost, torn, used, late, box>>

LEMMA AdvanceEffect ==
    ASSUME IInv, NEW s \in Sessions, NEW next, Advances(s, next)
    PROVE  /\ tab' = tab /\ torn' = torn /\ late' = late /\ box' = box
           /\ \A q \in Sessions \ {s} : cmd'[q] = cmd[q] /\ at'[q] = at[q]
           /\ at'[s] = next
           /\ IF next = "idle" THEN cmd'[s] = None /\ cmd'[s].op = "none" ELSE cmd'[s] = cmd[s]
           /\ \A b : User(b)' = User(b) /\ RowsFor("aliases", b)' = RowsFor("aliases", b)
                     /\ NearAliases(b)' = NearAliases(b) /\ Whole(b)' = Whole(b)
           /\ \A b : \A t \in Owned : RowsFor(t, b)' = RowsFor(t, b)
           /\ \A e : Handled(e)' = Handled(e) /\ UsersIn(e)' = UsersIn(e)
                     /\ AliasDomain(e)' = AliasDomain(e)
           /\ PairsTear'
  <1>1. /\ tab' = tab /\ torn' = torn /\ late' = late /\ box' = box /\ next \in Labels /\ Goes(s, next)
    BY DEF Advances
  <1>2. /\ \A q \in Sessions \ {s} : cmd'[q] = cmd[q] /\ at'[q] = at[q]
        /\ at'[s] = next
        /\ IF next = "idle" THEN cmd'[s] = None /\ cmd'[s].op = "none" ELSE cmd'[s] = cmd[s]
    BY <1>1, GoesOne DEF IInv, None
  <1>3. /\ \A b : User(b)' = User(b) /\ RowsFor("aliases", b)' = RowsFor("aliases", b)
                  /\ NearAliases(b)' = NearAliases(b) /\ Whole(b)' = Whole(b)
        /\ \A b : \A t \in Owned : RowsFor(t, b)' = RowsFor(t, b)
    BY <1>1 DEF User, RowsFor, NearAliases, AliasesTo, Whole
  <1>4. \A e : Handled(e)' = Handled(e) /\ UsersIn(e)' = UsersIn(e)
               /\ AliasDomain(e)' = AliasDomain(e)
    BY <1>1 DEF Handled, UsersIn, AliasDomain
  <1>5. PairsTear'
    <2>1. \A q \in Sessions : cmd'[q] \in {cmd[q], None}
      BY <1>2
    <2> QED
      BY <1>1, <2>1, TearsIsKept DEF IInv
  <1> QED
    BY <1>1, <1>2, <1>3, <1>4, <1>5

LEMMA AdvanceTyped ==
    ASSUME IInv, NEW s \in Sessions, NEW next, Advances(s, next),
           domDirs' \subseteq Domains, dirs' \subseteq Accounts,
           mail' \in [Accounts -> SUBSET Incarnations], seen' \in [Sessions -> SUBSET Accounts],
           born' \in [Accounts -> Incarnations]
    PROVE  TypeOK'
  BY GoesOne DEF IInv, Advances, TypeOK

\* What a step of a command for a user is to the others.
OfUser(s, a) == cmd[s].op \in {"useradd", "userdel"} /\ cmd[s].a = a
LEMMA OfUserRoles ==
    ASSUME IInv, NEW s \in Sessions, NEW a, OfUser(s, a), NEW next, Advances(s, next)
    PROVE  \A q \in Sessions : \A b, steps :
             /\ DomAdding(q, b, steps)' <=> DomAdding(q, b, steps)
             /\ DomDeleting(q, b, steps)' <=> DomDeleting(q, b, steps)
             /\ \A c \in Accounts : Linking(q, b, c, steps)' <=> Linking(q, b, c, steps)
             /\ \A c \in Accounts : Linking(q, c, b, steps)' <=> Linking(q, c, b, steps)
             /\ \A c \in Domains : DomLinking(q, b, c, steps)' <=> DomLinking(q, b, c, steps)
             /\ q # s \/ b # a => /\ Adding(q, b, steps)' <=> Adding(q, b, steps)
                                  /\ Deleting(q, b, steps)' <=> Deleting(q, b, steps)
  <1>1. /\ \A q \in Sessions \ {s} : cmd'[q] = cmd[q] /\ at'[q] = at[q]
        /\ cmd'[s].op = "none" \/ cmd'[s] = cmd[s]
    BY AdvanceEffect
  <1> QED
    BY <1>1 DEF OfUser, Adding, Deleting, DomAdding, DomDeleting, Linking, DomLinking

LEMMA OfUserDomains ==
    ASSUME IInv, NEW s \in Sessions, NEW a, OfUser(s, a), NEW next, Advances(s, next),
           NEW d \in Domains \ torn,
           domDirs' = domDirs, seen' = seen,
           \A q \in Sessions : \A b \in dirs' : DomDeleting(q, d, {"rmdir"}) /\ DomainOf[b] = d =>
                b \in dirs /\ mail'[b] \subseteq mail[b]
    PROVE  DomainIsWhole(d)' /\ DomainOrAlias(d)'
  <1>1. DomainFrame(d)
    BY AdvanceEffect, OfUserRoles DEF DomainFrame
  <1>2. AliasFrame(d)
    BY AdvanceEffect, OfUserRoles DEF AliasFrame
  <1> QED
    BY <1>1, <1>2, DomainIsKept, DomainAliasKept DEF IInv

LEMMA UserAddDirKeepsIInv ==
    ASSUME IInv, NEW s \in Sessions, UserAddDir(s)
    PROVE  IInv'
  <1>a. PICK a \in Accounts : a = cmd[s].a /\ cmd[s].op = "useradd"
    BY CommandFields DEF IInv, UserAddDir, Keeping
  <1>0. TypeOK /\ StepsFit /\ PairsTear /\ RowsAreApart /\ DirsNest /\ MailIsOwned /\ at[s] = "dir"
    BY DEF IInv, UserAddDir, Keeping
  <1>1. CASE Skip(s, "idle") /\ UNCHANGED <<born, dirs>>
    BY <1>a, <1>0, <1>1, SkipKeepsIInv DEF UserAddDir
  <1>2. CASE /\ User(a) = {} /\ DomainOf[a] \in domDirs /\ a \notin dirs
             /\ born[a] < MaxBorn /\ born' = [born EXCEPT ![a] = @ + 1]
             /\ dirs' = dirs \cup {a} /\ Goto(s, "row")
             /\ UNCHANGED <<tab, stale, lost, torn, used>>
    <2>1. Advances(s, "row") /\ UNCHANGED <<domDirs, mail, seen, box, late>>
      <3>1. Goes(s, "row")
        BY <1>0, <1>2, GotoGoes
      <3> QED
        BY <1>a, <1>2, <3>1 DEF UserAddDir, Advances, Labels, LabelsOf
    <2>2. OfUser(s, a)
      BY <1>a DEF OfUser
    <2>3. /\ born' \in [Accounts -> Incarnations] /\ born'[a] # 0
          /\ \A b \in Accounts \ {a} : born'[b] = born[b]
      <3>1. born[a] \in Nat /\ born[a] + 1 \in 0..MaxBorn /\ born[a] + 1 # 0
        BY <1>0, <1>2, BoundsAssumption DEF TypeOK, Incarnations
      <3> QED
        BY <1>0, <1>2, <3>1 DEF TypeOK, Incarnations
    <2>4. TypeOK'
      BY <1>0, <1>2, <2>1, <2>3, AdvanceTyped DEF TypeOK
    <2>5. /\ cmd'[s] = cmd[s] /\ at'[s] = "row" /\ torn' = torn /\ late' = late /\ tab' = tab
          /\ \A q \in Sessions \ {s} : cmd'[q] = cmd[q] /\ at'[q] = at[q]
      BY <2>1, AdvanceEffect
    <2>6. StepsFit'
      BY <1>a, <1>0, <2>1, <2>5 DEF StepsFit, LabelsOf
    <2>7. \A q \in Sessions, b \in Accounts : Adding(q, b, {"row"})' => q = s /\ b = a
      <3>1. \A q \in Sessions, b \in Accounts : ~Adding(q, b, {"row"})
        BY DEF UserAddDir, Free, HolderOf, Adding
      <3>2. \A q \in Sessions, b \in Accounts : q # s \/ b # a =>
                (Adding(q, b, {"row"})' <=> Adding(q, b, {"row"}))
        BY <2>1, <2>2, OfUserRoles
      <3> QED
        BY <3>1, <3>2
    <2>8. RowsAreApart'
      <3>1. /\ \A u, v \in tab'["users"] : u.a = v.a => u = v
            /\ \A u \in tab'["users"] : u.gen # 0
            /\ \A r, q \in tab'["adomains"] : r.d = q.d => r = q
            /\ \A p \in Deliverers : box'[p] # Nobody => box'[p].gen # 0
        BY <1>0, <2>1, <2>5 DEF RowsAreApart
      <3>2. User(a)' = {}
        BY <1>2, <2>1, AdvanceEffect
      <3> QED
        BY <2>3, <2>7, <3>1, <3>2 DEF RowsAreApart
    <2>9. DirsNest'
      BY <1>0, <1>2, <2>1 DEF DirsNest
    <2>10. MailIsOwned'
      <3>1. mail[a] = {}
        BY <1>0, <1>2 DEF DirsNest
      <3>2. \A b : User(b)' = User(b)
        BY <2>1, AdvanceEffect
      <3> QED
        BY <1>0, <2>1, <2>7, <3>1, <3>2 DEF MailIsOwned
    <2>11. ASSUME NEW d \in Domains \ torn
           PROVE  DomainIsWhole(d)' /\ DomainOrAlias(d)'
      <3>1. ASSUME NEW q \in Sessions, DomDeleting(q, d, {"rmdir"}), DomainOf[a] = d
            PROVE  FALSE
        <4>1. Tears(cmd[q], cmd[s]) = {d}
          BY <1>a, <3>1 DEF Tears, DomDeleting
        <4> QED
          BY <1>0, <4>1 DEF PairsTear
      <3>2. \A q \in Sessions : \A b \in dirs' : DomDeleting(q, d, {"rmdir"}) /\ DomainOf[b] = d =>
                b \in dirs /\ mail'[b] \subseteq mail[b]
        BY <1>2, <2>1, <3>1
      <3> QED
        BY <2>1, <2>2, <3>2, OfUserDomains
    <2>12. ASSUME NEW b \in Accounts \ torn
           PROVE  UserOrAlias(b)'
      <3>1. Adding(s, a, {"dir", "row"})
        BY <1>a, <1>0 DEF Adding
      <3>2. NameFrame(b)
        BY <2>1, <2>2, <3>1, AdvanceEffect, OfUserRoles DEF NameFrame
      <3> QED
        BY <3>2, NameIsKept DEF IInv
    <2>13. ASSUME NEW b \in Accounts, Whole(b)
           PROVE  UserIsWhole(b)' /\ RowsAreOwned(b)'
      <3>1. OwnedFrame(b)
        <4>1. \A q \in Sessions :
                /\ \A t \in Owned : Deleting(q, b, {"links"} \cup {t}) => Deleting(q, b, {"links"} \cup {t})'
                /\ Deleting(q, b, {"links", "extaliases", "aliases"})
                        => Deleting(q, b, {"links", "extaliases", "aliases"})'
          BY <1>a, <2>5 DEF Deleting, Owned
        <4>2. /\ User(b)' = User(b) /\ NearAliases(b)' = NearAliases(b)
              /\ \A t \in Owned : RowsFor(t, b)' = RowsFor(t, b)
          BY <2>1, AdvanceEffect
        <4>3. \A q \in Sessions : \A e, steps :
                /\ DomDeleting(q, e, steps)' <=> DomDeleting(q, e, steps)
                /\ \A c \in Accounts : Linking(q, c, e, steps)' <=> Linking(q, c, e, steps)
          BY <2>1, <2>2, OfUserRoles
        <4> QED
          BY <4>1, <4>2, <4>3 DEF OwnedFrame
      <3>2. CASE b # a
        <4>1. UserFrame(b)
          BY <1>2, <2>1, <2>2, <3>2, AdvanceEffect, OfUserRoles DEF UserFrame
        <4> QED
          BY <2>13, <3>1, <4>1, UserIsKept, OwnedIsKept DEF IInv
      <3>3. CASE b = a
        <4>0. UserIsWhole(a) /\ User(a)' = {} /\ a \in dirs'
          BY <1>2, <2>1, <2>13, <3>3, AdvanceEffect DEF IInv
        <4>1. Handled(DomainOf[a])' /\ Handled(DomainOf[a])
          <5>1. Adding(s, a, {"alias", "dir", "row"})
            BY <1>a, <1>0 DEF Adding
          <5> QED
            BY <2>1, <4>0, <5>1, AdvanceEffect DEF UserIsWhole
        <4>2. \A q \in Sessions : ~Deleting(q, a, UserPast)
          BY <1>2, <4>0, <4>1 DEF UserIsWhole
        <4>3. \A q \in Sessions : ~Deleting(q, a, UserPast)' /\ ~Deleting(q, a, {"rmdir"})'
          BY <1>a, <2>5, <4>2 DEF Deleting, UserPast
        <4>4. Adding(s, a, {"row"})'
          BY <1>a, <2>5 DEF Adding
        <4>5. UserIsWhole(a)'
          BY <4>0, <4>1, <4>3, <4>4 DEF UserIsWhole
        <4> QED
          BY <2>13, <3>1, <3>3, <4>5, OwnedIsKept DEF IInv
      <3> QED
        BY <3>2, <3>3
    <2>14. PairsTear' /\ torn' = torn /\ \A b : Whole(b)' = Whole(b)
      BY <2>1, AdvanceEffect
    <2> QED
      BY <2>4, <2>6, <2>8, <2>9, <2>10, <2>11, <2>12, <2>13, <2>14 DEF IInv
  <1>3. \/ /\ User(a) = {} /\ DomainOf[a] \in domDirs /\ a \notin dirs
           /\ born[a] < MaxBorn /\ born' = [born EXCEPT ![a] = @ + 1]
           /\ dirs' = dirs \cup {a} /\ Goto(s, "row")
           /\ UNCHANGED <<tab, stale, lost, torn, used>>
        \/ Skip(s, "idle") /\ UNCHANGED <<born, dirs>>
        \/ Count("faults") /\ End(s) /\ UNCHANGED <<tab, stale, lost, torn, born, dirs>>
    BY <1>a DEF UserAddDir, User
  <1>4. CASE Count("faults") /\ End(s) /\ UNCHANGED <<tab, stale, lost, torn, born, dirs>>
    <2>1. Quiet(s, "idle")
      <3>1. Goes(s, "idle") /\ used' \in [{"commands", "deliveries", "faults"} -> Nat]
        BY <1>0, <1>4, GotoGoes DEF Count, TypeOK
      <3> QED
        BY <1>a, <1>0, <1>4, <3>1 DEF UserAddDir, Quiet, Labels, HistoryTyped, TypeOK
    <2>2. Learns(s, "idle")
      BY <1>a DEF Learns
    <2> QED
      BY <2>1, <2>2, QuietKeepsIInv
  <1> QED
    BY <1>1, <1>2, <1>3, <1>4

LEMMA AdvanceKeepsRows ==
    ASSUME IInv, NEW s \in Sessions, NEW next, Advances(s, next), UNCHANGED born,
           \A a \in Accounts : mail'[a] \subseteq mail[a],
           \A q \in Sessions, b \in Accounts : Adding(q, b, {"row"})' => Adding(q, b, {"row"})
    PROVE  RowsAreApart' /\ MailIsOwned'
  <1>1. tab' = tab /\ late' = late /\ box' = box
    BY DEF Advances
  <1> QED
    BY <1>1, ApartIsKept, MailIsKeptOwned DEF IInv

\* The removal of a user goes on with the directory.
LEMMA UserDelEnds ==
    ASSUME IInv, NEW s \in Sessions, NEW a \in Accounts, cmd[s].op = "userdel", cmd[s].a = a,
           at[s] \in {"clear", "rmdir"}, NEW next, Advances(s, next), next \in {"rmdir", "idle"},
           UNCHANGED <<domDirs, seen, born>>, dirs' \subseteq dirs, mail' \in [Accounts -> SUBSET Incarnations],
           \A b \in Accounts : mail'[b] \subseteq mail[b],
           \A b \in Accounts \ {a} : b \in dirs => b \in dirs',
           a \notin dirs' => mail'[a] = {},
           next = "rmdir" => mail'[a] = {} /\ a \in dirs',
           next = "idle" /\ a \in dirs' => a \in late \/ ~Whole(a)
    PROVE  IInv'
  <1>0. /\ TypeOK /\ StepsFit /\ DirsNest /\ OfUser(s, a)
    BY DEF IInv, OfUser
  <1>1. /\ tab' = tab /\ torn' = torn /\ late' = late /\ PairsTear'
        /\ \A q \in Sessions \ {s} : cmd'[q] = cmd[q] /\ at'[q] = at[q]
        /\ at'[s] = next /\ IF next = "idle" THEN cmd'[s] = None /\ cmd'[s].op = "none" ELSE cmd'[s] = cmd[s]
        /\ \A b : Whole(b)' = Whole(b)
    BY AdvanceEffect
  <1>e. /\ \A b : User(b)' = User(b) /\ RowsFor("aliases", b)' = RowsFor("aliases", b)
                  /\ NearAliases(b)' = NearAliases(b)
        /\ \A b : \A t \in Owned : RowsFor(t, b)' = RowsFor(t, b)
        /\ \A e : Handled(e)' = Handled(e)
    BY AdvanceEffect
  <1>r. \A q \in Sessions : \A b, steps :
             /\ DomDeleting(q, b, steps)' <=> DomDeleting(q, b, steps)
             /\ \A c \in Accounts : Linking(q, b, c, steps)' <=> Linking(q, b, c, steps)
             /\ \A c \in Accounts : Linking(q, c, b, steps)' <=> Linking(q, c, b, steps)
             /\ b # a => /\ Adding(q, b, steps)' <=> Adding(q, b, steps)
                         /\ Deleting(q, b, steps)' <=> Deleting(q, b, steps)
    BY <1>0, OfUserRoles
  <1>2. TypeOK'
    BY <1>0, AdvanceTyped DEF TypeOK
  <1>3. StepsFit'
    BY <1>0, <1>1 DEF StepsFit, LabelsOf, UserPast, None
  <1>4. RowsAreApart' /\ MailIsOwned'
    <2>1. \A q \in Sessions, b \in Accounts : Adding(q, b, {"row"})' => Adding(q, b, {"row"})
      BY <1>1 DEF Adding
    <2> QED
      BY <2>1, AdvanceKeepsRows
  <1>5. DirsNest'
    <2>1. \A b \in dirs' : DomainOf[b] \in domDirs'
      BY <1>0 DEF DirsNest
    <2>2. \A b \in Accounts \ dirs' : mail'[b] = {}
      BY <1>0 DEF DirsNest
    <2> QED
      BY <2>1, <2>2 DEF DirsNest
  <1>6. ASSUME NEW d \in Domains \ torn
        PROVE  DomainIsWhole(d)' /\ DomainOrAlias(d)'
    <2>1. \A q \in Sessions : \A b \in dirs' : DomDeleting(q, d, {"rmdir"}) /\ DomainOf[b] = d =>
                b \in dirs /\ mail'[b] \subseteq mail[b]
      BY <1>0 DEF TypeOK
    <2> QED
      BY <1>0, <2>1, OfUserDomains
  <1>7. ASSUME NEW b \in Accounts \ torn
        PROVE  UserOrAlias(b)'
    <2>1. \A q \in Sessions : Adding(q, b, {"dir", "row"})' => Adding(q, b, {"dir", "row"})
      BY <1>1 DEF Adding
    <2>2. NameFrame(b)
      BY <1>e, <1>r, <2>1 DEF NameFrame
    <2> QED
      BY <2>2, NameIsKept DEF IInv
  <1>8. ASSUME NEW b \in Accounts, Whole(b)
        PROVE  UserIsWhole(b)' /\ RowsAreOwned(b)'
    <2>1. OwnedFrame(b)
      <3>1. \A q \in Sessions :
                /\ \A t \in Owned :
                      Deleting(q, b, {"links"} \cup {t}) => Deleting(q, b, {"links"} \cup {t})'
                /\ Deleting(q, b, {"links", "extaliases", "aliases"})
                      => Deleting(q, b, {"links", "extaliases", "aliases"})'
        BY <1>1 DEF Deleting, Owned
      <3> QED
        BY <1>e, <1>r, <3>1 DEF OwnedFrame
    <2>2. CASE b # a
      <3>1. UserFrame(b)
        BY <1>1, <1>e, <1>r, <2>2 DEF UserFrame
      <3> QED
        BY <1>8, <2>1, <3>1, UserIsKept, OwnedIsKept DEF IInv
    <2>3. CASE b = a
      <3>0. /\ UserIsWhole(a) /\ User(a)' = User(a) /\ Handled(DomainOf[a])' = Handled(DomainOf[a])
            /\ Deleting(s, a, UserPast)
        BY <1>8, <2>3, AdvanceEffect DEF IInv, Deleting, UserPast
      <3>1. /\ User(a)' = {} /\ \A q \in Sessions : ~Adding(q, a, {"row"})
            /\ \A q \in Sessions : Deleting(q, a, UserPast) => q = s
        BY <3>0 DEF UserIsWhole
      <3>2. ASSUME NEW q \in Sessions
            PROVE  /\ ~Adding(q, a, {"row"})' /\ (Deleting(q, a, UserPast)' => q = s /\ next = "rmdir")
                   /\ Deleting(q, a, {"rmdir"})' => next = "rmdir"
                   /\ Adding(q, a, {"alias", "dir", "row"})' => Adding(q, a, {"alias", "dir", "row"})
        <4>1. CASE q = s
          BY <1>1, <4>1 DEF Adding, Deleting
        <4>2. CASE q # s
          <5>1. Deleting(q, a, {"rmdir"}) => Deleting(q, a, UserPast)
            BY DEF Deleting, UserPast
          <5> QED
            BY <1>1, <3>1, <4>2, <5>1 DEF Adding, Deleting
        <4> QED
          BY <4>1, <4>2
      <3>3. next = "rmdir" => Deleting(s, a, UserPast)'
        BY <1>1 DEF Deleting, UserPast
      <3>4. next = "rmdir" => a \in dirs' \/ ~Handled(DomainOf[a])'
        BY <1>1, <3>0 DEF UserIsWhole
      <3>5. a \in dirs' => next = "rmdir" \/ a \in late'
        BY <1>1, <1>8, <2>3
      <3>6. \A q \in Sessions : Adding(q, a, {"alias", "dir", "row"})' => Handled(DomainOf[a])'
        BY <3>0, <3>2 DEF UserIsWhole
      <3>7. UserIsWhole(a)'
        BY <3>1, <3>2, <3>3, <3>4, <3>5, <3>6 DEF UserIsWhole
      <3> QED
        BY <1>8, <2>1, <2>3, <3>7, OwnedIsKept DEF IInv
    <2> QED
      BY <2>2, <2>3
  <1> QED
    BY <1>1, <1>2, <1>3, <1>4, <1>5, <1>6, <1>7, <1>8 DEF IInv

LEMMA ClearUserKeepsIInv ==
    ASSUME IInv, NEW s \in Sessions, ClearUser(s)
    PROVE  IInv'
  <1>a. PICK a \in Accounts : a = cmd[s].a /\ cmd[s].op = "userdel" /\ at[s] = "clear"
    BY CommandFields DEF IInv, ClearUser, Keeping
  <1>b. PICK next : next = IF a \in dirs THEN "rmdir" ELSE "idle"
    OBVIOUS
  <1>1. Advances(s, next) /\ next \in {"rmdir", "idle"}
    <2>1. Goes(s, next)
      BY <1>a, <1>b, GotoGoes DEF IInv, ClearUser
    <2> QED
      BY <1>a, <1>b, <2>1 DEF ClearUser, Advances, Labels, LabelsOf, UserPast
  <1>2. /\ mail' = [mail EXCEPT ![a] = {}] /\ mail \in [Accounts -> SUBSET Incarnations]
        /\ UNCHANGED <<domDirs, seen, born, dirs>>
    BY <1>a DEF IInv, TypeOK, ClearUser
  <1>3. mail' \in [Accounts -> SUBSET Incarnations] /\ mail'[a] = {} /\ \A b \in Accounts : mail'[b] \subseteq mail[b]
    BY <1>2
  <1> QED
    BY <1>a, <1>b, <1>1, <1>2, <1>3, UserDelEnds

LEMMA RemoveUserDirKeepsIInv ==
    ASSUME IInv, NEW s \in Sessions, RemoveUserDir(s)
    PROVE  IInv'
  <1>a. PICK a \in Accounts : a = cmd[s].a /\ cmd[s].op = "userdel" /\ at[s] = "rmdir"
    BY CommandFields DEF IInv, RemoveUserDir, Keeping
  <1>1. Advances(s, "idle")
    <2>1. Goes(s, "idle")
      BY GotoGoes DEF IInv, RemoveUserDir
    <2> QED
      BY <2>1 DEF RemoveUserDir, Advances, Labels
  <1>2. /\ UNCHANGED <<domDirs, seen, born, mail>> /\ mail \in [Accounts -> SUBSET Incarnations]
        /\ dirs' = IF mail[a] = {} THEN dirs \ {a} ELSE dirs
        /\ \A b \in Accounts \ dirs : mail[b] = {}
    BY <1>a DEF IInv, TypeOK, DirsNest, RemoveUserDir
  <1>3. a \in dirs' => a \in late \/ ~Whole(a)
    <2>1. Whole(a) => UserIsWhole(a)
      BY DEF IInv
    <2>2. Deleting(s, a, {"rmdir"})
      BY <1>a DEF Deleting
    <2> QED
      BY <1>2, <2>1, <2>2 DEF UserIsWhole
  <1> QED
    BY <1>a, <1>1, <1>2, <1>3, UserDelEnds

\* What a step of a command for a domain is to the others.
OfDomain(s, d) == cmd[s].op \in {"domainadd", "domaindel"} /\ cmd[s].d = d
LEMMA OfDomainRoles ==
    ASSUME IInv, NEW s \in Sessions, NEW d, OfDomain(s, d), NEW next, Advances(s, next)
    PROVE  \A q \in Sessions : \A b, steps :
             /\ Adding(q, b, steps)' <=> Adding(q, b, steps)
             /\ Deleting(q, b, steps)' <=> Deleting(q, b, steps)
             /\ \A c \in Accounts : Linking(q, b, c, steps)' <=> Linking(q, b, c, steps)
             /\ \A c \in Accounts : Linking(q, c, b, steps)' <=> Linking(q, c, b, steps)
             /\ \A c \in Domains : DomLinking(q, b, c, steps)' <=> DomLinking(q, b, c, steps)
             /\ q # s \/ b # d => /\ DomAdding(q, b, steps)' <=> DomAdding(q, b, steps)
                                  /\ DomDeleting(q, b, steps)' <=> DomDeleting(q, b, steps)
  <1>1. /\ \A q \in Sessions \ {s} : cmd'[q] = cmd[q] /\ at'[q] = at[q]
        /\ cmd'[s].op = "none" \/ cmd'[s] = cmd[s]
    BY AdvanceEffect
  <1> QED
    BY <1>1 DEF OfDomain, Adding, Deleting, DomAdding, DomDeleting, Linking, DomLinking

\* The parts of the invariant that are kept when a session does away with the
\* directory of its domain, or makes it.
LEMMA OfDomainKeeps ==
    ASSUME IInv, NEW s \in Sessions, NEW d \in Domains, OfDomain(s, d), NEW next, Advances(s, next),
           at[s] \in {"dir", "clear", "rmdir"}, next \in {"rmdir", "idle"}, UNCHANGED born,
           domDirs' \subseteq Domains, dirs' \subseteq dirs,
           \A e \in Domains \ {d} : e \in domDirs' <=> e \in domDirs,
           \A a \in dirs' : DomainOf[a] = d => d \in domDirs',
           mail' \in [Accounts -> SUBSET Incarnations], \A a \in Accounts : mail'[a] \subseteq mail[a],
           \A a \in Accounts \ dirs' : mail'[a] = {},
           \A a \in dirs : DomainOf[a] # d => a \in dirs',
           seen' \in [Sessions -> SUBSET Accounts], \A q \in Sessions \ {s} : seen'[q] = seen[q],
           \A a \in seen'[s] : next = "rmdir" /\ cmd[s].op = "domaindel" /\ DomainOf[a] = d,
           next = "rmdir" => cmd[s].op = "domaindel",
           d \notin torn => DomainIsWhole(d)',
           \A a \in Accounts : DomainOf[a] = d /\ Whole(a) => UserIsWhole(a)'
    PROVE  IInv'
  <1>0. TypeOK /\ StepsFit /\ DirsNest
    BY DEF IInv
  <1>1. /\ tab' = tab /\ torn' = torn /\ late' = late /\ PairsTear'
        /\ \A q \in Sessions \ {s} : cmd'[q] = cmd[q] /\ at'[q] = at[q]
        /\ at'[s] = next /\ IF next = "idle" THEN cmd'[s] = None /\ cmd'[s].op = "none" ELSE cmd'[s] = cmd[s]
        /\ \A b : Whole(b)' = Whole(b)
    BY AdvanceEffect
  <1>e. /\ \A b : User(b)' = User(b) /\ RowsFor("aliases", b)' = RowsFor("aliases", b)
                  /\ NearAliases(b)' = NearAliases(b)
        /\ \A b : \A t \in Owned : RowsFor(t, b)' = RowsFor(t, b)
        /\ \A e : Handled(e)' = Handled(e) /\ UsersIn(e)' = UsersIn(e) /\ AliasDomain(e)' = AliasDomain(e)
    BY AdvanceEffect
  <1>r. \A q \in Sessions : \A b, steps :
             /\ Adding(q, b, steps)' <=> Adding(q, b, steps)
             /\ Deleting(q, b, steps)' <=> Deleting(q, b, steps)
             /\ \A c \in Accounts : Linking(q, b, c, steps)' <=> Linking(q, b, c, steps)
             /\ \A c \in Accounts : Linking(q, c, b, steps)' <=> Linking(q, c, b, steps)
             /\ \A c \in Domains : DomLinking(q, b, c, steps)' <=> DomLinking(q, b, c, steps)
             /\ q # s \/ b # d => /\ DomAdding(q, b, steps)' <=> DomAdding(q, b, steps)
                                  /\ DomDeleting(q, b, steps)' <=> DomDeleting(q, b, steps)
    BY OfDomainRoles
  \* Steps other than those on the directory of the domain are nothing to it.
  <1>o. ASSUME NEW q \in Sessions, NEW b, NEW steps, steps \cap {"dir", "clear", "rmdir", "idle"} = {}
        PROVE  /\ DomAdding(q, b, steps)' <=> DomAdding(q, b, steps)
               /\ DomDeleting(q, b, steps)' <=> DomDeleting(q, b, steps)
    <2>1. CASE q = s
      BY <1>1, <1>o, <2>1 DEF DomAdding, DomDeleting
    <2>2. CASE q # s
      BY <1>r, <2>2
    <2> QED
      BY <2>1, <2>2
  <1>2. TypeOK'
    BY <1>0, AdvanceTyped DEF TypeOK
  <1>3. StepsFit'
    <2>1. \A q \in Sessions : at'[q] \in LabelsOf(cmd'[q].op)
      BY <1>0, <1>1 DEF StepsFit, LabelsOf, DomainPast
    <2>2. \A q \in Sessions : seen'[q] # {} => cmd'[q].op = "domaindel" /\ at'[q] = "rmdir"
      BY <1>0, <1>1 DEF StepsFit
    <2>3. \A q \in Sessions : \A a \in seen'[q] : DomainOf[a] = cmd'[q].d
      BY <1>0, <1>1 DEF StepsFit, OfDomain
    <2> QED
      BY <2>1, <2>2, <2>3 DEF StepsFit
  <1>4. RowsAreApart' /\ MailIsOwned'
    <2>1. \A q \in Sessions, b \in Accounts : Adding(q, b, {"row"})' => Adding(q, b, {"row"})
      BY <1>r
    <2> QED
      BY <2>1, AdvanceKeepsRows
  <1>5. DirsNest'
    <2>1. ASSUME NEW b \in dirs'
          PROVE  DomainOf[b] \in domDirs'
      BY <1>0, AccountsAssumption DEF DirsNest, TypeOK
    <2> QED
      BY <2>1 DEF DirsNest
  <1>6. ASSUME NEW e \in Domains \ torn
        PROVE  DomainIsWhole(e)' /\ DomainOrAlias(e)'
    <2>1. AliasFrame(e)
      <3>1. (DomainPast \ {"clear", "rmdir"}) \cap {"dir", "clear", "rmdir", "idle"} = {}
        BY DEF DomainPast
      <3>2. \A q \in Sessions : \A to : DomDeleting(q, to, DomainPast \ {"clear", "rmdir"})' <=>
                                        DomDeleting(q, to, DomainPast \ {"clear", "rmdir"})
        BY <1>o, <3>1
      <3>3. \A q \in Sessions : \A to : DomAdding(q, to, {"row"})' <=> DomAdding(q, to, {"row"})
        BY <1>o
      <3> QED
        BY <1>1, <1>e, <1>r, <3>2, <3>3 DEF AliasFrame
    <2>2. CASE e # d
      <3>1. ASSUME NEW q \in Sessions, DomDeleting(q, e, {"rmdir"})
            PROVE  seen'[q] = seen[q]
        BY <2>2, <3>1 DEF DomDeleting, OfDomain
      <3>2. DomainFrame(e)
        BY <1>0, <1>1, <1>e, <1>r, <2>2, <3>1 DEF DomainFrame, TypeOK
      <3> QED
        BY <1>0, <2>1, <3>2, DomainIsKept, DomainAliasKept DEF IInv
    <2> QED
      BY <1>0, <2>1, <2>2, DomainAliasKept DEF IInv
  <1>7. ASSUME NEW b \in Accounts \ torn
        PROVE  UserOrAlias(b)'
    <2>1. NameFrame(b)
      BY <1>e, <1>r DEF NameFrame
    <2> QED
      BY <2>1, NameIsKept DEF IInv
  <1>8. ASSUME NEW b \in Accounts, Whole(b)
        PROVE  UserIsWhole(b)' /\ RowsAreOwned(b)'
    <2>1. OwnedFrame(b)
      <3>1. \A q \in Sessions : \A e :
                /\ \A t \in Owned : DomDeleting(q, e, {"aliases", "extaliases", t})'
                                        <=> DomDeleting(q, e, {"aliases", "extaliases", t})
                /\ DomDeleting(q, e, {"aliases"})' <=> DomDeleting(q, e, {"aliases"})
        <4>1. \A t \in Owned : {"aliases", "extaliases", t} \cap {"dir", "clear", "rmdir", "idle"} = {}
          BY DEF Owned
        <4> QED
          BY <1>o, <4>1
      <3> QED
        BY <1>e, <1>r, <3>1 DEF OwnedFrame
    <2>2. CASE DomainOf[b] # d
      <3>1. UserFrame(b)
        BY <1>0, <1>1, <1>e, <1>r, <2>2 DEF UserFrame, TypeOK
      <3> QED
        BY <1>8, <2>1, <3>1, UserIsKept, OwnedIsKept DEF IInv
    <2> QED
      BY <1>8, <2>1, <2>2, OwnedIsKept DEF IInv
  <1> QED
    BY <1>1, <1>2, <1>3, <1>4, <1>5, <1>6, <1>7, <1>8 DEF IInv

\* A directory that cannot be made leaves the name of the domain torn.
LEMMA NoDirKeepsIInv ==
    ASSUME IInv, NEW s \in Sessions, cmd[s].op = "domainadd", at[s] = "dir", Fails(s, "idle"),
           UNCHANGED <<domDirs, dirs, mail, seen, box, born, late>>
    PROVE  IInv'
  <1>1. TypeOK /\ cmd[s].d \in Names(cmd[s])
    BY DEF IInv, Names
  <1>2. Quiet(s, "idle")
    <2>1. /\ Goes(s, "idle") /\ torn' = torn \cup Names(cmd[s])
          /\ used' \in [{"commands", "deliveries", "faults"} -> Nat]
      BY <1>1, FaultEffect DEF Fails
    <2>2. torn' \subseteq Accounts \cup Domains
      BY <1>1, <2>1, NamesTyped DEF TypeOK
    <2> QED
      BY <1>1, <2>1, <2>2 DEF Fails, Quiet, Labels, HistoryTyped, TypeOK
  <1>3. Learns(s, "idle")
    BY DEF Learns
  <1> QED
    BY <1>2, <1>3, QuietKeepsIInv

LEMMA DomainAddDirKeepsIInv ==
    ASSUME IInv, NEW s \in Sessions, DomainAddDir(s)
    PROVE  IInv'
  <1>a. PICK d \in Domains : d = cmd[s].d /\ cmd[s].op = "domainadd" /\ at[s] = "dir"
    BY CommandFields DEF IInv, DomainAddDir, Keeping
  <1>b. CASE Fails(s, "idle") /\ UNCHANGED domDirs
    BY <1>a, <1>b, NoDirKeepsIInv DEF DomainAddDir
  <1>c. SUFFICES ASSUME domDirs' = domDirs \cup {cmd[s].d}, End(s),
                        UNCHANGED <<tab, stale, lost, torn, used>>
                 PROVE  IInv'
    BY <1>b DEF DomainAddDir
  <1>0. /\ TypeOK /\ StepsFit /\ PairsTear /\ DirsNest /\ OfDomain(s, d)
    BY <1>a DEF IInv, OfDomain
  <1>1. Advances(s, "idle")
    <2>1. Goes(s, "idle")
      BY <1>0, <1>c, GotoGoes
    <2> QED
      BY <1>c, <2>1 DEF DomainAddDir, Advances, Labels
  <1>2. /\ domDirs' = domDirs \cup {d} /\ UNCHANGED <<dirs, mail, seen, born>>
    BY <1>a, <1>c DEF DomainAddDir
  <1>3. seen[s] = {}
    BY <1>a, <1>0 DEF StepsFit
  <1>4. ASSUME d \notin torn
        PROVE  DomainIsWhole(d)'
    <2>1. Handled(d)' /\ \A q \in Sessions : ~DomDeleting(q, d, DomainPast)'
      <3>0. DomainIsWhole(d) /\ DomAdding(s, d, {"dir"})
        BY <1>a, <1>4 DEF IInv, DomAdding
      <3>1. Handled(d)
        BY <3>0 DEF DomainIsWhole
      <3>2. Handled(d)' = Handled(d)
        BY <1>1, AdvanceEffect
      <3>3. ASSUME NEW q \in Sessions, DomDeleting(q, d, DomainPast)'
            PROVE  FALSE
        <4>1. DomDeleting(q, d, DomainPast)
          BY <1>a, <1>1, <3>3, AdvanceEffect DEF DomDeleting
        <4> QED
          BY <3>0, <3>1, <4>1 DEF DomainIsWhole
      <3> QED
        BY <3>1, <3>2, <3>3
    <2>2. \A q \in Sessions : ~DomDeleting(q, d, DomainPast \ {"users"})' /\ ~DomDeleting(q, d, {"rmdir"})'
      BY <2>1 DEF DomDeleting, DomainPast
    <2> QED
      BY <1>2, <2>1, <2>2 DEF DomainIsWhole
  <1>5. ASSUME NEW a \in Accounts, DomainOf[a] = d, Whole(a)
        PROVE  UserIsWhole(a)'
    <2>1. UserFrame(a)
      <3>1. /\ User(a)' = User(a) /\ Handled(DomainOf[a])' = Handled(DomainOf[a]) /\ late' = late
        BY <1>1, AdvanceEffect
      <3>2. \A q \in Sessions : \A b, steps :
                /\ Adding(q, b, steps)' <=> Adding(q, b, steps)
                /\ Deleting(q, b, steps)' <=> Deleting(q, b, steps)
        BY <1>0, <1>1, OfDomainRoles
      <3>3. \A q \in Sessions : \A b, steps : DomDeleting(q, b, steps)' <=> DomDeleting(q, b, steps)
        BY <1>a, <1>1, AdvanceEffect DEF DomDeleting
      <3> QED
        BY <1>2, <3>1, <3>2, <3>3 DEF UserFrame
    <2> QED
      BY <1>5, <2>1, UserIsKept DEF IInv
  <1>6. /\ domDirs' \subseteq Domains /\ mail' \in [Accounts -> SUBSET Incarnations]
        /\ seen' \in [Sessions -> SUBSET Accounts] /\ \A a \in Accounts \ dirs' : mail'[a] = {}
    BY <1>0, <1>2 DEF TypeOK, DirsNest
  <1> QED
    BY <1>a, <1>0, <1>1, <1>2, <1>3, <1>4, <1>5, <1>6, OfDomainKeeps

LEMMA ClearDomainKeepsIInv ==
    ASSUME IInv, NEW s \in Sessions, ClearDomain(s)
    PROVE  IInv'
  <1>a. PICK d \in Domains : d = cmd[s].d /\ cmd[s].op = "domaindel" /\ at[s] = "clear"
    BY CommandFields DEF IInv, ClearDomain, Keeping
  <1>b. PICK next : next = IF d \in domDirs THEN "rmdir" ELSE "idle"
    OBVIOUS
  <1>0. /\ TypeOK /\ StepsFit /\ PairsTear /\ DirsNest /\ OfDomain(s, d) /\ seen[s] = {}
    BY <1>a DEF IInv, OfDomain, StepsFit
  <1>1. Advances(s, next) /\ next \in {"rmdir", "idle"}
    <2>1. Goes(s, next)
      BY <1>a, <1>b, <1>0, GotoGoes DEF ClearDomain
    <2> QED
      BY <1>a, <1>b, <2>1 DEF ClearDomain, Advances, Labels, LabelsOf, DomainPast
  <1>2. /\ UNCHANGED <<domDirs, dirs, born>>
        /\ mail' \in [Accounts -> SUBSET Incarnations] /\ \A a \in Accounts : mail'[a] \subseteq mail[a]
        /\ seen' \in [Sessions -> SUBSET Accounts] /\ \A q \in Sessions \ {s} : seen'[q] = seen[q]
        /\ next = "idle" => seen'[s] = {}
        /\ next = "rmdir" => /\ seen'[s] = {a \in dirs : DomainOf[a] = d}
                             /\ \A a \in seen'[s] : mail'[a] = {}
    <2>0. UNCHANGED <<domDirs, dirs, born>> /\ seen \in [Sessions -> SUBSET Accounts]
          /\ dirs \subseteq Accounts /\ mail \in [Accounts -> SUBSET Incarnations]
      BY <1>0 DEF ClearDomain, TypeOK
    <2>1. CASE d \in domDirs
      <3>1. /\ seen' = [seen EXCEPT ![s] = {a \in dirs : DomainOf[a] = d}]
            /\ mail' = [a \in Accounts |-> IF a \in seen'[s] THEN {} ELSE mail[a]]
        BY <1>a, <2>1 DEF ClearDomain
      <3> QED
        BY <1>b, <2>0, <2>1, <3>1
    <2>2. CASE d \notin domDirs
      BY <1>a, <1>b, <1>0, <2>0, <2>2 DEF ClearDomain
    <2> QED
      BY <2>1, <2>2
  <1>3. \A a \in Accounts \ dirs' : mail'[a] = {}
    BY <1>0, <1>2 DEF DirsNest
  <1>e. /\ \A b : User(b)' = User(b)
        /\ \A e : Handled(e)' = Handled(e) /\ UsersIn(e)' = UsersIn(e)
        /\ tab' = tab /\ torn' = torn /\ late' = late
    BY <1>1, AdvanceEffect
  <1>r. \A q \in Sessions : \A b, steps :
             /\ Adding(q, b, steps)' <=> Adding(q, b, steps)
             /\ Deleting(q, b, steps)' <=> Deleting(q, b, steps)
             /\ DomAdding(q, b, steps)' <=> DomAdding(q, b, steps)
             /\ q # s => (DomDeleting(q, b, steps)' <=> DomDeleting(q, b, steps))
    <2>1. \A q \in Sessions : \A b, steps : DomAdding(q, b, steps)' <=> DomAdding(q, b, steps)
      BY <1>a, <1>1, AdvanceEffect DEF DomAdding
    <2> QED
      BY <1>0, <1>1, <2>1, OfDomainRoles
  <1>s. \A b, steps : /\ DomDeleting(s, b, steps) <=> b = d /\ "clear" \in steps
                      /\ DomDeleting(s, b, steps)' <=> b = d /\ next = "rmdir" /\ "rmdir" \in steps
    BY <1>a, <1>1, AdvanceEffect DEF DomDeleting
  <1>4. ASSUME d \notin torn
        PROVE  DomainIsWhole(d)'
    <2>0. /\ DomainIsWhole(d) /\ {"clear", "rmdir"} \subseteq DomainPast \ {"users"}
          /\ {"clear", "rmdir"} \subseteq DomainPast
      BY <1>4 DEF IInv, DomainPast
    <2>1. /\ Handled(d)' => d \in domDirs' \/ \E q \in Sessions : DomAdding(q, d, {"dir"})'
          /\ ~Handled(d)' /\ UsersIn(d)' = {}
      BY <1>2, <1>e, <1>r, <1>s, <2>0 DEF DomainIsWhole
    <2>2. d \in domDirs' => DomDeleting(s, d, DomainPast)'
      BY <1>b, <1>2, <1>s, <2>0
    <2>3. \A q \in Sessions : DomAdding(q, d, {"dir"})' => Handled(d)'
      BY <1>e, <1>r, <2>0 DEF DomainIsWhole
    <2>4. ASSUME NEW q \in Sessions, DomDeleting(q, d, {"rmdir"})', NEW a \in dirs', DomainOf[a] = d
          PROVE  a \in seen'[q] /\ (mail'[a] # {} => a \in late')
      <3>1. CASE q = s
        BY <1>2, <1>s, <2>4, <3>1
      <3>2. CASE q # s
        <4>1. a \in seen[q] /\ (mail[a] # {} => a \in late)
          BY <1>2, <1>r, <2>0, <2>4, <3>2 DEF DomainIsWhole
        <4> QED
          BY <1>0, <1>2, <1>e, <3>2, <4>1 DEF TypeOK
      <3> QED
        BY <3>1, <3>2
    <2> QED
      BY <2>1, <2>2, <2>3, <2>4 DEF DomainIsWhole
  <1>5. ASSUME NEW a \in Accounts, DomainOf[a] = d, Whole(a)
        PROVE  UserIsWhole(a)'
    <2>0. UserIsWhole(a) /\ {"clear", "rmdir"} \subseteq DomainPast /\ "clear" \notin {"users"}
      BY <1>5 DEF IInv, DomainPast
    <2>1. User(a)' # {} =>
              /\ a \in dirs'
              /\ \/ Handled(DomainOf[a])'
                 \/ \E q \in Sessions : DomDeleting(q, DomainOf[a], {"users"})'
      BY <1>2, <1>e, <1>r, <1>s, <2>0 DEF UserIsWhole
    <2>2. a \in dirs' => DomDeleting(s, DomainOf[a], DomainPast)'
      BY <1>b, <1>0, <1>2, <1>5, <1>s, <2>0 DEF DirsNest
    <2>3. ASSUME NEW q \in Sessions
          PROVE  /\ Adding(q, a, {"alias", "dir", "row"})' => Handled(DomainOf[a])'
                 /\ Adding(q, a, {"row"})' => a \in dirs'
                 /\ Deleting(q, a, UserPast)' =>
                      User(a)' = {} /\ (a \in dirs' \/ ~Handled(DomainOf[a])')
      BY <1>2, <1>e, <1>r, <2>0 DEF UserIsWhole
    <2>4. ASSUME NEW q \in Sessions, NEW p \in Sessions, Deleting(q, a, UserPast)'
          PROVE  ~Adding(p, a, {"row"})' /\ (Deleting(p, a, UserPast)' => p = q)
      BY <1>r, <2>0, <2>4 DEF UserIsWhole
    <2>5. ASSUME NEW q \in Sessions, Deleting(q, a, {"rmdir"})'
          PROVE  mail'[a] = {} \/ a \in late'
      BY <1>2, <1>e, <1>r, <2>0, <2>5 DEF UserIsWhole
    <2> QED
      BY <2>1, <2>2, <2>3, <2>4, <2>5 DEF UserIsWhole
  <1>6. /\ \A a \in seen'[s] : next = "rmdir" /\ DomainOf[a] = d
        /\ \A a \in dirs' : DomainOf[a] = d => d \in domDirs'
    BY <1>0, <1>1, <1>2 DEF DirsNest
  <1> QED
    BY <1>a, <1>0, <1>1, <1>2, <1>3, <1>4, <1>5, <1>6, OfDomainKeeps DEF TypeOK

LEMMA RemoveDomainDirKeepsIInv ==
    ASSUME IInv, NEW s \in Sessions, RemoveDomainDir(s)
    PROVE  IInv'
  <1>a. PICK d \in Domains : d = cmd[s].d /\ cmd[s].op = "domaindel" /\ at[s] = "rmdir"
    BY CommandFields DEF IInv, RemoveDomainDir, Keeping
  <1>0. /\ TypeOK /\ StepsFit /\ PairsTear /\ DirsNest /\ OfDomain(s, d)
        /\ \A a \in seen[s] : DomainOf[a] = d
    BY <1>a DEF IInv, OfDomain, StepsFit
  <1>1. Advances(s, "idle")
    <2>1. Goes(s, "idle")
      BY <1>0, GotoGoes DEF RemoveDomainDir
    <2> QED
      BY <2>1 DEF RemoveDomainDir, Advances, Labels
  <1>2. /\ UNCHANGED <<mail, born>>
        /\ dirs' = dirs \ {a \in seen[s] : mail[a] = {}}
        /\ domDirs' = IF \E a \in dirs' : DomainOf[a] = d THEN domDirs ELSE domDirs \ {d}
        /\ seen' \in [Sessions -> SUBSET Accounts] /\ seen'[s] = {}
        /\ \A q \in Sessions \ {s} : seen'[q] = seen[q]
    BY <1>a, <1>0 DEF RemoveDomainDir, TypeOK
  <1>3. /\ \A a \in Accounts \ dirs' : mail'[a] = {}
        /\ \A a \in dirs : DomainOf[a] # d => a \in dirs'
        /\ \A a \in dirs' : DomainOf[a] = d => d \in domDirs'
        /\ \A e \in Domains \ {d} : e \in domDirs' <=> e \in domDirs
        /\ domDirs' \subseteq Domains /\ dirs' \subseteq dirs
        /\ mail' \in [Accounts -> SUBSET Incarnations] /\ \A a \in Accounts : mail'[a] \subseteq mail[a]
    BY <1>0, <1>2 DEF DirsNest, TypeOK
  <1>e. /\ \A b : User(b)' = User(b)
        /\ \A e : Handled(e)' = Handled(e) /\ UsersIn(e)' = UsersIn(e)
        /\ tab' = tab /\ torn' = torn /\ late' = late
    BY <1>1, AdvanceEffect
  <1>r. \A q \in Sessions : \A b, steps :
             /\ Adding(q, b, steps)' <=> Adding(q, b, steps)
             /\ Deleting(q, b, steps)' <=> Deleting(q, b, steps)
             /\ DomAdding(q, b, steps)' <=> DomAdding(q, b, steps)
             /\ DomDeleting(q, b, steps)' <=> q # s /\ DomDeleting(q, b, steps)
    <2>1. \A q \in Sessions : \A b, steps : DomAdding(q, b, steps)' <=> DomAdding(q, b, steps)
      BY <1>a, <1>1, AdvanceEffect DEF DomAdding
    <2>2. \A b, steps : ~DomDeleting(s, b, steps)'
      BY <1>1, AdvanceEffect DEF DomDeleting
    <2> QED
      BY <1>0, <1>1, <2>1, <2>2, OfDomainRoles
  \* What the removal has left came late.
  <1>4. ASSUME d \notin torn
        PROVE  /\ DomainIsWhole(d) /\ ~Handled(d)' /\ UsersIn(d)' = {}
               /\ \A a \in dirs' : DomainOf[a] = d => a \in late'
    <2>1. DomainIsWhole(d) /\ DomDeleting(s, d, {"rmdir"}) /\ DomDeleting(s, d, DomainPast)
          /\ DomDeleting(s, d, DomainPast \ {"users"})
      BY <1>a, <1>4 DEF IInv, DomDeleting, DomainPast
    <2>2. ~Handled(d) /\ UsersIn(d) = {}
          /\ \A a \in dirs : DomainOf[a] = d => a \in seen[s] /\ (mail[a] # {} => a \in late)
      BY <2>1 DEF DomainIsWhole
    <2> QED
      BY <1>2, <1>e, <2>1, <2>2
  <1>5. ASSUME d \notin torn
        PROVE  DomainIsWhole(d)'
    <2>1. d \in domDirs' => \E a \in late' \cup torn' : a \in Accounts /\ DomainOf[a] = d
      BY <1>0, <1>2, <1>4, <1>5 DEF TypeOK
    <2>2. ASSUME NEW q \in Sessions
          PROVE  /\ DomAdding(q, d, {"dir"})' => Handled(d)'
                 /\ DomDeleting(q, d, DomainPast \ {"users"})' => UsersIn(d)' = {}
      BY <1>e, <1>r, <1>4, <1>5 DEF DomainIsWhole
    <2>3. ASSUME NEW q \in Sessions, DomDeleting(q, d, {"rmdir"})', NEW a \in dirs', DomainOf[a] = d
          PROVE  a \in seen'[q] /\ (mail'[a] # {} => a \in late')
      <3>1. q # s /\ DomDeleting(q, d, {"rmdir"}) /\ a \in dirs
        BY <1>r, <1>2, <2>3
      <3> QED
        BY <1>2, <1>e, <1>4, <1>5, <2>3, <3>1 DEF DomainIsWhole
    <2> QED
      BY <1>4, <1>5, <2>1, <2>2, <2>3 DEF DomainIsWhole
  <1>6. ASSUME NEW a \in Accounts, DomainOf[a] = d, Whole(a)
        PROVE  UserIsWhole(a)'
    <2>0. UserIsWhole(a) /\ d \notin torn /\ ~Handled(d)'
      BY <1>4, <1>6 DEF IInv, Whole
    <2>1. User(a)' = {}
      <3>1. UsersIn(d)' = {} /\ tab' = tab
        BY <1>e, <1>4, <2>0
      <3> QED
        BY <1>6, <3>1 DEF User, RowsFor, UsersIn
    <2>2. a \in dirs' => a \in late'
      BY <1>4, <1>6, <2>0
    <2>3. ASSUME NEW q \in Sessions, Adding(q, a, {"alias", "dir", "row"})'
          PROVE  FALSE
      <3>1. Adding(q, a, {"alias", "dir", "row"})
        BY <1>r, <2>3
      <3>2. Tears(cmd[s], cmd[q]) = {d}
        BY <1>a, <1>6, <3>1 DEF Tears, Adding
      <3> QED
        BY <1>0, <2>0, <3>2 DEF PairsTear
    <2>4. ASSUME NEW q \in Sessions
          PROVE  ~Adding(q, a, {"row"})'
      <3>1. Adding(q, a, {"row"})' => Adding(q, a, {"alias", "dir", "row"})'
        BY DEF Adding
      <3> QED
        BY <2>3, <3>1
    <2>5. ASSUME NEW q \in Sessions, NEW p \in Sessions, Deleting(q, a, UserPast)', Deleting(p, a, UserPast)'
          PROVE  p = q
      BY <1>r, <2>0, <2>5 DEF UserIsWhole
    <2>6. ASSUME NEW q \in Sessions, Deleting(q, a, {"rmdir"})'
          PROVE  mail'[a] = {} \/ a \in late'
      BY <1>2, <1>e, <1>r, <2>0, <2>6 DEF UserIsWhole
    <2> QED
      BY <1>6, <2>0, <2>1, <2>2, <2>3, <2>4, <2>5, <2>6 DEF UserIsWhole
  <1> QED
    BY <1>a, <1>0, <1>1, <1>2, <1>3, <1>5, <1>6, OfDomainKeeps
-----------------------------------------------------------------------------
(* Commands begin; deliveries; crashes. *)

LEMMA StartKeepsIInv ==
    ASSUME IInv, NEW s \in Sessions, NEW c \in Requests, Start(s, c)
    PROVE  IInv'
  <1>0. TypeOK /\ StepsFit /\ PairsTear /\ at[s] = "idle" /\ cmd[s] = None /\ cmd[s].op = "none" /\ seen[s] = {}
    <2>1. at[s] = "idle" => cmd[s].op = "none"
      BY CommandFields DEF IInv, StepsFit, LabelsOf, UserPast, DomainPast
    <2> QED
      BY <2>1, CommandFields DEF IInv, Start, StepsFit
  <1>c. /\ c.op \in {"useradd", "userdel", "aliasdel", "aliasadd", "ownadd", "owndel",
                     "domainadd", "domaindel", "adomaindel", "adomainadd"}
        /\ FirstStep(c.op) \in LabelsOf(c.op) /\ FirstStep(c.op) \in Labels
        /\ FirstStep(c.op) \in {"check", "target", "row"}
        /\ FirstStep(c.op) = "row" => c.op \notin {"useradd", "userdel", "domainadd", "aliasadd", "adomainadd"}
    <2>1. c \in Commands
      BY AccountsAssumption
    <2>2. c.op \in {"useradd", "userdel", "aliasdel", "aliasadd", "ownadd", "owndel",
                    "domainadd", "domaindel", "adomaindel", "adomainadd"}
      BY <2>1 DEF Commands
    <2> QED
      BY <2>2 DEF FirstStep, LabelsOf, Labels
  <1>1. /\ UNCHANGED <<tab, stale, lost, domDirs, dirs, mail, seen, box, born, late>>
        /\ cmd' \in [Sessions -> Requests \cup {None}] /\ at' \in [Sessions -> Labels]
        /\ used' \in [{"commands", "deliveries", "faults"} -> Nat]
        /\ cmd'[s] = c /\ at'[s] = FirstStep(c.op)
        /\ \A q \in Sessions \ {s} : cmd'[q] = cmd[q] /\ at'[q] = at[q]
        /\ torn' = torn \cup UNION {Tears(c, cmd[q]) \cup Tears(cmd[q], c) : q \in Sessions \ {s}}
    BY <1>0, <1>c DEF TypeOK, Start, Count
  <1>t. torn \subseteq torn' /\ torn' \subseteq Accounts \cup Domains
    <2>1. \A q \in Sessions \ {s} : Tears(c, cmd[q]) \subseteq torn' /\ Tears(cmd[q], c) \subseteq torn'
      BY <1>1
    <2>2. ASSUME NEW q \in Sessions
          PROVE  Tears(c, cmd[q]) \cup Tears(cmd[q], c) \subseteq Accounts \cup Domains
      <3>1. Names(cmd[q]) \subseteq Accounts \cup Domains
        BY <1>0, NamesTyped
      <3>2. Names(c) \subseteq Accounts \cup Domains
        BY AccountsAssumption DEF Commands, Names
      <3>3. Tears(c, cmd[q]) \cup Tears(cmd[q], c) \subseteq Names(c) \cup Names(cmd[q])
        BY DEF Tears, Names
      <3> QED
        BY <3>1, <3>2, <3>3
    <2> QED
      BY <1>0, <1>1, <2>2 DEF TypeOK
  <1>r. ASSUME NEW q \in Sessions, NEW b, NEW steps, {"check", "target"} \cap steps = {}
        PROVE  /\ Adding(q, b, steps)' <=> Adding(q, b, steps)
               /\ Deleting(q, b, steps)' <=> Deleting(q, b, steps)
               /\ DomAdding(q, b, steps)' <=> DomAdding(q, b, steps)
               /\ \A a \in Accounts : Linking(q, b, a, steps)' <=> Linking(q, b, a, steps)
               /\ \A a \in Accounts : Linking(q, a, b, steps)' <=> Linking(q, a, b, steps)
               /\ \A d \in Domains : DomLinking(q, b, d, steps)' <=> DomLinking(q, b, d, steps)
               /\ "row" \notin steps => (DomDeleting(q, b, steps)' <=> DomDeleting(q, b, steps))
    <2>1. CASE q = s
      BY <1>0, <1>c, <1>1, <1>r, <2>1 DEF Adding, Deleting, DomAdding, DomDeleting, Linking, DomLinking
    <2>2. CASE q # s
      BY <1>1, <2>2 DEF Adding, Deleting, DomAdding, DomDeleting, Linking, DomLinking
    <2> QED
      BY <2>1, <2>2
  <1>p. /\ {"check", "target", "row"} \cap UserPast = {} /\ {"check", "target", "row"} \cap DomainPast = {}
        /\ {"check", "target", "row"} \cap (DomainPast \ {"users"}) = {}
        /\ {"check", "target", "row"} \cap (DomainPast \ {"clear", "rmdir"}) = {}
        /\ \A t \in Owned : /\ {"check", "target"} \cap ({"links"} \cup {t}) = {}
                            /\ {"check", "target", "row"} \cap {"aliases", "extaliases", t} = {}
    BY DEF UserPast, DomainPast, Owned
  <1>2. TypeOK'
    BY <1>0, <1>1, <1>t DEF TypeOK
  <1>3. StepsFit'
    BY <1>0, <1>c, <1>1 DEF StepsFit
  <1>4. PairsTear'
    <2> SUFFICES ASSUME NEW p \in Sessions, NEW q \in Sessions
                 PROVE  Tears(cmd[p], cmd[q])' \subseteq torn'
      BY DEF PairsTear
    <2>1. CASE p = s /\ q = s
      BY <1>1, <2>1 DEF Tears
    <2>2. CASE p = s /\ q # s
      <3>1. Tears(cmd[p], cmd[q])' = Tears(c, cmd[q])
        BY <1>1, <2>2 DEF Tears
      <3> QED
        BY <1>1, <2>2, <3>1
    <2>3. CASE p # s /\ q = s
      <3>1. Tears(cmd[p], cmd[q])' = Tears(cmd[p], c)
        BY <1>1, <2>3 DEF Tears
      <3> QED
        BY <1>1, <2>3, <3>1
    <2>4. CASE p # s /\ q # s
      <3>1. Tears(cmd[p], cmd[q])' = Tears(cmd[p], cmd[q])
        BY <1>1, <2>4 DEF Tears
      <3> QED
        BY <1>0, <1>t, <3>1 DEF PairsTear
    <2> QED
      BY <2>1, <2>2, <2>3, <2>4
  <1>5. RowsAreApart' /\ MailIsOwned' /\ DirsNest'
    <2>1. \A q \in Sessions, a \in Accounts : Adding(q, a, {"row"})' => Adding(q, a, {"row"})
      BY <1>r
    <2> QED
      BY <1>1, <2>1, ApartIsKept, MailIsKeptOwned DEF IInv, DirsNest
  <1>6. ASSUME NEW d \in Domains \ torn'
        PROVE  DomainIsWhole(d)' /\ DomainOrAlias(d)'
    <2>1. /\ Handled(d)' = Handled(d) /\ UsersIn(d)' = UsersIn(d) /\ AliasDomain(d)' = AliasDomain(d)
          /\ \A e : Handled(e)' = Handled(e)
      BY <1>1 DEF Handled, UsersIn, AliasDomain
    <2>2. DomainFrame(d)
      BY <1>1, <1>t, <1>r, <1>p, <2>1 DEF DomainFrame
    <2>3. AliasFrame(d)
      BY <1>t, <1>r, <1>p, <2>1 DEF AliasFrame
    <2> QED
      BY <1>0, <1>t, <2>2, <2>3, DomainIsKept, DomainAliasKept DEF IInv
  <1>7. ASSUME NEW b \in Accounts \ torn'
        PROVE  UserOrAlias(b)'
    <2>1. UNCHANGED <<User(b), RowsFor("aliases", b)>>
      BY <1>1 DEF User, RowsFor
    <2>2. NameFrame(b)
      BY <1>r, <2>1 DEF NameFrame
    <2> QED
      BY <1>t, <2>2, NameIsKept DEF IInv
  <1>8. ASSUME NEW b \in Accounts, Whole(b)'
        PROVE  UserIsWhole(b)' /\ RowsAreOwned(b)'
    <2>1. /\ UNCHANGED <<User(b), NearAliases(b), Handled(DomainOf[b])>> /\ Whole(b)
          /\ \A u \in Owned : RowsFor(u, b)' = RowsFor(u, b)
      BY <1>1, <1>t, <1>8 DEF User, RowsFor, NearAliases, AliasesTo, Handled, Whole
    <2>2. UserFrame(b)
      BY <1>1, <1>r, <1>p, <2>1 DEF UserFrame
    <2>3. OwnedFrame(b)
      BY <1>r, <1>p, <2>1 DEF OwnedFrame
    <2> QED
      BY <2>1, <2>2, <2>3, UserIsKept, OwnedIsKept DEF IInv
  <1> QED
    BY <1>2, <1>3, <1>4, <1>5, <1>6, <1>7, <1>8 DEF IInv

\* What a delivery does to a mailbox: it has a directory, and the message is
\* for its user, or late.
LEMMA DeliveryKeepsIInv ==
    ASSUME IInv, UNCHANGED <<tab, stale, lost, domDirs, dirs, cmd, at, seen, born, torn>>,
           used' \in [{"commands", "deliveries", "faults"} -> Nat],
           box' \in [Deliverers -> RowsOf.users \cup {Nobody}],
           \A p \in Deliverers : box'[p] # Nobody => box'[p].gen # 0,
           mail' \in [Accounts -> SUBSET Incarnations], late \subseteq late', late' \subseteq Accounts,
           \A a \in Accounts \ late' : mail'[a] # mail[a] =>
                a \in dirs /\ \E u \in User(a) : mail'[a] \subseteq mail[a] \cup {u.gen},
           \A a \in Accounts \ dirs : mail'[a] = mail[a]
    PROVE  IInv'
  <1>0. TypeOK /\ StepsFit /\ PairsTear /\ DirsNest /\ RowsAreApart /\ MailIsOwned
    BY DEF IInv
  <1>e. /\ \A b : /\ User(b)' = User(b) /\ RowsFor("aliases", b)' = RowsFor("aliases", b)
                  /\ NearAliases(b)' = NearAliases(b) /\ (Whole(b)' <=> Whole(b))
        /\ \A b : \A t \in Owned : RowsFor(t, b)' = RowsFor(t, b)
        /\ \A e : /\ Handled(e)' = Handled(e) /\ UsersIn(e)' = UsersIn(e)
                  /\ AliasDomain(e)' = AliasDomain(e)
    BY DEF User, RowsFor, NearAliases, AliasesTo, Whole, Handled, UsersIn, AliasDomain
  <1>r. \A q \in Sessions : \A b, c, steps :
             /\ Adding(q, b, steps)' <=> Adding(q, b, steps)
             /\ Deleting(q, b, steps)' <=> Deleting(q, b, steps)
             /\ DomAdding(q, b, steps)' <=> DomAdding(q, b, steps)
             /\ DomDeleting(q, b, steps)' <=> DomDeleting(q, b, steps)
             /\ Linking(q, b, c, steps)' <=> Linking(q, b, c, steps)
             /\ DomLinking(q, b, c, steps)' <=> DomLinking(q, b, c, steps)
    BY DEF Adding, Deleting, DomAdding, DomDeleting, Linking, DomLinking
  <1>1. TypeOK' /\ StepsFit' /\ PairsTear' /\ DirsNest'
    <2>1. TypeOK'
      BY <1>0 DEF TypeOK
    <2>2. StepsFit'
      BY <1>0 DEF StepsFit
    <2>3. PairsTear'
      <3>1. \A s, q \in Sessions : Tears(cmd[s], cmd[q])' = Tears(cmd[s], cmd[q])
        BY DEF Tears
      <3> QED
        BY <1>0, <3>1 DEF PairsTear
    <2>4. DirsNest'
      BY <1>0 DEF DirsNest
    <2> QED
      BY <2>1, <2>2, <2>3, <2>4
  <1>2. RowsAreApart'
    <2>1. \A s \in Sessions, a \in Accounts : Adding(s, a, {"row"})' => User(a)' = {} /\ born'[a] # 0
      BY <1>0, <1>e, <1>r DEF RowsAreApart
    <2>2. \A s, q \in Sessions : \A a, b \in Accounts :
              Adding(s, a, {"row"})' /\ Adding(q, b, {"row"})' => s = q
      BY <1>0, <1>r DEF RowsAreApart
    <2> QED
      BY <1>0, <2>1, <2>2 DEF RowsAreApart
  <1>3. MailIsOwned'
    <2> SUFFICES ASSUME NEW a \in Accounts \ late'
                 PROVE  /\ \A u \in User(a)' : mail'[a] \subseteq {u.gen}
                        /\ \A s \in Sessions : Adding(s, a, {"row"})' => mail'[a] = {}
      BY DEF MailIsOwned
    <2>1. /\ \A u \in User(a) : mail[a] \subseteq {u.gen}
          /\ \A s \in Sessions : Adding(s, a, {"row"}) => mail[a] = {} /\ User(a) = {}
      BY <1>0 DEF MailIsOwned, RowsAreApart
    <2>2. CASE mail'[a] = mail[a]
      BY <1>e, <1>r, <2>1, <2>2
    <2>3. CASE mail'[a] # mail[a]
      <3>1. PICK u \in User(a) : mail'[a] \subseteq mail[a] \cup {u.gen}
        BY <2>3
      <3>2. \A v \in User(a) : v = u
        BY <1>0, <3>1 DEF RowsAreApart, User, RowsFor
      <3> QED
        BY <1>e, <1>r, <2>1, <3>1, <3>2
    <2> QED
      BY <2>2, <2>3
  <1>4. ASSUME NEW d \in Domains \ torn'
        PROVE  DomainIsWhole(d)' /\ DomainOrAlias(d)'
    <2>0. DomainIsWhole(d) /\ DomainOrAlias(d)
      BY DEF IInv
    <2>1. ASSUME NEW q \in Sessions, DomDeleting(q, d, {"rmdir"}),
                 NEW a \in dirs', DomainOf[a] = d, mail[a] = {}
          PROVE  mail'[a] = {} \/ a \in late'
      <3>1. UsersIn(d) = {}
        <4>1. DomDeleting(q, d, DomainPast \ {"users"})
          BY <2>1 DEF DomDeleting, DomainPast
        <4> QED
          BY <2>0, <4>1 DEF DomainIsWhole
      <3>2. User(a) = {} /\ a \in Accounts
        BY <1>0, <2>1, <3>1 DEF User, RowsFor, UsersIn, TypeOK
      <3> QED
        BY <2>1, <3>2
    <2>2. DomainFrame(d)
      BY <1>e, <1>r, <2>1 DEF DomainFrame
    <2>3. AliasFrame(d)
      BY <1>e, <1>r DEF AliasFrame
    <2> QED
      BY <1>0, <2>0, <2>2, <2>3, DomainIsKept, DomainAliasKept
  <1>5. ASSUME NEW a \in Accounts \ torn'
        PROVE  UserOrAlias(a)'
    <2>1. NameFrame(a)
      BY <1>e, <1>r DEF NameFrame
    <2> QED
      BY <2>1, NameIsKept DEF IInv
  <1>6. ASSUME NEW a \in Accounts, Whole(a)'
        PROVE  UserIsWhole(a)' /\ RowsAreOwned(a)'
    <2>0. UserIsWhole(a) /\ RowsAreOwned(a)
      BY <1>e, <1>6 DEF IInv
    <2>1. ASSUME NEW q \in Sessions, Deleting(q, a, {"rmdir"}), mail[a] = {}
          PROVE  mail'[a] = {} \/ a \in late'
      <3>1. Deleting(q, a, UserPast)
        BY <2>1 DEF Deleting, UserPast
      <3>2. User(a) = {}
        BY <2>0, <3>1 DEF UserIsWhole
      <3> QED
        BY <2>1, <3>2
    <2>2. UserFrame(a)
      BY <1>e, <1>r, <2>1 DEF UserFrame
    <2>3. OwnedFrame(a)
      BY <1>e, <1>r DEF OwnedFrame
    <2> QED
      BY <2>0, <2>2, <2>3, UserIsKept, OwnedIsKept
  <1> QED
    BY <1>1, <1>2, <1>3, <1>4, <1>5, <1>6 DEF IInv

LEMMA FindKeepsIInv ==
    ASSUME IInv, NEW p \in Deliverers, Find(p)
    PROVE  IInv'
  <1>0. TypeOK /\ RowsAreApart
    BY DEF IInv
  <1>1. PICK r \in tab["users"] : box' = [box EXCEPT ![p] = r]
    BY DEF Find
  <1>2. /\ UNCHANGED <<tab, stale, lost, domDirs, dirs, mail, cmd, at, seen, born, torn, late>>
        /\ used' \in [{"commands", "deliveries", "faults"} -> Nat]
    BY <1>0 DEF Find, Count, TypeOK
  <1>3. r \in RowsOf.users /\ r.gen # 0
    BY <1>0 DEF TypeOK, RowsAreApart, Tables
  <1>4. /\ box' \in [Deliverers -> RowsOf.users \cup {Nobody}]
        /\ \A q \in Deliverers : box'[q] # Nobody => box'[q].gen # 0
    BY <1>0, <1>1, <1>3 DEF TypeOK, RowsAreApart
  <1> QED
    BY <1>0, <1>2, <1>4, DeliveryKeepsIInv DEF TypeOK

LEMMA MoveKeepsIInv ==
    ASSUME IInv, NEW p \in Deliverers, Move(p)
    PROVE  IInv'
  <1>0. TypeOK /\ RowsAreApart
    BY DEF IInv
  <1>1. PICK a \in Accounts : a = box[p].a /\ box[p].gen \in Incarnations /\ box[p].gen # 0
    <2>1. box[p] \in RowsOf.users /\ box[p] # Nobody
      BY <1>0 DEF Move, TypeOK
    <2>2. box[p] \in [a : Accounts, gen : Incarnations]
      BY <2>1 DEF RowsOf
    <2> QED
      BY <1>0, <2>1, <2>2 DEF RowsAreApart
  <1>2. /\ UNCHANGED <<tab, stale, lost, domDirs, dirs, cmd, at, seen, born, torn, used>>
        /\ box' = [box EXCEPT ![p] = Nobody]
        /\ IF a \in dirs
           THEN /\ mail' = [mail EXCEPT ![a] = @ \cup {box[p].gen}]
                /\ late' = IF Current(a) = box[p].gen THEN late ELSE late \cup {a}
           ELSE UNCHANGED <<mail, late>>
    BY <1>1 DEF Move
  <1>3. /\ box' \in [Deliverers -> RowsOf.users \cup {Nobody}]
        /\ \A q \in Deliverers : box'[q] # Nobody => box'[q].gen # 0
        /\ used' \in [{"commands", "deliveries", "faults"} -> Nat]
        /\ mail' \in [Accounts -> SUBSET Incarnations] /\ late \subseteq late' /\ late' \subseteq Accounts
        /\ \A b \in Accounts \ dirs : mail'[b] = mail[b]
    <2>1. /\ box' \in [Deliverers -> RowsOf.users \cup {Nobody}]
          /\ \A q \in Deliverers : box'[q] # Nobody => box'[q].gen # 0
      BY <1>0, <1>2 DEF TypeOK, RowsAreApart
    <2>2. late \subseteq late' /\ late' \subseteq Accounts
      BY <1>0, <1>1, <1>2 DEF TypeOK
    <2>3. /\ mail' \in [Accounts -> SUBSET Incarnations]
          /\ \A b \in Accounts \ dirs : mail'[b] = mail[b]
      <3>1. mail \in [Accounts -> SUBSET Incarnations] /\ mail[a] \cup {box[p].gen} \in SUBSET Incarnations
        BY <1>0, <1>1 DEF TypeOK
      <3> QED
        BY <1>2, <3>1
    <2> QED
      BY <1>0, <1>2, <2>1, <2>2, <2>3 DEF TypeOK
  <1>4. ASSUME NEW b \in Accounts \ late', mail'[b] # mail[b]
        PROVE  b \in dirs /\ \E u \in User(b) : mail'[b] \subseteq mail[b] \cup {u.gen}
    <2>1. b = a /\ a \in dirs /\ mail'[b] = mail[b] \cup {box[p].gen} /\ Current(a) = box[p].gen
      BY <1>0, <1>2, <1>4 DEF TypeOK
    <2>2. PICK u \in User(a) : u.gen = Current(a)
      BY <1>0, <1>1, <2>1, CurrentIsAUsers
    <2> QED
      BY <2>1, <2>2
  <1> QED
    BY <1>2, <1>3, <1>4, DeliveryKeepsIInv

\* The rows a killed process may take with it are of one table.
LEMMA RewritingTables ==
    ASSUME TypeOK, NEW s \in Sessions
    PROVE  Rewriting(s) \subseteq Tables
  BY CommandFields DEF Rewriting, Tables

\* What a crash leaves: no command goes on, and the names that the commands
\* were about are torn, with those of the users and domains that lost rows.
LEMMA CrashEffect ==
    ASSUME TypeOK, Crash
    PROVE  /\ \A t \in Tables : tab'[t] \subseteq tab[t]
           /\ \A s \in Sessions : Names(cmd[s]) \subseteq torn'
           /\ \A r \in tab["users"] \ tab'["users"] : r.a \in torn'
           /\ \A r \in tab["domains"] \ tab'["domains"] : r.d \in torn'
           /\ torn \subseteq torn' /\ torn' \subseteq Accounts \cup Domains
           /\ tab' \in [Tables -> UNION {SUBSET RowsOf[t] : t \in Tables}]
           /\ \A t \in Tables : tab'[t] \subseteq RowsOf[t]
  <1>0. /\ tab \in [Tables -> UNION {SUBSET RowsOf[t] : t \in Tables}]
        /\ \A t \in Tables : tab[t] \subseteq RowsOf[t]
        /\ torn \subseteq Accounts \cup Domains
        /\ \A s \in Sessions : Names(cmd[s]) \subseteq Accounts \cup Domains
        /\ {"users", "domains"} \subseteq Tables
    BY NamesTyped DEF TypeOK, Tables
  <1>1. CASE UNCHANGED tab /\ torn' = torn \cup UNION {Names(cmd[s]) : s \in Sessions}
    BY <1>0, <1>1
  <1>2. ASSUME NEW s \in Sessions, NEW t \in Rewriting(s), NEW rows \in SUBSET tab[t],
               tab' = [tab EXCEPT ![t] = rows],
               torn' = torn \cup Vanished(t, tab[t] \ rows) \cup UNION {Names(cmd[q]) : q \in Sessions}
        PROVE  /\ \A u \in Tables : tab'[u] \subseteq tab[u]
               /\ \A q \in Sessions : Names(cmd[q]) \subseteq torn'
               /\ \A r \in tab["users"] \ tab'["users"] : r.a \in torn'
               /\ \A r \in tab["domains"] \ tab'["domains"] : r.d \in torn'
               /\ torn \subseteq torn' /\ torn' \subseteq Accounts \cup Domains
               /\ tab' \in [Tables -> UNION {SUBSET RowsOf[u] : u \in Tables}]
               /\ \A u \in Tables : tab'[u] \subseteq RowsOf[u]
    <2>1. /\ t \in Tables /\ tab'[t] = rows /\ rows \subseteq RowsOf[t] /\ rows \subseteq tab[t]
          /\ \A u \in Tables \ {t} : tab'[u] = tab[u]
      BY <1>0, <1>2, RewritingTables
    <2>2. tab' \in [Tables -> UNION {SUBSET RowsOf[u] : u \in Tables}]
      BY <1>0, <1>2, <2>1
    <2>3. Vanished(t, tab[t] \ rows) \subseteq Accounts \cup Domains
      <3>1. Vanished(t, tab[t] \ rows) \subseteq Vanished(t, tab[t])
        BY DEF Vanished
      <3> QED
        BY <2>1, <3>1, VanishedTyped
    <2>p. PICK names : names = UNION {Names(cmd[q]) : q \in Sessions}
      OBVIOUS
    <2>n. torn' = torn \cup Vanished(t, tab[t] \ rows) \cup names
      BY <1>2, <2>p
    <2>m. names \subseteq Accounts \cup Domains /\ \A q \in Sessions : Names(cmd[q]) \subseteq names
      BY <1>0, <2>p
    <2>4. \A r \in tab[t] \ rows : (t = "users" => r.a \in torn') /\ (t = "domains" => r.d \in torn')
      <3>1. Vanished(t, tab[t] \ rows) \subseteq torn'
        BY <2>n
      <3> QED
        BY <3>1, VanishedRows
    <2>5. torn \subseteq torn' /\ torn' \subseteq Accounts \cup Domains
          /\ \A q \in Sessions : Names(cmd[q]) \subseteq torn'
      BY <1>0, <2>n, <2>m, <2>3
    <2>6. /\ \A r \in tab["users"] \ tab'["users"] : r.a \in torn'
          /\ \A r \in tab["domains"] \ tab'["domains"] : r.d \in torn'
      BY <1>0, <2>1, <2>4
    <2> QED
      <3>1. \A u \in Tables : tab'[u] \subseteq tab[u] /\ tab'[u] \subseteq RowsOf[u]
        BY <1>0, <2>1
      <3> QED
        BY <2>2, <2>5, <2>6, <3>1
  <1> QED
    BY <1>1, <1>2 DEF Crash

LEMMA CrashKeepsIInv ==
    ASSUME IInv, Crash
    PROVE  IInv'
  <1>0. /\ TypeOK /\ RowsAreApart /\ MailIsOwned /\ DirsNest
        /\ {"users", "domains", "aliases", "adomains"} \cup Owned \subseteq Tables
    BY DEF IInv, Tables, Owned
  <1>1. /\ \A t \in Tables : tab'[t] \subseteq tab[t]
        /\ \A s \in Sessions : Names(cmd[s]) \subseteq torn'
        /\ \A r \in tab["users"] \ tab'["users"] : r.a \in torn'
        /\ \A r \in tab["domains"] \ tab'["domains"] : r.d \in torn'
        /\ torn \subseteq torn' /\ torn' \subseteq Accounts \cup Domains
        /\ tab' \in [Tables -> UNION {SUBSET RowsOf[t] : t \in Tables}]
        /\ \A t \in Tables : tab'[t] \subseteq RowsOf[t]
    BY <1>0, CrashEffect
  <1>2. /\ UNCHANGED <<lost, domDirs, dirs, mail, born, late>>
        /\ stale' \in SUBSET Tables /\ used' \in [{"commands", "deliveries", "faults"} -> Nat]
        /\ cmd' = [s \in Sessions |-> None] /\ at' = [s \in Sessions |-> "idle"]
        /\ seen' = [s \in Sessions |-> {}] /\ box' = [p \in Deliverers |-> Nobody]
    BY <1>0 DEF Crash, Count, TypeOK
  <1>a. ASSUME NEW q \in Sessions
        PROVE  cmd'[q] = None /\ cmd'[q].op = "none" /\ at'[q] = "idle" /\ seen'[q] = {}
    BY <1>2 DEF None
  \* No command goes on, and none was about a name that is whole.
  <1>n. ASSUME NEW q \in Sessions, NEW b, NEW c, NEW steps
        PROVE  /\ ~Adding(q, b, steps)' /\ ~Deleting(q, b, steps)' /\ ~Linking(q, b, c, steps)'
               /\ ~DomAdding(q, b, steps)' /\ ~DomDeleting(q, b, steps)' /\ ~DomLinking(q, b, c, steps)'
    BY <1>a DEF Adding, Deleting, DomAdding, DomDeleting, Linking, DomLinking
  <1>w. ASSUME NEW q \in Sessions, NEW b, b \notin torn', NEW steps
        PROVE  /\ ~Adding(q, b, steps) /\ ~Deleting(q, b, steps)
               /\ ~DomAdding(q, b, steps) /\ ~DomDeleting(q, b, steps)
    <2>1. b \notin Names(cmd[q])
      BY <1>1, <1>w
    <2> QED
      BY <2>1 DEF Names, Adding, Deleting, DomAdding, DomDeleting
  <1>3. TypeOK'
    <2>1. /\ cmd' \in [Sessions -> Requests \cup {None}] /\ at' \in [Sessions -> Labels]
          /\ seen' \in [Sessions -> SUBSET Accounts]
          /\ box' \in [Deliverers -> RowsOf.users \cup {Nobody}]
      BY <1>2 DEF Labels
    <2> QED
      BY <1>0, <1>1, <1>2, <2>1 DEF TypeOK
  <1>4. StepsFit' /\ PairsTear' /\ DirsNest'
    <2>1. \A s, q \in Sessions : Tears(cmd[s], cmd[q])' = {}
      BY <1>a DEF Tears
    <2> QED
      BY <1>0, <1>2, <1>a, <2>1 DEF StepsFit, LabelsOf, PairsTear, DirsNest
  <1>5. RowsAreApart'
    <2>1. tab'["users"] \subseteq tab["users"] /\ tab'["adomains"] \subseteq tab["adomains"]
      BY <1>0, <1>1
    <2>2. \A u, v \in tab'["users"] : u.a = v.a => u = v
      BY <1>0, <2>1 DEF RowsAreApart
    <2>3. \A u \in tab'["users"] : u.gen # 0
      BY <1>0, <2>1 DEF RowsAreApart
    <2>4. \A r, q \in tab'["adomains"] : r.d = q.d => r = q
      BY <1>0, <2>1 DEF RowsAreApart
    <2>5. \A p \in Deliverers : box'[p] = Nobody
      BY <1>2
    <2>6. \A s \in Sessions, a \in Accounts : ~Adding(s, a, {"row"})'
      BY <1>n
    <2> QED
      BY <2>2, <2>3, <2>4, <2>5, <2>6 DEF RowsAreApart
  <1>6. MailIsOwned'
    <2>1. tab'["users"] \subseteq tab["users"]
      BY <1>0, <1>1
    <2>2. \A s \in Sessions, a \in Accounts : ~Adding(s, a, {"row"})'
      BY <1>n
    <2> QED
      BY <1>0, <1>2, <2>1, <2>2, MailIsKeptOwned
  <1>h. \A d : d \notin torn' => (Handled(d)' <=> Handled(d))
    BY <1>0, <1>1 DEF Handled
  <1>7. ASSUME NEW d \in Domains \ torn'
        PROVE  DomainIsWhole(d)' /\ DomainOrAlias(d)'
    <2>1. DomainFrame(d)
      BY <1>1, <1>2, <1>n, <1>w, <1>h, <1>7 DEF DomainFrame
    <2>2. AliasDomain(d)' \subseteq AliasDomain(d)
      BY <1>0, <1>1 DEF AliasDomain
    <2>3. AliasFrame(d)
      BY <1>1, <1>n, <1>w, <1>h, <1>7, <2>2 DEF AliasFrame
    <2> QED
      BY <1>0, <1>1, <2>1, <2>3, DomainIsKept, DomainAliasKept DEF IInv
  <1>8. ASSUME NEW a \in Accounts \ torn'
        PROVE  UserOrAlias(a)'
    <2>1. User(a)' \subseteq User(a) /\ RowsFor("aliases", a)' \subseteq RowsFor("aliases", a)
      BY <1>0, <1>1 DEF User, RowsFor
    <2>2. NameFrame(a)
      BY <1>n, <2>1 DEF NameFrame
    <2> QED
      BY <1>1, <2>2, NameIsKept DEF IInv
  <1>9. ASSUME NEW a \in Accounts, Whole(a)'
        PROVE  UserIsWhole(a)' /\ RowsAreOwned(a)'
    <2>0. /\ a \notin torn' /\ DomainOf[a] \notin torn' /\ Whole(a)
          /\ UserIsWhole(a) /\ RowsAreOwned(a)
      BY <1>1, <1>9 DEF Whole, IInv
    <2>1. /\ User(a)' = User(a) /\ NearAliases(a)' \subseteq NearAliases(a)
          /\ \A t \in Owned : RowsFor(t, a)' \subseteq RowsFor(t, a)
      BY <1>0, <1>1, <2>0 DEF User, RowsFor, NearAliases, AliasesTo
    <2>2. UserFrame(a)
      BY <1>2, <1>n, <1>w, <1>h, <2>0, <2>1 DEF UserFrame
    <2>3. OwnedFrame(a)
      BY <1>n, <1>w, <2>0, <2>1 DEF OwnedFrame
    <2> QED
      BY <2>0, <2>2, <2>3, UserIsKept, OwnedIsKept
  <1> QED
    BY <1>3, <1>4, <1>5, <1>6, <1>7, <1>8, <1>9 DEF IInv
-----------------------------------------------------------------------------
(* The invariant, and what it says of the properties.                      *)

LEMMA InitIInv == Init => IInv
  <1> SUFFICES ASSUME Init
               PROVE  IInv
    OBVIOUS
  <1>1. /\ tab["users"] = {} /\ tab["aliases"] = {} /\ tab["adomains"] = {}
        /\ \A t \in Owned : tab[t] = {}
        /\ tab["domains"] = [d : {DomainOf[a] : a \in Accounts}]
        /\ \A t \in Tables : tab[t] \subseteq RowsOf[t]
        /\ tab \in [Tables -> UNION {SUBSET RowsOf[t] : t \in Tables}]
    <2>1. {DomainOf[a] : a \in Accounts} \subseteq Domains
      BY AccountsAssumption
    <2>2. \A t \in Tables : IF t = "domains" THEN tab[t] = [d : {DomainOf[a] : a \in Accounts}] ELSE tab[t] = {}
      BY DEF Init
    <2>3. \A t \in Tables : tab[t] \subseteq RowsOf[t]
      <3>1. [d : {DomainOf[a] : a \in Accounts}] \subseteq [d : Domains]
        BY <2>1
      <3>2. RowsOf["domains"] = [d : Domains]
        BY DEF RowsOf
      <3> QED
        BY <2>2, <3>1, <3>2
    <2>4. tab \in [Tables -> UNION {SUBSET RowsOf[t] : t \in Tables}]
      <3>1. tab = [t \in Tables |-> tab[t]]
        BY DEF Init
      <3> QED
        BY <2>3, <3>1
    <2> QED
      BY <2>2, <2>3, <2>4 DEF Tables, Owned
  <1>2. /\ \A a : User(a) = {} /\ RowsFor("aliases", a) = {} /\ AliasesTo(a) = {}
        /\ \A a : \A t \in Owned : RowsFor(t, a) = {}
        /\ \A d : UsersIn(d) = {} /\ AliasDomain(d) = {}
        /\ \A d : Handled(d) <=> d \in domDirs
    <2>1. /\ \A a : User(a) = {} /\ RowsFor("aliases", a) = {} /\ AliasesTo(a) = {}
          /\ \A a : \A t \in Owned : RowsFor(t, a) = {}
      BY <1>1 DEF User, RowsFor, AliasesTo
    <2>2. \A d : UsersIn(d) = {} /\ AliasDomain(d) = {}
      BY <1>1 DEF UsersIn, AliasDomain
    <2>3. ASSUME NEW d
          PROVE  Handled(d) <=> d \in domDirs
      <3>1. PICK D : D = {DomainOf[a] : a \in Accounts}
        OBVIOUS
      <3>2. tab["domains"] = [d : D] /\ domDirs = D
        BY <1>1, <3>1 DEF Init
      <3>3. [d |-> d] \in [d : D] <=> d \in D
        OBVIOUS
      <3> QED
        BY <3>2, <3>3 DEF Handled
    <2> QED
      BY <2>1, <2>2, <2>3
  <1>3. \A s \in Sessions : cmd[s] = None /\ cmd[s].op = "none" /\ at[s] = "idle" /\ seen[s] = {}
    BY DEF Init, None
  <1>n. ASSUME NEW q \in Sessions, NEW b, NEW c, NEW steps
        PROVE  /\ ~Adding(q, b, steps) /\ ~Deleting(q, b, steps) /\ ~Linking(q, b, c, steps)
               /\ ~DomAdding(q, b, steps) /\ ~DomDeleting(q, b, steps) /\ ~DomLinking(q, b, c, steps)
    BY <1>3 DEF Adding, Deleting, DomAdding, DomDeleting, Linking, DomLinking
  <1>4. TypeOK
    <2>1. /\ domDirs \subseteq Domains /\ stale = {} /\ lost = {} /\ dirs = {} /\ torn = {} /\ late = {}
          /\ mail \in [Accounts -> SUBSET Incarnations]
      BY AccountsAssumption DEF Init
    <2>2. /\ cmd \in [Sessions -> Requests \cup {None}] /\ at \in [Sessions -> Labels]
          /\ seen \in [Sessions -> SUBSET Accounts]
          /\ box \in [Deliverers -> RowsOf.users \cup {Nobody}]
          /\ born \in [Accounts -> Incarnations]
          /\ used \in [{"commands", "deliveries", "faults"} -> Nat]
      BY BoundsAssumption DEF Init, Labels, Incarnations
    <2> QED
      BY <1>1, <2>1, <2>2 DEF TypeOK
  <1>5. StepsFit /\ PairsTear
    <2>1. StepsFit
      BY <1>3 DEF StepsFit, LabelsOf
    <2>2. \A s, q \in Sessions : Tears(cmd[s], cmd[q]) = {}
      BY <1>3 DEF Tears
    <2> QED
      BY <2>1, <2>2 DEF PairsTear
  <1>6. RowsAreApart
    <2>1. \A p \in Deliverers : box[p] = Nobody
      BY DEF Init
    <2> QED
      BY <1>1, <1>n, <2>1 DEF RowsAreApart
  <1>7. DirsNest /\ MailIsOwned
    BY <1>2, <1>n DEF Init, DirsNest, MailIsOwned
  <1>8. ASSUME NEW d \in Domains
        PROVE  DomainIsWhole(d) /\ DomainOrAlias(d)
    BY <1>2, <1>n DEF DomainIsWhole, DomainOrAlias
  <1>9. ASSUME NEW a \in Accounts
        PROVE  UserOrAlias(a) /\ UserIsWhole(a) /\ RowsAreOwned(a)
    <2>1. a \notin dirs
      BY DEF Init
    <2>2. UserOrAlias(a)
      BY <1>2, <1>n DEF UserOrAlias
    <2>3. UserIsWhole(a)
      BY <1>2, <1>n, <2>1 DEF UserIsWhole
    <2>4. RowsAreOwned(a)
      BY <1>2, <1>n DEF RowsAreOwned
    <2> QED
      BY <2>2, <2>3, <2>4
  <1> QED
    BY <1>4, <1>5, <1>6, <1>7, <1>8, <1>9 DEF IInv

LEMMA RowDelKeepsIInv ==
    ASSUME IInv, NEW s \in Sessions, AliasDel(s) \/ OwnDel(s) \/ ADomainDel(s)
    PROVE  IInv'
  <1>0. TypeOK
    BY DEF IInv
  <1>1. CASE AliasDel(s)
    <2>1. /\ RemoveRows(s, "aliases", RowsFor("aliases", cmd[s].a), "idle", "idle")
          /\ RowsFor("aliases", cmd[s].a) \subseteq tab["aliases"] /\ cmd[s].op = "aliasdel"
      BY <1>1 DEF AliasDel, Keeping, RowsFor
    <2> QED
      BY <2>1, DelKeepsIInv
  <1>2. CASE OwnDel(s)
    <2>1. PICK t \in Owned : t = cmd[s].table
      BY <1>0, <1>2, CommandFields DEF OwnDel, Keeping
    <2>2. /\ RemoveRows(s, t, RowsFor(t, cmd[s].a), "idle", "idle")
          /\ RowsFor(t, cmd[s].a) \subseteq tab[t] /\ cmd[s].op = "owndel"
      BY <1>2, <2>1 DEF OwnDel, Keeping, RowsFor
    <2> QED
      BY <2>1, <2>2, DelKeepsIInv
  <1>3. CASE ADomainDel(s)
    <2>1. /\ RemoveRows(s, "adomains", AliasDomain(cmd[s].d), "idle", "idle")
          /\ AliasDomain(cmd[s].d) \subseteq tab["adomains"] /\ cmd[s].op = "adomaindel"
      BY <1>3 DEF ADomainDel, Keeping, AliasDomain
    <2> QED
      BY <2>1, DelKeepsIInv
  <1> QED
    BY <1>1, <1>2, <1>3

LEMMA StepKeepsIInv ==
    ASSUME IInv, NEW s \in Sessions, Step(s)
    PROVE  IInv'
  <1>1. CASE CheckDomain(s)
    BY <1>1, CheckDomainKeepsIInv
  <1>2. CASE UserAddAlias(s)
    BY <1>2, UserAddAliasKeepsIInv
  <1>3. CASE UserAddDir(s)
    BY <1>3, UserAddDirKeepsIInv
  <1>4. CASE UserAddRow(s)
    BY <1>4, UserAddRowKeepsIInv
  <1>5. CASE UserDelRow(s)
    BY <1>5, UserDelRowKeepsIInv
  <1>6. CASE UserCascade(s)
    BY <1>6, UserCascadeKeepsIInv
  <1>7. CASE ClearUser(s)
    BY <1>7, ClearUserKeepsIInv
  <1>8. CASE RemoveUserDir(s)
    BY <1>8, RemoveUserDirKeepsIInv
  <1>9. CASE DomainAddRow(s)
    BY <1>9, DomainAddRowKeepsIInv
  <1>10. CASE DomainAddDir(s)
    BY <1>10, DomainAddDirKeepsIInv
  <1>11. CASE DomainDelRow(s)
    BY <1>11, DomainDelRowKeepsIInv
  <1>12. CASE DomainCascade(s)
    BY <1>12, DomainCascadeKeepsIInv
  <1>13. CASE ClearDomain(s)
    BY <1>13, ClearDomainKeepsIInv
  <1>14. CASE RemoveDomainDir(s)
    BY <1>14, RemoveDomainDirKeepsIInv
  <1>15. CASE AliasAddLookup(s)
    BY <1>15, AliasAddLookupKeepsIInv
  <1>16. CASE AliasAddRow(s)
    BY <1>16, AliasAddRowKeepsIInv
  <1>17. CASE OwnAdd(s)
    BY <1>17, OwnAddKeepsIInv
  <1>18. CASE ADomainAddTarget(s)
    BY <1>18, ADomainAddTargetKeepsIInv
  <1>19. CASE ADomainAddOverlap(s)
    BY <1>19, ADomainAddOverlapKeepsIInv
  <1>20. CASE ADomainAddRow(s)
    BY <1>20, ADomainAddRowKeepsIInv
  <1>21. CASE AliasDel(s) \/ OwnDel(s) \/ ADomainDel(s)
    BY <1>21, RowDelKeepsIInv
  <1> QED
    BY <1>1, <1>2, <1>3, <1>4, <1>5, <1>6, <1>7, <1>8, <1>9, <1>10, <1>11, <1>12, <1>13, <1>14,
       <1>15, <1>16, <1>17, <1>18, <1>19, <1>20, <1>21 DEF Step

LEMMA NextKeepsIInv == IInv /\ [Next]_vars => IInv'
  <1> SUFFICES ASSUME IInv, [Next]_vars
               PROVE  IInv'
    OBVIOUS
  <1>1. ASSUME NEW s \in Sessions, Step(s)
        PROVE  IInv'
    BY <1>1, StepKeepsIInv
  <1>2. ASSUME NEW s \in Sessions, NEW c \in Requests, Start(s, c)
        PROVE  IInv'
    BY <1>2, StartKeepsIInv
  <1>3. ASSUME NEW p \in Deliverers, Find(p)
        PROVE  IInv'
    BY <1>3, FindKeepsIInv
  <1>4. ASSUME NEW p \in Deliverers, Move(p)
        PROVE  IInv'
    BY <1>4, MoveKeepsIInv
  <1>5. CASE Crash
    BY <1>5, CrashKeepsIInv
  <1>6. CASE UNCHANGED vars
    BY <1>6, DeliveryKeepsIInv DEF vars, IInv, TypeOK, RowsAreApart
  <1> QED
    BY <1>1, <1>2, <1>3, <1>4, <1>5, <1>6 DEF Next

\* No removal is past its row while there is a user it would take.
LEMMA UserIsNotRemoved ==
    ASSUME IInv, NEW a \in Accounts, Whole(a), User(a) # {}, NEW s \in Sessions
    PROVE  /\ \A steps : steps \subseteq UserPast => ~Deleting(s, a, steps)
           /\ \A steps : steps \subseteq DomainPast \ {"users"} => ~DomDeleting(s, DomainOf[a], steps)
  <1>1. UserIsWhole(a) /\ DomainIsWhole(DomainOf[a]) /\ UsersIn(DomainOf[a]) # {}
    BY AccountsAssumption DEF IInv, Whole, User, RowsFor, UsersIn
  <1>2. ~Deleting(s, a, UserPast) /\ ~DomDeleting(s, DomainOf[a], DomainPast \ {"users"})
    BY <1>1 DEF UserIsWhole, DomainIsWhole
  <1> QED
    BY <1>2 DEF Deleting, DomDeleting

LEMMA WholeAccounts == IInv => AccountsAreWhole
  <1> SUFFICES ASSUME IInv
               PROVE  AccountsAreWhole
    OBVIOUS
  <1>0. TypeOK /\ RowsAreApart
    BY DEF IInv
  <1>1. ASSUME NEW a \in Accounts, Whole(a), Settled(a), Settled(DomainOf[a])
        PROVE  /\ Current(a) # 0 => a \in dirs /\ Handled(DomainOf[a])
               /\ a \in dirs => Current(a) # 0 \/ a \in late
    <2>1. UserIsWhole(a)
      BY <1>1 DEF IInv
    <2>2. ASSUME NEW s \in Sessions, NEW steps
          PROVE  ~Adding(s, a, steps) /\ ~Deleting(s, a, steps) /\ ~DomDeleting(s, DomainOf[a], steps)
      BY <1>1 DEF Settled, Names, Adding, Deleting, DomDeleting
    <2>3. User(a) # {} => Current(a) # 0
      BY <1>0, CurrentIsAUsers DEF RowsAreApart, User, RowsFor
    <2>4. Current(a) # 0 => User(a) # {}
      BY <1>0, CurrentIsAUsers
    <2> QED
      BY <2>1, <2>2, <2>3, <2>4 DEF UserIsWhole
  <1>2. ASSUME NEW d \in Domains \ torn, Settled(d)
        PROVE  /\ Handled(d) => d \in domDirs
               /\ d \in domDirs => Handled(d) \/ \E a \in late \cup torn : a \in Accounts /\ DomainOf[a] = d
    <2>1. DomainIsWhole(d)
      BY DEF IInv
    <2>2. ASSUME NEW s \in Sessions, NEW steps
          PROVE  ~DomAdding(s, d, steps) /\ ~DomDeleting(s, d, steps)
      BY <1>2 DEF Settled, Names, DomAdding, DomDeleting
    <2> QED
      BY <2>1, <2>2 DEF DomainIsWhole
  <1> QED
    BY <1>1, <1>2 DEF AccountsAreWhole

LEMMA NothingInherited == IInv => NothingIsInherited
  <1> SUFFICES ASSUME IInv, NEW u \in tab["users"], Whole(u.a)
               PROVE  /\ mail[u.a] \subseteq {u.gen} \/ u.a \in late
                      /\ \A t \in Owned : \A r \in RowsFor(t, u.a) : r.gen \in {0, u.gen}
                      /\ \A r \in tab["aliases"] : r.to = u.a /\ DomainOf[r.a] = DomainOf[u.a] => r.gen = u.gen
    BY DEF NothingIsInherited
  <1>1. PICK a \in Accounts : a = u.a
    BY RowFields DEF IInv
  <1>2. /\ u \in User(a) /\ \A v \in User(a) : v = u
        /\ Whole(a) /\ RowsAreOwned(a)
    BY <1>1 DEF IInv, RowsAreApart, User, RowsFor
  <1>3. mail[a] \subseteq {u.gen} \/ a \in late
    BY <1>2 DEF IInv, MailIsOwned
  <1>4. ASSUME NEW s \in Sessions
        PROVE  /\ \A steps : steps \subseteq UserPast => ~Deleting(s, a, steps)
               /\ \A steps : steps \subseteq DomainPast \ {"users"} => ~DomDeleting(s, DomainOf[a], steps)
    BY <1>2, UserIsNotRemoved
  <1>5. ASSUME NEW t \in Owned, NEW r \in RowsFor(t, a)
        PROVE  r.gen \in {0, u.gen}
    <2>1. {"links"} \cup {t} \subseteq UserPast /\ {"aliases", "extaliases", t} \subseteq DomainPast \ {"users"}
      BY DEF Owned, UserPast, DomainPast
    <2>2. ASSUME NEW s \in Sessions
          PROVE  ~Deleting(s, a, {"links"} \cup {t}) /\ ~DomDeleting(s, DomainOf[a], {"aliases", "extaliases", t})
      BY <1>4, <2>1
    <2> QED
      BY <1>2, <2>2 DEF RowsAreOwned
  <1>6. ASSUME NEW r \in tab["aliases"], r.to = a, DomainOf[r.a] = DomainOf[a]
        PROVE  r.gen = u.gen
    <2>1. {"links", "extaliases", "aliases"} \subseteq UserPast /\ {"aliases"} \subseteq DomainPast \ {"users"}
      BY DEF UserPast, DomainPast
    <2>2. ASSUME NEW s \in Sessions
          PROVE  /\ ~Deleting(s, a, {"links", "extaliases", "aliases"})
                 /\ ~DomDeleting(s, DomainOf[a], {"aliases"})
      BY <1>4, <2>1
    <2>3. r \in AliasesTo(a)
      BY <1>6 DEF AliasesTo
    <2> QED
      BY <1>2, <1>6, <2>2, <2>3 DEF RowsAreOwned
  <1> QED
    BY <1>1, <1>3, <1>5, <1>6

LEMMA DistinctNames == IInv => NamesAreDistinct
  <1> SUFFICES ASSUME IInv
               PROVE  NamesAreDistinct
    OBVIOUS
  <1>1. \A a \in Accounts \ torn : RowsFor("users", a) = {} \/ RowsFor("aliases", a) = {}
    BY DEF IInv, UserOrAlias, User
  <1>2. ASSUME NEW r \in tab["adomains"], {r.d, r.to} \cap torn = {}
        PROVE  ~Handled(r.d)
    <2>1. r.d \in Domains \ torn
      BY <1>2, RowFields DEF IInv
    <2>2. r \in AliasDomain(r.d) /\ r.to \notin torn /\ DomainOrAlias(r.d)
      BY <1>2, <2>1 DEF AliasDomain, IInv
    <2> QED
      BY <2>2 DEF DomainOrAlias
  <1> QED
    BY <1>1, <1>2 DEF NamesAreDistinct

LEMMA MailStays ==
    ASSUME IInv, [Next]_vars, NEW u \in tab["users"], Whole(u.a)
    PROVE  mail[u.a] \subseteq mail'[u.a]
  <1>1. PICK a \in Accounts : a = u.a
    BY RowFields DEF IInv
  <1>2. Whole(a) /\ User(a) # {} /\ TypeOK
    BY <1>1 DEF IInv, User, RowsFor
  <1>3. ASSUME NEW s \in Sessions, ClearUser(s)
        PROVE  mail[a] \subseteq mail'[a]
    <2>1. cmd[s].a # a
      <3>1. ~Deleting(s, a, {"clear"})
        BY <1>2, UserIsNotRemoved DEF UserPast
      <3> QED
        BY <1>3, <3>1 DEF ClearUser, Keeping, Deleting
    <2> QED
      BY <1>2, <1>3, <2>1 DEF ClearUser, TypeOK
  <1>4. ASSUME NEW s \in Sessions, ClearDomain(s)
        PROVE  mail[a] \subseteq mail'[a]
    <2>1. cmd[s].d # DomainOf[a]
      <3>1. ~DomDeleting(s, DomainOf[a], {"clear"})
        BY <1>2, UserIsNotRemoved DEF DomainPast
      <3> QED
        BY <1>4, <3>1 DEF ClearDomain, Keeping, DomDeleting
    <2>2. seen' = [seen EXCEPT ![s] = {b \in dirs : DomainOf[b] = cmd[s].d}] => a \notin seen'[s]
      BY <1>2, <2>1 DEF TypeOK
    <2> QED
      BY <1>4, <2>2 DEF ClearDomain
  <1>5. ASSUME NEW p \in Deliverers, Move(p)
        PROVE  mail[a] \subseteq mail'[a]
    BY <1>2, <1>5 DEF Move, TypeOK
  <1>6. ASSUME NEW s \in Sessions, Step(s)
        PROVE  UNCHANGED mail \/ ClearUser(s) \/ ClearDomain(s)
    BY <1>6 DEF Step, CheckDomain, Answered, UserAddAlias, UserAddDir, UserAddRow, UserDelRow, UserCascade,
       RemoveRows, RemoveUserDir, DomainAddRow, DomainAddDir, DomainDelRow, DomainCascade, RemoveDomainDir,
       AliasAddLookup, AliasAddRow, OwnAdd, ADomainAddTarget, ADomainAddOverlap, ADomainAddRow,
       AliasDel, OwnDel, ADomainDel
  <1>7. CASE UNCHANGED mail
    BY <1>7
  <1>8. [Next]_vars => \/ UNCHANGED mail \/ \E s \in Sessions : ClearUser(s) \/ ClearDomain(s)
                       \/ \E p \in Deliverers : Move(p)
    BY <1>6 DEF Next, Start, Find, Crash, vars
  <1> QED
    BY <1>1, <1>3, <1>4, <1>5, <1>7, <1>8
-----------------------------------------------------------------------------
(* Theorems.                                                               *)

\* The invariant holds in every state.
THEOREM Invariance == Spec => []IInv
  BY InitIInv, NextKeepsIInv, PTL DEF Spec

\* Tables hold rows of their kinds, sessions are at steps of the server.
THEOREM SpecTypeOK == Spec => []TypeOK
  <1>1. IInv => TypeOK
    BY DEF IInv
  <1> QED
    BY <1>1, Invariance, PTL

\* An account that no command is about has a row if and only if it has a
\* directory, whatever commands of other sessions were interleaved
\* (UsrAddUser, UsrRemoveUser, MDomAddDomain, MDomRemoveDomain), short of a
\* late message and of the names that were torn.
THEOREM SpecAccountsAreWhole == Spec => []AccountsAreWhole
  BY Invariance, WholeAccounts, PTL

\* A user finds no mail, link, external alias or near alias of an earlier user
\* of that name: the removals clean up before the name can be used again.
THEOREM SpecNothingIsInherited == Spec => []NothingIsInherited
  BY Invariance, NothingInherited, PTL

\* No name is a user and an alias, no domain handled and an alias domain:
\* each command looks at the other table, under another lock, before it adds.
THEOREM SpecNamesAreDistinct == Spec => []NamesAreDistinct
  BY Invariance, DistinctNames, PTL

\* The cleaning of directories, which holds no lock (UsrDropUserEnv,
\* MscClearDirectory), takes no message of a user who has a row.
THEOREM SpecMailIsKept == Spec => MailIsKept
  <1>1. IInv /\ [Next]_vars => [\A u \in tab["users"] : Whole(u.a) => mail[u.a] \subseteq mail'[u.a]]_vars
    BY MailStays
  <1> QED
    BY <1>1, Invariance, PTL DEF Spec, MailIsKept
=============================================================================
