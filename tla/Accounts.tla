------------------------------ MODULE Accounts ------------------------------
(***************************************************************************)
(* The tables of domains, users, aliases, links and external aliases, the  *)
(* directories that belong to their rows, and the commands of the CTRL     *)
(* server that change them: CTRLSvr.cpp over MailDomains.cpp, UsrUtils.cpp,*)
(* ExtAliases.cpp, AliasDomain.cpp, POP3GwLink.cpp and TabIndex.cpp.       *)
(*                                                                         *)
(* Each table has a lock of its own (module ResLocks) and no command holds *)
(* two of them, so that what one command does to several tables, and to    *)
(* directories, interleaves with other commands and with deliveries to     *)
(* mailboxes.  A step is what happens under one lock.  UsrAddUser and      *)
(* MDomAddDomain also make directories under theirs, while others that     *)
(* hold no lock remove them: there the lock spans two steps.               *)
(*                                                                         *)
(* A table is rewritten by a copy over it (MscMoveFile), and its index is  *)
(* built after it; a failure or a crash may come in between.               *)
(***************************************************************************)
EXTENDS Integers, FiniteSets

CONSTANTS
    Sessions,       \* connections to the CTRL server
    Deliverers,     \* threads that put messages in mailboxes
    Domains,
    Accounts,       \* user or alias names with their domain
    DomainOf,       \* of an account
    Requests,       \* the commands clients send
    MaxCommands,    \* bounds: on commands, on deliveries, on incarnations
    MaxDeliveries,  \* of an account, and on failures and crashes together
    MaxBorn,
    MaxFaults

None == [op |-> "none"]
Nobody == [a |-> "nobody"]
Owned == {"links", "extaliases"}        \* tables whose rows belong to a user
Tables == {"domains", "users", "aliases", "adomains"} \cup Owned

Commands ==
    [op : {"useradd", "userdel", "aliasdel"}, a : Accounts]
    \cup [op : {"aliasadd"}, a : Accounts, to : Accounts]
    \cup [op : {"ownadd", "owndel"}, a : Accounts, table : Owned]
    \cup [op : {"domainadd", "domaindel", "adomaindel"}, d : Domains]
    \cup [op : {"adomainadd"}, d : Domains, to : Domains]

ASSUME AccountsAssumption ==
    /\ DomainOf \in [Accounts -> Domains]
    /\ Requests \subseteq Commands
    /\ Accounts \cap Domains = {}

ASSUME BoundsAssumption ==
    /\ MaxCommands \in Nat /\ MaxDeliveries \in Nat
    /\ MaxBorn \in Nat /\ MaxFaults \in Nat

VARIABLES
    tab,        \* the rows of each table
    stale,      \* tables whose index could not be built after a change
    lost,       \* tables whose file a failed copy has removed
    domDirs,    \* directories of domains, and of users in them
    dirs,
    mail,       \* what is in a mailbox: the incarnations it was meant for
    cmd,        \* of each session: its command, and its next step
    at,
    seen,       \* what a removal of a domain saw in its directory
    box,        \* of each deliverer: the row it found
    born,       \* history: incarnations of each account
    torn,       \* history: names a race, a failure or a crash may have hurt
    late,       \* history: mailboxes that got a message after their user left
    used        \* commands, deliveries and faults so far

vars == <<tab, stale, lost, domDirs, dirs, mail, cmd, at, seen, box, born, torn,
          late, used>>

Incarnations == 0..MaxBorn
RowsOf ==
    [domains |-> [d : Domains],
     users |-> [a : Accounts, gen : Incarnations],
     aliases |-> [a : Accounts, to : Accounts, gen : Incarnations],
     adomains |-> [d : Domains, to : Domains],
     links |-> [a : Accounts, gen : Incarnations],
     extaliases |-> [a : Accounts, gen : Incarnations]]
Labels == {"idle", "check", "alias", "dir", "row", "target", "overlap", "clear", "rmdir"}
          \cup Tables

TypeOK ==
    /\ tab \in [Tables -> UNION {SUBSET RowsOf[t] : t \in Tables}]
    /\ \A t \in Tables : tab[t] \subseteq RowsOf[t]
    /\ stale \subseteq Tables /\ lost \subseteq Tables
    /\ domDirs \subseteq Domains /\ dirs \subseteq Accounts
    /\ mail \in [Accounts -> SUBSET Incarnations]
    /\ cmd \in [Sessions -> Requests \cup {None}] /\ at \in [Sessions -> Labels]
    /\ seen \in [Sessions -> SUBSET Accounts]
    /\ box \in [Deliverers -> RowsOf.users \cup {Nobody}]
    /\ born \in [Accounts -> Incarnations]
    /\ torn \subseteq Accounts \cup Domains /\ late \subseteq Accounts
    /\ used \in [{"commands", "deliveries", "faults"} -> Nat]

\* The server starts with a handled domain for each account, and no users.
Init ==
    /\ tab = [t \in Tables |-> IF t = "domains" THEN [d : {DomainOf[a] : a \in Accounts}] ELSE {}]
    /\ stale = {} /\ lost = {}
    /\ domDirs = {DomainOf[a] : a \in Accounts} /\ dirs = {}
    /\ mail = [a \in Accounts |-> {}]
    /\ cmd = [s \in Sessions |-> None] /\ at = [s \in Sessions |-> "idle"]
    /\ seen = [s \in Sessions |-> {}]
    /\ box = [p \in Deliverers |-> Nobody]
    /\ born = [a \in Accounts |-> 0]
    /\ torn = {} /\ late = {}
    /\ used = [k \in {"commands", "deliveries", "faults"} |-> 0]

-----------------------------------------------------------------------------
(* Rows. *)

RowsFor(t, a) == {r \in tab[t] : r.a = a}
\* The incarnation of an account that has a row, 0 without one.
Current(a) == IF RowsFor("users", a) = {} THEN 0 ELSE (CHOOSE r \in RowsFor("users", a) : TRUE).gen
Handled(d) == [d |-> d] \in tab["domains"]
AliasDomain(d) == {r \in tab["adomains"] : r.d = d}

\* The rows that go with a user, and with a domain: the aliases in it, but
\* not those elsewhere that lead to its users.
AliasesTo(a) == {r \in tab["aliases"] : r.to = a}
UsersIn(d) == {r \in tab["users"] : DomainOf[r.a] = d}
AliasesIn(d) == {r \in tab["aliases"] : DomainOf[r.a] = d}
OwnedIn(t, d) == {r \in tab[t] : DomainOf[r.a] = d}
LinkedDomains(d) == {r \in tab["adomains"] : r.to = d}

\* What a lookup may answer: it compares the key of the row that the index
\* leads to, so that it finds no wrong row; a bad index may miss one.
Finds(t, present) ==
    {present} \cup (IF present /\ t \in stale THEN {FALSE} ELSE {})

\* The locks that span two steps; lookups and commands of a table wait.
HolderOf(t) ==
    {s \in Sessions : <<t, cmd[s].op, at[s]>> \in
                        {<<"users", "useradd", "row">>, <<"domains", "domainadd", "dir">>}}
Free(t) == HolderOf(t) = {}

(* The names a command is about, and those that two commands which overlap *)
(* may tear.  Not all that overlap do: two sessions may add and delete the *)
(* same user, or the same domain twice.                                    *)
Names(c) ==
    CASE c.op = "none" -> {}
      [] c.op \in {"useradd", "userdel", "aliasdel", "ownadd", "owndel"} -> {c.a}
      [] c.op = "aliasadd" -> {c.a, c.to}
      [] c.op = "adomainadd" -> {c.d, c.to}
      [] OTHER -> {c.d}

Tears(c, e) ==
    CASE c.op = "domaindel" /\ e.op = "useradd" /\ DomainOf[e.a] = c.d -> {c.d}
      [] c.op = "domaindel" /\ e.op = "aliasadd" /\ c.d \in {DomainOf[e.a], DomainOf[e.to]} -> {e.to}
      [] c.op = "domaindel" /\ e.op = "domainadd" /\ (e.d = c.d \/ [d |-> e.d, to |-> c.d] \in tab["adomains"]) -> {e.d}
      [] c.op = "domaindel" /\ e.op = "adomainadd" /\ e.to = c.d -> {e.d}
      [] c.op = "domainadd" /\ e.op = "userdel" /\ DomainOf[e.a] = c.d -> {e.a}
      [] c.op = "domainadd" /\ e.op = "adomainadd" /\ e.d = c.d -> {c.d}
      [] c.op = "userdel" /\ e.op = "aliasadd" /\ e.to = c.a -> {c.a}
      [] c.op = "useradd" /\ e.op = "aliasadd" /\ e.a = c.a -> {c.a}
      [] OTHER -> {}

Count(k) == used' = [used EXCEPT ![k] = @ + 1]
Faulty == used["faults"] < MaxFaults

-----------------------------------------------------------------------------
(* Steps of a session. *)

Goto(s, label) == at' = [at EXCEPT ![s] = label] /\ UNCHANGED cmd
End(s) == at' = [at EXCEPT ![s] = "idle"] /\ cmd' = [cmd EXCEPT ![s] = None]
Keeping(s, op, label) == cmd[s].op = op /\ at[s] = label

FirstStep(op) ==
    CASE op \in {"useradd", "userdel", "domainadd"} -> "check"
      [] op \in {"aliasadd", "adomainadd"} -> "target"
      [] OTHER -> "row"

\* A client sends a command (CTRLProcessCommand).
Start(s, c) ==
    /\ at[s] = "idle" /\ used["commands"] < MaxCommands
    /\ cmd' = [cmd EXCEPT ![s] = c] /\ at' = [at EXCEPT ![s] = FirstStep(c.op)]
    /\ torn' = torn \cup UNION {Tears(c, cmd[q]) \cup Tears(cmd[q], c) : q \in Sessions \ {s}}
    /\ Count("commands")
    /\ UNCHANGED <<tab, stale, lost, domDirs, dirs, mail, seen, box, born, late>>

\* A lookup that a bad index misleads: the command goes on with the answer.
Answered(s, answer, present) ==
    /\ torn' = IF answer = present THEN torn ELSE torn \cup Names(cmd[s])
    /\ UNCHANGED <<tab, stale, lost, domDirs, dirs, mail, seen, box, born, late, used>>

(* What a change of a table does, beside going on with label next: all of  *)
(* it, or a fault.  It may fail at once, and change nothing.  An append or *)
(* the new file of a rewriting may be short of rows and nobody notices; a  *)
(* copy whose write fails removes the table; an index may fail in both.    *)
(* The command ends when an error is seen, or goes on if it looks at none. *)
Vanished(t, rows) == CASE t = "users" -> {r.a : r \in rows}
                       [] t = "domains" -> {r.d : r \in rows}
                       [] OTHER -> {}

Store(s, t, rows, next) ==
    /\ tab' = [tab EXCEPT ![t] = rows] /\ stale' = stale \ {t}
    /\ IF next = "idle" THEN End(s) ELSE Goto(s, next)
    /\ UNCHANGED <<lost, torn, used>>

Fault(s, next) ==
    /\ Faulty /\ Count("faults") /\ torn' = torn \cup Names(cmd[s])
    /\ IF next = "idle" THEN End(s) ELSE Goto(s, next)

Fails(s, onError) == Fault(s, onError) /\ UNCHANGED <<tab, stale, lost>>

NoIndex(s, t, rows, onError) ==
    /\ Fault(s, onError) /\ t # "links"
    /\ tab' = [tab EXCEPT ![t] = rows] /\ stale' = stale \cup {t}
    /\ UNCHANGED lost

Append(s, t, row, next) ==
    \/ Store(s, t, tab[t] \cup {row}, next)
    \/ Fails(s, "idle")
    \/ NoIndex(s, t, tab[t] \cup {row}, "idle")
    \/ Fault(s, next) /\ stale' = stale \ {t} /\ UNCHANGED <<tab, lost>>

\* Rows that were to stay are gone with the others.
LosesRows(s, t, rows, next) ==
    /\ Faulty /\ Count("faults") /\ tab' = [tab EXCEPT ![t] = rows]
    /\ torn' = torn \cup Names(cmd[s]) \cup Vanished(t, tab[t] \ rows)
    /\ IF next = "idle" THEN End(s) ELSE Goto(s, next)

Rewrite(s, t, gone, next, onError) ==
    \/ Store(s, t, tab[t] \ gone, next)
    \/ Fails(s, onError)
    \/ NoIndex(s, t, tab[t] \ gone, onError)
    \/ /\ \E rows \in SUBSET (tab[t] \ gone) : LosesRows(s, t, rows, next)
       /\ stale' = stale \ {t} /\ UNCHANGED lost
    \/ LosesRows(s, t, {}, onError) /\ lost' = lost \cup {t} /\ UNCHANGED stale

\* Nothing to do in this table.
Skip(s, next) ==
    /\ IF next = "idle" THEN End(s) ELSE Goto(s, next)
    /\ UNCHANGED <<tab, stale, lost, torn, used>>

NoTable(s, onError) ==
    /\ torn' = torn \cup Names(cmd[s])
    /\ IF onError = "idle" THEN End(s) ELSE Goto(s, onError)
    /\ UNCHANGED <<tab, stale, lost, used>>

\* MDomIsHandledDomain: an alias domain stands for its target.  A user is added
\* in the alias domain nevertheless, which a late message may have left a
\* directory: what the target is, is the wrong answer for useradd.
CheckDomain(s) ==
    /\ at[s] = "check" /\ Free("domains")
    /\ LET d == IF cmd[s].op = "domainadd" THEN cmd[s].d ELSE DomainOf[cmd[s].a]
           real == IF AliasDomain(d) = {} THEN d ELSE (CHOOSE r \in AliasDomain(d) : TRUE).to
           meant == IF cmd[s].op = "useradd" THEN d ELSE real
       IN  \E answer \in Finds("domains", Handled(real))
                         \cup (IF "adomains" \in stale THEN Finds("domains", Handled(d)) ELSE {}) :
             /\ Answered(s, answer, Handled(meant))
             /\ CASE cmd[s].op = "domainadd" -> IF answer THEN End(s) ELSE Goto(s, "row")
                  [] cmd[s].op = "useradd" -> IF answer THEN Goto(s, "alias") ELSE End(s)
                  [] OTHER -> IF answer THEN Goto(s, "row") ELSE End(s)

\* UsrAddUser: alias lookup, then under the lock of the users the directory
\* (UsrPrepareUserEnv, which undoes what it did when it fails), the row and
\* the index.
UserAddAlias(s) ==
    /\ Keeping(s, "useradd", "alias")
    /\ LET present == RowsFor("aliases", cmd[s].a) # {}
       IN  \E answer \in Finds("aliases", present) :
             /\ Answered(s, answer, present)
             /\ IF answer THEN End(s) ELSE Goto(s, "dir")

\* Mutant: a directory that is already there is taken for the new user's.
UserAddDir_Reuses(s) ==
    /\ Keeping(s, "useradd", "dir") /\ Free("users")
    /\ LET a == cmd[s].a
       IN  IF "users" \notin lost /\ RowsFor("users", a) = {} /\ DomainOf[a] \in domDirs
           THEN /\ born[a] < MaxBorn /\ born' = [born EXCEPT ![a] = @ + 1]
                /\ dirs' = dirs \cup {a} /\ Goto(s, "row")
                /\ UNCHANGED <<tab, stale, lost, torn, used>>
           ELSE Skip(s, "idle") /\ UNCHANGED <<born, dirs>>
    /\ UNCHANGED <<domDirs, mail, seen, box, late>>

UserAddDir(s) ==
    /\ Keeping(s, "useradd", "dir") /\ Free("users")
    /\ LET a == cmd[s].a
       IN  IF /\ "users" \notin lost /\ RowsFor("users", a) = {}
              /\ DomainOf[a] \in domDirs /\ a \notin dirs
           THEN \/ /\ born[a] < MaxBorn /\ born' = [born EXCEPT ![a] = @ + 1]
                   /\ dirs' = dirs \cup {a} /\ Goto(s, "row")
                   /\ UNCHANGED <<tab, stale, lost, torn, used>>
                \/ /\ Faulty /\ Count("faults") /\ End(s)
                   /\ UNCHANGED <<tab, stale, lost, torn, born, dirs>>
           ELSE Skip(s, "idle") /\ UNCHANGED <<born, dirs>>
    /\ UNCHANGED <<domDirs, mail, seen, box, late>>

UserAddRow(s) ==
    /\ Keeping(s, "useradd", "row")
    /\ Append(s, "users", [a |-> cmd[s].a, gen |-> born[cmd[s].a]], "idle")
    /\ UNCHANGED <<domDirs, dirs, mail, seen, box, born, late>>

\* Under the lock of table t, remove those rows of it, if there are any; then
\* the command goes on with next, or after an error with onError.
RemoveRows(s, t, gone, next, onError) ==
    /\ Free(t)
    /\ CASE t \in lost -> NoTable(s, onError)
         [] t \notin lost /\ gone = {} -> Skip(s, next)
         [] OTHER -> Rewrite(s, t, gone, next, onError)
    /\ UNCHANGED <<domDirs, dirs, mail, seen, box, born, late>>

\* UsrRemoveUser, the row; what follows it is Cascade.
UserDelRow(s) ==
    /\ Keeping(s, "userdel", "row")
    /\ LET rows == RowsFor("users", cmd[s].a)
       IN  RemoveRows(s, "users", rows, IF rows = {} THEN "idle" ELSE "links", "idle")

\* Mutant: UsrRemoveDomainUsers is not called.
DomainDelRow_KeepsUsers(s) ==
    /\ Keeping(s, "domaindel", "row")
    /\ LET rows == {r \in tab["domains"] : r.d = cmd[s].d}
       IN  RemoveRows(s, "domains", rows, IF rows = {} THEN "idle" ELSE "aliases", "idle")

\* MDomRemoveDomain, the row.
DomainDelRow(s) ==
    /\ Keeping(s, "domaindel", "row")
    /\ LET rows == {r \in tab["domains"] : r.d = cmd[s].d}
       IN  RemoveRows(s, "domains", rows, IF rows = {} THEN "idle" ELSE "users", "idle")

\* Mutant: UsrRemoveUserAlias is not called.
UserTables_KeepAliases == [links |-> "extaliases", extaliases |-> "clear"]

\* The tables that follow, each under its own lock.  The removal of a user
\* goes on whatever comes back; that of a domain stops at the first error.
UserTables == [links |-> "extaliases", extaliases |-> "aliases", aliases |-> "clear"]
DomainTables == [users |-> "aliases", aliases |-> "extaliases", extaliases |-> "links",
                 links |-> "adomains", adomains |-> "clear"]

UserCascade(s) ==
    /\ cmd[s].op = "userdel" /\ at[s] \in DOMAIN UserTables
    /\ LET t == at[s]
           gone == IF t = "aliases" THEN AliasesTo(cmd[s].a) ELSE RowsFor(t, cmd[s].a)
       IN  RemoveRows(s, t, gone, UserTables[t], UserTables[t])

DomainCascade(s) ==
    /\ cmd[s].op = "domaindel" /\ at[s] \in DOMAIN DomainTables
    /\ LET t == at[s]
           d == cmd[s].d
           gone == CASE t = "users" -> UsersIn(d)
                     [] t = "aliases" -> AliasesIn(d)
                     [] t = "adomains" -> LinkedDomains(d)
                     [] OTHER -> OwnedIn(t, d)
       IN  RemoveRows(s, t, gone, DomainTables[t], "idle")

\* UsrDropUserEnv: no lock, and its result is not looked at.
ClearUser(s) ==
    /\ Keeping(s, "userdel", "clear")
    /\ mail' = [mail EXCEPT ![cmd[s].a] = {}]
    /\ IF cmd[s].a \in dirs THEN Goto(s, "rmdir") ELSE End(s)
    /\ UNCHANGED <<tab, stale, lost, domDirs, dirs, seen, box, born, torn, late, used>>

RemoveUserDir(s) ==
    /\ Keeping(s, "userdel", "rmdir")
    /\ dirs' = IF mail[cmd[s].a] = {} THEN dirs \ {cmd[s].a} ELSE dirs
    /\ End(s)
    /\ UNCHANGED <<tab, stale, lost, domDirs, mail, seen, box, born, torn, late, used>>

\* The directory of a domain, with those of its users; also without a lock.
ClearDomain(s) ==
    /\ Keeping(s, "domaindel", "clear")
    /\ IF cmd[s].d \in domDirs
       THEN /\ seen' = [seen EXCEPT ![s] = {a \in dirs : DomainOf[a] = cmd[s].d}]
            /\ mail' = [a \in Accounts |-> IF a \in seen'[s] THEN {} ELSE mail[a]]
            /\ Goto(s, "rmdir")
       ELSE End(s) /\ UNCHANGED <<seen, mail>>
    /\ UNCHANGED <<tab, stale, lost, domDirs, dirs, box, born, torn, late, used>>

RemoveDomainDir(s) ==
    /\ Keeping(s, "domaindel", "rmdir")
    /\ dirs' = dirs \ {a \in seen[s] : mail[a] = {}}
    /\ domDirs' = IF \E a \in dirs' : DomainOf[a] = cmd[s].d THEN domDirs ELSE domDirs \ {cmd[s].d}
    /\ seen' = [seen EXCEPT ![s] = {}] /\ End(s)
    /\ UNCHANGED <<tab, stale, lost, mail, box, born, torn, late, used>>

\* CTRLDo_domainadd, MDomAddDomain: the row, then under the same lock the
\* directory; that it is there already, or cannot be made, is an error, and
\* the row stays.
DomainAddRow(s) ==
    /\ Keeping(s, "domainadd", "row") /\ Free("domains")
    /\ IF Handled(cmd[s].d) \/ "domains" \in lost THEN Skip(s, "idle")
       ELSE Append(s, "domains", [d |-> cmd[s].d], "dir")
    /\ UNCHANGED <<domDirs, dirs, mail, seen, box, born, late>>

DomainAddDir(s) ==
    /\ Keeping(s, "domainadd", "dir")
    /\ \/ /\ domDirs' = domDirs \cup {cmd[s].d} /\ End(s)
          /\ UNCHANGED <<tab, stale, lost, torn, used>>
       \/ Fails(s, "idle") /\ UNCHANGED domDirs
    /\ UNCHANGED <<dirs, mail, seen, box, born, late>>

\* Mutant: whether the alias is a user is not looked at.
AliasAddLookup_TargetOnly(s) ==
    /\ Keeping(s, "aliasadd", "target") /\ Free("users")
    /\ LET present == RowsFor("users", cmd[s].to) # {}
       IN  \E answer \in Finds("users", present) :
             /\ Answered(s, answer, present)
             /\ IF answer THEN Goto(s, "row") ELSE End(s)

\* CTRLDo_aliasadd: the target must be a user, the alias must not; two
\* lookups, and after them UsrAddAlias.
AliasAddLookup(s) ==
    /\ cmd[s].op = "aliasadd" /\ at[s] \in {"target", "overlap"} /\ Free("users")
    /\ LET a == IF at[s] = "target" THEN cmd[s].to ELSE cmd[s].a
           present == RowsFor("users", a) # {}
       IN  \E answer \in Finds("users", present) :
             /\ Answered(s, answer, present)
             /\ CASE at[s] = "target" /\ answer -> Goto(s, "overlap")
                  [] at[s] = "overlap" /\ ~answer -> Goto(s, "row")
                  [] OTHER -> End(s)

AliasAddRow(s) ==
    /\ Keeping(s, "aliasadd", "row")
    /\ IF RowsFor("aliases", cmd[s].a) # {} \/ "aliases" \in lost THEN Skip(s, "idle")
       ELSE Append(s, "aliases", [a |-> cmd[s].a, to |-> cmd[s].to, gen |-> Current(cmd[s].to)], "idle")
    /\ UNCHANGED <<domDirs, dirs, mail, seen, box, born, late>>

\* CTRLDo_poplnkadd, CTRLDo_exaliasadd: no look at the users at all.
OwnAdd(s) ==
    /\ Keeping(s, "ownadd", "row")
    /\ LET c == cmd[s]
       IN  IF RowsFor(c.table, c.a) # {} \/ c.table \in lost THEN Skip(s, "idle")
           ELSE Append(s, c.table, [a |-> c.a, gen |-> Current(c.a)], "idle")
    /\ UNCHANGED <<domDirs, dirs, mail, seen, box, born, late>>

\* CTRLDo_aliasdomainadd: the target must be a domain, the alias neither a
\* domain nor an alias domain; then ADomAddADomain.
ADomainAddTarget(s) ==
    /\ Keeping(s, "adomainadd", "target") /\ Free("domains")
    /\ \E answer \in Finds("domains", Handled(cmd[s].to)) :
         /\ Answered(s, answer, Handled(cmd[s].to))
         /\ IF answer THEN Goto(s, "overlap") ELSE End(s)

ADomainAddOverlap(s) ==
    /\ Keeping(s, "adomainadd", "overlap") /\ Free("domains")
    /\ LET d == cmd[s].d
       IN  \E real \in Finds("domains", Handled(d)), alias \in Finds("adomains", AliasDomain(d) # {}) :
             /\ Answered(s, real \/ alias, Handled(d) \/ AliasDomain(d) # {})
             /\ IF real \/ alias THEN End(s) ELSE Goto(s, "row")

ADomainAddRow(s) ==
    /\ Keeping(s, "adomainadd", "row")
    /\ IF AliasDomain(cmd[s].d) # {} \/ "adomains" \in lost THEN Skip(s, "idle")
       ELSE Append(s, "adomains", [d |-> cmd[s].d, to |-> cmd[s].to], "idle")
    /\ UNCHANGED <<domDirs, dirs, mail, seen, box, born, late>>

\* The commands that delete one row (CTRLDo_aliasdel, CTRLDo_poplnkdel or
\* CTRLDo_exaliasdel, CTRLDo_aliasdomaindel).
AliasDel(s) ==
    Keeping(s, "aliasdel", "row") /\ RemoveRows(s, "aliases", RowsFor("aliases", cmd[s].a), "idle", "idle")

OwnDel(s) ==
    Keeping(s, "owndel", "row") /\ RemoveRows(s, cmd[s].table, RowsFor(cmd[s].table, cmd[s].a), "idle", "idle")

ADomainDel(s) ==
    Keeping(s, "adomaindel", "row") /\ RemoveRows(s, "adomains", AliasDomain(cmd[s].d), "idle", "idle")

-----------------------------------------------------------------------------
(* Deliveries, and crashes. *)

\* A delivery finds the row of its recipient, by its name or an alias, ...
Find(p) ==
    /\ box[p] = Nobody /\ used["deliveries"] < MaxDeliveries /\ Free("users")
    /\ \E r \in tab["users"] : box' = [box EXCEPT ![p] = r]
    /\ Count("deliveries")
    /\ UNCHANGED <<tab, stale, lost, domDirs, dirs, mail, cmd, at, seen, born, torn, late>>

\* ... and later moves the message to the mailbox, if it is still there
\* (UsrMoveToMailBox; its lock is that of the mailbox).
Move(p) ==
    /\ box[p] # Nobody
    /\ LET a == box[p].a
       IN  IF a \in dirs
           THEN /\ mail' = [mail EXCEPT ![a] = @ \cup {box[p].gen}]
                /\ late' = IF Current(a) = box[p].gen THEN late ELSE late \cup {a}
           ELSE UNCHANGED <<mail, late>>
    /\ box' = [box EXCEPT ![p] = Nobody]
    /\ UNCHANGED <<tab, stale, lost, domDirs, dirs, cmd, at, seen, born, torn, used>>

\* The table a session is rewriting, with the rows that are to stay.
Rewriting(s) ==
    CASE cmd[s].op = "userdel" /\ at[s] = "row" -> {"users"}
      [] cmd[s].op = "domaindel" /\ at[s] = "row" -> {"domains"}
      [] cmd[s].op \in {"userdel", "domaindel"} -> {at[s]} \cap Tables
      [] cmd[s].op = "aliasdel" -> {"aliases"}
      [] cmd[s].op = "owndel" -> {cmd[s].table}
      [] cmd[s].op = "adomaindel" -> {"adomains"}
      [] OTHER -> {}

\* The process is killed and started again.  A table that was being copied
\* over may have lost rows; at the start an index is built again if its file
\* is older than the table by a second or more (TbixCheckIndex).
Crash ==
    /\ Faulty /\ Count("faults")
    /\ \/ UNCHANGED tab /\ torn' = torn \cup UNION {Names(cmd[s]) : s \in Sessions}
       \/ \E s \in Sessions : \E t \in Rewriting(s) : \E rows \in SUBSET tab[t] :
            /\ tab' = [tab EXCEPT ![t] = rows]
            /\ torn' = torn \cup Vanished(t, tab[t] \ rows)
                            \cup UNION {Names(cmd[q]) : q \in Sessions}
    /\ stale' \in SUBSET (stale \cup {t \in Tables : tab'[t] # tab[t]})
    /\ cmd' = [s \in Sessions |-> None] /\ at' = [s \in Sessions |-> "idle"]
    /\ seen' = [s \in Sessions |-> {}] /\ box' = [p \in Deliverers |-> Nobody]
    /\ UNCHANGED <<lost, domDirs, dirs, mail, born, late>>

Step(s) ==
    \/ CheckDomain(s)
    \/ UserAddAlias(s) \/ UserAddDir(s) \/ UserAddRow(s)
    \/ UserDelRow(s) \/ UserCascade(s) \/ ClearUser(s) \/ RemoveUserDir(s)
    \/ DomainAddRow(s) \/ DomainAddDir(s)
    \/ DomainDelRow(s) \/ DomainCascade(s) \/ ClearDomain(s) \/ RemoveDomainDir(s)
    \/ AliasAddLookup(s) \/ AliasAddRow(s) \/ OwnAdd(s)
    \/ ADomainAddTarget(s) \/ ADomainAddOverlap(s) \/ ADomainAddRow(s)
    \/ AliasDel(s) \/ OwnDel(s) \/ ADomainDel(s)

Next ==
    \/ \E s \in Sessions : Step(s) \/ \E c \in Requests : Start(s, c)
    \/ \E p \in Deliverers : Find(p) \/ Move(p)
    \/ Crash

Spec == Init /\ [][Next]_vars
-----------------------------------------------------------------------------
(* Properties. *)

Whole(a) == {a, DomainOf[a]} \cap torn = {}
Settled(n) == \A s \in Sessions : n \notin Names(cmd[s])

\* Whatever commands were interleaved, when none is about it an account has a
\* row if and only if it has a directory, and then its domain is handled; a
\* domain is handled if and only if it has one.  But a message that came late
\* keeps the directory of a user who is gone, and that of the domain.
AccountsAreWhole ==
    /\ \A a \in Accounts : Whole(a) /\ Settled(a) /\ Settled(DomainOf[a]) =>
        /\ Current(a) # 0 => a \in dirs /\ Handled(DomainOf[a])
        /\ a \in dirs => Current(a) # 0 \/ a \in late
    /\ \A d \in Domains \ torn : Settled(d) =>
        /\ Handled(d) => d \in domDirs
        /\ d \in domDirs => Handled(d) \/ \E a \in late \cup torn : a \in Accounts /\ DomainOf[a] = d

\* A user does not inherit what belonged to an earlier user of that name:
\* messages, links, external aliases, aliases of the same domain.  A message
\* that came late may be inherited, and a link added while there was no user.
NothingIsInherited ==
    \A u \in tab["users"] : Whole(u.a) =>
        /\ mail[u.a] \subseteq {u.gen} \/ u.a \in late
        /\ \A t \in Owned : \A r \in RowsFor(t, u.a) : r.gen \in {0, u.gen}
        /\ \A r \in tab["aliases"] : r.to = u.a /\ DomainOf[r.a] = DomainOf[u.a] => r.gen = u.gen

\* No name is both a user and an alias, or both a domain and an alias domain.
NamesAreDistinct ==
    /\ \A a \in Accounts \ torn : RowsFor("users", a) = {} \/ RowsFor("aliases", a) = {}
    /\ \A r \in tab["adomains"] : {r.d, r.to} \cap torn = {} => ~Handled(r.d)

\* The cleaning that a removal does without a lock takes no message of a user
\* who is there, one added meanwhile included.
MailIsKept ==
    [][\A u \in tab["users"] : Whole(u.a) => mail[u.a] \subseteq mail'[u.a]]_vars
=============================================================================
