----------------------------- MODULE MCAccounts -----------------------------
(* Small instances of Accounts. *)
EXTENDS Accounts, TLC

CONSTANTS d1, d2, u1, u2, s1, s2

MCDomainOf == u1 :> d1 @@ u2 :> d1

\* Every command that adds or removes a user, its domain, or what refers to
\* either of them; u2 is an alias of u1, and d2 an alias of d1, or the other
\* way they are users and domains themselves.
MCRequests ==
    {[op |-> "useradd", a |-> u1], [op |-> "userdel", a |-> u1],
     [op |-> "useradd", a |-> u2],
     [op |-> "aliasadd", a |-> u2, to |-> u1], [op |-> "aliasdel", a |-> u2],
     [op |-> "ownadd", a |-> u1, table |-> "links"],
     [op |-> "owndel", a |-> u1, table |-> "links"],
     [op |-> "domainadd", d |-> d1], [op |-> "domaindel", d |-> d1],
     [op |-> "domainadd", d |-> d2], [op |-> "adomainadd", d |-> d1, to |-> d2],
     [op |-> "adomainadd", d |-> d2, to |-> d1], [op |-> "adomaindel", d |-> d2]}

SessionSymmetry == Permutations(Sessions)
=============================================================================
