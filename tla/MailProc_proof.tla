--------------------------- MODULE MailProc_proof ---------------------------
(***************************************************************************)
(* Proofs about MailProc for files of any length, any number of attempts,  *)
(* addresses and crashes, and files that fail.                             *)
(***************************************************************************)
EXTENDS MailProc, SequenceTheorems, TLAPS

(* Lists without repetition *)

LEMMA EmptyList ==
    ASSUME NEW S
    PROVE  <<>> \in Seq(S) /\ IsInjective(<<>>) /\ Range(<<>>) = {}
  BY EmptySeq DEF IsInjective, Range

LEMMA MembersOfList ==
    ASSUME NEW S, NEW s \in Seq(S)
    PROVE  Range(s) \subseteq S
  BY LenProperties DEF Range

\* What a list gains when a new member is appended.
LEMMA AppendNew ==
    ASSUME NEW S, NEW s \in Seq(S), NEW x \in S, x \notin Range(s), IsInjective(s)
    PROVE  /\ Append(s, x) \in Seq(S)
           /\ IsInjective(Append(s, x))
           /\ Range(Append(s, x)) = Range(s) \cup {x}
  <1> DEFINE a == Append(s, x)
  <1>1. /\ a \in Seq(S) /\ Len(a) = Len(s) + 1
        /\ \A i \in 1..Len(s) : a[i] = s[i]
        /\ a[Len(s) + 1] = x
    BY AppendProperties
  <1>2. Len(s) \in Nat /\ DOMAIN s = 1..Len(s) /\ DOMAIN a = 1..(Len(s) + 1)
    BY <1>1, LenProperties
  <1> HIDE DEF a
  <1>3. \A i \in 1..(Len(s) + 1) : i \in 1..Len(s) \/ i = Len(s) + 1
    BY <1>2
  <1>4. Range(a) = Range(s) \cup {x} /\ IsInjective(a)
    BY <1>1, <1>2, <1>3 DEF Range, IsInjective
  <1> QED
    BY <1>1, <1>4 DEF a

\* What a list loses when its head is taken.
LEMMA TakeHead ==
    ASSUME NEW S, NEW s \in Seq(S), s # <<>>, IsInjective(s)
    PROVE  /\ Head(s) \in S
           /\ Tail(s) \in Seq(S)
           /\ IsInjective(Tail(s))
           /\ Head(s) \notin Range(Tail(s))
           /\ Range(s) = Range(Tail(s)) \cup {Head(s)}
  <1> DEFINE t == Tail(s)
  <1>1. /\ t \in Seq(S) /\ Len(t) = Len(s) - 1
        /\ \A i \in 1..Len(t) : t[i] = s[i + 1]
    BY HeadTailProperties
  <1>2. Len(s) \in Nat \ {0} /\ DOMAIN s = 1..Len(s) /\ DOMAIN t = 1..(Len(s) - 1)
    BY <1>1, LenProperties, EmptySeq
  <1>3. Head(s) = s[1] /\ Head(s) \in S
    BY HeadTailProperties
  <1> HIDE DEF t
  <1>4. IsInjective(t)
    BY <1>1, <1>2 DEF IsInjective
  <1>5. \A i \in 1..Len(s) : i = 1 \/ (i - 1 \in 1..(Len(s) - 1) /\ s[i] = t[i - 1])
    BY <1>1, <1>2
  <1>6. Range(s) = Range(t) \cup {s[1]}
    <2>1. ASSUME NEW i \in 1..Len(s) PROVE s[i] \in Range(t) \cup {s[1]}
      BY <1>2, <1>5 DEF Range
    <2>2. ASSUME NEW i \in 1..(Len(s) - 1) PROVE i + 1 \in 1..Len(s) /\ t[i] = s[i + 1]
      BY <1>1, <1>2
    <2>3. s[1] \in Range(s)
      BY <1>2 DEF Range
    <2>4. Range(s) \subseteq Range(t) \cup {s[1]}
      BY <1>2, <2>1 DEF Range
    <2>5. Range(t) \subseteq Range(s)
      BY <1>2, <2>2 DEF Range
    <2> QED
      BY <2>3, <2>4, <2>5
  <1>7. s[1] \notin Range(t)
    <2>1. \A i \in 1..(Len(s) - 1) : t[i] = s[i + 1] /\ i + 1 \in DOMAIN s /\ 1 \in DOMAIN s /\ i + 1 # 1
      BY <1>1, <1>2
    <2> QED
      BY <1>2, <2>1 DEF IsInjective, Range
  <1> QED
    BY <1>1, <1>3, <1>4, <1>6, <1>7 DEF t

\* A file that lost its end.
LEMMA PrefixKeeps ==
    ASSUME NEW S, NEW s \in Seq(S), NEW p \in Prefixes(s), IsInjective(s)
    PROVE  p \in Seq(S) /\ IsInjective(p) /\ Range(p) \subseteq Range(s)
  <1>1. PICK l \in 0..Len(s) : p = SubSeq(s, 1, l)
    BY DEF Prefixes
  <1>2. Len(s) \in Nat /\ l \in Nat /\ DOMAIN s = 1..Len(s)
    BY LenProperties
  <1>3. p \in Seq(S) /\ Len(p) = l /\ \A i \in 1..l : p[i] = s[i]
    BY <1>1, <1>2, SubSeqProperties
  <1>4. DOMAIN p = 1..l
    BY <1>3, LenProperties
  <1> QED
    BY <1>2, <1>3, <1>4 DEF IsInjective, Range

LEMMA WholeFile ==
    ASSUME NEW S, tab \in Seq(S)
    PROVE  AllLines \in Seq(Lines) /\ IsInjective(AllLines) /\ Range(AllLines) = Lines
  <1>1. Len(tab) \in Nat
    BY LenProperties
  <1> QED
    BY <1>1 DEF AllLines, Lines, IsInjective, Range

-----------------------------------------------------------------------------
(* The inductive invariant *)

\* Lines are read in order and once: the copy, the rest and the pushback have
\* no repetitions, and no line is in both of the latter.
ListsAreApart ==
    /\ IsInjective(copy) /\ IsInjective(rest) /\ IsInjective(push)
    /\ Range(rest) \cap Range(push) = {}

ByLines == phase = "running" /\ direct = "none"

\* What each phase leaves clean.
PhaseIsClean ==
    /\ ByLines => hasCopy
    /\ rest # <<>> => ByLines
    /\ push # <<>> => ByLines \/ phase = "saving"
    /\ rest = <<>> /\ ~(phase = "running" /\ direct # "none") => target = 1
    /\ ByLines /\ rest # <<>> /\ target # 1 => tab[Head(rest)] = "redirect"
    /\ phase = "running" /\ direct \notin {"none", "list"} => target = 1
    /\ direct = "list" => route \in {"list", "cmdalias"}
    /\ status = "delivered" => phase = "settled"

\* The message is in the queue or on its way there.
WillBeRetried == phase = "queued" \/ (phase = "ended" /\ failed /\ ~cleaned)

\* Line i will be carried out for its address k, as far as the files say.
ToDo(i, k) ==
    \/ /\ WillBeRetried \/ (phase = "running" /\ direct # "none")
       /\ ~hasCopy \/ i \in Range(copy)
    \/ /\ ByLines
       /\ \/ i \in Range(push)
          \/ i \in Range(rest) /\ (i = Head(rest) => k >= target)
    \/ phase = "saving" /\ i \in Range(push)

\* What is still to be done was not done since the last crash or lost copy,
\* and was not skipped.
NotDoneYet ==
    \A i \in Lines, k \in 1..Copies :
        /\ sent[<<i, k>>] <= 1 + restarts + losses
        /\ ToDo(i, k) =>
              /\ sent[<<i, k>>] <= restarts + losses
              /\ restarts + losses = 0 => i \notin skipped

\* The same for a delivery without a file; one of a list may have been half
\* done by each attempt.
DirectNotDoneYet ==
    \A k \in 1..Copies :
        /\ sent[<<0, k>>] <= 1 + restarts + losses + Repeatable(0)
        /\ \/ phase \in {"queued", "saving"}
           \/ ByLines
           \/ phase = "running" /\ direct # "none" /\ k >= target
           \/ WillBeRetried /\ route \notin {"list", "cmdalias"}
           => sent[<<0, k>>] <= restarts + losses + Repeatable(0)

\* What has been accounted for when nothing is left to do.
NothingLeft ==
    ~truncated => IF direct = "none" THEN \A i \in Lines : Accounted(i) ELSE Accounted(0)

\* A line that is not accounted for is still in a file or a list.
NothingLost ==
    /\ hasCopy /\ ~truncated => \A i \in Lines : Accounted(i) \/ i \in Range(copy)
    /\ ByLines /\ ~truncated =>
          \A i \in Lines : Accounted(i) \/ i \in Range(rest) \/ i \in Range(push)
    /\ phase = "saving" /\ ~truncated => \A i \in Lines : Accounted(i) \/ i \in Range(push)
    /\ phase = "ended" /\ ~failed => NothingLeft
    /\ status = "delivered" => NothingLeft
    /\ ByLines /\ rest # <<>> => \A k \in 1..(target - 1) : sent[<<Head(rest), k>>] > 0
    /\ phase = "running" /\ direct # "none" => \A k \in 1..(target - 1) : sent[<<0, k>>] > 0

IInv ==
    TypeOK /\ ListsAreApart /\ PhaseIsClean /\ NotDoneYet /\ DirectNotDoneYet /\ NothingLost

-----------------------------------------------------------------------------
(* What steps have in common *)

Deliveries == (0..Len(tab)) \X (1..Copies)

LEMMA LinesAreNumbers ==
    ASSUME TypeOK
    PROVE  /\ Len(tab) \in Nat /\ Copies \in Nat /\ Copies > 0
           /\ \A i \in Lines : i # 0 /\ i \in 0..Len(tab)
           /\ \A i \in 0..Len(tab), k \in 1..Copies : sent[<<i, k>>] \in Nat
  <1>1. Len(tab) \in Nat
    BY LenProperties DEF TypeOK
  <1> QED
    BY <1>1, BoundsAssumption DEF TypeOK, Lines

LEMMA SentOnce ==
    ASSUME TypeOK, NEW i \in 0..Len(tab), CarriedOut(i)
    PROVE  /\ sent' \in [Deliveries -> Nat]
           /\ \A j \in 0..Len(tab), k \in 1..Copies :
                 sent'[<<j, k>>] = IF j = i /\ k = target THEN sent[<<j, k>>] + 1
                                   ELSE sent[<<j, k>>]
  <1>1. /\ sent \in [Deliveries -> Nat] /\ <<i, target>> \in Deliveries
        /\ sent' = [sent EXCEPT ![<<i, target>>] = sent[<<i, target>>] + 1]
    BY DEF TypeOK, CarriedOut, Deliveries
  <1>2. \A j \in 0..Len(tab), k \in 1..Copies : <<j, k>> \in Deliveries
    BY DEF Deliveries
  <1>3. sent[<<i, target>>] + 1 \in Nat
    BY <1>1
  <1> QED
    BY <1>1, <1>2, <1>3

\* What is accounted for stays so.
LEMMA AccountedStays ==
    ASSUME TypeOK, UNCHANGED tab, NEW i \in Lines, Accounted(i),
           refused \subseteq refused', dropped \subseteq dropped', skipped \subseteq skipped',
           \A j \in 0..Len(tab), k \in 1..Copies :
               sent'[<<j, k>>] = sent[<<j, k>>] \/ sent'[<<j, k>>] = sent[<<j, k>>] + 1
    PROVE  Accounted(i)'
  <1>1. AddressesOf(i)' = AddressesOf(i) /\ AddressesOf(i) \subseteq 1..Copies
    BY LinesAreNumbers DEF AddressesOf
  <1>2. \A k \in AddressesOf(i) : sent[<<i, k>>] > 0 => sent'[<<i, k>>] > 0
    BY <1>1, LinesAreNumbers
  <1> QED
    BY <1>1, <1>2 DEF Accounted

\* Nothing but the phase and the lists changes.
LEMMA SameAccounts ==
    ASSUME TypeOK, UNCHANGED <<tab, sent, refused, dropped, skipped>>, NEW i \in Lines
    PROVE  Accounted(i)' <=> Accounted(i)
  <1>1. AddressesOf(i)' = AddressesOf(i)
    BY LinesAreNumbers DEF AddressesOf
  <1> QED
    BY <1>1 DEF Accounted

LEMMA InitIInv == Init => IInv
  <1> SUFFICES ASSUME Init PROVE IInv
    OBVIOUS
  <1>1. tab \in Seq(CommandsOf(route)) /\ route \in Routes
    BY EmptySeq DEF Init
  <1>2. Len(tab) \in Nat /\ 1 \in 1..Copies /\ Copies \in Nat
    BY <1>1, LenProperties, BoundsAssumption
  <1>3. TypeOK
    BY <1>1, <1>2, EmptySeq DEF Init, TypeOK
  <1>4. \A i \in 0..Len(tab), k \in 1..Copies : sent[<<i, k>>] = 0
    BY DEF Init
  <1>5. ListsAreApart /\ PhaseIsClean
    BY EmptyList DEF Init, ListsAreApart, PhaseIsClean, ByLines
  <1>6. Repeatable(0) = 0
    BY DEF Init, Repeatable
  <1>7. NotDoneYet /\ DirectNotDoneYet
    BY <1>2, <1>4, <1>6 DEF Init, NotDoneYet, DirectNotDoneYet, Lines
  <1>8. NothingLost
    BY DEF Init, NothingLost, ByLines
  <1> QED
    BY <1>3, <1>5, <1>7, <1>8 DEF IInv

-----------------------------------------------------------------------------
(* The beginning of an attempt *)

LEMMA QueuedIsClean ==
    ASSUME IInv, phase = "queued"
    PROVE  /\ rest = <<>> /\ push = <<>> /\ target = 1 /\ status # "delivered"
           /\ ~ByLines /\ WillBeRetried
  BY DEF IInv, PhaseIsClean, ByLines, WillBeRetried

\* An attempt without a file.
LEMMA DirectKeepsIInv ==
    ASSUME IInv, phase = "queued", phase' = "running", direct' \in DirectRoutes,
           hasCopy' \in BOOLEAN, copy' \in Seq(Lines), IsInjective(copy'), truncated' \in BOOLEAN,
           truncated => truncated', direct' = "list" => route \in {"list", "cmdalias"},
           UNCHANGED <<hasCopy, copy>> \/ (~hasCopy /\ truncated'),
           UNCHANGED <<recipient, reading, failed, cleaned, iNumTries, restarts, sent, refused,
                       dropped, skipped, losses, status>>
    PROVE  IInv'
  <1>1. rest = <<>> /\ push = <<>> /\ target = 1 /\ status # "delivered" /\ WillBeRetried
    BY QueuedIsClean
  <1>2. direct' # "none"
    BY DEF DirectRoutes
  <1>3. TypeOK'
    BY DEF IInv, TypeOK, recipient, reading, Lines
  <1>4. ListsAreApart' /\ PhaseIsClean'
    BY <1>1, <1>2 DEF IInv, ListsAreApart, PhaseIsClean, ByLines, reading, recipient
  <1>5. NotDoneYet'
    <2>1. \A i, k : ToDo(i, k)' => ToDo(i, k)
      BY <1>1, <1>2 DEF ToDo, ByLines, WillBeRetried
    <2> QED
      BY <2>1 DEF IInv, NotDoneYet, Lines, recipient
  <1>6. DirectNotDoneYet'
    BY <1>1 DEF IInv, DirectNotDoneYet, Repeatable, recipient
  <1>7. NothingLost'
    <2>1. \A i \in Lines : Accounted(i)' <=> Accounted(i)
      BY SameAccounts DEF IInv, recipient
    <2> QED
      BY <1>1, <1>2, <2>1 DEF IInv, NothingLost, ByLines, Lines, recipient, reading
  <1> QED
    BY <1>3, <1>4, <1>5, <1>6, <1>7 DEF IInv

\* An attempt that reads the copy.
LEMMA ReadKeepsIInv ==
    ASSUME IInv, phase = "queued", ReadFrom(copy'), hasCopy' = TRUE, copy' \in Seq(Lines),
           IsInjective(copy'), truncated' \in BOOLEAN, truncated => truncated',
           hasCopy => copy' = copy, ~hasCopy /\ ~truncated' => Range(copy') = Lines,
           UNCHANGED <<recipient, failed, cleaned, iNumTries, restarts, sent, refused, dropped,
                       skipped, losses, status>>
    PROVE  IInv'
  <1>1. push = <<>> /\ target = 1 /\ status # "delivered" /\ WillBeRetried
    BY QueuedIsClean
  <1>2. /\ phase' = "running" /\ direct' = "none" /\ rest' = copy' /\ push' = <<>>
        /\ target' = 1 /\ ByLines'
    BY <1>1 DEF ReadFrom, ByLines
  <1>3. TypeOK'
    BY <1>2 DEF IInv, TypeOK, recipient, Lines, ReadFrom
  <1>4. ListsAreApart' /\ PhaseIsClean'
    BY <1>1, <1>2, EmptyList DEF IInv, ListsAreApart, PhaseIsClean, recipient
  <1>5. NotDoneYet'
    <2>1. \A i, k : ToDo(i, k)' => ToDo(i, k)
      BY <1>1, <1>2, EmptyList DEF ToDo, ByLines, WillBeRetried
    <2> QED
      BY <2>1 DEF IInv, NotDoneYet, Lines, recipient
  <1>6. DirectNotDoneYet'
    BY <1>1 DEF IInv, DirectNotDoneYet, Repeatable, recipient
  <1>7. NothingLost'
    <2>1. \A i \in Lines : Accounted(i)' <=> Accounted(i)
      BY SameAccounts DEF IInv, recipient
    <2>2. \A k \in 1..(target' - 1) : FALSE
      BY <1>2
    <2> QED
      BY <1>1, <1>2, <2>1, <2>2 DEF IInv, NothingLost, ByLines, Lines, recipient
  <1> QED
    BY <1>3, <1>4, <1>5, <1>6, <1>7 DEF IInv

LEMMA StartKeepsIInv ==
    ASSUME IInv, Start
    PROVE  IInv'
  <1>1. CASE StartDirect
    BY <1>1, DirectKeepsIInv DEF StartDirect, IInv, TypeOK, ListsAreApart, ghost
  <1>2. CASE StartFromCopy
    BY <1>2, ReadKeepsIInv DEF StartFromCopy, IInv, TypeOK, ListsAreApart, ghost
  <1>3. AllLines \in Seq(Lines) /\ IsInjective(AllLines) /\ Range(AllLines) = Lines
    BY WholeFile DEF IInv, TypeOK
  <1>4. CASE FirstCopy
    <2>1. copy' \in Seq(Lines) /\ IsInjective(copy') /\ truncated' \in BOOLEAN
      BY <1>3, <1>4, PrefixKeeps DEF FirstCopy, IInv, TypeOK
    <2> QED
      BY <1>3, <1>4, <2>1, ReadKeepsIInv DEF FirstCopy
  <1>5. CASE CopyFails
    <2>1. direct' \in DirectRoutes /\ (direct' = "list" => route = "cmdalias")
      BY <1>5 DEF CopyFails, WithoutFile, FileRoutes, DirectRoutes
    <2>2. copy' \in Seq(Lines) /\ IsInjective(copy') /\ hasCopy' \in BOOLEAN
          /\ truncated' \in BOOLEAN
      BY <1>3, <1>5, PrefixKeeps DEF CopyFails, IInv, TypeOK, ListsAreApart
    <2> QED
      BY <1>5, <2>1, <2>2, DirectKeepsIInv DEF CopyFails
  <1> QED
    BY <1>1, <1>2, <1>4, <1>5 DEF Start

-----------------------------------------------------------------------------
(* The lines of the file *)

LEMMA AtLine ==
    ASSUME IInv, Reads(CommandsOf(route))
    PROVE  /\ ByLines /\ hasCopy /\ status # "delivered"
           /\ Line \in Lines /\ Line # 0 /\ Line \in 0..Len(tab)
           /\ target \in 1..Copies
           /\ Tail(rest) \in Seq(Lines) /\ IsInjective(Tail(rest))
           /\ Line \notin Range(Tail(rest)) /\ Line \notin Range(push)
           /\ Range(rest) = Range(Tail(rest)) \cup {Line}
           /\ ToDo(Line, target)
  <1>1. ByLines /\ rest # <<>> /\ rest \in Seq(Lines) /\ IsInjective(rest)
    BY DEF Reads, ByLines, IInv, TypeOK, ListsAreApart
  <1>2. hasCopy /\ status # "delivered" /\ target \in 1..Copies
    BY <1>1 DEF IInv, TypeOK, PhaseIsClean, ByLines
  <1>3. /\ Line \in Lines /\ Tail(rest) \in Seq(Lines) /\ IsInjective(Tail(rest))
        /\ Line \notin Range(Tail(rest)) /\ Range(rest) = Range(Tail(rest)) \cup {Line}
    BY <1>1, TakeHead DEF Line
  <1>4. Line \notin Range(push)
    BY <1>3 DEF IInv, ListsAreApart
  <1>5. ToDo(Line, target)
    BY <1>1, <1>2, <1>3 DEF ToDo, Line
  <1> QED
    BY <1>1, <1>2, <1>3, <1>4, <1>5, LinesAreNumbers DEF IInv

\* The line is done with, or pushed back before anything of it was done.
LEMMA NextLineKeepsIInv ==
    ASSUME IInv, Reads(CommandsOf(route)), NextLine, NEW n, n = Line,
           \/ push' = push /\ Accounted(n)' /\ (sent' = sent \/ CarriedOut(Line))
           \/ push' = Append(push, Line) /\ sent' = sent /\ target = 1,
           refused \subseteq refused', refused' \subseteq Lines,
           dropped \subseteq dropped', dropped' \subseteq Lines, cleaned' \in BOOLEAN,
           UNCHANGED <<recipient, hasCopy, copy, direct, iNumTries, restarts, skipped,
                       truncated, losses, status>>
    PROVE  IInv'
  <1>1. /\ ByLines /\ hasCopy /\ status # "delivered"
        /\ Line \in Lines /\ Line # 0 /\ Line \in 0..Len(tab)
        /\ target \in 1..Copies
        /\ Tail(rest) \in Seq(Lines) /\ IsInjective(Tail(rest))
        /\ Line \notin Range(Tail(rest)) /\ Line \notin Range(push)
        /\ Range(rest) = Range(Tail(rest)) \cup {Line}
        /\ ToDo(Line, target)
    BY AtLine
  <1>2. /\ phase' = "running" /\ direct' = "none" /\ ByLines' /\ rest' = Tail(rest)
        /\ target' = 1 /\ failed' = failed
    BY <1>1 DEF NextLine, ByLines
  <1>3. /\ push' \in Seq(Lines) /\ IsInjective(push')
        /\ Range(push') = IF push' = push THEN Range(push) ELSE Range(push) \cup {Line}
    <2>1. push \in Seq(Lines) /\ IsInjective(push)
      BY DEF IInv, TypeOK, ListsAreApart
    <2>2. CASE push' = push
      BY <2>1, <2>2
    <2>3. CASE push' = Append(push, Line)
      <3>1. /\ push' \in Seq(Lines) /\ IsInjective(push')
            /\ Range(push') = Range(push) \cup {Line}
        BY <1>1, <2>1, <2>3, AppendNew
      <3> QED
        BY <1>1, <3>1
    <2> QED
      BY <2>2, <2>3
  <1>4. /\ sent' \in [Deliveries -> Nat]
        /\ \A j \in 0..Len(tab), k \in 1..Copies :
              sent'[<<j, k>>] = IF sent' # sent /\ j = Line /\ k = target
                                THEN sent[<<j, k>>] + 1 ELSE sent[<<j, k>>]
    <2>1. CASE sent' = sent
      BY <2>1 DEF IInv, TypeOK, Deliveries
    <2>2. CASE CarriedOut(Line)
      <3>1. /\ sent' \in [Deliveries -> Nat]
            /\ \A j \in 0..Len(tab), k \in 1..Copies :
                  sent'[<<j, k>>] = IF j = Line /\ k = target THEN sent[<<j, k>>] + 1
                                    ELSE sent[<<j, k>>]
        BY <1>1, <2>2, SentOnce DEF IInv
      <3>2. sent' # sent
        <4>1. sent'[<<Line, target>>] = sent[<<Line, target>>] + 1 /\ sent[<<Line, target>>] \in Nat
          BY <1>1, <3>1, LinesAreNumbers DEF IInv
        <4> QED
          BY <4>1
      <3> QED
        BY <3>1, <3>2
    <2> QED
      BY <2>1, <2>2
  <1>5. sent' # sent => push' = push
    OBVIOUS
  <1>6. TypeOK'
    BY <1>1, <1>2, <1>3, <1>4, BoundsAssumption DEF IInv, TypeOK, recipient, Lines, Deliveries
  <1>7. ListsAreApart'
    BY <1>1, <1>2, <1>3 DEF IInv, ListsAreApart
  <1>8. PhaseIsClean'
    BY <1>1, <1>2 DEF IInv, PhaseIsClean, recipient
  <1>9. NotDoneYet'
    <2> SUFFICES ASSUME NEW i \in Lines, NEW k \in 1..Copies
                 PROVE  /\ sent'[<<i, k>>] <= 1 + restarts + losses
                        /\ ToDo(i, k)' =>
                              /\ sent'[<<i, k>>] <= restarts + losses
                              /\ restarts + losses = 0 => i \notin skipped
      BY DEF NotDoneYet, Lines, recipient
    <2>1. /\ sent[<<i, k>>] <= 1 + restarts + losses
          /\ ToDo(i, k) => /\ sent[<<i, k>>] <= restarts + losses
                           /\ restarts + losses = 0 => i \notin skipped
      BY DEF IInv, NotDoneYet
    <2>2. sent[<<i, k>>] \in Nat /\ restarts \in Nat /\ losses \in Nat /\ i \in 0..Len(tab)
      BY LinesAreNumbers DEF IInv, TypeOK
    <2>3. ToDo(i, k)' => ToDo(i, k) /\ (i = Line => push' # push)
      BY <1>1, <1>2, <1>3 DEF ToDo, ByLines, WillBeRetried, Line
    <2>4. i = Line /\ k = target => ToDo(i, k)
      BY <1>1
    <2> QED
      BY <1>4, <1>5, <2>1, <2>2, <2>3, <2>4
  <1>10. DirectNotDoneYet'
    <2>1. \A k \in 1..Copies : sent'[<<0, k>>] = sent[<<0, k>>]
      BY <1>1, <1>4, LinesAreNumbers DEF IInv
    <2>2. Repeatable(0)' = Repeatable(0)
      BY DEF Repeatable, recipient
    <2> QED
      BY <1>1, <1>2, <2>1, <2>2 DEF IInv, DirectNotDoneYet, ByLines, WillBeRetried
  <1>11. NothingLost'
    <2>1. \A j \in 0..Len(tab), k \in 1..Copies :
             sent'[<<j, k>>] = sent[<<j, k>>] \/ sent'[<<j, k>>] = sent[<<j, k>>] + 1
      BY <1>4
    <2>2. \A i \in Lines : Accounted(i) => Accounted(i)'
      BY <2>1, AccountedStays DEF IInv, recipient
    <2>3. Accounted(n)' \/ Line \in Range(push')
      <3>1. CASE push' = push /\ Accounted(n)'
        BY <3>1
      <3>2. CASE push' = Append(push, Line)
        BY <1>1, <3>2, AppendNew DEF IInv, TypeOK, ListsAreApart
      <3> QED
        BY <3>1, <3>2
    <2>4. \A k \in 1..(target' - 1) : FALSE
      BY <1>2
    <2>5. Lines' = Lines
      BY DEF Lines, recipient
    <2>6. hasCopy' /\ ~truncated' => \A i \in Lines : Accounted(i)' \/ i \in Range(copy)
      BY <2>2 DEF IInv, NothingLost
    <2>7. ~truncated' =>
             \A i \in Lines : Accounted(i)' \/ i \in Range(Tail(rest)) \/ i \in Range(push')
      <3> SUFFICES ASSUME ~truncated', NEW i \in Lines
                   PROVE  Accounted(i)' \/ i \in Range(Tail(rest)) \/ i \in Range(push')
        OBVIOUS
      <3>1. Accounted(i) \/ i \in Range(rest) \/ i \in Range(push)
        BY <1>1 DEF IInv, NothingLost
      <3>2. Range(push) \subseteq Range(push')
        BY <1>3
      <3>3. i \in Range(rest) => i \in Range(Tail(rest)) \/ i = Line
        BY <1>1
      <3>4. CASE Accounted(i)
        BY <2>2, <3>4
      <3>5. CASE i = Line
        BY <2>3, <3>5
      <3> QED
        BY <3>1, <3>2, <3>3, <3>4, <3>5
    <2> QED
      BY <1>1, <1>2, <2>4, <2>5, <2>6, <2>7 DEF NothingLost
  <1> QED
    BY <1>6, <1>7, <1>8, <1>9, <1>10, <1>11 DEF IInv

\* Nothing is left to read after a command that stops the file.
LEMMA LineStopsKeepsIInv ==
    ASSUME IInv, LineStops
    PROVE  IInv'
  <1>0. Reads(CommandsOf(route))
    BY DEF LineStops, Reads, CommandsOf
  <1>1. /\ ByLines /\ hasCopy /\ status # "delivered"
        /\ Line \in Lines /\ Line # 0 /\ Line \in 0..Len(tab)
        /\ target \in 1..Copies
        /\ Range(Tail(rest)) \subseteq Lines
        /\ Line \notin Range(Tail(rest)) /\ Line \notin Range(push)
        /\ Range(rest) = Range(Tail(rest)) \cup {Line}
        /\ ToDo(Line, target)
    BY <1>0, AtLine, MembersOfList
  <1>2. PICK n : n = Line
    OBVIOUS
  <1>3. /\ ByLines' /\ phase' = "running" /\ direct' = "none" /\ rest' = <<>> /\ target' = 1
        /\ CarriedOut(n) /\ skipped' = skipped \cup Range(Tail(rest))
        /\ UNCHANGED <<recipient, hasCopy, copy, failed, push, cleaned, iNumTries, restarts,
                       refused, dropped, truncated, losses, status>>
    BY <1>1, <1>2 DEF LineStops, ByLines
  <1>4. /\ sent' \in [Deliveries -> Nat]
        /\ \A j \in 0..Len(tab), k \in 1..Copies :
              sent'[<<j, k>>] = IF j = n /\ k = target THEN sent[<<j, k>>] + 1
                                ELSE sent[<<j, k>>]
    BY <1>1, <1>2, <1>3, SentOnce DEF IInv
  <1>5. TypeOK'
    <2>1. skipped \subseteq Lines
      BY DEF IInv, TypeOK
    <2>2. skipped' \subseteq Lines
      BY <1>1, <1>3, <2>1
    <2>3. rest' \in Seq(Lines) /\ target' \in 1..Copies
      BY <1>3, EmptyList, BoundsAssumption
    <2> QED
      BY <1>3, <1>4, <2>2, <2>3 DEF IInv, TypeOK, recipient, Lines, Deliveries
  <1>6. ListsAreApart' /\ PhaseIsClean'
    BY <1>1, <1>3, EmptyList DEF IInv, ListsAreApart, PhaseIsClean, recipient
  <1>7. NotDoneYet'
    <2> SUFFICES ASSUME NEW i \in Lines, NEW k \in 1..Copies
                 PROVE  /\ sent'[<<i, k>>] <= 1 + restarts + losses
                        /\ ToDo(i, k)' =>
                              /\ sent'[<<i, k>>] <= restarts + losses
                              /\ restarts + losses = 0 => i \notin skipped'
      BY <1>3 DEF NotDoneYet, Lines, recipient
    <2>1. /\ sent[<<i, k>>] <= 1 + restarts + losses
          /\ ToDo(i, k) => /\ sent[<<i, k>>] <= restarts + losses
                           /\ restarts + losses = 0 => i \notin skipped
      BY DEF IInv, NotDoneYet
    <2>2. sent[<<i, k>>] \in Nat /\ restarts \in Nat /\ losses \in Nat /\ i \in 0..Len(tab)
      BY LinesAreNumbers DEF IInv, TypeOK
    <2>3. ToDo(i, k)' => ToDo(i, k) /\ i # n /\ i \notin Range(Tail(rest))
      BY <1>1, <1>2, <1>3, EmptyList DEF ToDo, ByLines, WillBeRetried, IInv, ListsAreApart
    <2>4. i = n /\ k = target => ToDo(i, k)
      BY <1>1, <1>2
    <2> QED
      BY <1>3, <1>4, <2>1, <2>2, <2>3, <2>4
  <1>8. DirectNotDoneYet'
    <2>1. \A k \in 1..Copies : sent'[<<0, k>>] = sent[<<0, k>>]
      BY <1>1, <1>2, <1>4, LinesAreNumbers DEF IInv
    <2>2. Repeatable(0)' = Repeatable(0)
      BY <1>3 DEF Repeatable, recipient
    <2> QED
      BY <1>1, <1>3, <2>1, <2>2 DEF IInv, DirectNotDoneYet, ByLines, WillBeRetried
  <1>9. NothingLost'
    <2>1. \A i \in Lines : Accounted(i) => Accounted(i)'
      BY <1>3, <1>4, AccountedStays DEF IInv, recipient
    <2>2. \A i \in Range(Tail(rest)) : Accounted(i)'
      BY <1>3 DEF Accounted
    <2>3. Accounted(n)'
      <3>1. tab[n] # "redirect" /\ n # 0
        BY <1>1, <1>2 DEF LineStops, Reads, Command
      <3>2. target = 1
        BY <1>1, <1>2, <3>1 DEF IInv, PhaseIsClean, Line, Reads, LineStops
      <3>3. AddressesOf(n)' = {1}
        BY <1>3, <3>1 DEF AddressesOf, recipient
      <3>4. sent'[<<n, 1>>] > 0
        BY <1>1, <1>2, <1>4, <3>2, LinesAreNumbers DEF IInv
      <3> QED
        BY <3>3, <3>4 DEF Accounted
    <2>4. Lines' = Lines
      BY <1>3 DEF Lines, recipient
    <2>5. hasCopy' /\ ~truncated' => \A i \in Lines : Accounted(i)' \/ i \in Range(copy)
      BY <1>3, <2>1 DEF IInv, NothingLost
    <2>6. ~truncated' => \A i \in Lines : Accounted(i)' \/ i \in Range(push)
      <3> SUFFICES ASSUME ~truncated', NEW i \in Lines
                   PROVE  Accounted(i)' \/ i \in Range(push)
        OBVIOUS
      <3>1. Accounted(i) \/ i \in Range(rest) \/ i \in Range(push)
        BY <1>1, <1>3 DEF IInv, NothingLost
      <3>2. i \in Range(rest) => i \in Range(Tail(rest)) \/ i = n
        BY <1>1, <1>2
      <3> QED
        BY <2>1, <2>2, <2>3, <3>1, <3>2
    <2> QED
      BY <1>1, <1>3, <2>4, <2>5, <2>6 DEF NothingLost
  <1> QED
    BY <1>5, <1>6, <1>7, <1>8, <1>9 DEF IInv

\* A redirect goes on to its next address.
LEMMA NextCopyKeepsIInv ==
    ASSUME IInv, RedirectCopy, target < Copies
    PROVE  IInv'
  <1>0. Reads(CommandsOf(route))
    BY DEF RedirectCopy, Reads, CommandsOf
  <1>1. /\ ByLines /\ hasCopy /\ status # "delivered"
        /\ Line \in Lines /\ Line # 0 /\ Line \in 0..Len(tab)
        /\ target \in 1..Copies /\ Line \notin Range(push)
        /\ ToDo(Line, target)
    BY <1>0, AtLine
  <1>2. PICK n : n = Line
    OBVIOUS
  <1>3. /\ ByLines' /\ target' = target + 1 /\ CarriedOut(n)
        /\ UNCHANGED <<recipient, hasCopy, copy, phase, direct, rest, push, failed, cleaned,
                       iNumTries, restarts, refused, dropped, skipped, truncated, losses, status>>
    BY <1>1, <1>2 DEF RedirectCopy, ByLines
  <1>4. /\ sent' \in [Deliveries -> Nat]
        /\ \A j \in 0..Len(tab), k \in 1..Copies :
              sent'[<<j, k>>] = IF j = n /\ k = target THEN sent[<<j, k>>] + 1
                                ELSE sent[<<j, k>>]
    BY <1>1, <1>2, <1>3, SentOnce DEF IInv
  <1>5. target' \in 1..Copies /\ rest # <<>> /\ Copies \in Nat
    BY <1>1, <1>3, BoundsAssumption DEF RedirectCopy, Reads
  <1>6. TypeOK'
    BY <1>3, <1>4, <1>5 DEF IInv, TypeOK, recipient, Lines, Deliveries
  <1>7. ListsAreApart' /\ PhaseIsClean'
    BY <1>1, <1>3, <1>5 DEF IInv, ListsAreApart, PhaseIsClean, RedirectCopy, Reads, Command, Line,
       recipient
  <1>8. NotDoneYet'
    <2> SUFFICES ASSUME NEW i \in Lines, NEW k \in 1..Copies
                 PROVE  /\ sent'[<<i, k>>] <= 1 + restarts + losses
                        /\ ToDo(i, k)' =>
                              /\ sent'[<<i, k>>] <= restarts + losses
                              /\ restarts + losses = 0 => i \notin skipped
      BY <1>3 DEF NotDoneYet, Lines, recipient
    <2>1. /\ sent[<<i, k>>] <= 1 + restarts + losses
          /\ ToDo(i, k) => /\ sent[<<i, k>>] <= restarts + losses
                           /\ restarts + losses = 0 => i \notin skipped
      BY DEF IInv, NotDoneYet
    <2>2. sent[<<i, k>>] \in Nat /\ restarts \in Nat /\ losses \in Nat /\ i \in 0..Len(tab)
      BY LinesAreNumbers DEF IInv, TypeOK
    <2>3. ToDo(i, k)' => ToDo(i, k) /\ ~(i = n /\ k = target)
      BY <1>1, <1>2, <1>3 DEF ToDo, ByLines, WillBeRetried, Line
    <2>4. i = n /\ k = target => ToDo(i, k)
      BY <1>1, <1>2
    <2> QED
      BY <1>4, <2>1, <2>2, <2>3, <2>4
  <1>9. DirectNotDoneYet'
    <2>1. \A k \in 1..Copies : sent'[<<0, k>>] = sent[<<0, k>>]
      BY <1>1, <1>2, <1>4, LinesAreNumbers DEF IInv
    <2>2. Repeatable(0)' = Repeatable(0)
      BY <1>3 DEF Repeatable, recipient
    <2> QED
      BY <1>1, <1>3, <2>1, <2>2 DEF IInv, DirectNotDoneYet, ByLines, WillBeRetried
  <1>10. NothingLost'
    <2>1. \A i \in Lines : Accounted(i) => Accounted(i)'
      BY <1>3, <1>4, AccountedStays DEF IInv, recipient
    <2>2. \A k \in 1..(target' - 1) : sent'[<<n, k>>] > 0
      <3>1. \A k \in 1..(target - 1) : sent[<<n, k>>] > 0
        BY <1>1, <1>2, <1>5 DEF IInv, NothingLost, Line
      <3>2. \A k \in 1..Copies : sent[<<n, k>>] \in Nat
        BY <1>1, <1>2, LinesAreNumbers DEF IInv
      <3>3. \A k \in 1..(target' - 1) : k \in 1..Copies /\ (k = target \/ k \in 1..(target - 1))
        BY <1>1, <1>3, <1>5
      <3> QED
        BY <1>1, <1>2, <1>4, <3>1, <3>2, <3>3
    <2>3. Lines' = Lines /\ n = Head(rest')
      BY <1>2, <1>3 DEF Lines, recipient, Line
    <2>4. hasCopy' /\ ~truncated' => \A i \in Lines : Accounted(i)' \/ i \in Range(copy)
      BY <1>3, <2>1 DEF IInv, NothingLost
    <2>5. ~truncated' =>
             \A i \in Lines : Accounted(i)' \/ i \in Range(rest) \/ i \in Range(push)
      BY <1>1, <1>3, <2>1 DEF IInv, NothingLost
    <2> QED
      BY <1>1, <1>3, <2>2, <2>3, <2>4, <2>5 DEF NothingLost, ByLines
  <1> QED
    BY <1>6, <1>7, <1>8, <1>9, <1>10 DEF IInv

\* An attempt ends with an error.  Unless the message is cleaned up, what is
\* in the copy must not have been done.
LEMMA AbortKeepsIInv ==
    ASSUME IInv, Abort, phase \in {"running", "saving"},
           copy' \in Seq(Lines), IsInjective(copy'), hasCopy' \in BOOLEAN, truncated' \in BOOLEAN,
           refused \subseteq refused', refused' \subseteq Lines,
           dropped \subseteq dropped', dropped' \subseteq Lines, cleaned' \in BOOLEAN,
           losses' \in {losses, losses + 1},
           UNCHANGED <<recipient, direct, iNumTries, restarts, sent, skipped, status>>,
           \A i \in Lines, k \in 1..Copies :
               ~cleaned' /\ (~hasCopy' \/ i \in Range(copy')) =>
                   ToDo(i, k) \/ losses' = losses + 1,
           \A k \in 1..Copies :
               ~cleaned' /\ route \notin {"list", "cmdalias"} =>
                   sent[<<0, k>>] <= restarts + losses' + Repeatable(0),
           hasCopy' /\ ~truncated' => \A i \in Lines : Accounted(i) \/ i \in Range(copy')
    PROVE  IInv'
  <1>1. /\ phase' = "ended" /\ failed' = TRUE /\ rest' = <<>> /\ push' = <<>> /\ target' = 1
        /\ ~ByLines'
    BY DEF Abort, ByLines
  <1>2. status # "delivered"
    BY DEF IInv, PhaseIsClean
  <1>3. restarts \in Nat /\ losses \in Nat /\ losses' \in Nat /\ losses' >= losses
    BY DEF IInv, TypeOK
  <1>4. TypeOK'
    BY <1>1, <1>3, EmptyList, BoundsAssumption DEF IInv, TypeOK, recipient, Lines
  <1>5. ListsAreApart' /\ PhaseIsClean'
    BY <1>1, <1>2, EmptyList DEF IInv, ListsAreApart, PhaseIsClean, recipient
  <1>6. NotDoneYet'
    <2> SUFFICES ASSUME NEW i \in Lines, NEW k \in 1..Copies
                 PROVE  /\ sent[<<i, k>>] <= 1 + restarts + losses'
                        /\ ToDo(i, k)' =>
                              /\ sent[<<i, k>>] <= restarts + losses'
                              /\ restarts + losses' = 0 => i \notin skipped
      BY DEF NotDoneYet, Lines, recipient
    <2>1. /\ sent[<<i, k>>] <= 1 + restarts + losses
          /\ ToDo(i, k) => /\ sent[<<i, k>>] <= restarts + losses
                           /\ restarts + losses = 0 => i \notin skipped
      BY DEF IInv, NotDoneYet
    <2>2. sent[<<i, k>>] \in Nat
      BY LinesAreNumbers DEF IInv
    <2>3. ToDo(i, k)' => ToDo(i, k) \/ losses' = losses + 1
      BY <1>1 DEF ToDo, WillBeRetried
    <2>4. sent[<<i, k>>] <= 1 + restarts + losses'
      BY <1>3, <2>1, <2>2
    <2>5. CASE losses' = losses + 1
      <3>1. restarts + losses' # 0 /\ sent[<<i, k>>] <= restarts + losses'
        BY <1>3, <2>1, <2>2, <2>5
      <3> QED
        BY <2>4, <3>1
    <2>6. CASE losses' = losses
      BY <2>1, <2>3, <2>4, <2>6, <1>3
    <2> QED
      BY <2>5, <2>6
  <1>7. DirectNotDoneYet'
    <2> SUFFICES ASSUME NEW k \in 1..Copies
                 PROVE  /\ sent[<<0, k>>] <= 1 + restarts + losses' + Repeatable(0)
                        /\ WillBeRetried' /\ route \notin {"list", "cmdalias"} =>
                              sent[<<0, k>>] <= restarts + losses' + Repeatable(0)
      BY <1>1 DEF DirectNotDoneYet, Repeatable, recipient
    <2>1. sent[<<0, k>>] <= 1 + restarts + losses + Repeatable(0)
      BY DEF IInv, DirectNotDoneYet
    <2>2. sent[<<0, k>>] \in Nat /\ Repeatable(0) \in Nat
      BY LinesAreNumbers DEF IInv, TypeOK, Repeatable
    <2>3. WillBeRetried' => ~cleaned'
      BY <1>1 DEF WillBeRetried
    <2>4. sent[<<0, k>>] <= 1 + restarts + losses' + Repeatable(0)
      BY <1>3, <2>1, <2>2
    <2> QED
      BY <2>3, <2>4
  <1>8. NothingLost'
    <2>1. \A i \in Lines : Accounted(i) => Accounted(i)'
      BY AccountedStays DEF IInv, recipient
    <2> QED
      BY <1>1, <1>2, <2>1 DEF NothingLost, Lines, recipient
  <1> QED
    BY <1>4, <1>5, <1>6, <1>7, <1>8 DEF IInv

\* A command returned <0.
LEMMA NegativeKeepsIInv ==
    ASSUME IInv, Reads(CommandsOf(route)), Negative, NEW n, n = Line,
           ~cleaned' => Accounted(n)',
           refused \subseteq refused', refused' \subseteq Lines,
           dropped \subseteq dropped', dropped' \subseteq Lines, cleaned' \in BOOLEAN,
           UNCHANGED <<recipient, hasCopy, copy, direct, iNumTries, restarts, sent, skipped,
                       truncated, losses, status>>
    PROVE  IInv'
  <1>1. CASE cleaned'
    <2>1. /\ Abort /\ phase = "running" /\ copy \in Seq(Lines) /\ IsInjective(copy)
          /\ hasCopy \in BOOLEAN /\ truncated \in BOOLEAN
      BY <1>1 DEF Negative, Reads, IInv, TypeOK, ListsAreApart
    <2>2. hasCopy /\ ~truncated => \A i \in Lines : Accounted(i) \/ i \in Range(copy)
      BY DEF IInv, NothingLost
    <2> QED
      BY <1>1, <2>1, <2>2, AbortKeepsIInv
  <1>2. CASE ~cleaned'
    BY <1>2, NextLineKeepsIInv DEF Negative
  <1> QED
    BY <1>1, <1>2

LEMMA LineKeepsIInv ==
    ASSUME IInv, ProcessLine
    PROVE  IInv'
  <1>1. Reads(CommandsOf(route))
    <2>1. route \in DirectRoutes \cup FileRoutes /\ ByLines /\ rest # <<>>
      BY RoutesAssumption DEF ProcessLine, LineDone, LineStops, LineTransient, LineRefused,
         LineFails, LineBlocked, SmtpBlocked, RedirectCopy, Reads, ByLines, IInv, TypeOK
    <2>2. rest \in Seq(Lines) /\ tab \in Seq(CommandsOf(route))
      BY DEF IInv, TypeOK
    <2>3. Head(rest) \in Lines
      BY <2>1, <2>2, HeadTailProperties
    <2>4. tab[Head(rest)] \in CommandsOf(route)
      BY <2>2, <2>3, ElementOfSeq DEF Lines
    <2> QED
      BY <2>1, <2>4 DEF Reads, ByLines, Command, Line
  <1>2. /\ Line \in Lines /\ Line # 0 /\ Line \in 0..Len(tab) /\ target \in 1..Copies
    BY <1>1, AtLine
  <1>3. PICK n : n = Line
    OBVIOUS
  <1>4. /\ refused \subseteq Lines /\ dropped \subseteq Lines /\ cleaned \in BOOLEAN
    BY DEF IInv, TypeOK
  <1>5. UNCHANGED recipient /\ tab[n] # "redirect" => AddressesOf(n)' = {1} /\ target = 1
    BY <1>1, <1>2, <1>3 DEF AddressesOf, recipient, Reads, ByLines, IInv, PhaseIsClean, Line
  <1>6. ASSUME CarriedOut(Line) PROVE sent'[<<n, target>>] > 0
    BY <1>2, <1>3, <1>6, SentOnce, LinesAreNumbers DEF IInv
  <1>7. CASE LineDone
    <2>1. Accounted(n)'
      BY <1>3, <1>5, <1>6, <1>7 DEF LineDone, Reads, Command, Accounted
    <2> QED
      BY <1>1, <1>3, <1>4, <1>7, <2>1, NextLineKeepsIInv DEF LineDone
  <1>8. CASE LineStops
    BY <1>8, LineStopsKeepsIInv
  <1>9. CASE LineTransient
    <2>1. target = 1
      BY <1>3, <1>5, <1>9 DEF LineTransient, Reads, Command
    <2> QED
      BY <1>1, <1>3, <1>4, <1>9, <2>1, NextLineKeepsIInv DEF LineTransient, ghost
  <1>10. CASE LineRefused
    BY <1>1, <1>2, <1>3, <1>4, <1>10, NegativeKeepsIInv DEF LineRefused, Accounted
  <1>11. CASE LineFails
    BY <1>1, <1>2, <1>3, <1>4, <1>11, NegativeKeepsIInv DEF LineFails, Accounted
  <1>12. CASE LineBlocked
    BY <1>1, <1>3, <1>4, <1>12, NegativeKeepsIInv DEF LineBlocked, ghost
  <1>13. CASE SmtpBlocked
    <2>1. target = 1
      BY <1>3, <1>5, <1>13 DEF SmtpBlocked, Reads, Command
    <2> QED
      BY <1>1, <1>3, <1>4, <1>13, <2>1, NextLineKeepsIInv DEF SmtpBlocked, ghost
  <1>14. CASE RedirectCopy /\ target < Copies
    BY <1>14, NextCopyKeepsIInv
  <1>15. CASE RedirectCopy /\ ~(target < Copies)
    <2>1. Accounted(n)'
      <3>1. AddressesOf(n)' \subseteq 1..Copies /\ CarriedOut(Line)
        BY <1>2, <1>3, <1>15, BoundsAssumption DEF RedirectCopy, AddressesOf, recipient
      <3>2. \A k \in 1..(target - 1) : sent[<<n, k>>] > 0
        BY <1>1, <1>3 DEF IInv, NothingLost, Line, Reads, ByLines
      <3>3. \A k \in 1..Copies : k = target \/ k \in 1..(target - 1)
        BY <1>2, <1>15, BoundsAssumption
      <3>4. \A k \in 1..Copies : sent'[<<n, k>>] > 0
        BY <1>2, <1>3, <1>6, <3>1, <3>2, <3>3, SentOnce, LinesAreNumbers DEF IInv
      <3> QED
        BY <3>1, <3>4 DEF Accounted
    <2> QED
      BY <1>1, <1>3, <1>4, <1>15, <2>1, NextLineKeepsIInv DEF RedirectCopy
  <1> QED
    BY <1>7, <1>8, <1>9, <1>10, <1>11, <1>12, <1>13, <1>14, <1>15 DEF ProcessLine

-----------------------------------------------------------------------------
(* The end of the file *)

LEMMA EndOfFileKeepsIInv ==
    ASSUME IInv, EndOfFile
    PROVE  IInv'
  <1>1. /\ ByLines /\ rest = <<>> /\ target = 1 /\ status # "delivered"
        /\ hasCopy' = FALSE /\ failed' = FALSE /\ ~ByLines'
        /\ phase' = IF push = <<>> THEN "ended" ELSE "saving"
        /\ UNCHANGED <<recipient, copy, direct, rest, push, target, cleaned, iNumTries,
                       restarts, sent, refused, dropped, skipped, truncated, losses, status>>
    BY DEF EndOfFile, ByLines, IInv, PhaseIsClean, reading, ghost
  <1>2. TypeOK'
    BY <1>1 DEF IInv, TypeOK, recipient, Lines
  <1>3. ListsAreApart' /\ PhaseIsClean'
    BY <1>1 DEF IInv, ListsAreApart, PhaseIsClean, ByLines, recipient
  <1>4. NotDoneYet'
    <2>1. \A i, k : ToDo(i, k)' => ToDo(i, k)
      BY <1>1 DEF ToDo, WillBeRetried
    <2> QED
      BY <1>1, <2>1 DEF IInv, NotDoneYet, Lines, recipient
  <1>5. DirectNotDoneYet'
    <2>1. Repeatable(0)' = Repeatable(0) /\ ~WillBeRetried' /\ phase' # "running"
      BY <1>1 DEF Repeatable, recipient, WillBeRetried
    <2> QED
      BY <1>1, <2>1 DEF IInv, DirectNotDoneYet
  <1>6. NothingLost'
    <2>1. \A i \in Lines : Accounted(i)' <=> Accounted(i)
      BY <1>1, SameAccounts DEF IInv, recipient
    <2>2. ~truncated => \A i \in Lines : Accounted(i) \/ i \in Range(push)
      BY <1>1, EmptyList DEF IInv, NothingLost
    <2>3. Lines' = Lines /\ direct' = "none"
      BY <1>1 DEF Lines, recipient, ByLines
    <2> QED
      BY <1>1, <2>1, <2>2, <2>3, EmptyList DEF NothingLost, NothingLeft
  <1> QED
    BY <1>2, <1>3, <1>4, <1>5, <1>6 DEF IInv

LEMMA EndFileKeepsIInv ==
    ASSUME IInv, EndFile
    PROVE  IInv'
  <1>1. /\ copy \in Seq(Lines) /\ IsInjective(copy) /\ push \in Seq(Lines) /\ IsInjective(push)
        /\ hasCopy \in BOOLEAN /\ truncated \in BOOLEAN /\ cleaned \in BOOLEAN
        /\ refused \subseteq Lines /\ dropped \subseteq Lines
    BY DEF IInv, TypeOK, ListsAreApart
  <1>2. hasCopy /\ ~truncated => \A i \in Lines : Accounted(i) \/ i \in Range(copy)
    BY DEF IInv, NothingLost
  <1>3. ASSUME ByLines \/ phase = "saving", NEW k \in 1..Copies
        PROVE  sent[<<0, k>>] <= restarts + losses + Repeatable(0)
    BY <1>3 DEF IInv, DirectNotDoneYet
  <1>4. CASE OpenFails
    <2>1. /\ Abort /\ ByLines /\ phase = "running"
          /\ UNCHANGED <<recipient, hasCopy, copy, direct, cleaned, iNumTries, restarts, sent,
                         refused, dropped, skipped, truncated, losses, status>>
      BY <1>4 DEF OpenFails, ByLines, ghost
    <2>2. hasCopy
      BY <2>1 DEF IInv, PhaseIsClean
    <2>3. \A i \in Lines, k \in 1..Copies : i \in Range(copy) => ToDo(i, k)
      BY <1>4, <2>1 DEF OpenFails, ToDo
    <2> QED
      BY <1>1, <1>2, <1>3, <2>1, <2>2, <2>3, AbortKeepsIInv
  <1>5. CASE EndOfFile
    BY <1>5, EndOfFileKeepsIInv
  <1>6. CASE SavePushback
    <2>1. /\ Abort /\ phase = "saving" /\ hasCopy' = TRUE
          /\ UNCHANGED <<recipient, direct, cleaned, iNumTries, restarts, sent, refused,
                         dropped, skipped, losses, status>>
      BY <1>6 DEF SavePushback
    <2>2. /\ copy' \in Seq(Lines) /\ IsInjective(copy') /\ Range(copy') \subseteq Range(push)
          /\ truncated' \in BOOLEAN /\ (~truncated' => copy' = push /\ ~truncated)
      <3>1. CASE copy' = push /\ UNCHANGED truncated
        BY <1>1, <3>1
      <3>2. CASE copy' \in Prefixes(push) /\ truncated' = TRUE
        BY <1>1, <3>2, PrefixKeeps
      <3> QED
        BY <1>6, <3>1, <3>2 DEF SavePushback
    <2>3. \A i \in Lines, k \in 1..Copies : i \in Range(push) => ToDo(i, k)
      BY <2>1 DEF ToDo
    <2>4. ~truncated => \A i \in Lines : Accounted(i) \/ i \in Range(push)
      BY <2>1 DEF IInv, NothingLost
    <2> QED
      BY <1>1, <1>3, <2>1, <2>2, <2>3, <2>4, AbortKeepsIInv
  <1>7. CASE SaveFails
    <2>1. /\ Abort /\ phase = "saving" /\ losses' = losses + 1
          /\ UNCHANGED <<recipient, hasCopy, copy, direct, cleaned, iNumTries, restarts, sent,
                         refused, dropped, skipped, truncated, status>>
      BY <1>7 DEF SaveFails
    <2>2. \A k \in 1..Copies : sent[<<0, k>>] <= restarts + losses' + Repeatable(0)
      <3>1. restarts \in Nat /\ losses \in Nat /\ Repeatable(0) \in Nat
            /\ \A k \in 1..Copies : sent[<<0, k>>] \in Nat
        BY LinesAreNumbers DEF IInv, TypeOK, Repeatable
      <3>2. \A k \in 1..Copies : sent[<<0, k>>] <= restarts + losses + Repeatable(0)
        BY <1>3, <2>1
      <3> SUFFICES ASSUME NEW k \in 1..Copies
                   PROVE  sent[<<0, k>>] <= restarts + losses' + Repeatable(0)
        OBVIOUS
      <3>3. sent[<<0, k>>] \in Nat /\ sent[<<0, k>>] <= restarts + losses + Repeatable(0)
        BY <3>1, <3>2
      <3> QED
        BY <2>1, <3>1, <3>3
    <2> QED
      BY <1>1, <1>2, <2>1, <2>2, AbortKeepsIInv
  <1> QED
    BY <1>4, <1>5, <1>6, <1>7 DEF EndFile

-----------------------------------------------------------------------------
(* Attempts without a file *)

LEMMA DirectDoneKeepsIInv ==
    ASSUME IInv, DirectDone
    PROVE  IInv'
  <1>1. /\ phase = "running" /\ direct # "none" /\ ~ByLines /\ status # "delivered"
        /\ rest = <<>> /\ push = <<>> /\ target \in 1..Copies /\ CarriedOut(0)
        /\ UNCHANGED <<recipient, hasCopy, copy, direct, rest, push, cleaned, iNumTries,
                       restarts, refused, dropped, skipped, truncated, losses, status>>
    BY DEF DirectDone, DirectIs, ByLines, IInv, TypeOK, PhaseIsClean
  <1>2. /\ ~ByLines' /\ target' \in 1..Copies /\ failed' \in BOOLEAN
        /\ \/ /\ phase' = "running" /\ target < Copies /\ target' = target + 1
              /\ direct = "list" /\ failed' = failed
           \/ /\ phase' = "ended" /\ ~failed' /\ target' = 1
              /\ direct # "list" \/ target = Copies
    <2>1. failed \in BOOLEAN /\ Copies \in Nat \ {0} /\ target \in 1..Copies
      BY <1>1, BoundsAssumption DEF IInv, TypeOK
    <2>2. CASE direct = "list" /\ target < Copies
      BY <1>1, <2>1, <2>2 DEF DirectDone, ByLines
    <2>3. CASE ~(direct = "list" /\ target < Copies)
      <3>1. phase' = "ended" /\ failed' = FALSE /\ target' = 1
        BY <2>3 DEF DirectDone
      <3>2. direct # "list" \/ target = Copies
        BY <2>1, <2>3
      <3>3. ~ByLines' /\ target' \in 1..Copies
        BY <2>1, <3>1 DEF ByLines
      <3> QED
        BY <3>1, <3>2, <3>3
    <2> QED
      BY <2>2, <2>3
  <1>3. /\ sent' \in [Deliveries -> Nat]
        /\ \A j \in 0..Len(tab), k \in 1..Copies :
              sent'[<<j, k>>] = IF j = 0 /\ k = target THEN sent[<<j, k>>] + 1
                                ELSE sent[<<j, k>>]
    BY <1>1, LinesAreNumbers, SentOnce DEF IInv
  <1>4. TypeOK'
    BY <1>1, <1>2, <1>3 DEF IInv, TypeOK, recipient, Lines, Deliveries
  <1>5. ListsAreApart' /\ PhaseIsClean'
    BY <1>1, <1>2 DEF IInv, ListsAreApart, PhaseIsClean, recipient
  <1>6. \A i \in Lines, k \in 1..Copies : sent'[<<i, k>>] = sent[<<i, k>>]
    BY <1>3, LinesAreNumbers DEF IInv
  <1>7. NotDoneYet'
    <2>1. \A i, k : ToDo(i, k)' => ToDo(i, k)
      BY <1>1, <1>2 DEF ToDo, WillBeRetried
    <2> QED
      BY <1>1, <1>6, <2>1 DEF IInv, NotDoneYet, Lines, recipient
  <1>8. DirectNotDoneYet'
    <2> SUFFICES ASSUME NEW k \in 1..Copies
                 PROVE  /\ sent'[<<0, k>>] <= 1 + restarts + losses + Repeatable(0)
                        /\ phase' = "running" /\ k >= target' =>
                              sent'[<<0, k>>] <= restarts + losses + Repeatable(0)
      BY <1>1, <1>2 DEF DirectNotDoneYet, Repeatable, recipient, WillBeRetried
    <2>1. /\ sent[<<0, k>>] <= 1 + restarts + losses + Repeatable(0)
          /\ k >= target => sent[<<0, k>>] <= restarts + losses + Repeatable(0)
      BY <1>1 DEF IInv, DirectNotDoneYet
    <2>2. /\ restarts \in Nat /\ losses \in Nat /\ Repeatable(0) \in Nat
          /\ sent[<<0, k>>] \in Nat /\ 0 \in 0..Len(tab)
      BY LinesAreNumbers DEF IInv, TypeOK, Repeatable
    <2>3. sent'[<<0, k>>] = IF k = target THEN sent[<<0, k>>] + 1 ELSE sent[<<0, k>>]
      BY <1>3, <2>2
    <2>4. phase' = "running" /\ k >= target' => k >= target /\ k # target
      BY <1>1, <1>2, BoundsAssumption
    <2>5. CASE k = target
      BY <1>1, <2>1, <2>2, <2>3, <2>4, <2>5
    <2>6. CASE k # target
      BY <2>1, <2>3, <2>4, <2>6
    <2> QED
      BY <2>5, <2>6
  <1>9. NothingLost'
    <2>1. \A i \in Lines : Accounted(i) => Accounted(i)'
      BY <1>1, <1>3, AccountedStays DEF IInv, recipient
    <2>2. \A k \in 1..target : sent'[<<0, k>>] > 0
      <3>1. \A k \in 1..(target - 1) : sent[<<0, k>>] > 0
        BY <1>1 DEF IInv, NothingLost
      <3>2. 0 \in 0..Len(tab) /\ \A k \in 1..Copies : sent[<<0, k>>] \in Nat
        BY LinesAreNumbers DEF IInv
      <3>3. \A k \in 1..target : k \in 1..Copies /\ (k = target \/ k \in 1..(target - 1))
        BY <1>1, BoundsAssumption
      <3> SUFFICES ASSUME NEW k \in 1..target PROVE sent'[<<0, k>>] > 0
        OBVIOUS
      <3>4. k \in 1..Copies /\ sent[<<0, k>>] \in Nat
        BY <3>2, <3>3
      <3>5. sent'[<<0, k>>] = IF k = target THEN sent[<<0, k>>] + 1 ELSE sent[<<0, k>>]
        BY <1>3, <3>2, <3>4
      <3>6. k = target \/ sent[<<0, k>>] > 0
        BY <3>1, <3>3
      <3> QED
        BY <3>4, <3>5, <3>6
    <2>3. phase' = "running" => \A k \in 1..(target' - 1) : sent'[<<0, k>>] > 0
      <3>1. phase' = "running" => target' - 1 = target
        BY <1>1, <1>2, BoundsAssumption
      <3> QED
        BY <2>2, <3>1
    <2>4. phase' = "ended" => Accounted(0)'
      <3>1. phase' = "ended" => \A k \in AddressesOf(0)' : k \in 1..target
        BY <1>1, <1>2 DEF AddressesOf
      <3> QED
        BY <2>2, <3>1 DEF Accounted
    <2>5. Lines' = Lines
      BY <1>1 DEF Lines, recipient
    <2>6. hasCopy' /\ ~truncated' => \A i \in Lines : Accounted(i)' \/ i \in Range(copy)
      BY <1>1, <2>1 DEF IInv, NothingLost
    <2> QED
      BY <1>1, <1>2, <2>3, <2>4, <2>5, <2>6 DEF NothingLost, NothingLeft
  <1> QED
    BY <1>4, <1>5, <1>7, <1>8, <1>9 DEF IInv

LEMMA ProcessDirectKeepsIInv ==
    ASSUME IInv, ProcessDirect
    PROVE  IInv'
  <1>1. /\ copy \in Seq(Lines) /\ IsInjective(copy) /\ hasCopy \in BOOLEAN
        /\ truncated \in BOOLEAN /\ cleaned \in BOOLEAN
        /\ refused \subseteq Lines /\ dropped \subseteq Lines
    BY DEF IInv, TypeOK, ListsAreApart
  <1>2. hasCopy /\ ~truncated => \A i \in Lines : Accounted(i) \/ i \in Range(copy)
    BY DEF IInv, NothingLost
  <1>3. CASE DirectDone
    BY <1>3, DirectDoneKeepsIInv
  <1>4. CASE DirectFails
    <2>1. /\ Abort /\ phase = "running" /\ direct # "none"
          /\ UNCHANGED <<recipient, hasCopy, copy, direct, cleaned, iNumTries, restarts, sent,
                         refused, dropped, skipped, truncated, losses, status>>
      BY <1>4 DEF DirectFails, DirectIs, ghost
    <2>2. \A i, k : ~hasCopy \/ i \in Range(copy) => ToDo(i, k)
      BY <2>1 DEF ToDo
    <2>3. route \notin {"list", "cmdalias"} => target = 1
      BY <2>1 DEF IInv, PhaseIsClean
    <2>4. \A k \in 1..Copies : route \notin {"list", "cmdalias"} =>
              sent[<<0, k>>] <= restarts + losses + Repeatable(0)
      BY <2>1, <2>3 DEF IInv, DirectNotDoneYet
    <2> QED
      BY <1>1, <1>2, <2>1, <2>2, <2>4, AbortKeepsIInv
  <1>5. CASE DirectRefused
    <2>1. /\ Abort /\ phase = "running" /\ cleaned' = TRUE
          /\ UNCHANGED <<recipient, hasCopy, copy, direct, iNumTries, restarts, sent,
                         refused, dropped, skipped, truncated, losses, status>>
      BY <1>5 DEF DirectRefused, DirectIs, ghost
    <2> QED
      BY <1>1, <1>2, <2>1, AbortKeepsIInv
  <1> QED
    BY <1>3, <1>4, <1>5 DEF ProcessDirect

-----------------------------------------------------------------------------
(* The message itself *)

LEMMA SettleKeepsIInv ==
    ASSUME IInv, phase \in {"queued", "ended"}, NEW outcome \in {"delivered", "condemned"},
           Settle(outcome), outcome = "delivered" => phase = "ended" /\ ~failed
    PROVE  IInv'
  <1>1. /\ rest = <<>> /\ push = <<>> /\ target = 1 /\ ~ByLines'
        /\ phase' = "settled" /\ status' = outcome /\ hasCopy' = FALSE
        /\ UNCHANGED <<recipient, copy, direct, rest, push, target, failed, cleaned, iNumTries,
                       restarts, sent, refused, dropped, skipped, truncated, losses>>
    BY DEF Settle, IInv, PhaseIsClean, ByLines, reading, ghost
  <1>2. TypeOK'
    <2>1. status' \in {"pending", "delivered", "condemned"} /\ hasCopy' \in BOOLEAN
      BY <1>1
    <2>2. phase' \in {"queued", "running", "saving", "ended", "settled"}
      BY <1>1
    <2> QED
      BY <1>1, <2>1, <2>2 DEF IInv, TypeOK, recipient, Lines
  <1>3. ListsAreApart' /\ PhaseIsClean'
    BY <1>1 DEF IInv, ListsAreApart, PhaseIsClean, recipient
  <1>4. \A i, k : ~ToDo(i, k)'
    BY <1>1 DEF ToDo, WillBeRetried
  <1>5. NotDoneYet'
    BY <1>1, <1>4 DEF IInv, NotDoneYet, Lines, recipient
  <1>6. DirectNotDoneYet'
    BY <1>1 DEF IInv, DirectNotDoneYet, Repeatable, recipient, WillBeRetried
  <1>7. NothingLost'
    <2>1. \A i \in Lines : Accounted(i)' <=> Accounted(i)
      BY <1>1, SameAccounts DEF IInv, recipient
    <2>2. Accounted(0)' <=> Accounted(0)
      BY <1>1 DEF Accounted, AddressesOf, recipient
    <2>3. NothingLeft => NothingLeft'
      BY <1>1, <2>1, <2>2 DEF NothingLeft, Lines, recipient
    <2>4. outcome = "delivered" => NothingLeft
      BY DEF IInv, NothingLost
    <2> QED
      BY <1>1, <2>3, <2>4 DEF NothingLost
  <1> QED
    BY <1>2, <1>3, <1>5, <1>6, <1>7 DEF IInv

\* Back to the queue: the attempts of a mailing list may have repeated it.
LEMMA ResendKeepsIInv ==
    ASSUME IInv, QueResendMessage
    PROVE  IInv'
  <1>1. /\ rest = <<>> /\ push = <<>> /\ ~ByLines' /\ status # "delivered"
        /\ WillBeRetried /\ WillBeRetried' /\ phase' = "queued" /\ direct' = "none"
        /\ iNumTries' = iNumTries + 1 /\ failed' = FALSE /\ target = 1
        /\ UNCHANGED <<recipient, hasCopy, copy, rest, push, target, cleaned, restarts, sent,
                       refused, dropped, skipped, truncated, losses, status>>
    BY DEF QueResendMessage, IInv, PhaseIsClean, ByLines, WillBeRetried, reading, ghost
  <1>2. TypeOK'
    <2>1. iNumTries' \in Nat
      BY <1>1 DEF IInv, TypeOK
    <2>2. /\ phase' \in {"queued", "running", "saving", "ended", "settled"}
          /\ direct' \in DirectRoutes \cup {"none"} /\ failed' \in BOOLEAN
      BY <1>1
    <2> QED
      BY <1>1, <2>1, <2>2 DEF IInv, TypeOK, recipient, Lines
  <1>3. ListsAreApart' /\ PhaseIsClean'
    BY <1>1 DEF IInv, ListsAreApart, PhaseIsClean, recipient
  <1>4. NotDoneYet'
    <2>1. \A i, k : ToDo(i, k)' => ToDo(i, k)
      BY <1>1 DEF ToDo
    <2> QED
      BY <1>1, <2>1 DEF IInv, NotDoneYet, Lines, recipient
  <1>5. DirectNotDoneYet'
    <2> SUFFICES ASSUME NEW k \in 1..Copies
                 PROVE  sent[<<0, k>>] <= restarts + losses + Repeatable(0)'
      <3>1. restarts \in Nat /\ losses \in Nat /\ Repeatable(0)' \in Nat
            /\ \A k \in 1..Copies : sent[<<0, k>>] \in Nat
        BY <1>1, <1>2, LinesAreNumbers DEF IInv, TypeOK, Repeatable
      <3>2. ASSUME NEW k \in 1..Copies, sent[<<0, k>>] <= restarts + losses + Repeatable(0)'
            PROVE  sent[<<0, k>>] <= 1 + restarts + losses + Repeatable(0)'
        BY <3>1, <3>2
      <3> QED
        BY <1>1, <3>2 DEF DirectNotDoneYet
    <2>1. restarts \in Nat /\ losses \in Nat /\ iNumTries \in Nat /\ sent[<<0, k>>] \in Nat
      BY LinesAreNumbers DEF IInv, TypeOK
    <2>2. CASE route \in {"list", "cmdalias"}
      <3>1. sent[<<0, k>>] <= 1 + restarts + losses + iNumTries
        BY <2>2 DEF IInv, DirectNotDoneYet, Repeatable
      <3>2. Repeatable(0)' = iNumTries + 1
        BY <1>1, <2>2 DEF Repeatable, recipient
      <3> QED
        BY <2>1, <3>1, <3>2
    <2>3. CASE route \notin {"list", "cmdalias"}
      <3>1. sent[<<0, k>>] <= restarts + losses + Repeatable(0)
        BY <1>1, <2>3 DEF IInv, DirectNotDoneYet
      <3>2. Repeatable(0)' = Repeatable(0)
        BY <1>1, <2>3 DEF Repeatable, recipient
      <3> QED
        BY <3>1, <3>2
    <2> QED
      BY <2>2, <2>3
  <1>6. NothingLost'
    <2>1. \A i \in Lines : Accounted(i)' <=> Accounted(i)
      BY <1>1, SameAccounts DEF IInv, recipient
    <2> QED
      BY <1>1, <2>1 DEF IInv, NothingLost, Lines, recipient
  <1> QED
    BY <1>2, <1>3, <1>4, <1>5, <1>6 DEF IInv

LEMMA EndAttemptKeepsIInv ==
    ASSUME IInv, EndAttempt
    PROVE  IInv'
  <1>1. CASE Unusable
    BY <1>1, SettleKeepsIInv DEF Unusable
  <1>2. CASE Delivered
    BY <1>2, SettleKeepsIInv DEF Delivered
  <1>3. CASE Condemned
    BY <1>3, SettleKeepsIInv DEF Condemned
  <1>4. CASE Expired
    BY <1>4, SettleKeepsIInv DEF Expired
  <1>5. CASE QueResendMessage
    BY <1>5, ResendKeepsIInv
  <1> QED
    BY <1>1, <1>2, <1>3, <1>4, <1>5 DEF EndAttempt

LEMMA CrashKeepsIInv ==
    ASSUME IInv, Crash
    PROVE  IInv'
  <1>1. /\ rest' = <<>> /\ push' = <<>> /\ target' = 1 /\ ~ByLines' /\ status # "delivered"
        /\ phase' = "queued" /\ direct' = "none" /\ failed' = FALSE /\ cleaned' = FALSE
        /\ restarts' = restarts + 1
        /\ UNCHANGED <<recipient, hasCopy, copy, iNumTries, sent, refused, dropped, skipped,
                       truncated, losses, status>>
    BY DEF Crash, IInv, PhaseIsClean, ByLines, ghost
  <1>2. /\ restarts \in Nat /\ losses \in Nat /\ Repeatable(0) \in Nat
        /\ \A i \in 0..Len(tab), k \in 1..Copies : sent[<<i, k>>] \in Nat
        /\ 0 \in 0..Len(tab) /\ \A i \in Lines : i \in 0..Len(tab)
    BY LinesAreNumbers DEF IInv, TypeOK, Repeatable
  <1>3. TypeOK'
    <2>1. /\ rest' \in Seq(Lines) /\ push' \in Seq(Lines) /\ target' \in 1..Copies
          /\ restarts' \in Nat
      BY <1>1, <1>2, EmptyList, BoundsAssumption
    <2>2. /\ phase' \in {"queued", "running", "saving", "ended", "settled"}
          /\ direct' \in DirectRoutes \cup {"none"} /\ failed' \in BOOLEAN /\ cleaned' \in BOOLEAN
      BY <1>1
    <2> QED
      BY <1>1, <2>1, <2>2 DEF IInv, TypeOK, recipient, Lines
  <1>4. ListsAreApart' /\ PhaseIsClean'
    BY <1>1, EmptyList DEF IInv, ListsAreApart, PhaseIsClean, recipient
  <1>5. NotDoneYet'
    <2> SUFFICES ASSUME NEW i \in Lines, NEW k \in 1..Copies
                 PROVE  /\ sent[<<i, k>>] <= 1 + restarts' + losses
                        /\ sent[<<i, k>>] <= restarts' + losses
                        /\ restarts' + losses # 0
      BY <1>1 DEF NotDoneYet, Lines, recipient
    <2>1. sent[<<i, k>>] <= 1 + restarts + losses /\ sent[<<i, k>>] \in Nat
      BY <1>2 DEF IInv, NotDoneYet
    <2> QED
      BY <1>1, <1>2, <2>1
  <1>6. DirectNotDoneYet'
    <2> SUFFICES ASSUME NEW k \in 1..Copies
                 PROVE  /\ sent[<<0, k>>] <= 1 + restarts' + losses + Repeatable(0)
                        /\ sent[<<0, k>>] <= restarts' + losses + Repeatable(0)
      BY <1>1 DEF DirectNotDoneYet, Repeatable, recipient
    <2>1. sent[<<0, k>>] <= 1 + restarts + losses + Repeatable(0) /\ sent[<<0, k>>] \in Nat
      BY <1>2 DEF IInv, DirectNotDoneYet
    <2> QED
      BY <1>1, <1>2, <2>1
  <1>7. NothingLost'
    <2>1. \A i \in Lines : Accounted(i)' <=> Accounted(i)
      BY <1>1, SameAccounts DEF IInv, recipient
    <2> QED
      BY <1>1, <2>1 DEF IInv, NothingLost, Lines, recipient
  <1> QED
    BY <1>3, <1>4, <1>5, <1>6, <1>7 DEF IInv

\* The copy is removed under a message that is being retried.
LEMMA LateFrozDelKeepsIInv ==
    ASSUME IInv, LateFrozDel
    PROVE  IInv'
  <1>1. /\ hasCopy' = FALSE /\ losses' = losses + 1 /\ ~ByLines /\ phase # "saving"
        /\ UNCHANGED <<recipient, copy, phase, direct, rest, push, target, failed, cleaned,
                       iNumTries, restarts, sent, refused, dropped, skipped, truncated, status>>
    BY DEF LateFrozDel, DirectIs, DirectRoutes, ByLines, reading
  <1>2. /\ restarts \in Nat /\ losses \in Nat /\ Repeatable(0) \in Nat
        /\ \A i \in 0..Len(tab), k \in 1..Copies : sent[<<i, k>>] \in Nat
        /\ 0 \in 0..Len(tab) /\ \A i \in Lines : i \in 0..Len(tab)
    BY LinesAreNumbers DEF IInv, TypeOK, Repeatable
  <1>3. TypeOK'
    <2>1. route' = route /\ tab' = tab
      BY <1>1 DEF recipient
    <2>2. losses' \in Nat
      BY <1>1, <1>2
    <2>3. hasCopy' \in BOOLEAN
      BY <1>1
    <2>4. failed' \in BOOLEAN /\ cleaned' \in BOOLEAN /\ truncated' \in BOOLEAN
      BY <1>1, Zenon DEF IInv, TypeOK
    <2>5. Lines' = Lines
      BY <2>1 DEF Lines
    <2>6. /\ route' \in Routes
          /\ tab' \in Seq(CommandsOf(route'))
          /\ copy' \in Seq(Lines)
          /\ phase' \in {"queued", "running", "saving", "ended", "settled"}
          /\ direct' \in DirectRoutes \cup {"none"}
          /\ rest' \in Seq(Lines) /\ push' \in Seq(Lines) /\ target' \in 1..Copies
      BY <1>1, <2>1, Zenon DEF IInv, TypeOK
    <2>7. /\ iNumTries' \in Nat /\ restarts' \in Nat
          /\ sent' \in [(0..Len(tab')) \X (1..Copies) -> Nat]
          /\ refused' \subseteq Lines /\ dropped' \subseteq Lines /\ skipped' \subseteq Lines
          /\ status' \in {"pending", "delivered", "condemned"}
      BY <1>1, <2>1, Zenon DEF IInv, TypeOK
    <2> QED
      BY <2>2, <2>3, <2>4, <2>5, <2>6, <2>7, Zenon DEF TypeOK
  <1>4. ListsAreApart' /\ PhaseIsClean'
    <2>1. ~ByLines' /\ route' = route /\ tab' = tab
      BY <1>1 DEF ByLines, recipient
    <2>2. ListsAreApart'
      BY <1>1 DEF IInv, ListsAreApart
    <2>3. PhaseIsClean'
      BY <1>1, <2>1 DEF IInv, PhaseIsClean
    <2> QED
      BY <2>2, <2>3
  <1>5. NotDoneYet'
    <2> SUFFICES ASSUME NEW i \in Lines, NEW k \in 1..Copies
                 PROVE  /\ sent[<<i, k>>] <= 1 + restarts + losses'
                        /\ sent[<<i, k>>] <= restarts + losses'
                        /\ restarts + losses' # 0
      BY <1>1 DEF NotDoneYet, Lines, recipient
    <2>1. sent[<<i, k>>] <= 1 + restarts + losses /\ sent[<<i, k>>] \in Nat
      BY <1>2 DEF IInv, NotDoneYet
    <2> QED
      BY <1>1, <1>2, <2>1
  <1>6. DirectNotDoneYet'
    <2> SUFFICES ASSUME NEW k \in 1..Copies
                 PROVE  /\ sent[<<0, k>>] <= 1 + restarts + losses' + Repeatable(0)
                        /\ sent[<<0, k>>] <= restarts + losses' + Repeatable(0)
      BY <1>1 DEF DirectNotDoneYet, Repeatable, recipient
    <2>1. sent[<<0, k>>] <= 1 + restarts + losses + Repeatable(0) /\ sent[<<0, k>>] \in Nat
      BY <1>2 DEF IInv, DirectNotDoneYet
    <2> QED
      BY <1>1, <1>2, <2>1
  <1>7. NothingLost'
    <2>1. \A i \in Lines : Accounted(i)' <=> Accounted(i)
      BY <1>1, SameAccounts DEF IInv, recipient
    <2>2. Accounted(0)' <=> Accounted(0)
      BY <1>1 DEF Accounted, AddressesOf, recipient
    <2>3. Lines' = Lines /\ ~ByLines'
      BY <1>1 DEF Lines, ByLines, recipient
    <2>4. NothingLeft => NothingLeft'
      BY <1>1, <2>1, <2>2, <2>3 DEF NothingLeft
    <2> QED
      BY <1>1, <2>3, <2>4 DEF IInv, NothingLost
  <1> QED
    BY <1>3, <1>4, <1>5, <1>6, <1>7 DEF IInv

-----------------------------------------------------------------------------
(* The theorems *)

(***************************************************************************)
(* The inductive invariant of the processing of a message: the lines of    *)
(* its file are in one place each and not done before, whatever fails.     *)
(***************************************************************************)
THEOREM Invariance == Spec => []IInv
  <1>1. Init => IInv
    BY InitIInv
  <1>2. IInv /\ [Next]_vars => IInv'
    <2> SUFFICES ASSUME IInv, [Next]_vars PROVE IInv'
      OBVIOUS
    <2>1. CASE Start
      BY <2>1, StartKeepsIInv
    <2>2. CASE ProcessLine
      BY <2>2, LineKeepsIInv
    <2>3. CASE ProcessDirect
      BY <2>3, ProcessDirectKeepsIInv
    <2>4. CASE EndFile
      BY <2>4, EndFileKeepsIInv
    <2>5. CASE EndAttempt
      BY <2>5, EndAttemptKeepsIInv
    <2>6. CASE Crash
      BY <2>6, CrashKeepsIInv
    <2>8. CASE LateFrozDel
      BY <2>8, LateFrozDelKeepsIInv
    <2>7. CASE UNCHANGED vars
      <3>1. UNCHANGED <<route, tab, hasCopy, copy, phase, direct, rest, push, target, failed,
                        cleaned, iNumTries, restarts, losses, sent, refused, dropped, skipped,
                        truncated, status>>
        BY <2>7 DEF vars, recipient, reading, ghost
      <3>2. TypeOK'
        BY <3>1 DEF IInv, TypeOK, Lines
      <3>3. ListsAreApart' /\ PhaseIsClean'
        BY <3>1 DEF IInv, Lines, ListsAreApart, PhaseIsClean, ByLines
      <3>4. NotDoneYet' /\ DirectNotDoneYet'
        BY <3>1 DEF IInv, Lines, NotDoneYet, ToDo, WillBeRetried, DirectNotDoneYet, Repeatable,
           ByLines
      <3>5. NothingLost'
        BY <3>1 DEF IInv, Lines, NothingLost, NothingLeft, Accounted, AddressesOf, ByLines
      <3> QED
        BY <3>2, <3>3, <3>4, <3>5 DEF IInv
    <2> QED
      BY <2>1, <2>2, <2>3, <2>4, <2>5, <2>6, <2>7, <2>8 DEF Next
  <1> QED
    BY <1>1, <1>2, PTL DEF Spec

\* Type correctness of the processing of a message (SMAILProcessFile).
THEOREM SpecTypeOK == Spec => []TypeOK
  BY Invariance, PTL DEF IInv

(***************************************************************************)
(* For files of any length and any number of attempts, a command is done   *)
(* again only after a crash or a lost copy (SMAILCustomProcessMessage).    *)
(***************************************************************************)
THEOREM SpecRepeatsAreExplained == Spec => []RepeatsAreExplained
  <1>1. IInv => RepeatsAreExplained
    <2> SUFFICES ASSUME IInv, NEW i \in 0..Len(tab), NEW k \in 1..Copies
                 PROVE  sent[<<i, k>>] <= 1 + restarts + losses + Repeatable(i)
      BY DEF RepeatsAreExplained, IInv, TypeOK
    <2>1. CASE i = 0
      BY <2>1 DEF IInv, DirectNotDoneYet
    <2>2. CASE i # 0
      <3>1. i \in Lines /\ Repeatable(i) = 0
        BY <2>2, LinesAreNumbers DEF IInv, Lines, Repeatable
      <3>2. sent[<<i, k>>] \in Nat /\ restarts \in Nat /\ losses \in Nat
        BY LinesAreNumbers DEF IInv, TypeOK
      <3> QED
        BY <3>1, <3>2 DEF IInv, NotDoneYet
    <2> QED
      BY <2>1, <2>2
  <1> QED
    BY <1>1, Invariance, PTL

\* A message that leaves as delivered was carried out, line by line.
THEOREM SpecNothingIsForgotten == Spec => []NothingIsForgotten
  <1>1. IInv => NothingIsForgotten
    BY DEF IInv, NothingLost, NothingLeft, NothingIsForgotten
  <1> QED
    BY <1>1, Invariance, PTL

(***************************************************************************)
(* A line that a stop code skipped is not carried out by a later attempt,  *)
(* unless a crash or a failed write made the file start over.              *)
(***************************************************************************)
THEOREM SpecStopIsKept == Spec => []StopIsKept
  <1>1. Init => StopIsKept
    BY DEF Init, StopIsKept
  <1>2. IInv /\ StopIsKept /\ [Next]_vars => StopIsKept'
    <2> SUFFICES ASSUME IInv, StopIsKept, [Next]_vars, (restarts + losses = 0)',
                        NEW i \in skipped', NEW k \in 1..Copies
                 PROVE  sent'[<<i, k>>] = 0
      BY DEF StopIsKept
    <2>1. restarts \in Nat /\ losses \in Nat
      BY DEF IInv, TypeOK
    <2>2. CASE UNCHANGED <<sent, skipped, restarts, losses>>
      BY <2>2 DEF StopIsKept
    <2>3. CASE restarts' = restarts + 1 \/ losses' = losses + 1
      <3>1. FALSE
        <4>1. (restarts' = restarts \/ restarts' = restarts + 1)
              /\ (losses' = losses \/ losses' = losses + 1)
          BY <2>3 DEF Next, Start, StartDirect, StartFromCopy, FirstCopy, CopyFails, ProcessLine,
             LineDone, LineStops, LineTransient, LineRefused, LineFails, LineBlocked, SmtpBlocked,
             RedirectCopy, ProcessDirect, DirectDone, DirectFails, DirectRefused, EndFile,
             OpenFails, EndOfFile, SavePushback, SaveFails, EndAttempt, Unusable, Delivered,
             Condemned, Expired, Settle, QueResendMessage, LateFrozDel, Crash, ghost, vars
        <4> QED
          BY <2>1, <2>3, <4>1
      <3> QED
        BY <3>1
    <2>4. CASE DirectDone
      <3>1. skipped' = skipped /\ restarts' = restarts /\ losses' = losses /\ CarriedOut(0)
        BY <2>4 DEF DirectDone
      <3>2. i \in Lines /\ i # 0 /\ i \in 0..Len(tab) /\ 0 \in 0..Len(tab) /\ i \in skipped
        BY <3>1, LinesAreNumbers DEF IInv, TypeOK
      <3>3. sent'[<<i, k>>] = sent[<<i, k>>]
        BY <3>1, <3>2, SentOnce DEF IInv
      <3> QED
        BY <3>1, <3>2, <3>3 DEF StopIsKept
    <2>5. CASE LineDone \/ LineStops \/ RedirectCopy
      <3>1. /\ Reads(CommandsOf(route)) /\ CarriedOut(Line)
            /\ restarts' = restarts /\ losses' = losses
            /\ skipped' \subseteq skipped \cup Range(Tail(rest))
        <4>1. rest \in Seq(Lines) /\ tab \in Seq(CommandsOf(route)) /\ rest # <<>>
          BY <2>5 DEF LineDone, LineStops, RedirectCopy, Reads, IInv, TypeOK
        <4>2. Head(rest) \in Lines
          BY <4>1, HeadTailProperties
        <4>3. tab[Head(rest)] \in CommandsOf(route)
          BY <4>1, <4>2, ElementOfSeq DEF Lines
        <4> QED
          BY <2>5, <4>3 DEF LineDone, LineStops, RedirectCopy, Reads, Command, Line
      <3>2. /\ Line \in Lines /\ Line \in 0..Len(tab) /\ target \in 1..Copies
            /\ Line \notin Range(Tail(rest)) /\ ToDo(Line, target)
            /\ Range(rest) = Range(Tail(rest)) \cup {Line} /\ ByLines
            /\ Range(Tail(rest)) \subseteq Lines
        BY <3>1, AtLine, MembersOfList
      <3>3. restarts + losses = 0
        BY <3>1
      <3>4. Line \notin skipped
        BY <3>2, <3>3 DEF IInv, NotDoneYet
      <3>5. i # Line /\ i \in Lines /\ i \in 0..Len(tab)
        BY <3>1, <3>2, <3>4, LinesAreNumbers DEF IInv, TypeOK
      <3>6. sent'[<<i, k>>] = sent[<<i, k>>]
        BY <3>1, <3>2, <3>5, SentOnce DEF IInv
      <3>7. CASE i \in skipped
        BY <3>3, <3>6, <3>7 DEF StopIsKept
      <3>8. CASE i \in Range(Tail(rest))
        <4>1. ToDo(i, k)
          BY <3>2, <3>8 DEF ToDo, Line
        <4>2. sent[<<i, k>>] <= 0 /\ sent[<<i, k>>] \in Nat
          BY <3>3, <3>5, <4>1, LinesAreNumbers DEF IInv, NotDoneYet
        <4> QED
          BY <3>6, <4>2
      <3> QED
        BY <3>1, <3>7, <3>8
    <2> QED
      BY <2>2, <2>3, <2>4, <2>5 DEF Next, Start, StartDirect, StartFromCopy, FirstCopy, CopyFails,
         ProcessLine, LineTransient, LineRefused, LineFails, LineBlocked, SmtpBlocked,
         ProcessDirect, DirectFails, DirectRefused, EndFile, OpenFails, EndOfFile, SavePushback,
         SaveFails, EndAttempt, Unusable, Delivered, Condemned, Expired, Settle,
         QueResendMessage, LateFrozDel, Crash, ghost, vars
  <1> QED
    BY <1>1, <1>2, Invariance, PTL DEF Spec
=============================================================================
