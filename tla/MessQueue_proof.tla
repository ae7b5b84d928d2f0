-------------------------- MODULE MessQueue_proof --------------------------
(***************************************************************************)
(* Proofs about MessQueue for any number of messages, SMAIL threads, CTRL  *)
(* sessions, retries and restarts.                                         *)
(***************************************************************************)
EXTENDS MessQueue, SequenceTheorems, FiniteSetTheorems, TLAPS

(* Lists without repetition *)

\* What a list gains when a new member is appended.
LEMMA AppendNew ==
    ASSUME NEW S, NEW s \in Seq(S), NEW x \in S, x \notin Range(s), IsInjective(s)
    PROVE  /\ Append(s, x) \in Seq(S) /\ Append(s, x) # <<>>
           /\ Len(Append(s, x)) = Len(s) + 1
           /\ IsInjective(Append(s, x))
           /\ Range(Append(s, x)) = Range(s) \cup {x}
  <1> DEFINE a == Append(s, x)
  <1>1. /\ a \in Seq(S) /\ a # <<>> /\ Len(a) = Len(s) + 1
        /\ \A i \in 1..Len(s) : a[i] = s[i]
        /\ a[Len(s) + 1] = x
    BY AppendProperties
  <1>2. Len(s) \in Nat /\ DOMAIN s = 1..Len(s) /\ DOMAIN a = 1..(Len(s) + 1)
    BY <1>1, LenProperties
  <1> HIDE DEF a
  <1>3. \A i \in 1..(Len(s) + 1) : i \in 1..Len(s) \/ i = Len(s) + 1
    BY <1>2
  <1>4. Range(a) = Range(s) \cup {x}
    BY <1>1, <1>2, <1>3 DEF Range
  <1>5. IsInjective(a)
    BY <1>1, <1>2, <1>3 DEF IsInjective, Range
  <1> QED
    BY <1>1, <1>4, <1>5 DEF a

\* What a list loses when its head is taken.
LEMMA TakeHead ==
    ASSUME NEW S, NEW s \in Seq(S), s # <<>>, IsInjective(s)
    PROVE  /\ Head(s) \in S /\ Head(s) \in Range(s)
           /\ Tail(s) \in Seq(S) /\ Len(Tail(s)) = Len(s) - 1
           /\ IsInjective(Tail(s))
           /\ Range(Tail(s)) = Range(s) \ {Head(s)}
           /\ Tail(s) = <<>> <=> Len(s) = 1
  <1> DEFINE t == Tail(s)
  <1>1. /\ t \in Seq(S) /\ Len(t) = Len(s) - 1
        /\ \A i \in 1..Len(t) : t[i] = s[i + 1]
    BY HeadTailProperties
  <1>2. Len(s) \in Nat \ {0} /\ DOMAIN s = 1..Len(s) /\ DOMAIN t = 1..(Len(s) - 1)
    BY <1>1, LenProperties, EmptySeq
  <1>3. Head(s) = s[1] /\ Head(s) \in S
    BY HeadTailProperties
  <1>4. t = <<>> <=> Len(s) = 1
    BY <1>1, <1>2, EmptySeq
  <1> HIDE DEF t
  <1>5. IsInjective(t)
    BY <1>1, <1>2 DEF IsInjective
  <1>6. \A i \in 1..Len(s) : i = 1 \/ i - 1 \in 1..(Len(s) - 1)
    BY <1>2
  <1>7. Range(t) \subseteq Range(s) \ {Head(s)}
    BY <1>1, <1>2, <1>3 DEF Range, IsInjective
  <1>8. Range(s) \ {Head(s)} \subseteq Range(t)
    <2> SUFFICES ASSUME NEW i \in 1..Len(s), s[i] # Head(s) PROVE s[i] \in Range(t)
      BY <1>2 DEF Range
    <2>1. i - 1 \in 1..(Len(s) - 1) /\ t[i - 1] = s[i]
      BY <1>1, <1>2, <1>3, <1>6
    <2> QED
      BY <1>2, <2>1 DEF Range
  <1>9. Head(s) \in Range(s)
    BY <1>2, <1>3 DEF Range
  <1> QED
    BY <1>1, <1>3, <1>4, <1>5, <1>7, <1>8, <1>9 DEF t

\* An order of a finite set lists each of its members once.
LEMMA OrderOfSet ==
    ASSUME NEW S, NEW T \in SUBSET S, IsFiniteSet(T), NEW o \in Orders(T)
    PROVE  /\ o \in Seq(S) /\ Len(o) = Cardinality(T) /\ Cardinality(T) \in Nat
           /\ IsInjective(o) /\ Range(o) = T
  <1>1. Cardinality(T) \in Nat
    BY FS_CardinalityType
  <1>2. /\ o \in [1..Cardinality(T) -> T] /\ IsInjective(o)
        /\ \A t \in T : \E i \in 1..Cardinality(T) : o[i] = t
    BY DEF Orders, Bijection, Injection, Surjection
  <1>3. o \in Seq(T) /\ Len(o) = Cardinality(T)
    BY <1>1, <1>2
  <1>4. Range(o) = T
    BY <1>2 DEF Range
  <1> QED
    BY <1>1, <1>2, <1>3, <1>4, SeqMonotonic

\* What a list gains when the members of a disjoint set are appended.
LEMMA AppendOrder ==
    ASSUME NEW S, NEW s \in Seq(S), IsInjective(s),
           NEW T \in SUBSET S, IsFiniteSet(T), T \cap Range(s) = {}, NEW o \in Orders(T)
    PROVE  /\ s \o o \in Seq(S) /\ Len(s \o o) = Len(s) + Cardinality(T)
           /\ IsInjective(s \o o)
           /\ Range(s \o o) = Range(s) \cup T
  <1> DEFINE c == s \o o
  <1>1. /\ o \in Seq(S) /\ Len(o) = Cardinality(T) /\ Cardinality(T) \in Nat
        /\ IsInjective(o) /\ Range(o) = T
    BY OrderOfSet
  <1>2. /\ c \in Seq(S) /\ Len(c) = Len(s) + Len(o)
        /\ \A i \in 1..(Len(s) + Len(o)) : c[i] = IF i <= Len(s) THEN s[i] ELSE o[i - Len(s)]
    BY <1>1, ConcatProperties
  <1>3. /\ Len(s) \in Nat /\ DOMAIN s = 1..Len(s) /\ Len(o) \in Nat /\ DOMAIN o = 1..Len(o)
        /\ DOMAIN c = 1..(Len(s) + Len(o))
    BY <1>1, <1>2, LenProperties
  <1> HIDE DEF c
  <1>4. ASSUME NEW i \in 1..(Len(s) + Len(o))
        PROVE  \/ i \in 1..Len(s) /\ c[i] = s[i]
               \/ i - Len(s) \in 1..Len(o) /\ c[i] = o[i - Len(s)] /\ i > Len(s)
    BY <1>2, <1>3
  <1>5. Range(c) \subseteq Range(s) \cup T
    BY <1>1, <1>3, <1>4 DEF Range
  <1>6. Range(s) \subseteq Range(c)
    BY <1>2, <1>3 DEF Range
  <1>7. T \subseteq Range(c)
    <2> SUFFICES ASSUME NEW j \in 1..Len(o) PROVE o[j] \in Range(c)
      BY <1>1, <1>3 DEF Range
    <2>1. j + Len(s) \in 1..(Len(s) + Len(o)) /\ c[j + Len(s)] = o[j]
      BY <1>2, <1>3
    <2> QED
      BY <1>3, <2>1 DEF Range
  <1>8. IsInjective(c)
    <2> SUFFICES ASSUME NEW i \in 1..(Len(s) + Len(o)), NEW j \in 1..(Len(s) + Len(o)), c[i] = c[j]
                 PROVE  i = j
      BY <1>3 DEF IsInjective
    <2>1. CASE i <= Len(s) /\ j <= Len(s)
      BY <1>2, <1>3, <2>1 DEF IsInjective
    <2>2. CASE i > Len(s) /\ j > Len(s)
      <3>1. i - Len(s) \in DOMAIN o /\ j - Len(s) \in DOMAIN o /\ o[i - Len(s)] = o[j - Len(s)]
        BY <1>2, <1>3, <2>2
      <3>2. i - Len(s) = j - Len(s)
        BY <1>1, <3>1 DEF IsInjective
      <3> QED
        BY <1>3, <3>2
    <2>3. \A a, b \in 1..(Len(s) + Len(o)) : a <= Len(s) /\ b > Len(s) => c[a] # c[b]
      <3> SUFFICES ASSUME NEW a \in 1..(Len(s) + Len(o)), NEW b \in 1..(Len(s) + Len(o)),
                          a <= Len(s), b > Len(s)
                   PROVE  c[a] # c[b]
        OBVIOUS
      <3>1. a \in DOMAIN s /\ c[a] = s[a] /\ b - Len(s) \in DOMAIN o /\ c[b] = o[b - Len(s)]
        BY <1>2, <1>3
      <3>2. c[a] \in Range(s) /\ c[b] \in T
        BY <1>1, <3>1 DEF Range
      <3> QED
        BY <3>2
    <2> QED
      BY <1>3, <2>1, <2>2, <2>3
  <1> QED
    BY <1>1, <1>2, <1>5, <1>6, <1>7, <1>8 DEF c
-----------------------------------------------------------------------------
(* What most steps leave alone *)

LEMMA InitIInv == Init => IInv
  <1> SUFFICES ASSUME Init PROVE IInv
    OBVIOUS
  <1> USE DEF Init
  <1>1. TypeOK
    <2>1. ReadyQueue \in Seq(Msgs)
      BY EmptySeq
    <2>2. restarts \in 0..MaxRestarts
      BY SettingsAssumption
    <2> QED
      BY <2>1, <2>2 DEF TypeOK, Dirs
  <1>2. Range(ReadyQueue) = {} /\ IsInjective(ReadyQueue)
    BY DEF Range, IsInjective
  <1>3. QueueCountsAgree
    BY FS_EmptySet DEF QueueCountsAgree
  <1>4. \A m \in Msgs : ~Owned(m)
    BY <1>2 DEF Owned, Listed, Processed, Committing, Resubmitting, Busy
  <1>5. SingleOwner
    BY <1>2 DEF SingleOwner, Listed, Processed, Committing, Resubmitting, Busy
  <1>6. QueueMatchesDisk /\ SpoolFilesAreOwned
    BY <1>4 DEF QueueMatchesDisk, SpoolFilesAreOwned
  <1>7. AcceptedIsKept /\ DraftsAreNew /\ RemovalIsDue
    BY DEF AcceptedIsKept, DraftsAreNew, RemovalIsDue, Settled
  <1>8. NamesAreMessages /\ DownMeansIdle
    BY DEF NamesAreMessages, DownMeansIdle, Busy
  <1> QED
    BY <1>1, <1>3, <1>5, <1>6, <1>7, <1>8 DEF IInv

\* A step that moves no message between the lists and the threads.
LEMMA OwnersKept ==
    ASSUME IInv, UNCHANGED queue,
           \A m \in Msgs : Committing(m)' <=> Committing(m),
           \A w \in Workers : (Busy(w)' <=> Busy(w)) /\ (Busy(w) => wmsg'[w] = wmsg[w]),
           \A t \in Admins : /\ cpc'[t] = "moved" <=> cpc[t] = "moved"
                             /\ cpc[t] = "moved" => cmsg'[t] = cmsg[t]
    PROVE  /\ QueueCountsAgree' /\ SingleOwner'
           /\ \A m \in Msgs : Owned(m)' <=> Owned(m)
  <1>1. QueueCountsAgree'
    BY DEF IInv, QueueCountsAgree, queue
  <1>2. ASSUME NEW m \in Msgs
        PROVE  /\ Listed(m)' <=> Listed(m)
               /\ Processed(m)' <=> Processed(m)
               /\ Resubmitting(m)' <=> Resubmitting(m)
    BY DEF Listed, Processed, Resubmitting, queue
  <1>3. /\ IsInjective(ReadyQueue)'
        /\ (Range(ReadyQueue) \cap RsndArenaQueue = {})'
    BY DEF IInv, SingleOwner, queue
  <1>4. \A v, w \in Workers : (Busy(v)' /\ Busy(w)' /\ wmsg'[v] = wmsg'[w]) => v = w
    BY DEF IInv, SingleOwner
  <1>5. \A t, u \in Admins :
            (cpc'[t] = "moved" /\ cpc'[u] = "moved" /\ cmsg'[t] = cmsg'[u]) => t = u
    BY DEF IInv, SingleOwner
  <1>6. \A m \in Msgs :
            /\ Listed(m)' => ~Processed(m)' /\ ~Committing(m)' /\ ~Resubmitting(m)'
            /\ Processed(m)' => ~Committing(m)' /\ ~Resubmitting(m)'
            /\ Committing(m)' => ~Resubmitting(m)'
    BY <1>2 DEF IInv, SingleOwner
  <1>7. SingleOwner'
    BY <1>3, <1>4, <1>5, <1>6 DEF SingleOwner
  <1> QED
    BY <1>1, <1>2, <1>7 DEF Owned

\* A step that leaves the files and the handles of the owned messages alone.
LEMMA DiskKept ==
    ASSUME IInv, up' = up,
           \A m \in Msgs : Owned(m)' <=> Owned(m),
           \A m \in Msgs : Owned(m) => dir'[m] = dir[m] /\ pszQueueDir'[m] = pszQueueDir[m],
           \A m \in Msgs : dir'[m] \in Spooled => dir[m] \in Spooled
    PROVE  QueueMatchesDisk' /\ SpoolFilesAreOwned'
  BY DEF IInv, QueueMatchesDisk, SpoolFilesAreOwned

\* A step that settles only messages that are in the spool.
LEMMA HistoryKept ==
    ASSUME IInv, dir' = dir, accepted' = accepted, deleted' = deleted, prod' = prod,
           \A m \in Msgs : Settled(m) => Settled(m)',
           \A m \in Msgs : Settled(m)' => Settled(m) \/ dir[m] \in Spooled
    PROVE  AcceptedIsKept' /\ DraftsAreNew'
  <1>1. AcceptedIsKept'
    BY DEF IInv, AcceptedIsKept, TypeOK
  <1>2. DraftsAreNew'
    BY DEF IInv, DraftsAreNew, Spooled
  <1> QED
    BY <1>1, <1>2

\* A step of an SMAIL thread w that keeps its message and changes at most
\* the slog file and the history.
LEMMA WorkerStepKeepsIInv ==
    ASSUME IInv, NEW w \in Workers,
           UNCHANGED <<dir, up, queue, handle, prod, wmsg, admin, accepted, deleted, listed, misread, restarts>>,
           TypeOK',
           \A v \in Workers \ {w} : wpc'[v] = wpc[v],
           Busy(w)' <=> Busy(w), up,
           \A m \in Msgs : Settled(m) => Settled(m)',
           \A m \in Msgs : Settled(m)' => Settled(m) \/ dir[m] \in Spooled,
           RemovalIsDue'
    PROVE  IInv'
  <1>1. \A v \in Workers : (Busy(v)' <=> Busy(v)) /\ (Busy(v) => wmsg'[v] = wmsg[v])
    BY DEF Busy
  <1>2. /\ QueueCountsAgree' /\ SingleOwner'
        /\ \A m \in Msgs : Owned(m)' <=> Owned(m)
    BY <1>1, OwnersKept DEF Committing, admin
  <1>3. QueueMatchesDisk' /\ SpoolFilesAreOwned'
    BY <1>2, DiskKept DEF handle
  <1>4. AcceptedIsKept' /\ DraftsAreNew'
    BY HistoryKept
  <1>5. NamesAreMessages' /\ DownMeansIdle'
    BY <1>1 DEF IInv, NamesAreMessages, DownMeansIdle, admin
  <1> QED
    BY <1>2, <1>3, <1>4, <1>5 DEF IInv

\* A step of a CTRL session that leaves the spool directories alone.
LEMMA AdminStepKeepsIInv ==
    ASSUME IInv, UNCHANGED <<dir, up, queue, handle, prod, worker, ghost, restarts>>,
           TypeOK',
           \A t \in Admins : /\ cpc'[t] = "moved" <=> cpc[t] = "moved"
                             /\ cpc[t] = "moved" => cmsg'[t] = cmsg[t]
                             /\ cpc'[t] # "idle" => cmsg'[t] \in Msgs /\ up
    PROVE  IInv'
  <1>1. /\ QueueCountsAgree' /\ SingleOwner'
        /\ \A m \in Msgs : Owned(m)' <=> Owned(m)
    BY OwnersKept DEF Committing, Busy, worker
  <1>2. QueueMatchesDisk' /\ SpoolFilesAreOwned'
    BY <1>1, DiskKept DEF handle
  <1>3. \A m \in Msgs : Settled(m)' <=> Settled(m)
    BY DEF Settled, ghost
  <1>4. AcceptedIsKept' /\ DraftsAreNew'
    BY <1>3, HistoryKept DEF ghost
  <1>5. NamesAreMessages' /\ RemovalIsDue'
    BY DEF IInv, NamesAreMessages, RemovalIsDue, Settled, Busy, ghost, worker
  <1>6. DownMeansIdle'
    BY DEF IInv, DownMeansIdle, Busy, worker
  <1> QED
    BY <1>1, <1>2, <1>4, <1>5, <1>6 DEF IInv
-----------------------------------------------------------------------------
(* SMAIL threads *)

\* The message of a busy thread is in the spool, where its handle says.
LEMMA HeldMessage ==
    ASSUME IInv, NEW w \in Workers, Busy(w)
    PROVE  /\ wmsg[w] \in Msgs /\ Processed(wmsg[w]) /\ Owned(wmsg[w])
           /\ dir[wmsg[w]] \in Spooled /\ pszQueueDir[wmsg[w]] = dir[wmsg[w]]
           /\ wpc[w] \in {"extracted", "processing", "resend", "moved", "remove", "freeze"}
           /\ wmsg[w] \notin Range(ReadyQueue) /\ wmsg[w] \notin RsndArenaQueue
           /\ ~Committing(wmsg[w]) /\ ~Resubmitting(wmsg[w])
           /\ up
  <1>1. wmsg[w] \in Msgs
    BY DEF IInv, NamesAreMessages
  <1>2. Processed(wmsg[w]) /\ Owned(wmsg[w])
    BY DEF Processed, Owned
  <1>3. dir[wmsg[w]] \in Spooled /\ pszQueueDir[wmsg[w]] = dir[wmsg[w]]
    BY <1>1, <1>2 DEF IInv, QueueMatchesDisk
  <1>4. ~Listed(wmsg[w]) /\ ~Committing(wmsg[w]) /\ ~Resubmitting(wmsg[w])
    BY <1>1, <1>2 DEF IInv, SingleOwner
  <1>5. up
    BY DEF IInv, DownMeansIdle, Busy
  <1>6. wpc[w] \in {"extracted", "processing", "resend", "moved", "remove", "freeze"}
    BY DEF IInv, TypeOK, Busy
  <1> QED
    BY <1>1, <1>2, <1>3, <1>4, <1>5, <1>6 DEF Listed

LEMMA IdleStepKeepsIInv ==
    ASSUME IInv, NEW w \in Workers, WaitReadyEvent(w) \/ ExtractNothing(w)
    PROVE  IInv'
  <1> USE DEF WaitReadyEvent, ExtractNothing, Goto, disk, ghost, admin, handle
  <1>1. UNCHANGED <<dir, slog, up, queue, handle, prod, wmsg, admin, ghost, listed, misread, restarts>>
    OBVIOUS
  <1>2. /\ wpc'[w] \in {"waiting", "woken"} /\ ~Busy(w) /\ ~Busy(w)'
        /\ \A v \in Workers \ {w} : wpc'[v] = wpc[v]
        /\ wpc' \in [Workers -> {"waiting", "woken", "extracted", "processing",
                                 "resend", "moved", "remove", "freeze"}]
    BY DEF IInv, TypeOK, Busy
  <1>3. TypeOK'
    BY <1>1, <1>2 DEF IInv, TypeOK, queue
  <1>4. RemovalIsDue'
    BY <1>1, <1>2 DEF IInv, RemovalIsDue, Settled
  <1>5. \A m \in Msgs : Settled(m)' <=> Settled(m)
    BY <1>1 DEF Settled
  <1>6. up
    BY DEF IInv, DownMeansIdle
  <1> QED
    BY <1>1, <1>2, <1>3, <1>4, <1>5, <1>6, WorkerStepKeepsIInv

\* How SMAILProcessMessage ends: the message is delivered, kept for a resend,
\* or condemned with a reason.
LEMMA ProcessingStepKeepsIInv ==
    ASSUME IInv, NEW w \in Workers,
           \/ QueStatMessage(w) \/ Deliver(w) \/ TransientFailure(w) \/ PermanentFailure(w)
           \/ FilterOut(w) \/ FilterCorrupts(w) \/ ResendExpired(w)
    PROVE  IInv'
  <1> DEFINE m == wmsg[w]
  <1> USE DEF QueStatMessage, Deliver, TransientFailure, PermanentFailure, FilterOut,
              FilterCorrupts, ResendExpired, NotifyAndCondemn
  <1>1. UNCHANGED <<dir, up, queue, handle, prod, wmsg, admin, accepted, deleted, listed, misread, restarts>>
    BY DEF disk, ghost
  <1>2. PICK p \in {"processing", "remove", "resend", "freeze"} : Goto(w, p)
    BY DEF Condemned
  <1>3. Busy(w) /\ wpc[w] # "remove"
    BY DEF Busy
  <1>4. /\ m \in Msgs /\ dir[m] \in Spooled /\ up
    BY <1>3, HeldMessage
  <1>5. /\ wpc'[w] = p /\ Busy(w)'
        /\ \A v \in Workers \ {w} : wpc'[v] = wpc[v]
        /\ wpc' \in [Workers -> {"waiting", "woken", "extracted", "processing",
                                 "resend", "moved", "remove", "freeze"}]
    BY <1>2 DEF Goto, IInv, TypeOK, Busy
  <1>6. /\ slog' \in [Msgs -> Nat] /\ delivered' \in [Msgs -> Nat]
        /\ notified' \subseteq Msgs /\ filtered' \subseteq Msgs
    <2>1. /\ slog' = slog \/ slog' = [slog EXCEPT ![m] = @ + 1]
          /\ delivered' = delivered \/ delivered' = [delivered EXCEPT ![m] = @ + 1]
          /\ notified' = notified \/ notified' = notified \cup {m}
          /\ filtered' = filtered \/ filtered' = filtered \cup {m}
      BY DEF disk, ghost
    <2>2. /\ slog \in [Msgs -> Nat] /\ delivered \in [Msgs -> Nat]
          /\ notified \subseteq Msgs /\ filtered \subseteq Msgs
      BY DEF IInv, TypeOK
    <2> HIDE DEF QueStatMessage, Deliver, TransientFailure, PermanentFailure, FilterOut,
                 FilterCorrupts, ResendExpired, NotifyAndCondemn, m
    <2> QED
      BY <1>4, <2>1, <2>2
  <1>7. TypeOK'
    BY <1>1, <1>5, <1>6 DEF IInv, TypeOK, queue, handle, admin
  <1>8. /\ \A n \in Msgs : delivered'[n] = delivered[n] \/ (n = m /\ delivered'[n] = delivered[n] + 1)
        /\ notified' = notified \/ notified' = notified \cup {m}
        /\ filtered' = filtered \/ filtered' = filtered \cup {m}
    <2>1. /\ delivered' = delivered \/ delivered' = [delivered EXCEPT ![m] = @ + 1]
          /\ notified' = notified \/ notified' = notified \cup {m}
          /\ filtered' = filtered \/ filtered' = filtered \cup {m}
      BY DEF ghost
    <2>2. delivered \in [Msgs -> Nat]
      BY DEF IInv, TypeOK
    <2> HIDE DEF QueStatMessage, Deliver, TransientFailure, PermanentFailure, FilterOut,
                 FilterCorrupts, ResendExpired, NotifyAndCondemn, m
    <2> QED
      BY <1>4, <2>1, <2>2
  <1>9. \A n \in Msgs : /\ Settled(n) => Settled(n)'
                        /\ Settled(n)' => Settled(n) \/ dir[n] \in Spooled
                        /\ delivered[n] > 0 => delivered'[n] > 0
                        /\ n \in filtered => n \in filtered'
    <2>1. \A n \in Msgs : delivered[n] \in Nat
      BY DEF IInv, TypeOK
    <2> HIDE DEF QueStatMessage, Deliver, TransientFailure, PermanentFailure, FilterOut,
                 FilterCorrupts, ResendExpired, NotifyAndCondemn, m
    <2> QED
      BY <1>4, <1>8, <2>1 DEF Settled
  <1>10. p = "remove" => /\ (RemoveSpoolErrors => ~IOFails) => Settled(m)'
                         /\ ~RemoveSpoolErrors => delivered'[m] > 0 \/ m \in filtered'
    <2>1. CASE Deliver(w)
      <3>1. delivered'[m] = delivered[m] + 1 /\ delivered[m] \in Nat
        BY <1>4, <2>1 DEF IInv, TypeOK
      <3> QED
        BY <1>1, <3>1 DEF Settled
    <2>2. CASE FilterOut(w)
      BY <1>1, <2>2 DEF Settled
    <2>3. CASE NotifyAndCondemn(w)
      <3>1. p = "remove" => RemoveSpoolErrors
        BY <1>5, <2>3 DEF Condemned, Goto, IInv, TypeOK
      <3>2. ~IOFails => m \in notified'
        BY <2>3
      <3> QED
        BY <1>1, <3>1, <3>2 DEF Settled
    <2>4. CASE QueStatMessage(w) \/ TransientFailure(w) \/ FilterCorrupts(w)
      BY <1>5, <2>4 DEF Goto, IInv, TypeOK
    <2> QED
      BY <2>1, <2>2, <2>3, <2>4
  <1>11. RemovalIsDue'
    <2> SUFFICES ASSUME NEW v \in Workers, wpc'[v] = "remove"
                 PROVE  /\ (RemoveSpoolErrors => ~IOFails) => Settled(wmsg[v])'
                        /\ ~RemoveSpoolErrors => delivered'[wmsg[v]] > 0 \/ wmsg[v] \in filtered'
      BY <1>1 DEF RemovalIsDue, Settled
    <2>1. CASE v = w
      BY <1>5, <1>10, <2>1
    <2>2. CASE v # w
      <3>1. wpc[v] = "remove" /\ wmsg[v] \in Msgs
        BY <1>5, <2>2 DEF IInv, NamesAreMessages, Busy
      <3> QED
        BY <1>9, <3>1 DEF IInv, RemovalIsDue
    <2> QED
      BY <2>1, <2>2
  <1> QED
    BY <1>1, <1>3, <1>4, <1>5, <1>7, <1>9, <1>11, WorkerStepKeepsIInv

LEMMA ExtractKeepsIInv ==
    ASSUME IInv, NEW w \in Workers, QueExtractMessage(w)
    PROVE  IInv'
  <1> DEFINE m == Head(ReadyQueue)
  <1>1. /\ wpc[w] = "woken" /\ ReadyQueue # <<>>
        /\ wpc' = [wpc EXCEPT ![w] = "extracted"] /\ wmsg' = [wmsg EXCEPT ![w] = m]
        /\ ReadyQueue' = Tail(ReadyQueue) /\ iReadyCount' = iReadyCount - 1
        /\ hReadyEvent' = (hReadyEvent /\ iReadyCount' # 0)
        /\ iNumTries' = [iNumTries EXCEPT ![m] = @ + 1]
        /\ UNCHANGED <<dir, slog, up, RsndArenaQueue, iRsndArenaCount, pszQueueDir, prod, cpc, cmsg,
                       accepted, delivered, notified, filtered, deleted, listed, misread, restarts>>
    BY DEF QueExtractMessage, Goto, disk, admin, ghost
  <1>2. /\ ReadyQueue \in Seq(Msgs) /\ IsInjective(ReadyQueue)
        /\ iReadyCount = Len(ReadyQueue) /\ (hReadyEvent <=> ReadyQueue # <<>>)
    BY DEF IInv, TypeOK, SingleOwner, QueueCountsAgree
  <1>3. /\ m \in Msgs /\ m \in Range(ReadyQueue)
        /\ ReadyQueue' \in Seq(Msgs) /\ Len(ReadyQueue') = Len(ReadyQueue) - 1
        /\ IsInjective(ReadyQueue')
        /\ Range(ReadyQueue') = Range(ReadyQueue) \ {m}
        /\ ReadyQueue' = <<>> <=> Len(ReadyQueue) = 1
    BY <1>1, <1>2, TakeHead
  <1>4. Len(ReadyQueue) \in Nat /\ Len(ReadyQueue) # 0
    BY <1>1, <1>2, EmptySeq, LenProperties
  <1> HIDE DEF m
  <1>5. /\ QueueCountsAgree' /\ iReadyCount' \in Nat /\ hReadyEvent' \in BOOLEAN
    <2>1. iReadyCount' = Len(ReadyQueue') /\ iReadyCount' \in Nat
      BY <1>1, <1>2, <1>3, <1>4
    <2>2. iReadyCount' # 0 <=> ReadyQueue' # <<>>
      BY <1>1, <1>2, <1>3, <1>4
    <2>3. iRsndArenaCount' = Cardinality(RsndArenaQueue')
      BY <1>1 DEF IInv, QueueCountsAgree
    <2>4. hReadyEvent' = (iReadyCount' # 0)
      BY <1>1, <1>2 DEF IInv, TypeOK
    <2> QED
      BY <2>1, <2>2, <2>3, <2>4 DEF QueueCountsAgree
  <1>6. /\ ~Busy(w) /\ Busy(w)' /\ wmsg'[w] = m
        /\ \A v \in Workers \ {w} : (Busy(v)' <=> Busy(v)) /\ wmsg'[v] = wmsg[v]
        /\ \A v \in Workers \ {w} : wpc'[v] = wpc[v]
    BY <1>1 DEF IInv, TypeOK, Busy
  <1>7. TypeOK'
    <2>1. wpc' \in [Workers -> {"waiting", "woken", "extracted", "processing",
                                "resend", "moved", "remove", "freeze"}]
      BY <1>1 DEF IInv, TypeOK
    <2>2. wmsg' \in [Workers -> Msgs \cup {NoMsg}]
      BY <1>1, <1>3 DEF IInv, TypeOK
    <2>3. iNumTries' \in [Msgs -> Nat]
      <3>1. iNumTries \in [Msgs -> Nat] /\ iNumTries' = [iNumTries EXCEPT ![m] = @ + 1]
        BY <1>1 DEF IInv, TypeOK
      <3> QED
        BY <1>3, <3>1
    <2> QED
      BY <1>1, <1>3, <1>5, <2>1, <2>2, <2>3 DEF IInv, TypeOK
  <1>8. Listed(m) /\ m \notin RsndArenaQueue /\ ~Processed(m) /\ ~Committing(m) /\ ~Resubmitting(m)
    BY <1>3 DEF IInv, SingleOwner, Listed
  <1>9. \A n \in Msgs : /\ Listed(n)' <=> Listed(n) /\ n # m
                        /\ Processed(n)' <=> Processed(n) \/ n = m
                        /\ Committing(n)' <=> Committing(n)
                        /\ Resubmitting(n)' <=> Resubmitting(n)
                        /\ Owned(n)' <=> Owned(n)
    <2> SUFFICES ASSUME NEW n \in Msgs
                 PROVE  /\ Listed(n)' <=> Listed(n) /\ n # m
                        /\ Processed(n)' <=> Processed(n) \/ n = m
                        /\ Committing(n)' <=> Committing(n)
                        /\ Resubmitting(n)' <=> Resubmitting(n)
                        /\ Owned(n)' <=> Owned(n)
      OBVIOUS
    <2>1. Listed(n)' <=> Listed(n) /\ n # m
      BY <1>1, <1>3, <1>8 DEF Listed
    <2>2. Processed(n)' <=> Processed(n) \/ n = m
      BY <1>6 DEF Processed
    <2>3. (Committing(n)' <=> Committing(n)) /\ (Resubmitting(n)' <=> Resubmitting(n))
      BY <1>1 DEF Committing, Resubmitting
    <2> QED
      BY <1>8, <2>1, <2>2, <2>3 DEF Owned
  <1>10. SingleOwner'
    <2>1. IsInjective(ReadyQueue)' /\ (Range(ReadyQueue) \cap RsndArenaQueue = {})'
      BY <1>1, <1>3 DEF IInv, SingleOwner
    <2>2. \A u, v \in Workers : (Busy(u)' /\ Busy(v)' /\ wmsg'[u] = wmsg'[v]) => u = v
      BY <1>6, <1>8 DEF IInv, SingleOwner, Processed
    <2>3. \A t, u \in Admins :
              (cpc'[t] = "moved" /\ cpc'[u] = "moved" /\ cmsg'[t] = cmsg'[u]) => t = u
      BY <1>1 DEF IInv, SingleOwner
    <2>4. \A n \in Msgs :
              /\ Listed(n)' => ~Processed(n)' /\ ~Committing(n)' /\ ~Resubmitting(n)'
              /\ Processed(n)' => ~Committing(n)' /\ ~Resubmitting(n)'
              /\ Committing(n)' => ~Resubmitting(n)'
      BY <1>8, <1>9 DEF IInv, SingleOwner
    <2> QED
      BY <2>1, <2>2, <2>3, <2>4 DEF SingleOwner
  <1>11. QueueMatchesDisk' /\ SpoolFilesAreOwned'
    BY <1>1, <1>9, DiskKept
  <1>12. AcceptedIsKept' /\ DraftsAreNew'
    BY <1>1, HistoryKept DEF Settled
  <1>13. NamesAreMessages'
    BY <1>1, <1>3, <1>6 DEF IInv, NamesAreMessages
  <1>14. RemovalIsDue'
    BY <1>1, <1>6 DEF IInv, TypeOK, RemovalIsDue, Settled, Busy
  <1>15. DownMeansIdle'
    <2>1. up
      BY <1>1 DEF IInv, DownMeansIdle
    <2> QED
      BY <1>1, <2>1 DEF DownMeansIdle
  <1> QED
    BY <1>5, <1>7, <1>10, <1>11, <1>12, <1>13, <1>14, <1>15 DEF IInv

\* The rename to rsnd: the thread keeps the message.
LEMMA ResendMoveKeepsIInv ==
    ASSUME IInv, NEW w \in Workers, ResendMove(w)
    PROVE  IInv'
  <1> DEFINE m == wmsg[w]
  <1>1. /\ wpc[w] = "resend" /\ wpc' = [wpc EXCEPT ![w] = "moved"]
        /\ dir' = [dir EXCEPT ![m] = "rsnd"] /\ pszQueueDir' = [pszQueueDir EXCEPT ![m] = "rsnd"]
        /\ UNCHANGED <<slog, up, queue, iNumTries, prod, wmsg, cpc, cmsg,
                       accepted, delivered, notified, filtered, deleted, listed, misread, restarts>>
    BY DEF ResendMove, Goto, admin, ghost
  <1>2. Busy(w) /\ Busy(w)' /\ \A v \in Workers : v # w => wpc'[v] = wpc[v]
    BY <1>1 DEF IInv, TypeOK, Busy
  <1>3. m \in Msgs /\ Owned(m) /\ dir[m] \in Spooled /\ up
    BY <1>2, HeldMessage
  <1> HIDE DEF m
  <1>4. TypeOK'
    BY <1>1, <1>3 DEF IInv, TypeOK, queue, Dirs
  <1>5. /\ QueueCountsAgree' /\ SingleOwner'
        /\ \A n \in Msgs : Owned(n)' <=> Owned(n)
    BY <1>1, <1>2, OwnersKept DEF Committing, Busy
  <1>6. /\ dir'[m] = "rsnd" /\ pszQueueDir'[m] = "rsnd"
        /\ \A n \in Msgs : n # m => dir'[n] = dir[n] /\ pszQueueDir'[n] = pszQueueDir[n]
    BY <1>1, <1>3 DEF IInv, TypeOK
  <1>7. QueueMatchesDisk' /\ SpoolFilesAreOwned'
    BY <1>1, <1>3, <1>5, <1>6 DEF IInv, QueueMatchesDisk, SpoolFilesAreOwned, Spooled
  <1>8. AcceptedIsKept'
    BY <1>1, <1>6 DEF IInv, TypeOK, AcceptedIsKept, Settled
  <1>9. DraftsAreNew'
    BY <1>1, <1>3, <1>6 DEF IInv, DraftsAreNew, Settled, Spooled
  <1>10. NamesAreMessages' /\ DownMeansIdle'
    BY <1>1, <1>2, <1>3 DEF IInv, NamesAreMessages, DownMeansIdle, Busy
  <1>11. RemovalIsDue'
    BY <1>1, <1>2 DEF IInv, RemovalIsDue, Settled, TypeOK
  <1> QED
    BY <1>4, <1>5, <1>7, <1>8, <1>9, <1>10, <1>11 DEF IInv

\* A thread lets its message go, which nobody owns afterwards.
LEMMA OwnersReleased ==
    ASSUME IInv, NEW w \in Workers, Busy(w), Release(w), UNCHANGED <<queue, prod, admin>>
    PROVE  /\ QueueCountsAgree' /\ SingleOwner' /\ NamesAreMessages'
           /\ wpc' \in [Workers -> {"waiting", "woken", "extracted", "processing",
                                    "resend", "moved", "remove", "freeze"}]
           /\ wmsg' \in [Workers -> Msgs \cup {NoMsg}]
           /\ \A v \in Workers : Busy(v)' => Busy(v) /\ v # w /\ wpc'[v] = wpc[v] /\ wmsg'[v] = wmsg[v]
           /\ \A n \in Msgs : Owned(n)' <=> Owned(n) /\ n # wmsg[w]
  <1> DEFINE m == wmsg[w]
  <1>1. /\ wpc' = [wpc EXCEPT ![w] = "waiting"] /\ wmsg' = [wmsg EXCEPT ![w] = NoMsg]
        /\ cpc' = cpc /\ cmsg' = cmsg
    BY DEF Release, Goto, admin
  <1>2. QueueCountsAgree'
    BY DEF IInv, QueueCountsAgree, queue
  <1>3. /\ wpc' \in [Workers -> {"waiting", "woken", "extracted", "processing",
                                 "resend", "moved", "remove", "freeze"}]
        /\ wmsg' \in [Workers -> Msgs \cup {NoMsg}]
    BY <1>1 DEF IInv, TypeOK
  <1>4. /\ ~Busy(w)'
        /\ \A v \in Workers : v # w => (Busy(v)' <=> Busy(v)) /\ wpc'[v] = wpc[v] /\ wmsg'[v] = wmsg[v]
    BY <1>1 DEF IInv, TypeOK, Busy
  <1>5. \A v \in Workers : Busy(v) /\ v # w => wmsg[v] # m
    BY DEF IInv, SingleOwner
  <1>6. m \in Msgs /\ ~Listed(m) /\ ~Committing(m) /\ ~Resubmitting(m)
    BY HeldMessage DEF Listed
  <1> HIDE DEF m
  <1>7. ASSUME NEW n \in Msgs
        PROVE  /\ Listed(n)' <=> Listed(n)
               /\ Processed(n)' <=> Processed(n) /\ n # m
               /\ Committing(n)' <=> Committing(n)
               /\ Resubmitting(n)' <=> Resubmitting(n)
               /\ Owned(n)' <=> Owned(n) /\ n # m
    <2>1. Listed(n)' <=> Listed(n)
      BY DEF Listed, queue
    <2>2. (Committing(n)' <=> Committing(n)) /\ (Resubmitting(n)' <=> Resubmitting(n))
      BY <1>1 DEF Committing, Resubmitting
    <2>3. Processed(n)' <=> Processed(n) /\ n # m
      BY <1>4, <1>5 DEF Processed, m
    <2> QED
      BY <1>6, <2>1, <2>2, <2>3 DEF Owned
  <1>8. SingleOwner'
    <2>1. IsInjective(ReadyQueue)' /\ (Range(ReadyQueue) \cap RsndArenaQueue = {})'
      BY DEF IInv, SingleOwner, queue
    <2>2. \A u, v \in Workers : (Busy(u)' /\ Busy(v)' /\ wmsg'[u] = wmsg'[v]) => u = v
      BY <1>4 DEF IInv, SingleOwner
    <2>3. \A t, u \in Admins :
              (cpc'[t] = "moved" /\ cpc'[u] = "moved" /\ cmsg'[t] = cmsg'[u]) => t = u
      BY <1>1 DEF IInv, SingleOwner
    <2>4. \A n \in Msgs :
              /\ Listed(n)' => ~Processed(n)' /\ ~Committing(n)' /\ ~Resubmitting(n)'
              /\ Processed(n)' => ~Committing(n)' /\ ~Resubmitting(n)'
              /\ Committing(n)' => ~Resubmitting(n)'
      BY <1>7 DEF IInv, SingleOwner
    <2> QED
      BY <2>1, <2>2, <2>3, <2>4 DEF SingleOwner
  <1>9. NamesAreMessages'
    BY <1>1, <1>4 DEF IInv, NamesAreMessages
  <1> QED
    BY <1>2, <1>3, <1>4, <1>7, <1>8, <1>9 DEF m

LEMMA ResendFailsKeepsIInv ==
    ASSUME IInv, NEW w \in Workers, ResendFails(w)
    PROVE  IInv'
  <1>1. /\ wpc[w] = "resend" /\ Release(w) /\ IOFails
        /\ UNCHANGED <<dir, slog, up, queue, pszQueueDir, iNumTries, prod, admin,
                       accepted, delivered, notified, filtered, deleted, listed, misread, restarts>>
    BY DEF ResendFails, disk, handle, ghost
  <1>2. Busy(w) /\ up
    BY <1>1 DEF IInv, DownMeansIdle, Busy
  <1>3. /\ QueueCountsAgree' /\ SingleOwner' /\ NamesAreMessages'
        /\ wpc' \in [Workers -> {"waiting", "woken", "extracted", "processing",
                                 "resend", "moved", "remove", "freeze"}]
        /\ wmsg' \in [Workers -> Msgs \cup {NoMsg}]
        /\ \A v \in Workers : Busy(v)' => Busy(v) /\ v # w /\ wpc'[v] = wpc[v] /\ wmsg'[v] = wmsg[v]
        /\ \A n \in Msgs : Owned(n)' <=> Owned(n) /\ n # wmsg[w]
    BY <1>1, <1>2, OwnersReleased
  <1>4. TypeOK'
    BY <1>1, <1>3 DEF IInv, TypeOK, queue, admin
  <1>5. QueueMatchesDisk' /\ SpoolFilesAreOwned'
    BY <1>1, <1>3 DEF IInv, QueueMatchesDisk, SpoolFilesAreOwned
  <1>6. AcceptedIsKept' /\ DraftsAreNew'
    BY <1>1, HistoryKept DEF Settled
  <1>7. RemovalIsDue'
    BY <1>1, <1>3 DEF IInv, RemovalIsDue, Settled, Busy
  <1>8. DownMeansIdle'
    BY <1>1, <1>2 DEF DownMeansIdle
  <1> QED
    BY <1>3, <1>4, <1>5, <1>6, <1>7, <1>8 DEF IInv

\* QueDoMessageCleanup: a message that is removed was settled.
LEMMA CloseKeepsIInv ==
    ASSUME IInv, NEW w \in Workers, QueCloseMessage(w)
    PROVE  IInv'
  <1> DEFINE m == wmsg[w]
  <1>1. /\ Release(w) /\ wpc[w] \in {"freeze", "remove"}
        /\ UNCHANGED <<up, queue, pszQueueDir, iNumTries, prod, admin,
                       accepted, delivered, notified, filtered, deleted, listed, misread, restarts>>
    BY DEF QueCloseMessage, handle, ghost
  <1>2. Busy(w) /\ up
    BY <1>1 DEF IInv, DownMeansIdle, Busy
  <1>3. /\ QueueCountsAgree' /\ SingleOwner' /\ NamesAreMessages'
        /\ wpc' \in [Workers -> {"waiting", "woken", "extracted", "processing",
                                 "resend", "moved", "remove", "freeze"}]
        /\ wmsg' \in [Workers -> Msgs \cup {NoMsg}]
        /\ \A v \in Workers : Busy(v)' => Busy(v) /\ v # w /\ wpc'[v] = wpc[v] /\ wmsg'[v] = wmsg[v]
        /\ \A n \in Msgs : Owned(n)' <=> Owned(n) /\ n # wmsg[w]
    BY <1>1, <1>2, OwnersReleased
  <1>4. m \in Msgs /\ Owned(m) /\ dir[m] \in Spooled
    BY <1>2, HeldMessage
  <1>5. /\ \/ dir' = [dir EXCEPT ![m] = "froz"] /\ wpc[w] = "freeze"
           \/ dir' = [dir EXCEPT ![m] = "gone"] /\ wpc[w] = "remove"
           \/ dir' = dir /\ IOFails
        /\ slog' = slog \/ slog' = [slog EXCEPT ![m] = 0]
    BY DEF QueCloseMessage, CleanupFreeze, CleanupRemove
  <1> HIDE DEF m
  <1>6. dir' \in [Msgs -> Dirs] /\ slog' \in [Msgs -> Nat]
    <2>1. dir \in [Msgs -> Dirs] /\ slog \in [Msgs -> Nat]
      BY DEF IInv, TypeOK
    <2> QED
      BY <1>4, <1>5, <2>1 DEF Dirs
  <1>7. TypeOK'
    BY <1>1, <1>3, <1>6 DEF IInv, TypeOK, queue, admin
  <1>8. /\ \A n \in Msgs : n # m => dir'[n] = dir[n]
        /\ \/ dir'[m] = "froz"
           \/ dir'[m] = "gone" /\ wpc[w] = "remove"
           \/ dir'[m] = dir[m] /\ IOFails
    BY <1>4, <1>5 DEF IInv, TypeOK
  <1>9. QueueMatchesDisk' /\ SpoolFilesAreOwned'
    BY <1>1, <1>3, <1>8 DEF IInv, QueueMatchesDisk, SpoolFilesAreOwned, Spooled, m
  <1>10. wpc[w] = "remove" => ((RemoveSpoolErrors => ~IOFails) => Settled(m))
    BY DEF IInv, RemovalIsDue, m
  <1>11. AcceptedIsKept'
    <2> SUFFICES ASSUME RemoveSpoolErrors => ~IOFails, NEW n \in accepted',
                        dir'[n] \in {"none", "temp", "gone"}
                 PROVE  Settled(n)' \/ n \in deleted'
      BY DEF AcceptedIsKept
    <2>1. n \in accepted /\ n \in Msgs /\ (Settled(n)' <=> Settled(n)) /\ deleted' = deleted
      BY <1>1 DEF IInv, TypeOK, Settled
    <2>2. CASE n = m
      BY <1>4, <1>8, <1>10, <2>1, <2>2 DEF Spooled
    <2>3. CASE n # m
      BY <1>8, <2>1, <2>3 DEF IInv, AcceptedIsKept
    <2> QED
      BY <2>2, <2>3
  <1>12. DraftsAreNew'
    BY <1>1, <1>4, <1>8 DEF IInv, DraftsAreNew, Settled, Spooled
  <1>13. RemovalIsDue'
    BY <1>1, <1>3 DEF IInv, RemovalIsDue, Settled, Busy
  <1>14. DownMeansIdle'
    BY <1>1, <1>2 DEF DownMeansIdle
  <1> QED
    BY <1>3, <1>7, <1>9, <1>11, <1>12, <1>13, <1>14 DEF IInv

\* The message goes from the thread to the arena.
LEMMA ResendKeepsIInv ==
    ASSUME IInv, NEW w \in Workers, QueResendMessage(w)
    PROVE  IInv'
  <1> DEFINE m == wmsg[w]
  <1>1. /\ wpc[w] = "moved"
        /\ wpc' = [wpc EXCEPT ![w] = "waiting"] /\ wmsg' = [wmsg EXCEPT ![w] = NoMsg]
        /\ RsndArenaQueue' = RsndArenaQueue \cup {m} /\ iRsndArenaCount' = iRsndArenaCount + 1
        /\ UNCHANGED <<dir, slog, up, ReadyQueue, iReadyCount, hReadyEvent, pszQueueDir, iNumTries,
                       prod, cpc, cmsg, accepted, delivered, notified, filtered, deleted, listed, misread, restarts>>
    BY DEF QueResendMessage, Release, Goto, disk, handle, admin, ghost
  <1>2. Busy(w)
    BY <1>1 DEF Busy
  <1>3. /\ m \in Msgs /\ Owned(m) /\ m \notin Range(ReadyQueue) /\ m \notin RsndArenaQueue
        /\ ~Committing(m) /\ ~Resubmitting(m) /\ up
    BY <1>2, HeldMessage
  <1>4. /\ ~Busy(w)'
        /\ \A v \in Workers : v # w => (Busy(v)' <=> Busy(v)) /\ wpc'[v] = wpc[v] /\ wmsg'[v] = wmsg[v]
        /\ \A v \in Workers : Busy(v) /\ v # w => wmsg[v] # m
    BY <1>1, <1>2 DEF IInv, TypeOK, SingleOwner, Busy
  <1>5. QueueCountsAgree'
    <2>1. IsFiniteSet(RsndArenaQueue)
      BY MsgsAssumption, FS_Subset DEF IInv, TypeOK
    <2>2. Cardinality(RsndArenaQueue \cup {m}) = Cardinality(RsndArenaQueue) + 1
      BY <1>3, <2>1, FS_AddElement
    <2> QED
      BY <1>1, <2>2 DEF IInv, QueueCountsAgree
  <1>6. TypeOK'
    <2>1. wpc' \in [Workers -> {"waiting", "woken", "extracted", "processing",
                                "resend", "moved", "remove", "freeze"}]
      BY <1>1 DEF IInv, TypeOK
    <2>2. wmsg' \in [Workers -> Msgs \cup {NoMsg}]
      BY <1>1 DEF IInv, TypeOK
    <2>3. RsndArenaQueue' \subseteq Msgs /\ iRsndArenaCount' \in Nat
      BY <1>1, <1>3 DEF IInv, TypeOK
    <2> QED
      BY <1>1, <2>1, <2>2, <2>3 DEF IInv, TypeOK
  <1> HIDE DEF m
  <1>7. ASSUME NEW n \in Msgs
        PROVE  /\ Listed(n)' <=> Listed(n) \/ n = m
               /\ Processed(n)' <=> Processed(n) /\ n # m
               /\ Committing(n)' <=> Committing(n)
               /\ Resubmitting(n)' <=> Resubmitting(n)
               /\ Owned(n)' <=> Owned(n)
    <2>1. Listed(n)' <=> Listed(n) \/ n = m
      BY <1>1 DEF Listed
    <2>2. (Committing(n)' <=> Committing(n)) /\ (Resubmitting(n)' <=> Resubmitting(n))
      BY <1>1 DEF Committing, Resubmitting
    <2>3. Processed(n)' <=> Processed(n) /\ n # m
      BY <1>4 DEF Processed, m
    <2> QED
      BY <1>3, <2>1, <2>2, <2>3 DEF Owned
  <1>8. SingleOwner'
    <2>1. IsInjective(ReadyQueue)' /\ (Range(ReadyQueue) \cap RsndArenaQueue = {})'
      BY <1>1, <1>3 DEF IInv, SingleOwner
    <2>2. \A u, v \in Workers : (Busy(u)' /\ Busy(v)' /\ wmsg'[u] = wmsg'[v]) => u = v
      BY <1>4 DEF IInv, SingleOwner
    <2>3. \A t, u \in Admins :
              (cpc'[t] = "moved" /\ cpc'[u] = "moved" /\ cmsg'[t] = cmsg'[u]) => t = u
      BY <1>1 DEF IInv, SingleOwner
    <2>4. \A n \in Msgs :
              /\ Listed(n)' => ~Processed(n)' /\ ~Committing(n)' /\ ~Resubmitting(n)'
              /\ Processed(n)' => ~Committing(n)' /\ ~Resubmitting(n)'
              /\ Committing(n)' => ~Resubmitting(n)'
      BY <1>3, <1>7 DEF IInv, SingleOwner
    <2> QED
      BY <2>1, <2>2, <2>3, <2>4 DEF SingleOwner
  <1>9. QueueMatchesDisk' /\ SpoolFilesAreOwned'
    BY <1>1, <1>7, DiskKept
  <1>10. AcceptedIsKept' /\ DraftsAreNew'
    BY <1>1, HistoryKept DEF Settled
  <1>11. NamesAreMessages' /\ DownMeansIdle'
    BY <1>1, <1>3, <1>4 DEF IInv, NamesAreMessages, DownMeansIdle
  <1>12. RemovalIsDue'
    BY <1>1, <1>4 DEF IInv, RemovalIsDue, Settled, Busy
  <1> QED
    BY <1>5, <1>6, <1>8, <1>9, <1>10, <1>11, <1>12 DEF IInv
-----------------------------------------------------------------------------
(* Producers *)

\* QueAddNew of a message that is in no list.
LEMMA ListGrows ==
    ASSUME IInv, NEW m \in Msgs, ~Listed(m), QueAddNew(m)
    PROVE  /\ QueueCountsAgree'
           /\ ReadyQueue' \in Seq(Msgs) /\ iReadyCount' \in Nat /\ hReadyEvent' = TRUE
           /\ IsInjective(ReadyQueue') /\ Range(ReadyQueue') \cap RsndArenaQueue' = {}
           /\ RsndArenaQueue' = RsndArenaQueue /\ iRsndArenaCount' = iRsndArenaCount
           /\ \A n \in Msgs : Listed(n)' <=> Listed(n) \/ n = m
  <1>1. /\ ReadyQueue' = Append(ReadyQueue, m) /\ iReadyCount' = iReadyCount + 1
        /\ hReadyEvent' = TRUE
        /\ RsndArenaQueue' = RsndArenaQueue /\ iRsndArenaCount' = iRsndArenaCount
    BY DEF QueAddNew
  <1>2. /\ ReadyQueue \in Seq(Msgs) /\ IsInjective(ReadyQueue)
        /\ Range(ReadyQueue) \cap RsndArenaQueue = {}
        /\ m \notin Range(ReadyQueue) /\ m \notin RsndArenaQueue
        /\ iReadyCount = Len(ReadyQueue) /\ iReadyCount \in Nat
    BY DEF IInv, TypeOK, SingleOwner, QueueCountsAgree, Listed
  <1>3. /\ ReadyQueue' \in Seq(Msgs) /\ ReadyQueue' # <<>>
        /\ Len(ReadyQueue') = Len(ReadyQueue) + 1
        /\ IsInjective(ReadyQueue')
        /\ Range(ReadyQueue') = Range(ReadyQueue) \cup {m}
    BY <1>1, <1>2, AppendNew
  <1>4. QueueCountsAgree'
    BY <1>1, <1>2, <1>3 DEF IInv, QueueCountsAgree
  <1>5. \A n \in Msgs : Listed(n)' <=> Listed(n) \/ n = m
    BY <1>1, <1>3 DEF Listed
  <1> QED
    BY <1>1, <1>2, <1>3, <1>4, <1>5

LEMMA CommitKeepsIInv ==
    ASSUME IInv, NEW m \in Msgs, QueCommitMessage(m)
    PROVE  IInv'
  <1>1. /\ prod[m] = "moved" /\ prod' = [prod EXCEPT ![m] = "none"]
        /\ QueAddNew(m) /\ accepted' = accepted \cup {m}
        /\ UNCHANGED <<dir, slog, up, pszQueueDir, iNumTries, wpc, wmsg, cpc, cmsg,
                       delivered, notified, filtered, deleted, listed, misread, restarts>>
    BY DEF QueCommitMessage, disk, handle, worker, admin
  <1>2. /\ Committing(m) /\ Owned(m) /\ ~Listed(m) /\ ~Processed(m) /\ ~Resubmitting(m) /\ up
    BY <1>1 DEF IInv, SingleOwner, DownMeansIdle, Owned, Committing
  <1>3. /\ QueueCountsAgree'
        /\ ReadyQueue' \in Seq(Msgs) /\ iReadyCount' \in Nat /\ hReadyEvent' = TRUE
        /\ IsInjective(ReadyQueue') /\ Range(ReadyQueue') \cap RsndArenaQueue' = {}
        /\ RsndArenaQueue' = RsndArenaQueue /\ iRsndArenaCount' = iRsndArenaCount
        /\ \A n \in Msgs : Listed(n)' <=> Listed(n) \/ n = m
    BY <1>1, <1>2, ListGrows
  <1>4. /\ prod' \in [Msgs -> {"none", "writing", "moved"}]
        /\ prod'[m] = "none" /\ \A n \in Msgs : n # m => prod'[n] = prod[n]
    BY <1>1 DEF IInv, TypeOK
  <1>5. TypeOK'
    BY <1>1, <1>3, <1>4 DEF IInv, TypeOK
  <1>6. ASSUME NEW n \in Msgs
        PROVE  /\ Processed(n)' <=> Processed(n)
               /\ Committing(n)' <=> Committing(n) /\ n # m
               /\ Resubmitting(n)' <=> Resubmitting(n)
    BY <1>1, <1>4 DEF Processed, Busy, Committing, Resubmitting
  <1>7. \A n \in Msgs : Owned(n)' <=> Owned(n)
    BY <1>2, <1>3, <1>6 DEF Owned
  <1>8. SingleOwner'
    <2>1. \A u, v \in Workers : (Busy(u)' /\ Busy(v)' /\ wmsg'[u] = wmsg'[v]) => u = v
      BY <1>1 DEF IInv, SingleOwner, Busy
    <2>2. \A t, u \in Admins :
              (cpc'[t] = "moved" /\ cpc'[u] = "moved" /\ cmsg'[t] = cmsg'[u]) => t = u
      BY <1>1 DEF IInv, SingleOwner
    <2>3. \A n \in Msgs :
              /\ Listed(n)' => ~Processed(n)' /\ ~Committing(n)' /\ ~Resubmitting(n)'
              /\ Processed(n)' => ~Committing(n)' /\ ~Resubmitting(n)'
              /\ Committing(n)' => ~Resubmitting(n)'
      BY <1>2, <1>3, <1>6 DEF IInv, SingleOwner
    <2> QED
      BY <1>3, <2>1, <2>2, <2>3 DEF SingleOwner
  <1>9. QueueMatchesDisk' /\ SpoolFilesAreOwned'
    BY <1>1, <1>7, DiskKept
  <1>10. dir[m] \in Spooled
    BY <1>2 DEF IInv, QueueMatchesDisk
  <1>11. AcceptedIsKept'
    <2> SUFFICES ASSUME RemoveSpoolErrors => ~IOFails, NEW n \in accepted',
                        dir'[n] \in {"none", "temp", "gone"}
                 PROVE  Settled(n)' \/ n \in deleted'
      BY DEF AcceptedIsKept
    <2>1. n \in accepted
      BY <1>1, <1>10 DEF Spooled
    <2> QED
      BY <1>1, <2>1 DEF IInv, AcceptedIsKept, Settled
  <1>12. DraftsAreNew'
    BY <1>1, <1>4, <1>10 DEF IInv, DraftsAreNew, Settled, Spooled
  <1>13. NamesAreMessages' /\ RemovalIsDue' /\ DownMeansIdle'
    BY <1>1, <1>2 DEF IInv, NamesAreMessages, RemovalIsDue, DownMeansIdle, Settled, Busy
  <1> QED
    BY <1>3, <1>5, <1>8, <1>9, <1>11, <1>12, <1>13 DEF IInv

\* The steps of a producer before the message is in the spool, and its rename.
LEMMA DraftStepKeepsIInv ==
    ASSUME IInv, NEW m \in Msgs, QueCreateMessage(m) \/ Abandon(m)
    PROVE  IInv'
  <1>1. /\ prod[m] # "moved" /\ prod' \in [Msgs -> {"none", "writing", "moved"}]
        /\ prod'[m] # "moved" /\ dir[m] \in {"none", "temp"} /\ dir'[m] \in {"temp", "gone"}
        /\ prod'[m] = "writing" => dir'[m] = "temp"
        /\ dir' \in [Msgs -> Dirs] /\ pszQueueDir' \in [Msgs -> Dirs] /\ iNumTries' \in [Msgs -> Nat]
        /\ \A n \in Msgs : n # m => dir'[n] = dir[n] /\ pszQueueDir'[n] = pszQueueDir[n]
                                    /\ prod'[n] = prod[n]
        /\ up
    <2>1. CASE QueCreateMessage(m)
      <3>1. prod[m] # "moved"
        BY <2>1 DEF QueCreateMessage, IInv, QueueMatchesDisk, Owned, Committing, Spooled
      <3> QED
        BY <2>1, <3>1 DEF QueCreateMessage, IInv, TypeOK, Dirs
    <2>2. CASE Abandon(m)
      <3>1. dir[m] = "temp" /\ up
        BY <2>2 DEF Abandon, IInv, DraftsAreNew, DownMeansIdle
      <3> QED
        BY <2>2, <3>1 DEF Abandon, IInv, TypeOK, Dirs, handle
    <2> QED
      BY <2>1, <2>2
  <1>2. UNCHANGED <<slog, up, queue, worker, admin, ghost, listed, misread, restarts>>
    BY DEF QueCreateMessage, Abandon
  <1>3. TypeOK'
    BY <1>1, <1>2 DEF IInv, TypeOK, queue, worker, admin, ghost
  <1>4. /\ QueueCountsAgree' /\ SingleOwner'
        /\ \A n \in Msgs : Owned(n)' <=> Owned(n)
    BY <1>1, <1>2, OwnersKept DEF Committing, Busy, worker, admin
  <1>5. ~Owned(m)
    BY <1>1 DEF IInv, QueueMatchesDisk, Spooled
  <1>6. QueueMatchesDisk' /\ SpoolFilesAreOwned'
    BY <1>1, <1>2, <1>4, <1>5, DiskKept DEF Spooled
  <1>7. m \notin accepted /\ ~Settled(m) /\ m \notin deleted
    BY <1>1 DEF IInv, DraftsAreNew
  <1>8. \A n \in Msgs : Settled(n)' <=> Settled(n)
    BY <1>2 DEF Settled, ghost
  <1>9. AcceptedIsKept'
    <2> SUFFICES ASSUME RemoveSpoolErrors => ~IOFails, NEW n \in accepted',
                        dir'[n] \in {"none", "temp", "gone"}
                 PROVE  Settled(n)' \/ n \in deleted'
      BY DEF AcceptedIsKept
    <2>1. n \in accepted /\ n \in Msgs /\ n # m /\ deleted' = deleted
      BY <1>2, <1>7 DEF IInv, TypeOK, ghost
    <2> QED
      BY <1>1, <1>8, <2>1 DEF IInv, AcceptedIsKept
  <1>10. DraftsAreNew'
    BY <1>1, <1>2, <1>7, <1>8 DEF IInv, DraftsAreNew, ghost
  <1>11. NamesAreMessages' /\ RemovalIsDue' /\ DownMeansIdle'
    BY <1>1, <1>2 DEF IInv, NamesAreMessages, RemovalIsDue, DownMeansIdle, Settled, Busy,
                      worker, admin, ghost
  <1> QED
    BY <1>3, <1>4, <1>6, <1>9, <1>10, <1>11 DEF IInv

LEMMA CommitMoveKeepsIInv ==
    ASSUME IInv, NEW m \in Msgs, CommitMove(m)
    PROVE  IInv'
  <1>1. /\ prod[m] = "writing" /\ prod' = [prod EXCEPT ![m] = "moved"]
        /\ dir' = [dir EXCEPT ![m] = "mess"] /\ pszQueueDir' = [pszQueueDir EXCEPT ![m] = "mess"]
        /\ UNCHANGED <<slog, up, queue, iNumTries, wpc, wmsg, cpc, cmsg,
                       accepted, delivered, notified, filtered, deleted, listed, misread, restarts>>
    BY DEF CommitMove, worker, admin, ghost
  <1>2. dir[m] = "temp" /\ ~Settled(m) /\ m \notin accepted /\ up
    BY <1>1 DEF IInv, DraftsAreNew, DownMeansIdle
  <1>3. ~Owned(m)
    BY <1>2 DEF IInv, QueueMatchesDisk, Spooled
  <1>4. /\ prod' \in [Msgs -> {"none", "writing", "moved"}]
        /\ dir' \in [Msgs -> Dirs] /\ pszQueueDir' \in [Msgs -> Dirs]
        /\ prod'[m] = "moved" /\ dir'[m] = "mess" /\ pszQueueDir'[m] = "mess"
        /\ \A n \in Msgs : n # m => dir'[n] = dir[n] /\ pszQueueDir'[n] = pszQueueDir[n]
                                    /\ prod'[n] = prod[n]
    BY <1>1 DEF IInv, TypeOK, Dirs
  <1>5. TypeOK'
    BY <1>1, <1>4 DEF IInv, TypeOK, queue
  <1>6. QueueCountsAgree'
    BY <1>1 DEF IInv, QueueCountsAgree, queue
  <1>7. ASSUME NEW n \in Msgs
        PROVE  /\ Listed(n)' <=> Listed(n)
               /\ Processed(n)' <=> Processed(n)
               /\ Committing(n)' <=> Committing(n) \/ n = m
               /\ Resubmitting(n)' <=> Resubmitting(n)
               /\ Owned(n)' <=> Owned(n) \/ n = m
    <2>1. (Listed(n)' <=> Listed(n)) /\ (Processed(n)' <=> Processed(n))
      BY <1>1 DEF Listed, Processed, Busy, queue
    <2>2. (Committing(n)' <=> Committing(n) \/ n = m) /\ (Resubmitting(n)' <=> Resubmitting(n))
      BY <1>1, <1>4 DEF Committing, Resubmitting
    <2> QED
      BY <2>1, <2>2 DEF Owned
  <1>8. SingleOwner'
    <2>1. IsInjective(ReadyQueue)' /\ (Range(ReadyQueue) \cap RsndArenaQueue = {})'
      BY <1>1 DEF IInv, SingleOwner, queue
    <2>2. \A u, v \in Workers : (Busy(u)' /\ Busy(v)' /\ wmsg'[u] = wmsg'[v]) => u = v
      BY <1>1 DEF IInv, SingleOwner, Busy
    <2>3. \A t, u \in Admins :
              (cpc'[t] = "moved" /\ cpc'[u] = "moved" /\ cmsg'[t] = cmsg'[u]) => t = u
      BY <1>1 DEF IInv, SingleOwner
    <2>4. \A n \in Msgs :
              /\ Listed(n)' => ~Processed(n)' /\ ~Committing(n)' /\ ~Resubmitting(n)'
              /\ Processed(n)' => ~Committing(n)' /\ ~Resubmitting(n)'
              /\ Committing(n)' => ~Resubmitting(n)'
      BY <1>3, <1>7 DEF IInv, SingleOwner, Owned
    <2> QED
      BY <2>1, <2>2, <2>3, <2>4 DEF SingleOwner
  <1>9. QueueMatchesDisk' /\ SpoolFilesAreOwned'
    BY <1>1, <1>4, <1>7 DEF IInv, QueueMatchesDisk, SpoolFilesAreOwned, Spooled
  <1>10. \A n \in Msgs : Settled(n)' <=> Settled(n)
    BY <1>1 DEF Settled
  <1>11. AcceptedIsKept'
    <2> SUFFICES ASSUME RemoveSpoolErrors => ~IOFails, NEW n \in accepted',
                        dir'[n] \in {"none", "temp", "gone"}
                 PROVE  Settled(n)' \/ n \in deleted'
      BY DEF AcceptedIsKept
    <2>1. n \in accepted /\ n \in Msgs /\ n # m
      BY <1>1, <1>2 DEF IInv, TypeOK
    <2> QED
      BY <1>1, <1>4, <1>10, <2>1 DEF IInv, AcceptedIsKept
  <1>12. DraftsAreNew'
    BY <1>1, <1>4, <1>10 DEF IInv, DraftsAreNew
  <1>13. NamesAreMessages' /\ RemovalIsDue' /\ DownMeansIdle'
    BY <1>1, <1>2 DEF IInv, NamesAreMessages, RemovalIsDue, DownMeansIdle, Settled, Busy
  <1> QED
    BY <1>5, <1>6, <1>8, <1>9, <1>11, <1>12, <1>13 DEF IInv
-----------------------------------------------------------------------------
(* The resend arena *)

LEMMA ArenaKeepsIInv ==
    ASSUME IInv, NEW S \in SUBSET RsndArenaQueue, QueScanRsndArena(S) \/ QueFlushRsndArena(S)
    PROVE  IInv'
  <1>1. /\ MoveToReady(S)
        /\ UNCHANGED <<dir, slog, up, pszQueueDir, iNumTries, prod, wpc, wmsg, cpc, cmsg,
                       accepted, delivered, notified, filtered, deleted, listed, misread, restarts>>
    BY DEF QueScanRsndArena, QueFlushRsndArena, disk, handle, worker, admin, ghost
  <1>2. PICK o \in Orders(S) : ReadyQueue' = ReadyQueue \o o
    BY <1>1 DEF MoveToReady
  <1>3. /\ RsndArenaQueue' = RsndArenaQueue \ S
        /\ iRsndArenaCount' = iRsndArenaCount - Cardinality(S)
        /\ iReadyCount' = iReadyCount + Cardinality(S)
        /\ hReadyEvent' = (hReadyEvent \/ iReadyCount' > 0)
    BY <1>1 DEF MoveToReady
  <1>4. /\ ReadyQueue \in Seq(Msgs) /\ IsInjective(ReadyQueue)
        /\ Range(ReadyQueue) \cap RsndArenaQueue = {} /\ RsndArenaQueue \subseteq Msgs
        /\ iReadyCount = Len(ReadyQueue) /\ iReadyCount \in Nat
        /\ iRsndArenaCount = Cardinality(RsndArenaQueue)
        /\ hReadyEvent \in BOOLEAN /\ (hReadyEvent <=> ReadyQueue # <<>>)
    BY DEF IInv, TypeOK, SingleOwner, QueueCountsAgree
  <1>5. IsFiniteSet(RsndArenaQueue) /\ IsFiniteSet(S) /\ S \in SUBSET Msgs
    BY <1>4, MsgsAssumption, FS_Subset
  <1>6. /\ ReadyQueue' \in Seq(Msgs) /\ Len(ReadyQueue') = Len(ReadyQueue) + Cardinality(S)
        /\ IsInjective(ReadyQueue') /\ Range(ReadyQueue') = Range(ReadyQueue) \cup S
    BY <1>2, <1>4, <1>5, AppendOrder
  <1>7. /\ Cardinality(RsndArenaQueue \ S) = Cardinality(RsndArenaQueue) - Cardinality(S)
        /\ Cardinality(RsndArenaQueue \ S) \in Nat /\ Cardinality(S) \in Nat
    <2>1. RsndArenaQueue \cap S = S
      OBVIOUS
    <2> QED
      BY <1>5, <2>1, FS_Difference, FS_CardinalityType
  <1>8. QueueCountsAgree' /\ hReadyEvent' \in BOOLEAN /\ iReadyCount' \in Nat /\ iRsndArenaCount' \in Nat
    <2>1. iReadyCount' = Len(ReadyQueue') /\ iReadyCount' \in Nat
      BY <1>3, <1>4, <1>6, <1>7
    <2>2. iRsndArenaCount' = Cardinality(RsndArenaQueue') /\ iRsndArenaCount' \in Nat
      BY <1>3, <1>4, <1>7
    <2>3. iReadyCount' > 0 <=> ReadyQueue' # <<>>
      BY <1>6, <2>1, EmptySeq, LenProperties
    <2>4. hReadyEvent => iReadyCount' > 0
      <3>1. ReadyQueue # <<>> => Len(ReadyQueue) > 0
        BY <1>4, EmptySeq, LenProperties
      <3> QED
        BY <1>3, <1>4, <1>7, <3>1
    <2> QED
      BY <1>3, <2>1, <2>2, <2>3, <2>4 DEF QueueCountsAgree
  <1>9. TypeOK'
    BY <1>1, <1>3, <1>4, <1>6, <1>8 DEF IInv, TypeOK
  <1>10. ASSUME NEW n \in Msgs
         PROVE  /\ Listed(n)' <=> Listed(n)
                /\ Processed(n)' <=> Processed(n)
                /\ Committing(n)' <=> Committing(n)
                /\ Resubmitting(n)' <=> Resubmitting(n)
    BY <1>1, <1>3, <1>6 DEF Listed, Processed, Busy, Committing, Resubmitting
  <1>11. SingleOwner'
    <2>1. IsInjective(ReadyQueue)' /\ (Range(ReadyQueue) \cap RsndArenaQueue = {})'
      BY <1>3, <1>4, <1>6
    <2>2. \A u, v \in Workers : (Busy(u)' /\ Busy(v)' /\ wmsg'[u] = wmsg'[v]) => u = v
      BY <1>1 DEF IInv, SingleOwner, Busy
    <2>3. \A t, u \in Admins :
              (cpc'[t] = "moved" /\ cpc'[u] = "moved" /\ cmsg'[t] = cmsg'[u]) => t = u
      BY <1>1 DEF IInv, SingleOwner
    <2>4. \A n \in Msgs :
              /\ Listed(n)' => ~Processed(n)' /\ ~Committing(n)' /\ ~Resubmitting(n)'
              /\ Processed(n)' => ~Committing(n)' /\ ~Resubmitting(n)'
              /\ Committing(n)' => ~Resubmitting(n)'
      BY <1>10 DEF IInv, SingleOwner
    <2> QED
      BY <2>1, <2>2, <2>3, <2>4 DEF SingleOwner
  <1>12. QueueMatchesDisk' /\ SpoolFilesAreOwned'
    BY <1>1, <1>10, DiskKept DEF Owned
  <1>13. AcceptedIsKept' /\ DraftsAreNew'
    BY <1>1, HistoryKept DEF Settled
  <1>14. NamesAreMessages' /\ RemovalIsDue' /\ DownMeansIdle'
    BY <1>1 DEF IInv, NamesAreMessages, RemovalIsDue, DownMeansIdle, Settled, Busy
  <1> QED
    BY <1>8, <1>9, <1>11, <1>12, <1>13, <1>14 DEF IInv
-----------------------------------------------------------------------------
(* Opening, closing and crashing *)

\* What QueOpen loads, and the slog files that it could not open.
LEMMA OpenLoads ==
    ASSUME QueOpen
    PROVE  \E mess \in SUBSET {m \in Msgs : dir[m] = "mess"},
              rsnd \in SUBSET {m \in Msgs : dir[m] = "rsnd"} :
           \E new \in SUBSET rsnd :
              /\ ~IOFails => /\ mess = {m \in Msgs : dir[m] = "mess"}
                             /\ rsnd = {m \in Msgs : dir[m] = "rsnd"}
              /\ ReadyQueue' \in Orders(mess) /\ iReadyCount' = Cardinality(mess)
              /\ hReadyEvent' = (mess # {})
              /\ RsndArenaQueue' = rsnd /\ iRsndArenaCount' = Cardinality(rsnd)
              /\ pszQueueDir' = [m \in Msgs |-> IF m \in mess \cup rsnd THEN dir[m]
                                                ELSE pszQueueDir[m]]
              /\ iNumTries' = [m \in Msgs |-> IF m \in rsnd \ new THEN slog[m]
                                              ELSE IF m \in mess \cup new THEN 0
                                              ELSE iNumTries[m]]
              /\ misread' = misread \cup new
  <1>1. \A S : Loaded(S) \subseteq SUBSET S /\ (~IOFails => Loaded(S) = {S})
               /\ Unopened(S) \subseteq SUBSET S
    BY DEF Loaded, Unopened
  <1>2. PICK mess \in Loaded({m \in Msgs : dir[m] = "mess"}),
             rsnd \in Loaded({m \in Msgs : dir[m] = "rsnd"}) :
           \E new \in Unopened(rsnd) :
              /\ ReadyQueue' \in Orders(mess) /\ iReadyCount' = Cardinality(mess)
              /\ hReadyEvent' = (mess # {})
              /\ RsndArenaQueue' = rsnd /\ iRsndArenaCount' = Cardinality(rsnd)
              /\ pszQueueDir' = [m \in Msgs |-> IF m \in mess \cup rsnd THEN dir[m]
                                                ELSE pszQueueDir[m]]
              /\ iNumTries' = [m \in Msgs |-> IF m \in rsnd \ new THEN slog[m]
                                              ELSE IF m \in mess \cup new THEN 0
                                              ELSE iNumTries[m]]
              /\ misread' = misread \cup new
    BY DEF QueOpen
  <1>3. PICK new \in Unopened(rsnd) :
              /\ ReadyQueue' \in Orders(mess) /\ iReadyCount' = Cardinality(mess)
              /\ hReadyEvent' = (mess # {})
              /\ RsndArenaQueue' = rsnd /\ iRsndArenaCount' = Cardinality(rsnd)
              /\ pszQueueDir' = [m \in Msgs |-> IF m \in mess \cup rsnd THEN dir[m]
                                                ELSE pszQueueDir[m]]
              /\ iNumTries' = [m \in Msgs |-> IF m \in rsnd \ new THEN slog[m]
                                              ELSE IF m \in mess \cup new THEN 0
                                              ELSE iNumTries[m]]
              /\ misread' = misread \cup new
    BY <1>2
  <1>4. mess \in SUBSET {m \in Msgs : dir[m] = "mess"} /\ rsnd \in SUBSET {m \in Msgs : dir[m] = "rsnd"}
        /\ new \in SUBSET rsnd
    BY <1>1, <1>2, <1>3
  <1>5. ~IOFails => /\ mess = {m \in Msgs : dir[m] = "mess"}
                    /\ rsnd = {m \in Msgs : dir[m] = "rsnd"}
    BY <1>1, <1>2
  <1> QED
    BY <1>3, <1>4, <1>5

LEMMA OpenKeepsIInv ==
    ASSUME IInv, QueOpen
    PROVE  IInv'
  <1>a. PICK mess \in SUBSET {m \in Msgs : dir[m] = "mess"},
             rsnd \in SUBSET {m \in Msgs : dir[m] = "rsnd"} :
           \E new \in SUBSET rsnd :
              /\ ~IOFails => /\ mess = {m \in Msgs : dir[m] = "mess"}
                             /\ rsnd = {m \in Msgs : dir[m] = "rsnd"}
              /\ ReadyQueue' \in Orders(mess) /\ iReadyCount' = Cardinality(mess)
              /\ hReadyEvent' = (mess # {})
              /\ RsndArenaQueue' = rsnd /\ iRsndArenaCount' = Cardinality(rsnd)
              /\ pszQueueDir' = [m \in Msgs |-> IF m \in mess \cup rsnd THEN dir[m]
                                                ELSE pszQueueDir[m]]
              /\ iNumTries' = [m \in Msgs |-> IF m \in rsnd \ new THEN slog[m]
                                              ELSE IF m \in mess \cup new THEN 0
                                              ELSE iNumTries[m]]
              /\ misread' = misread \cup new
    BY OpenLoads
  <1>b. /\ ~up /\ up'
        /\ UNCHANGED <<dir, slog, prod, wpc, wmsg, cpc, cmsg,
                       accepted, delivered, notified, filtered, deleted, listed, restarts>>
    BY DEF QueOpen, disk, worker, admin, ghost
  <1>c. /\ slog \in [Msgs -> Nat] /\ iNumTries \in [Msgs -> Nat] /\ misread \subseteq Msgs
        /\ dir \in [Msgs -> Dirs] /\ pszQueueDir \in [Msgs -> Dirs]
    BY DEF IInv, TypeOK
  <1>d. /\ ~IOFails => /\ mess = {m \in Msgs : dir[m] = "mess"}
                       /\ rsnd = {m \in Msgs : dir[m] = "rsnd"}
        /\ pszQueueDir' \in [Msgs -> Dirs] /\ iNumTries' \in [Msgs -> Nat] /\ misread' \subseteq Msgs
    BY <1>a, <1>c
  <1>1. /\ ~up /\ up'
        /\ ReadyQueue' \in Orders(mess) /\ iReadyCount' = Cardinality(mess)
        /\ hReadyEvent' = (mess # {})
        /\ RsndArenaQueue' = rsnd /\ iRsndArenaCount' = Cardinality(rsnd)
        /\ pszQueueDir' = [m \in Msgs |-> IF m \in mess \cup rsnd THEN dir[m] ELSE pszQueueDir[m]]
        /\ UNCHANGED <<dir, slog, prod, wpc, wmsg, cpc, cmsg,
                       accepted, delivered, notified, filtered, deleted, listed, restarts>>
    BY <1>a, <1>b
  <1>2. /\ IsFiniteSet(mess) /\ IsFiniteSet(rsnd) /\ mess \in SUBSET Msgs /\ rsnd \in SUBSET Msgs
        /\ mess \cap rsnd = {}
        /\ \A m \in mess \cup rsnd : dir[m] \in Spooled
    BY MsgsAssumption, FS_Subset DEF Spooled
  <1>3. /\ ReadyQueue' \in Seq(Msgs) /\ Len(ReadyQueue') = Cardinality(mess)
        /\ IsInjective(ReadyQueue') /\ Range(ReadyQueue') = mess
        /\ Cardinality(mess) \in Nat /\ Cardinality(rsnd) \in Nat
    BY <1>1, <1>2, OrderOfSet, FS_CardinalityType
  <1>4. mess # {} <=> ReadyQueue' # <<>>
    BY <1>2, <1>3, EmptySeq, FS_EmptySet, LenProperties
  <1>5. QueueCountsAgree' /\ hReadyEvent' \in BOOLEAN
    BY <1>1, <1>3, <1>4 DEF QueueCountsAgree
  <1>6. TypeOK'
    <2> QED
      BY <1>1, <1>2, <1>3, <1>5, <1>d DEF IInv, TypeOK
  <1>7. \A w \in Workers : ~Busy(w)'
    BY <1>1 DEF IInv, DownMeansIdle, Busy
  <1>8. \A m \in Msgs : /\ Listed(m)' <=> m \in mess \cup rsnd
                        /\ ~Processed(m)' /\ ~Committing(m)' /\ ~Resubmitting(m)'
    <2> SUFFICES ASSUME NEW m \in Msgs
                 PROVE  /\ Listed(m)' <=> m \in mess \cup rsnd
                        /\ ~Processed(m)' /\ ~Committing(m)' /\ ~Resubmitting(m)'
      OBVIOUS
    <2>1. Listed(m)' <=> m \in mess \cup rsnd
      BY <1>1, <1>3 DEF Listed
    <2>2. ~Processed(m)'
      BY <1>7 DEF Processed
    <2>3. ~Committing(m)' /\ ~Resubmitting(m)'
      BY <1>1 DEF IInv, DownMeansIdle, Committing, Resubmitting
    <2> QED
      BY <2>1, <2>2, <2>3
  <1>9. SingleOwner'
    <2>1. IsInjective(ReadyQueue)' /\ (Range(ReadyQueue) \cap RsndArenaQueue = {})'
      BY <1>1, <1>2, <1>3
    <2>2. \A t \in Admins : cpc'[t] # "moved"
      BY <1>1 DEF IInv, DownMeansIdle
    <2> QED
      BY <1>7, <1>8, <2>1, <2>2 DEF SingleOwner
  <1>10. QueueMatchesDisk' /\ SpoolFilesAreOwned'
    <2>1. QueueMatchesDisk'
      BY <1>1, <1>2, <1>8 DEF QueueMatchesDisk, Owned
    <2>2. SpoolFilesAreOwned'
      BY <1>1, <1>8, <1>d DEF SpoolFilesAreOwned, Owned, Spooled
    <2> QED
      BY <2>1, <2>2
  <1>11. AcceptedIsKept' /\ DraftsAreNew'
    BY <1>1, HistoryKept DEF Settled
  <1>12. NamesAreMessages' /\ RemovalIsDue' /\ DownMeansIdle'
    BY <1>1 DEF IInv, NamesAreMessages, RemovalIsDue, DownMeansIdle, Settled, Busy
  <1> QED
    BY <1>5, <1>6, <1>9, <1>10, <1>11, <1>12 DEF IInv

LEMMA LoseMemoryKeepsIInv ==
    ASSUME IInv, LoseMemory
    PROVE  IInv'
  <1>1. /\ restarts < MaxRestarts /\ restarts' = restarts + 1 /\ up' = FALSE
        /\ ReadyQueue' = <<>> /\ iReadyCount' = 0 /\ hReadyEvent' = FALSE
        /\ RsndArenaQueue' = {} /\ iRsndArenaCount' = 0
        /\ prod' = [m \in Msgs |-> "none"]
        /\ wpc' = [w \in Workers |-> "waiting"] /\ wmsg' = [w \in Workers |-> NoMsg]
        /\ cpc' = [t \in Admins |-> "idle"] /\ cmsg' = [t \in Admins |-> NoMsg]
        /\ UNCHANGED <<dir, slog, pszQueueDir, iNumTries,
                       accepted, delivered, notified, filtered, deleted, listed, misread>>
    BY DEF LoseMemory, disk, handle, ghost
  <1>2. restarts' \in 0..MaxRestarts
    BY <1>1, SettingsAssumption DEF IInv, TypeOK
  <1>3. ReadyQueue' \in Seq(Msgs) /\ Range(ReadyQueue') = {} /\ IsInjective(ReadyQueue') /\ Len(ReadyQueue') = 0
    BY <1>1, EmptySeq DEF Range, IsInjective
  <1>4. TypeOK'
    BY <1>1, <1>2, <1>3 DEF IInv, TypeOK
  <1>5. QueueCountsAgree'
    BY <1>1, <1>3, FS_EmptySet DEF QueueCountsAgree
  <1>6. \A w \in Workers : ~Busy(w)'
    BY <1>1 DEF Busy
  <1>7. \A m \in Msgs : ~Listed(m)' /\ ~Processed(m)' /\ ~Committing(m)' /\ ~Resubmitting(m)'
    BY <1>1, <1>3, <1>6 DEF Listed, Processed, Committing, Resubmitting
  <1>8. SingleOwner'
    <2>1. \A t \in Admins : cpc'[t] # "moved"
      BY <1>1
    <2> QED
      BY <1>1, <1>3, <1>6, <1>7, <2>1 DEF SingleOwner
  <1>9. QueueMatchesDisk' /\ SpoolFilesAreOwned'
    BY <1>1, <1>7 DEF QueueMatchesDisk, SpoolFilesAreOwned, Owned
  <1>10. \A m \in Msgs : Settled(m)' <=> Settled(m)
    BY <1>1 DEF Settled
  <1>11. AcceptedIsKept'
    BY <1>1, <1>10 DEF IInv, AcceptedIsKept, TypeOK
  <1>12. DraftsAreNew'
    BY <1>1, <1>10 DEF IInv, DraftsAreNew
  <1>13. NamesAreMessages' /\ RemovalIsDue' /\ DownMeansIdle'
    BY <1>1, <1>6 DEF NamesAreMessages, RemovalIsDue, DownMeansIdle
  <1> QED
    BY <1>4, <1>5, <1>8, <1>9, <1>11, <1>12, <1>13 DEF IInv
-----------------------------------------------------------------------------
(* CTRL sessions *)

LEMMA CommandStepKeepsIInv ==
    ASSUME IInv, NEW t \in Admins,
           \/ FrozList(t) \/ QueInitMessageStats(t) \/ UnFreezeFails(t)
           \/ \E m \in Msgs, command \in {"submit", "delete"} : FrozCommand(t, m, command)
    PROVE  IInv'
  <1>1. UNCHANGED <<dir, up, queue, handle, prod, worker, ghost, restarts>>
    BY DEF FrozList, QueInitMessageStats, UnFreezeFails, FrozCommand, disk
  <1>2. cpc[t] # "idle" => cmsg[t] \in Msgs /\ up
    BY DEF IInv, NamesAreMessages, DownMeansIdle
  <1> DEFINE Effect ==
        /\ slog' \in [Msgs -> Nat] /\ listed' \subseteq Msgs /\ misread' = misread
        /\ cpc' \in [Admins -> {"idle", "submit", "reset", "moved", "delete"}]
        /\ cmsg' \in [Admins -> Msgs \cup {NoMsg}]
        /\ cpc[t] # "moved" /\ cpc'[t] # "moved"
        /\ cpc'[t] # "idle" => cmsg'[t] \in Msgs /\ up
        /\ \A u \in Admins : u # t => cpc'[u] = cpc[u] /\ cmsg'[u] = cmsg[u]
  <1>3. Effect
    <2>1. CASE FrozList(t)
      BY <2>1 DEF FrozList, disk, admin, IInv, TypeOK
    <2>2. CASE QueInitMessageStats(t)
      BY <1>2, <2>2 DEF QueInitMessageStats, IInv, TypeOK
    <2>3. CASE UnFreezeFails(t)
      BY <2>3 DEF UnFreezeFails, EndCommand, disk, IInv, TypeOK
    <2>4. ASSUME NEW m \in Msgs, NEW command \in {"submit", "delete"}, FrozCommand(t, m, command)
          PROVE  Effect
      BY <2>4 DEF FrozCommand, disk, IInv, TypeOK
    <2> QED
      BY <2>1, <2>2, <2>3, <2>4
  <1>4. TypeOK'
    BY <1>1, <1>3 DEF IInv, TypeOK, queue, handle, worker, ghost
  <1>5. \A u \in Admins : /\ cpc'[u] = "moved" <=> cpc[u] = "moved"
                          /\ cpc[u] = "moved" => cmsg'[u] = cmsg[u]
                          /\ cpc'[u] # "idle" => cmsg'[u] \in Msgs /\ up
    BY <1>3 DEF IInv, NamesAreMessages, DownMeansIdle
  <1> QED
    BY <1>1, <1>4, <1>5, AdminStepKeepsIInv

\* The rename of frozsubmit: the session becomes the owner and the history of
\* the message is forgotten.
LEMMA UnFreezeMoveKeepsIInv ==
    ASSUME IInv, NEW t \in Admins, UnFreezeMove(t)
    PROVE  IInv'
  <1> DEFINE m == cmsg[t]
  <1>1. /\ cpc[t] = "reset" /\ dir[m] = "froz" /\ cpc' = [cpc EXCEPT ![t] = "moved"]
        /\ dir' = [dir EXCEPT ![m] = "mess"] /\ pszQueueDir' = [pszQueueDir EXCEPT ![m] = "mess"]
        /\ iNumTries' = [iNumTries EXCEPT ![m] = 0]
        /\ notified' = notified \ {m} /\ filtered' = filtered \ {m}
        /\ delivered' = [delivered EXCEPT ![m] = 0]
        /\ UNCHANGED <<slog, up, queue, prod, wpc, wmsg, cmsg, accepted, deleted, listed, misread, restarts>>
    BY DEF UnFreezeMove, worker
  <1>2. m \in Msgs /\ up
    BY <1>1 DEF IInv, NamesAreMessages, DownMeansIdle
  <1>3. ~Owned(m)
    BY <1>1, <1>2 DEF IInv, QueueMatchesDisk, Spooled
  <1> HIDE DEF m
  <1>4. /\ dir' \in [Msgs -> Dirs] /\ pszQueueDir' \in [Msgs -> Dirs]
        /\ iNumTries' \in [Msgs -> Nat] /\ delivered' \in [Msgs -> Nat]
        /\ dir'[m] = "mess" /\ pszQueueDir'[m] = "mess"
        /\ \A n \in Msgs : n # m => /\ dir'[n] = dir[n] /\ pszQueueDir'[n] = pszQueueDir[n]
                                    /\ delivered'[n] = delivered[n]
    BY <1>1, <1>2 DEF IInv, TypeOK, Dirs
  <1>5. /\ cpc' \in [Admins -> {"idle", "submit", "reset", "moved", "delete"}]
        /\ cpc'[t] = "moved" /\ \A u \in Admins : u # t => cpc'[u] = cpc[u]
    BY <1>1 DEF IInv, TypeOK
  <1>6. TypeOK'
    BY <1>1, <1>4, <1>5 DEF IInv, TypeOK, queue
  <1>7. QueueCountsAgree'
    BY <1>1 DEF IInv, QueueCountsAgree, queue
  <1>8. ASSUME NEW n \in Msgs
        PROVE  /\ Listed(n)' <=> Listed(n)
               /\ Processed(n)' <=> Processed(n)
               /\ Committing(n)' <=> Committing(n)
               /\ Resubmitting(n)' <=> Resubmitting(n) \/ n = m
               /\ Owned(n)' <=> Owned(n) \/ n = m
    <2>1. /\ Listed(n)' <=> Listed(n)
          /\ Processed(n)' <=> Processed(n)
          /\ Committing(n)' <=> Committing(n)
      BY <1>1 DEF Listed, Processed, Busy, Committing, queue
    <2>2. Resubmitting(n)' <=> Resubmitting(n) \/ n = m
      BY <1>1, <1>5 DEF Resubmitting, m
    <2> QED
      BY <2>1, <2>2 DEF Owned
  <1>9. SingleOwner'
    <2>1. IsInjective(ReadyQueue)' /\ (Range(ReadyQueue) \cap RsndArenaQueue = {})'
      BY <1>1 DEF IInv, SingleOwner, queue
    <2>2. \A u, v \in Workers : (Busy(u)' /\ Busy(v)' /\ wmsg'[u] = wmsg'[v]) => u = v
      BY <1>1 DEF IInv, SingleOwner, Busy
    <2>3. \A u, v \in Admins :
              (cpc'[u] = "moved" /\ cpc'[v] = "moved" /\ cmsg'[u] = cmsg'[v]) => u = v
      <3>1. \A u \in Admins : u # t /\ cpc[u] = "moved" => cmsg[u] # m
        BY <1>3 DEF Owned, Resubmitting
      <3> QED
        BY <1>1, <1>5, <3>1 DEF IInv, SingleOwner, m
    <2>4. \A n \in Msgs :
              /\ Listed(n)' => ~Processed(n)' /\ ~Committing(n)' /\ ~Resubmitting(n)'
              /\ Processed(n)' => ~Committing(n)' /\ ~Resubmitting(n)'
              /\ Committing(n)' => ~Resubmitting(n)'
      BY <1>3, <1>8 DEF IInv, SingleOwner, Owned
    <2> QED
      BY <2>1, <2>2, <2>3, <2>4 DEF SingleOwner
  <1>10. QueueMatchesDisk' /\ SpoolFilesAreOwned'
    BY <1>1, <1>4, <1>8 DEF IInv, QueueMatchesDisk, SpoolFilesAreOwned, Spooled
  <1>11. \A n \in Msgs : n # m => (Settled(n)' <=> Settled(n))
    BY <1>1, <1>4 DEF Settled
  <1>12. AcceptedIsKept'
    <2> SUFFICES ASSUME RemoveSpoolErrors => ~IOFails, NEW n \in accepted',
                        dir'[n] \in {"none", "temp", "gone"}
                 PROVE  Settled(n)' \/ n \in deleted'
      BY DEF AcceptedIsKept
    <2>1. n \in accepted /\ n \in Msgs /\ n # m
      BY <1>1, <1>4 DEF IInv, TypeOK
    <2> QED
      BY <1>1, <1>4, <1>11, <2>1 DEF IInv, AcceptedIsKept
  <1>13. DraftsAreNew'
    BY <1>1, <1>4, <1>11 DEF IInv, DraftsAreNew
  <1>14. NamesAreMessages' /\ DownMeansIdle'
    BY <1>1, <1>2, <1>5 DEF IInv, NamesAreMessages, DownMeansIdle, Busy, m
  <1>15. RemovalIsDue'
    <2>1. \A w \in Workers : wpc[w] = "remove" => wmsg[w] \in Msgs /\ wmsg[w] # m
      BY <1>3, HeldMessage DEF Busy
    <2> QED
      BY <1>1, <1>4, <1>11, <2>1 DEF IInv, RemovalIsDue
  <1> QED
    BY <1>6, <1>7, <1>9, <1>10, <1>12, <1>13, <1>14, <1>15 DEF IInv

\* The end of frozsubmit: from the session to the ready queue.
LEMMA UnFreezeKeepsIInv ==
    ASSUME IInv, NEW t \in Admins, QueUtUnFreezeMessage(t)
    PROVE  IInv'
  <1> DEFINE m == cmsg[t]
  <1>1. /\ cpc[t] = "moved" /\ QueAddNew(m)
        /\ cpc' = [cpc EXCEPT ![t] = "idle"] /\ cmsg' = [cmsg EXCEPT ![t] = NoMsg]
        /\ UNCHANGED <<dir, slog, up, pszQueueDir, iNumTries, prod, wpc, wmsg,
                       accepted, delivered, notified, filtered, deleted, listed, misread, restarts>>
    BY DEF QueUtUnFreezeMessage, EndCommand, disk, handle, worker, ghost
  <1>2. m \in Msgs /\ up
    BY <1>1 DEF IInv, NamesAreMessages, DownMeansIdle
  <1>3. Resubmitting(m)
    BY <1>1 DEF Resubmitting
  <1>4. Owned(m) /\ ~Listed(m) /\ ~Processed(m) /\ ~Committing(m)
    BY <1>2, <1>3 DEF IInv, SingleOwner, Owned
  <1>5. \A u \in Admins : u # t /\ cpc[u] = "moved" => cmsg[u] # m
    BY <1>1 DEF IInv, SingleOwner
  <1>6. /\ QueueCountsAgree'
        /\ ReadyQueue' \in Seq(Msgs) /\ iReadyCount' \in Nat /\ hReadyEvent' = TRUE
        /\ IsInjective(ReadyQueue') /\ Range(ReadyQueue') \cap RsndArenaQueue' = {}
        /\ RsndArenaQueue' = RsndArenaQueue /\ iRsndArenaCount' = iRsndArenaCount
        /\ \A n \in Msgs : Listed(n)' <=> Listed(n) \/ n = m
    BY <1>1, <1>2, <1>4, ListGrows
  <1>7. /\ cpc' \in [Admins -> {"idle", "submit", "reset", "moved", "delete"}]
        /\ cmsg' \in [Admins -> Msgs \cup {NoMsg}]
        /\ cpc'[t] = "idle" /\ \A u \in Admins : u # t => cpc'[u] = cpc[u] /\ cmsg'[u] = cmsg[u]
    BY <1>1 DEF IInv, TypeOK
  <1>8. TypeOK'
    BY <1>1, <1>6, <1>7 DEF IInv, TypeOK
  <1> HIDE DEF m
  <1>9. ASSUME NEW n \in Msgs
        PROVE  /\ Processed(n)' <=> Processed(n)
               /\ Committing(n)' <=> Committing(n)
               /\ Resubmitting(n)' <=> Resubmitting(n) /\ n # m
    <2>1. (Processed(n)' <=> Processed(n)) /\ (Committing(n)' <=> Committing(n))
      BY <1>1 DEF Processed, Busy, Committing
    <2>2. Resubmitting(n)' <=> Resubmitting(n) /\ n # m
      BY <1>5, <1>7 DEF Resubmitting, m
    <2> QED
      BY <2>1, <2>2
  <1>10. \A n \in Msgs : Owned(n)' <=> Owned(n)
    BY <1>4, <1>6, <1>9 DEF Owned
  <1>11. SingleOwner'
    <2>1. \A u, v \in Workers : (Busy(u)' /\ Busy(v)' /\ wmsg'[u] = wmsg'[v]) => u = v
      BY <1>1 DEF IInv, SingleOwner, Busy
    <2>2. \A u, v \in Admins :
              (cpc'[u] = "moved" /\ cpc'[v] = "moved" /\ cmsg'[u] = cmsg'[v]) => u = v
      BY <1>7 DEF IInv, SingleOwner
    <2>3. \A n \in Msgs :
              /\ Listed(n)' => ~Processed(n)' /\ ~Committing(n)' /\ ~Resubmitting(n)'
              /\ Processed(n)' => ~Committing(n)' /\ ~Resubmitting(n)'
              /\ Committing(n)' => ~Resubmitting(n)'
      BY <1>4, <1>6, <1>9 DEF IInv, SingleOwner
    <2> QED
      BY <1>6, <2>1, <2>2, <2>3 DEF SingleOwner
  <1>12. QueueMatchesDisk' /\ SpoolFilesAreOwned'
    BY <1>1, <1>10, DiskKept
  <1>13. AcceptedIsKept' /\ DraftsAreNew'
    BY <1>1, HistoryKept DEF Settled
  <1>14. NamesAreMessages' /\ DownMeansIdle' /\ RemovalIsDue'
    BY <1>1, <1>2, <1>7 DEF IInv, NamesAreMessages, DownMeansIdle, RemovalIsDue, Settled, Busy
  <1> QED
    BY <1>6, <1>8, <1>11, <1>12, <1>13, <1>14 DEF IInv

\* frozdel removes at most a frozen message, and a slog file.
LEMMA DeleteKeepsIInv ==
    ASSUME IInv, NEW t \in Admins, QueUtDeleteFrozenMessage(t)
    PROVE  IInv'
  <1> DEFINE m == cmsg[t]
  <1>1. /\ cpc[t] = "delete" /\ slog' = [slog EXCEPT ![m] = 0]
        /\ \/ dir[m] = "froz" /\ dir' = [dir EXCEPT ![m] = "gone"] /\ deleted' = deleted \cup {m}
           \/ dir' = dir /\ deleted' = deleted /\ (dir[m] # "froz" \/ IOFails)
        /\ cpc' = [cpc EXCEPT ![t] = "idle"] /\ cmsg' = [cmsg EXCEPT ![t] = NoMsg]
        /\ UNCHANGED <<up, queue, pszQueueDir, iNumTries, prod, wpc, wmsg,
                       accepted, delivered, notified, filtered, listed, misread, restarts>>
    BY DEF QueUtDeleteFrozenMessage, EndCommand, handle, worker
  <1>2. m \in Msgs /\ up
    BY <1>1 DEF IInv, NamesAreMessages, DownMeansIdle
  <1>3. /\ cpc' \in [Admins -> {"idle", "submit", "reset", "moved", "delete"}]
        /\ cmsg' \in [Admins -> Msgs \cup {NoMsg}]
        /\ cpc'[t] = "idle" /\ \A u \in Admins : u # t => cpc'[u] = cpc[u] /\ cmsg'[u] = cmsg[u]
    BY <1>1 DEF IInv, TypeOK
  <1> HIDE DEF m
  <1>4. /\ slog' \in [Msgs -> Nat] /\ dir' \in [Msgs -> Dirs] /\ deleted' \subseteq Msgs
        /\ \A n \in Msgs : \/ dir'[n] = dir[n]
                           \/ dir[n] = "froz" /\ dir'[n] = "gone" /\ n \in deleted'
        /\ \A n \in Msgs : n \in deleted => n \in deleted'
        /\ \A n \in Msgs : n \in deleted' => n \in deleted \/ (n = m /\ dir[n] = "froz" /\ dir'[n] = "gone")
    <2>1. slog \in [Msgs -> Nat] /\ dir \in [Msgs -> Dirs] /\ deleted \subseteq Msgs
      BY DEF IInv, TypeOK
    <2> QED
      BY <1>1, <1>2, <2>1 DEF Dirs
  <1>5. TypeOK'
    BY <1>1, <1>3, <1>4 DEF IInv, TypeOK, queue
  <1>6. /\ QueueCountsAgree' /\ SingleOwner'
        /\ \A n \in Msgs : Owned(n)' <=> Owned(n)
    BY <1>1, <1>3, OwnersKept DEF Committing, Busy
  <1>7. \A n \in Msgs : Owned(n) => dir[n] # "froz"
    BY DEF IInv, QueueMatchesDisk, Spooled
  <1>8. QueueMatchesDisk' /\ SpoolFilesAreOwned'
    BY <1>1, <1>4, <1>6, <1>7, DiskKept DEF Spooled
  <1>9. \A n \in Msgs : Settled(n)' <=> Settled(n)
    BY <1>1 DEF Settled
  <1>10. AcceptedIsKept'
    <2> SUFFICES ASSUME RemoveSpoolErrors => ~IOFails, NEW n \in accepted',
                        dir'[n] \in {"none", "temp", "gone"}
                 PROVE  Settled(n)' \/ n \in deleted'
      BY DEF AcceptedIsKept
    <2>1. n \in accepted /\ n \in Msgs
      BY <1>1 DEF IInv, TypeOK
    <2> QED
      BY <1>4, <1>9, <2>1 DEF IInv, AcceptedIsKept
  <1>11. DraftsAreNew'
    BY <1>1, <1>4, <1>9 DEF IInv, DraftsAreNew
  <1>12. NamesAreMessages' /\ DownMeansIdle' /\ RemovalIsDue'
    BY <1>1, <1>2, <1>3 DEF IInv, NamesAreMessages, DownMeansIdle, RemovalIsDue, Settled, Busy
  <1> QED
    BY <1>5, <1>6, <1>8, <1>10, <1>11, <1>12 DEF IInv
-----------------------------------------------------------------------------
(* The theorems *)

LEMMA NextKeepsIInv == IInv /\ [Next]_vars => IInv'
  <1> SUFFICES ASSUME IInv, [Next]_vars PROVE IInv'
    OBVIOUS
  <1>1. CASE QueOpen
    BY <1>1, OpenKeepsIInv
  <1>2. CASE QueClose \/ Crash
    BY <1>2, LoseMemoryKeepsIInv DEF QueClose, Crash
  <1>3. ASSUME NEW m \in Msgs, Producer(m) PROVE IInv'
    BY <1>3, DraftStepKeepsIInv, CommitMoveKeepsIInv, CommitKeepsIInv DEF Producer
  <1>4. ASSUME NEW w \in Workers, Worker(w) PROVE IInv'
    BY <1>4, IdleStepKeepsIInv, ExtractKeepsIInv, ProcessingStepKeepsIInv, ResendMoveKeepsIInv,
       ResendFailsKeepsIInv, ResendKeepsIInv, CloseKeepsIInv DEF Worker, Process
  <1>5. ASSUME NEW t \in Admins, Admin(t) PROVE IInv'
    BY <1>5, CommandStepKeepsIInv, UnFreezeMoveKeepsIInv, UnFreezeKeepsIInv, DeleteKeepsIInv
       DEF Admin
  <1>6. CASE Arena
    BY <1>6, ArenaKeepsIInv DEF Arena
  <1>7. CASE UNCHANGED vars
    <2>1. UNCHANGED <<dir, slog, up, queue, handle, prod, worker, admin, ghost, listed, misread, restarts>>
      BY <1>7 DEF vars, disk
    <2> QED
      BY <2>1 DEF IInv, TypeOK, QueueCountsAgree, SingleOwner, QueueMatchesDisk, SpoolFilesAreOwned,
                  AcceptedIsKept, NamesAreMessages, DraftsAreNew, RemovalIsDue, DownMeansIdle,
                  Owned, Listed, Processed, Committing, Resubmitting, Settled, Busy,
                  queue, handle, worker, admin, ghost
  <1> QED
    BY <1>1, <1>2, <1>3, <1>4, <1>5, <1>6, <1>7 DEF Next

\* The inductive invariant holds in every state of the spool.
THEOREM Invariance == Spec => []IInv
  <1>1. Init => IInv
    BY InitIInv
  <1>2. IInv /\ [Next]_vars => IInv'
    BY NextKeepsIInv
  <1> QED
    BY <1>1, <1>2, PTL DEF Spec

\* The state is always of the types of MessQueue.cpp.
THEOREM SpecTypeOK == Spec => []TypeOK
  <1>1. IInv => TypeOK
    BY DEF IInv
  <1> QED
    BY <1>1, Invariance, PTL

\* The counters are the lengths of the lists, and the ready event is set
\* exactly while a message is ready: no wakeup of an SMAIL thread is lost.
THEOREM SpecQueueCountsAgree == Spec => []QueueCountsAgree
  <1>1. IInv => QueueCountsAgree
    BY DEF IInv
  <1> QED
    BY <1>1, Invariance, PTL

\* However many SMAIL threads and CTRL sessions there are, no message is with
\* two of them, or in a list and with one of them.
THEOREM SpecSingleOwner == Spec => []SingleOwner
  <1>1. IInv => SingleOwner
    BY DEF IInv
  <1> QED
    BY <1>1, Invariance, PTL

\* The handle of a message always names the directory where its file is.
THEOREM SpecQueueMatchesDisk == Spec => []QueueMatchesDisk
  <1>1. IInv => QueueMatchesDisk
    BY DEF IInv
  <1> QED
    BY <1>1, Invariance, PTL

\* While the server is up and no rename fails, no file of the spool is
\* forgotten by the queue.
THEOREM SpecSpoolFilesAreOwned == Spec => []SpoolFilesAreOwned
  <1>1. IInv => SpoolFilesAreOwned
    BY DEF IInv
  <1> QED
    BY <1>1, Invariance, PTL

\* An accepted message does not disappear before it is settled or deleted,
\* across any number of crashes.
THEOREM SpecAcceptedIsKept == Spec => []AcceptedIsKept
  <1>1. IInv => AcceptedIsKept
    BY DEF IInv
  <1> QED
    BY <1>1, Invariance, PTL

\* What a step may do to the file of a message: only QueCloseMessage removes a
\* message of the spool, from the remove state of an SMAIL thread.
LEMMA StepsOnDisk ==
    ASSUME IInv, [Next]_vars, NEW m \in Msgs, dir[m] \in Spooled, dir'[m] = "gone"
    PROVE  \E w \in Workers : wpc[w] = "remove" /\ wmsg[w] = m
  <1>1. ASSUME NEW w \in Workers, QueCloseMessage(w)
        PROVE  wpc[w] = "remove" /\ wmsg[w] = m
    <2>1. Busy(w)
      BY <1>1 DEF QueCloseMessage, Busy
    <2>2. wmsg[w] \in Msgs
      BY <2>1 DEF IInv, NamesAreMessages
    <2> QED
      BY <1>1, <2>2 DEF QueCloseMessage, CleanupFreeze, CleanupRemove, IInv, TypeOK, Spooled
  <1>2. ASSUME NEW n \in Msgs, QueCreateMessage(n) \/ Abandon(n) \/ CommitMove(n)
        PROVE  FALSE
    <2>1. dir[n] \in {"none", "temp"}
      BY <1>2 DEF QueCreateMessage, Abandon, CommitMove, IInv, DraftsAreNew
    <2> QED
      BY <1>2, <2>1 DEF QueCreateMessage, Abandon, CommitMove, IInv, TypeOK, Spooled
  <1>3. ASSUME NEW w \in Workers, ResendMove(w) PROVE FALSE
    <2>1. wmsg[w] \in Msgs
      BY <1>3, HeldMessage DEF ResendMove, Busy
    <2> QED
      BY <1>3, <2>1 DEF ResendMove, IInv, TypeOK, Spooled
  <1>4. ASSUME NEW t \in Admins, UnFreezeMove(t) \/ QueUtDeleteFrozenMessage(t) PROVE FALSE
    <2>1. cmsg[t] \in Msgs
      BY <1>4 DEF UnFreezeMove, QueUtDeleteFrozenMessage, IInv, NamesAreMessages
    <2> QED
      BY <1>4, <2>1 DEF UnFreezeMove, QueUtDeleteFrozenMessage, IInv, TypeOK, Spooled
  <1>5. dir' # dir
    BY DEF Spooled
  <1>6. CASE QueOpen \/ QueClose \/ Crash
    BY <1>5, <1>6 DEF QueOpen, QueClose, Crash, LoseMemory, disk
  <1>7. ASSUME NEW n \in Msgs, Producer(n) PROVE FALSE
    BY <1>2, <1>5, <1>7 DEF Producer, QueCommitMessage, disk
  <1>8. ASSUME NEW w \in Workers, Worker(w) PROVE QueCloseMessage(w)
    BY <1>3, <1>5, <1>8 DEF Worker, Process, WaitReadyEvent, ExtractNothing, QueExtractMessage,
       QueStatMessage, Deliver, TransientFailure, PermanentFailure, FilterOut, FilterCorrupts,
       ResendExpired, NotifyAndCondemn, ResendFails, QueResendMessage, disk
  <1>9. ASSUME NEW t \in Admins, Admin(t) PROVE FALSE
    BY <1>4, <1>5, <1>9 DEF Admin, FrozList, FrozCommand, QueInitMessageStats, UnFreezeFails,
       QueUtUnFreezeMessage, disk
  <1>10. CASE Arena
    BY <1>5, <1>10 DEF Arena, QueScanRsndArena, QueFlushRsndArena, disk
  <1>11. CASE UNCHANGED vars
    BY <1>5, <1>11 DEF vars, disk
  <1> QED
    BY <1>1, <1>6, <1>7, <1>8, <1>9, <1>10, <1>11 DEF Next

\* With RemoveSpoolErrors off the queue removes only what was delivered or
\* what a filter asked to remove; the rest goes to froz.
THEOREM SpecUndeliveredIsFrozen == Spec => UndeliveredIsFrozen
  <1> DEFINE Step ==
        ~RemoveSpoolErrors =>
          \A m \in Msgs : (dir[m] \in Spooled /\ dir'[m] = "gone")
                            => delivered[m] > 0 \/ m \in filtered
  <1>1. IInv /\ [Next]_vars => [Step]_vars
    BY StepsOnDisk DEF IInv, RemovalIsDue
  <1> QED
    BY <1>1, Invariance, PTL DEF Spec, UndeliveredIsFrozen
-----------------------------------------------------------------------------
(* How often a message is tried and delivered *)

\* The numbers that the counters are.
LEMMA CountTypes ==
    ASSUME IInv, NEW m \in Msgs
    PROVE  /\ delivered[m] \in Nat /\ slog[m] \in Nat /\ iNumTries[m] \in Nat
           /\ Starts \in Nat /\ iMaxRetry \in Nat \ {0} /\ restarts \in Nat
           /\ up => Starts \in Nat \ {0}
           /\ dir[m] \in Dirs
  BY RetryAssumption, SettingsAssumption DEF IInv, TypeOK, Starts

\* A message that is delivered no more often and given to nobody.
LEMMA DeliveryKept ==
    ASSUME NEW m \in Msgs, DeliveryCounted(m), delivered'[m] = delivered[m], Starts' = Starts,
           Pending(m)' => Pending(m)
    PROVE  DeliveryCounted(m)'
  BY DEF DeliveryCounted

\* What a step leaves alone that does nothing with a message.
Untouched(m) ==
    /\ Starts' = Starts
    /\ dir'[m] = dir[m] /\ slog'[m] = slog[m] /\ iNumTries'[m] = iNumTries[m]
    /\ delivered'[m] = delivered[m]
    /\ (prod[m] # "none")' => prod[m] # "none"
    /\ (Listed(m) \/ Committing(m))' => Listed(m) \/ Committing(m)
    /\ Resubmitting(m)' => Resubmitting(m) \/ Listed(m)
    /\ \A w \in Workers : (Busy(w) /\ wmsg[w] = m)' =>
            Busy(w) /\ wmsg[w] = m /\ wpc'[w] = wpc[w]

LEMMA UntouchedKept ==
    ASSUME NEW m \in Msgs, Untouched(m)
    PROVE  /\ DeliveryCounted(m) => DeliveryCounted(m)'
           /\ TriesCounted(m) => TriesCounted(m)'
  <1>1. Pending(m)' => Pending(m)
    BY DEF Untouched, Pending
  <1>2. DeliveryCounted(m) => DeliveryCounted(m)'
    BY <1>1, DeliveryKept DEF Untouched
  <1>3. SlogOnDisk(m) => SlogOnDisk(m)'
    BY DEF SlogOnDisk, Untouched
  <1>4. TriesWaiting(m) => TriesWaiting(m)'
    BY DEF TriesWaiting, Untouched
  <1>5. ASSUME NEW w \in Workers, (Busy(w) /\ wmsg[w] = m)', TriesBusy(w, m)
        PROVE  TriesBusy(w, m)'
    BY <1>5 DEF TriesBusy, Untouched
  <1>6. TriesCounted(m) => TriesCounted(m)'
    BY <1>3, <1>4, <1>5 DEF TriesCounted, Untouched
  <1> QED
    BY <1>2, <1>6

\* A message that its thread or its producer has let go.
LEMMA LetGo ==
    ASSUME IInv', NEW m \in Msgs, ~Owned(m)', (prod[m] = "none")',
           delivered'[m] <= Starts', iNumTries'[m] < iMaxRetry + Starts', SlogOnDisk(m)'
    PROVE  DeliveryCounted(m)' /\ TriesCounted(m)'
  <1>1. ~Pending(m)' /\ ~Listed(m)' /\ ~Committing(m)'
    BY DEF Owned, Pending, Processed
  <1>2. \A w \in Workers : ~(Busy(w)' /\ wmsg'[w] = m)
    BY DEF Owned, Processed
  <1> QED
    BY <1>1, <1>2 DEF DeliveryCounted, TriesCounted

\* A message that goes on being, or comes to be, with an SMAIL thread.
LEMMA WithThread ==
    ASSUME IInv', NEW w \in Workers, NEW m \in Msgs, Busy(w)', wmsg'[w] = m
    PROVE  /\ delivered'[m] <= Starts' /\ (wpc'[w] # "remove" => delivered'[m] < Starts')
                => DeliveryCounted(m)'
           /\ iNumTries'[m] < iMaxRetry + Starts' /\ SlogOnDisk(m)' /\ TriesBusy(w, m)'
                => TriesCounted(m)'
  <1>1. ~Listed(m)' /\ ~Committing(m)' /\ ~Resubmitting(m)' /\ Owned(m)'
    BY DEF IInv, SingleOwner, Processed, Owned
  <1>2. \A v \in Workers : Busy(v)' /\ wmsg'[v] = m => v = w
    BY DEF IInv, SingleOwner
  <1>3. dir'[m] \in Spooled
    BY <1>1 DEF IInv, QueueMatchesDisk
  <1>4. prod'[m] = "none"
    BY <1>1, <1>3 DEF IInv, TypeOK, DraftsAreNew, Committing, Spooled
  <1> QED
    BY <1>1, <1>2, <1>4 DEF DeliveryCounted, TriesCounted, Pending

\* What is forgotten once stays so.
LEMMA UncountedGrows == [Next]_vars => Uncounted \subseteq Uncounted'
  <1>1. CASE QueOpen
    BY <1>1 DEF QueOpen, Uncounted
  <1>2. ASSUME NEW t \in Admins, Admin(t) PROVE Uncounted \subseteq Uncounted'
    BY <1>2 DEF Admin, FrozList, FrozCommand, QueInitMessageStats, UnFreezeMove, UnFreezeFails,
       QueUtUnFreezeMessage, QueUtDeleteFrozenMessage, Uncounted
  <1>3. ASSUME NEW w \in Workers, Worker(w) PROVE Uncounted \subseteq Uncounted'
    BY <1>3 DEF Worker, Process, WaitReadyEvent, ExtractNothing, QueExtractMessage,
       QueStatMessage, Deliver, TransientFailure, PermanentFailure, FilterOut, FilterCorrupts,
       ResendExpired, NotifyAndCondemn, ResendMove, ResendFails, QueResendMessage,
       QueCloseMessage, Uncounted
  <1>4. ASSUME NEW m \in Msgs, Producer(m) PROVE Uncounted \subseteq Uncounted'
    BY <1>4 DEF Producer, QueCreateMessage, Abandon, CommitMove, QueCommitMessage, Uncounted
  <1>5. CASE QueClose \/ Crash \/ Arena \/ UNCHANGED vars
    BY <1>5 DEF QueClose, Crash, LoseMemory, Arena, QueScanRsndArena, QueFlushRsndArena, vars,
       Uncounted
  <1> QED
    BY <1>1, <1>2, <1>3, <1>4, <1>5 DEF Next

\* A step of an SMAIL thread w, as the other messages see it.
OthersUntouched(w) ==
    /\ UNCHANGED <<up, restarts, prod, listed, cpc, cmsg>>
    /\ \A n \in Msgs : n # wmsg[w] =>
            /\ dir'[n] = dir[n] /\ slog'[n] = slog[n] /\ iNumTries'[n] = iNumTries[n]
            /\ delivered'[n] = delivered[n]
            /\ Listed(n)' => Listed(n)
    /\ \A v \in Workers : v # w => wpc'[v] = wpc[v] /\ wmsg'[v] = wmsg[v]
    /\ Busy(w)' => wmsg'[w] = wmsg[w]

LEMMA OthersKept ==
    ASSUME IInv, NEW w \in Workers, OthersUntouched(w), NEW n \in Msgs, n # wmsg[w]
    PROVE  Untouched(n)
  <1>1. \A v \in Workers : Busy(v)' /\ wmsg'[v] = n => v # w
    BY DEF OthersUntouched
  <1>2. \A v \in Workers : v # w => (Busy(v)' <=> Busy(v))
    BY DEF OthersUntouched, Busy
  <1> QED
    BY <1>1, <1>2 DEF OthersUntouched, Untouched, Starts, Committing, Resubmitting

\* The steps of an SMAIL thread that keep its message.
LEMMA ProcessingCounts ==
    ASSUME CountsIInv, IInv', NEW w \in Workers,
           \/ QueStatMessage(w) \/ Deliver(w) \/ TransientFailure(w) \/ PermanentFailure(w)
           \/ FilterOut(w) \/ FilterCorrupts(w) \/ ResendExpired(w) \/ ResendMove(w),
           NEW n \in Msgs
    PROVE  DeliveryCounted(n)' /\ (n \notin Uncounted => TriesCounted(n)')
  <1>1. /\ Busy(w) /\ wpc[w] \in {"extracted", "processing", "resend"}
        /\ UNCHANGED <<up, queue, prod, wmsg, cpc, cmsg, listed, restarts, iNumTries>>
    BY DEF QueStatMessage, Deliver, TransientFailure, PermanentFailure, FilterOut, Busy,
           FilterCorrupts, ResendExpired, ResendMove, NotifyAndCondemn, admin, handle
  <1>2. PICK p \in {"processing", "remove", "resend", "freeze", "moved"} : Goto(w, p)
    BY DEF QueStatMessage, Deliver, TransientFailure, PermanentFailure, FilterOut, Condemned,
           FilterCorrupts, ResendExpired, ResendMove, NotifyAndCondemn
  <1>3. PICK m \in Msgs : m = wmsg[w]
    BY <1>1, HeldMessage DEF CountsIInv
  <1>4. /\ wpc'[w] = p /\ Busy(w)' /\ wmsg'[w] = m
        /\ \A v \in Workers : v # w => wpc'[v] = wpc[v] /\ wmsg'[v] = wmsg[v]
    BY <1>1, <1>2, <1>3 DEF Goto, IInv, CountsIInv, TypeOK, Busy
  <1>5. m \in Msgs /\ dir[m] \in Spooled /\ up /\ IInv
    BY <1>1, <1>3, HeldMessage DEF CountsIInv
  <1>6. /\ \/ slog' = slog /\ (wpc[w] = "extracted" => FALSE)
           \/ wpc[w] = "extracted" /\ p = "processing"
              /\ (slog' = slog \/ slog' = [slog EXCEPT ![m] = @ + 1])
        /\ \/ delivered' = delivered
           \/ delivered' = [delivered EXCEPT ![m] = @ + 1] /\ p = "remove"
        /\ \/ dir' = dir /\ p # "moved"
           \/ dir' = [dir EXCEPT ![m] = "rsnd"] /\ p = "moved" /\ iNumTries[m] < iMaxRetry
    <2>1. /\ TypeOK /\ \A q : Goto(w, q) => wpc'[w] = q
      BY <1>5 DEF Goto, IInv, TypeOK
    <2>2. CASE QueStatMessage(w)
      BY <1>4, <1>3, <2>1, <2>2 DEF QueStatMessage, disk, ghost
    <2>3. CASE Deliver(w)
      BY <1>4, <1>3, <2>1, <2>3 DEF Deliver, disk, ghost
    <2>4. CASE NotifyAndCondemn(w) /\ wpc[w] # "extracted"
      BY <1>4, <1>3, <2>1, <2>4 DEF NotifyAndCondemn, Condemned, disk, ghost
    <2>5. CASE TransientFailure(w) \/ FilterOut(w) \/ FilterCorrupts(w)
      BY <1>4, <1>3, <2>1, <2>5 DEF TransientFailure, FilterOut, FilterCorrupts, Condemned, disk, ghost
    <2>6. CASE ResendMove(w)
      <3>1. iNumTries[m] < iMaxRetry
        BY <1>5, <1>3, <2>6, CountTypes DEF ResendMove, QueMessageExpired
      <3> QED
        BY <1>4, <1>3, <2>1, <2>6, <3>1 DEF ResendMove, disk, ghost
    <2> QED
      BY <2>2, <2>3, <2>4, <2>5, <2>6 DEF PermanentFailure, ResendExpired
  <1>7. /\ DeliveryCounted(m) /\ (m \notin Uncounted => TriesCounted(m))
        /\ DeliveryCounted(n) /\ (n \notin Uncounted => TriesCounted(n))
    BY <1>5 DEF CountsIInv
  <1>8. CASE n # m
    <2>1. OthersUntouched(w)
      BY <1>1, <1>4, <1>5, <1>6, <1>3 DEF OthersUntouched, IInv, TypeOK, Listed, queue
    <2> QED
      BY <1>1, <1>5, <1>7, <1>8, <1>3, <2>1, OthersKept, UntouchedKept
  <1>9. CASE n = m
    <2>1. /\ delivered[m] \in Nat /\ slog[m] \in Nat /\ iNumTries[m] \in Nat
          /\ Starts \in Nat \ {0} /\ iMaxRetry \in Nat \ {0} /\ Starts' = Starts
      BY <1>1, <1>5, CountTypes DEF Starts
    <2>2. /\ delivered'[m] = delivered[m] \/ (delivered'[m] = delivered[m] + 1 /\ p = "remove")
          /\ slog'[m] = slog[m] \/ (slog'[m] = slog[m] + 1 /\ wpc[w] = "extracted")
          /\ wpc[w] = "extracted" => p = "processing"
          /\ (dir'[m] = dir[m] /\ p # "moved")
             \/ (dir'[m] = "rsnd" /\ p = "moved" /\ iNumTries[m] < iMaxRetry)
      <3>1. delivered \in [Msgs -> Nat] /\ slog \in [Msgs -> Nat] /\ dir \in [Msgs -> Dirs]
        BY <1>5 DEF IInv, TypeOK
      <3>2. delivered'[m] = delivered[m] \/ (delivered'[m] = delivered[m] + 1 /\ p = "remove")
        BY <1>5, <1>6, <3>1
      <3>3. slog'[m] = slog[m] \/ (slog'[m] = slog[m] + 1 /\ wpc[w] = "extracted")
        BY <1>5, <1>6, <3>1
      <3>4. \/ dir'[m] = dir[m] /\ p # "moved"
            \/ dir'[m] = "rsnd" /\ p = "moved" /\ iNumTries[m] < iMaxRetry
        BY <1>5, <1>6, <3>1
      <3> QED
        BY <1>6, <3>2, <3>3, <3>4
    <2>3. Pending(m) /\ delivered[m] < Starts
      BY <1>1, <1>7, <1>3 DEF Pending, DeliveryCounted
    <2>4. DeliveryCounted(m)'
      BY <1>4, <1>5, <2>1, <2>2, <2>3, WithThread
    <2>5. ASSUME m \notin Uncounted PROVE TriesCounted(m)'
      <3>1. TriesBusy(w, m) /\ iNumTries[m] < iMaxRetry + Starts
        BY <1>1, <1>7, <1>3, <2>5 DEF TriesCounted
      <3>2. /\ slog'[m] < iMaxRetry + Starts /\ slog'[m] < iNumTries[m] + Starts
            /\ dir[m] = "mess" => iNumTries[m] = 1
        BY <1>1, <2>1, <2>2, <3>1 DEF TriesBusy
      <3>3. TriesBusy(w, m)'
        BY <1>1, <1>4, <2>1, <2>2, <3>2 DEF TriesBusy
      <3>4. slog'[m] \in Nat /\ dir'[m] \in Spooled /\ (dir'[m] = "mess" => slog'[m] < 1 + Starts)
        BY <1>5, <2>1, <2>2, <3>2 DEF Spooled
      <3>5. dir'[m] = "mess" => slog'[m] <= Starts
        BY <2>1, <3>4
      <3>6. SlogOnDisk(m)'
        BY <2>1, <3>2, <3>4, <3>5 DEF SlogOnDisk, Spooled
      <3> QED
        BY <1>1, <1>4, <1>5, <2>1, <3>1, <3>3, <3>6, WithThread
    <2> QED
      BY <1>1, <1>9, <2>4, <2>5
  <1> QED
    BY <1>8, <1>9

\* The steps of an SMAIL thread without a message.
LEMMA IdleCounts ==
    ASSUME CountsIInv, NEW w \in Workers, WaitReadyEvent(w) \/ ExtractNothing(w), NEW n \in Msgs
    PROVE  DeliveryCounted(n)' /\ (n \notin Uncounted => TriesCounted(n)')
  <1>1. /\ ~Busy(w) /\ UNCHANGED <<dir, slog, up, queue, iNumTries, delivered, prod, wmsg,
                                   cpc, cmsg, listed, misread, restarts>>
        /\ \E p \in {"waiting", "woken"} : Goto(w, p)
    BY DEF WaitReadyEvent, ExtractNothing, Busy, disk, handle, admin, ghost
  <1>2. /\ ~Busy(w)'
        /\ \A v \in Workers : v # w => wpc'[v] = wpc[v]
    BY <1>1 DEF Goto, CountsIInv, IInv, TypeOK, Busy
  <1>3. Untouched(n)
    BY <1>1, <1>2 DEF Untouched, Starts, Listed, Committing, Resubmitting, Busy, queue
  <1> QED
    BY <1>1, <1>3, UntouchedKept DEF CountsIInv

\* A message is taken from the ready queue for its next try.
LEMMA ExtractCounts ==
    ASSUME CountsIInv, IInv', NEW w \in Workers, QueExtractMessage(w), NEW n \in Msgs
    PROVE  DeliveryCounted(n)' /\ (n \notin Uncounted => TriesCounted(n)')
  <1>1. IInv /\ ReadyQueue \in Seq(Msgs) /\ IsInjective(ReadyQueue) /\ ReadyQueue # <<>>
    BY DEF CountsIInv, IInv, TypeOK, SingleOwner, QueExtractMessage
  <1>2. PICK m \in Msgs : m = Head(ReadyQueue)
    BY <1>1, TakeHead
  <1>3. /\ UNCHANGED <<dir, slog, up, delivered, prod, cpc, cmsg, listed, restarts,
                       RsndArenaQueue>>
        /\ ReadyQueue # <<>> /\ ReadyQueue' = Tail(ReadyQueue)
        /\ Goto(w, "extracted") /\ wmsg' = [wmsg EXCEPT ![w] = m]
        /\ iNumTries' = [iNumTries EXCEPT ![m] = @ + 1]
        /\ wpc[w] = "woken"
    BY <1>2 DEF QueExtractMessage, disk, admin, ghost
  <1>4. m \in Msgs /\ m \in Range(ReadyQueue) /\ Range(ReadyQueue') \subseteq Range(ReadyQueue)
    BY <1>1, <1>2, <1>3, TakeHead
  <1>5. /\ wpc'[w] = "extracted" /\ wmsg'[w] = m /\ Busy(w)' /\ up
        /\ \A v \in Workers : v # w => wpc'[v] = wpc[v] /\ wmsg'[v] = wmsg[v]
        /\ iNumTries'[m] = iNumTries[m] + 1
        /\ \A k \in Msgs : k # m => iNumTries'[k] = iNumTries[k]
    BY <1>1, <1>3, <1>4 DEF Goto, IInv, TypeOK, Busy, DownMeansIdle
  <1>6. DeliveryCounted(n) /\ (n \notin Uncounted => TriesCounted(n))
    BY DEF CountsIInv
  <1>7. CASE n # m
    <2>1. Untouched(n)
      BY <1>3, <1>4, <1>5, <1>7 DEF Untouched, Starts, Listed, Committing, Resubmitting, Busy
    <2> QED
      BY <1>3, <1>6, <2>1, UntouchedKept
  <1>8. CASE n = m
    <2>1. /\ delivered[m] \in Nat /\ slog[m] \in Nat /\ iNumTries[m] \in Nat
          /\ Starts \in Nat \ {0} /\ iMaxRetry \in Nat \ {0} /\ Starts' = Starts
      BY <1>1, <1>3, <1>4, <1>5, CountTypes DEF Starts
    <2>2. Listed(m) /\ Pending(m)
      BY <1>4 DEF Listed, Pending
    <2>3. DeliveryCounted(m)'
      BY <1>3, <1>4, <1>5, <1>6, <1>8, <2>1, <2>2, WithThread DEF DeliveryCounted
    <2>4. ASSUME m \notin Uncounted PROVE TriesCounted(m)'
      <3>1. TriesWaiting(m) /\ SlogOnDisk(m)
        BY <1>6, <1>8, <2>2, <2>4 DEF TriesCounted
      <3>2. /\ iNumTries[m] + 1 < iMaxRetry + Starts /\ slog[m] + 1 < iMaxRetry + Starts
            /\ slog[m] < iNumTries[m] + Starts /\ (dir[m] = "mess" => iNumTries[m] = 0)
        BY <3>1 DEF TriesWaiting
      <3>3. TriesBusy(w, m)'
        BY <1>3, <1>5, <2>1, <3>2 DEF TriesBusy
      <3>4. SlogOnDisk(m)'
        BY <1>3, <2>1, <3>1 DEF SlogOnDisk
      <3> QED
        BY <1>4, <1>5, <2>1, <3>2, <3>3, <3>4, WithThread
    <2> QED
      BY <1>3, <1>8, <2>3, <2>4
  <1> QED
    BY <1>7, <1>8

\* A thread closes its message, or drops it when the rename to rsnd fails.
LEMMA CloseCounts ==
    ASSUME CountsIInv, IInv', NEW w \in Workers, ResendFails(w) \/ QueCloseMessage(w), NEW n \in Msgs
    PROVE  DeliveryCounted(n)' /\ (n \notin Uncounted => TriesCounted(n)')
  <1>1. Busy(w) /\ IInv
    BY DEF ResendFails, QueCloseMessage, Busy, CountsIInv
  <1>2. PICK m \in Msgs : m = wmsg[w]
    BY <1>1, HeldMessage
  <1>3. /\ UNCHANGED <<up, queue, iNumTries, delivered, prod, cpc, cmsg, listed, misread, restarts>>
        /\ UNCHANGED <<prod, queue, admin>>
        /\ Busy(w) /\ Release(w)
        /\ slog' = slog \/ slog' = [slog EXCEPT ![m] = 0]
        /\ \/ dir' = dir
           \/ \E d \in {"froz", "gone"} : dir' = [dir EXCEPT ![m] = d]
    BY <1>2 DEF ResendFails, QueCloseMessage, CleanupFreeze, CleanupRemove, Busy, disk, handle, admin, ghost
  <1>4. IInv /\ m \in Msgs /\ dir[m] \in Spooled /\ Owned(m) /\ ~Committing(m)
    BY <1>1, <1>2, HeldMessage
  <1>5. /\ \A v \in Workers : Busy(v)' => v # w
        /\ \A v \in Workers : v # w => wpc'[v] = wpc[v] /\ wmsg'[v] = wmsg[v]
        /\ \A k \in Msgs : Owned(k)' <=> Owned(k) /\ k # m
    <2>1. /\ \A v \in Workers : Busy(v)' => Busy(v) /\ v # w /\ wpc'[v] = wpc[v] /\ wmsg'[v] = wmsg[v]
          /\ \A k \in Msgs : Owned(k)' <=> Owned(k) /\ k # m
      BY <1>3, <1>4, <1>2, OwnersReleased
    <2> QED
      BY <1>3, <1>4, <2>1 DEF Release, Goto, IInv, TypeOK
  <1>6. DeliveryCounted(n) /\ (n \notin Uncounted => TriesCounted(n))
    BY DEF CountsIInv
  <1>7. CASE n # m
    <2>1. OthersUntouched(w)
      BY <1>3, <1>4, <1>5, <1>2 DEF OthersUntouched, IInv, TypeOK, Listed, queue
    <2> QED
      BY <1>3, <1>4, <1>6, <1>7, <1>2, <2>1, OthersKept, UntouchedKept
  <1>8. CASE n = m
    <2>1. /\ slog[m] \in Nat /\ Starts \in Nat /\ iMaxRetry \in Nat \ {0} /\ Starts' = Starts
      BY <1>3, <1>4, CountTypes DEF Starts
    <2>2. prod[m] = "none" /\ ~Owned(m)'
      BY <1>4, <1>5 DEF IInv, TypeOK, DraftsAreNew, Committing, Spooled
    <2>3. /\ slog'[m] = slog[m] \/ slog'[m] = 0
          /\ dir'[m] = dir[m] \/ dir'[m] \in {"froz", "gone"}
      BY <1>3, <1>4 DEF IInv, TypeOK
    <2>4. SlogOnDisk(m) => SlogOnDisk(m)'
      BY <2>1, <2>3 DEF SlogOnDisk
    <2>5. DeliveryCounted(m)'
      <3>1. ~Pending(m)'
        BY <2>2 DEF Owned, Pending, Processed
      <3> QED
        BY <1>3, <1>6, <1>8, <2>1, <3>1 DEF DeliveryCounted
    <2>6. ASSUME TriesCounted(m) PROVE TriesCounted(m)'
      <3>1. /\ iNumTries'[m] < iMaxRetry + Starts' /\ SlogOnDisk(m)' /\ delivered'[m] <= Starts'
        BY <1>3, <1>6, <1>8, <2>1, <2>4, <2>6 DEF TriesCounted, DeliveryCounted
      <3> QED
        BY <1>3, <1>4, <2>2, <3>1, LetGo
    <2> QED
      BY <1>3, <1>6, <1>8, <2>5, <2>6
  <1> QED
    BY <1>7, <1>8

\* A message that failed for now goes to the arena.
LEMMA ResendCounts ==
    ASSUME CountsIInv, IInv', NEW w \in Workers, QueResendMessage(w), NEW n \in Msgs
    PROVE  DeliveryCounted(n)' /\ (n \notin Uncounted => TriesCounted(n)')
  <1>1. Busy(w) /\ wpc[w] = "moved" /\ IInv
    BY DEF QueResendMessage, Busy, CountsIInv
  <1>2. PICK m \in Msgs : m = wmsg[w]
    BY <1>1, HeldMessage
  <1>3. /\ UNCHANGED <<dir, slog, up, ReadyQueue, iNumTries, delivered, prod, cpc, cmsg,
                       listed, misread, restarts>>
        /\ Release(w) /\ RsndArenaQueue' = RsndArenaQueue \cup {m}
    BY <1>2 DEF QueResendMessage, disk, handle, admin, ghost
  <1>4. /\ ~Busy(w)' /\ up
        /\ \A v \in Workers : v # w => wpc'[v] = wpc[v] /\ wmsg'[v] = wmsg[v]
    BY <1>1, <1>3 DEF Release, Goto, IInv, TypeOK, Busy, DownMeansIdle
  <1>5. DeliveryCounted(n) /\ (n \notin Uncounted => TriesCounted(n))
    BY DEF CountsIInv
  <1>6. CASE n # m
    <2>1. OthersUntouched(w)
      BY <1>2, <1>3, <1>4 DEF OthersUntouched, Listed
    <2> QED
      BY <1>1, <1>2, <1>3, <1>5, <1>6, <2>1, OthersKept, UntouchedKept
  <1>7. CASE n = m
    <2>1. /\ delivered[m] \in Nat /\ slog[m] \in Nat /\ iNumTries[m] \in Nat
          /\ Starts \in Nat \ {0} /\ iMaxRetry \in Nat \ {0} /\ Starts' = Starts
      BY <1>1, <1>3, <1>4, CountTypes DEF Starts
    <2>2. Pending(m)
      BY <1>1, <1>2 DEF Pending
    <2>3. DeliveryCounted(m)'
      BY <1>3, <1>5, <1>7, <2>1, <2>2 DEF DeliveryCounted
    <2>4. ASSUME m \notin Uncounted PROVE TriesCounted(m)'
      <3>1. TriesCounted(m) /\ TriesBusy(w, m)
        BY <1>1, <1>2, <1>5, <1>7, <2>4 DEF TriesCounted
      <3>2. iNumTries[m] < iMaxRetry /\ dir[m] = "rsnd" /\ slog[m] < iNumTries[m] + Starts
        BY <1>1, <3>1 DEF TriesBusy
      <3>3. /\ iNumTries[m] + 1 < iMaxRetry + Starts /\ slog[m] + 1 < iMaxRetry + Starts
        BY <2>1, <3>2
      <3>4. TriesWaiting(m)'
        BY <1>3, <2>1, <3>2, <3>3 DEF TriesWaiting
      <3>5. SlogOnDisk(m) => SlogOnDisk(m)'
        BY <1>3, <2>1 DEF SlogOnDisk
      <3>6. \A v \in Workers : ~(Busy(v)' /\ wmsg'[v] = m)
        <4>1. Listed(m)'
          BY <1>3 DEF Listed
        <4> QED
          BY <4>1 DEF IInv, SingleOwner, Processed
      <3> QED
        BY <1>3, <2>1, <3>1, <3>4, <3>5, <3>6 DEF TriesCounted
    <2> QED
      BY <1>3, <1>7, <2>3, <2>4
  <1> QED
    BY <1>6, <1>7

\* A step for a message that leaves the threads and the other messages alone.
ThreadsUntouched(m) ==
    /\ UNCHANGED <<up, restarts, listed, wpc, wmsg, cpc, cmsg>>
    /\ \A n \in Msgs : n # m =>
            /\ dir'[n] = dir[n] /\ slog'[n] = slog[n] /\ iNumTries'[n] = iNumTries[n]
            /\ delivered'[n] = delivered[n] /\ prod'[n] = prod[n]
            /\ Listed(n)' => Listed(n)

LEMMA OtherMessagesKept ==
    ASSUME NEW m \in Msgs, ThreadsUntouched(m), NEW n \in Msgs, n # m
    PROVE  Untouched(n)
  BY DEF ThreadsUntouched, Untouched, Starts, Committing, Resubmitting, Busy

\* A message of a producer: it is not spooled, or not listed yet.
LEMMA ProducerCounts ==
    ASSUME CountsIInv, IInv', NEW m \in Msgs, Producer(m), NEW n \in Msgs
    PROVE  DeliveryCounted(n)' /\ (n \notin Uncounted => TriesCounted(n)')
  <1>1. /\ UNCHANGED <<up, restarts, listed, wpc, wmsg, cpc, cmsg, delivered, slog>>
        /\ dir' = dir \/ \E d \in {"temp", "gone", "mess"} : dir' = [dir EXCEPT ![m] = d]
        /\ iNumTries' = iNumTries \/ iNumTries' = [iNumTries EXCEPT ![m] = 0]
        /\ \E p \in {"none", "writing", "moved"} : prod' = [prod EXCEPT ![m] = p]
    BY DEF Producer, QueCreateMessage, Abandon, CommitMove, QueCommitMessage, disk, handle,
           worker, admin, ghost
  <1>2. IInv /\ DeliveryCounted(n) /\ (n \notin Uncounted => TriesCounted(n))
    BY DEF CountsIInv
  <1>3. UNCHANGED queue \/ (QueAddNew(m) /\ QueCommitMessage(m))
    BY DEF Producer, QueCreateMessage, Abandon, CommitMove, QueCommitMessage
  <1>4. ASSUME QueCommitMessage(m) PROVE \A k \in Msgs : Listed(k)' <=> Listed(k) \/ k = m
    <2>1. ~Listed(m)
      BY <1>2, <1>4 DEF QueCommitMessage, Committing, IInv, SingleOwner
    <2> QED
      BY <1>2, <1>4, <2>1, ListGrows DEF QueCommitMessage
  <1>5. CASE n # m
    <2>1. ThreadsUntouched(m)
      <3>1. dir \in [Msgs -> Dirs] /\ iNumTries \in [Msgs -> Nat] /\ DOMAIN prod = Msgs
        BY <1>2 DEF IInv, TypeOK
      <3>2. ASSUME NEW k \in Msgs, k # m
            PROVE  dir'[k] = dir[k] /\ iNumTries'[k] = iNumTries[k] /\ prod'[k] = prod[k]
        BY <1>1, <3>1, <3>2
      <3>3. ASSUME NEW k \in Msgs, k # m PROVE Listed(k)' => Listed(k)
        BY <1>3, <1>4, <3>3 DEF Listed, queue
      <3> QED
        BY <1>1, <3>2, <3>3 DEF ThreadsUntouched
    <2> QED
      BY <1>1, <1>2, <1>5, <2>1, OtherMessagesKept, UntouchedKept
  <1>6. CASE n = m
    <2>1. /\ delivered[m] \in Nat /\ slog[m] \in Nat /\ iNumTries[m] \in Nat
          /\ Starts \in Nat /\ iMaxRetry \in Nat \ {0} /\ Starts' = Starts
      BY <1>1, <1>2, CountTypes DEF Starts
    <2>2. CASE QueCreateMessage(m) \/ Abandon(m)
      <3>1. /\ dir'[m] \in {"temp", "gone"}
            /\ dir'[m] = "temp" => dir[m] = "none"
            /\ iNumTries'[m] = 0 \/ (prod'[m] = "none" /\ iNumTries'[m] = iNumTries[m])
        BY <1>2, <2>2 DEF QueCreateMessage, Abandon, handle, IInv, TypeOK
      <3>2. ~Owned(m)'
        BY <3>1 DEF IInv, QueueMatchesDisk, Spooled
      <3>3. ~Pending(m)' /\ ~Listed(m)' /\ ~Committing(m)'
            /\ \A w \in Workers : ~(Busy(w)' /\ wmsg'[w] = m)
        BY <3>2 DEF Owned, Pending, Processed
      <3>4. DeliveryCounted(m)'
        BY <1>1, <1>2, <1>6, <2>1, <3>3 DEF DeliveryCounted
      <3>5. ASSUME TriesCounted(m) PROVE TriesCounted(m)'
        <4>1. SlogOnDisk(m)'
          BY <1>1, <3>1, <3>5 DEF TriesCounted, SlogOnDisk
        <4>2. iNumTries'[m] < iMaxRetry + Starts'
          BY <2>1, <3>1, <3>5 DEF TriesCounted
        <4>3. prod'[m] # "none" => iNumTries'[m] = 0
          BY <3>1
        <4> QED
          BY <3>3, <4>1, <4>2, <4>3 DEF TriesCounted
      <3> QED
        BY <1>1, <1>2, <1>6, <3>4, <3>5
    <2>3. CASE CommitMove(m)
      <3>1. prod[m] = "writing" /\ dir[m] = "temp" /\ up /\ Starts \in Nat \ {0}
        BY <1>2, <2>1, <2>3, CountTypes DEF CommitMove, IInv, DraftsAreNew, DownMeansIdle
      <3>2. /\ dir'[m] = "mess" /\ prod'[m] = "moved" /\ iNumTries'[m] = iNumTries[m]
            /\ delivered'[m] = 0
        BY <1>1, <1>2, <2>1, <2>3, <3>1 DEF CommitMove, IInv, TypeOK, DraftsAreNew, Settled
      <3>3. \A w \in Workers : ~(Busy(w)' /\ wmsg'[w] = m)
        BY <3>2 DEF Committing, Processed, IInv, SingleOwner
      <3>4. DeliveryCounted(m)'
        BY <2>1, <3>1, <3>2 DEF DeliveryCounted
      <3>5. ASSUME TriesCounted(m) PROVE TriesCounted(m)'
        <4>1. iNumTries'[m] = 0 /\ slog'[m] = 0
          BY <1>1, <3>1, <3>2, <3>5 DEF TriesCounted, SlogOnDisk
        <4>2. TriesWaiting(m)' /\ SlogOnDisk(m)' /\ 0 < iMaxRetry + Starts'
          BY <2>1, <3>1, <3>2, <4>1 DEF TriesWaiting, SlogOnDisk
        <4> QED
          BY <3>3, <4>1, <4>2 DEF TriesCounted
      <3> QED
        BY <1>1, <1>2, <1>6, <3>4, <3>5
    <2>4. CASE QueCommitMessage(m)
      <3>1. Committing(m) /\ Listed(m)' /\ UNCHANGED <<dir, iNumTries>> /\ prod'[m] = "none"
        BY <1>2, <1>4, <2>4 DEF QueCommitMessage, Committing, disk, handle, IInv, TypeOK
      <3>2. \A w \in Workers : ~(Busy(w)' /\ wmsg'[w] = m)
        BY <3>1 DEF Processed, IInv, SingleOwner
      <3>3. Pending(m)
        BY <3>1 DEF Pending
      <3>4. DeliveryCounted(m)'
        BY <1>1, <1>2, <1>6, <2>1, <3>3 DEF DeliveryCounted
      <3>5. ASSUME TriesCounted(m) PROVE TriesCounted(m)'
        <4>1. TriesWaiting(m) /\ SlogOnDisk(m)
          BY <3>1, <3>5 DEF TriesCounted
        <4>2. TriesWaiting(m)' /\ SlogOnDisk(m)'
          BY <1>1, <2>1, <3>1, <4>1 DEF TriesWaiting, SlogOnDisk
        <4> QED
          BY <2>1, <3>1, <3>2, <3>5, <4>2 DEF TriesCounted
      <3> QED
        BY <1>1, <1>2, <1>6, <3>4, <3>5
    <2> QED
      BY <1>6, <2>2, <2>3, <2>4 DEF Producer
  <1> QED
    BY <1>5, <1>6

\* Messages of the arena become ready.
LEMMA ArenaCounts ==
    ASSUME CountsIInv, NEW S \in SUBSET RsndArenaQueue, QueScanRsndArena(S) \/ QueFlushRsndArena(S),
           NEW n \in Msgs
    PROVE  DeliveryCounted(n)' /\ (n \notin Uncounted => TriesCounted(n)')
  <1>1. /\ MoveToReady(S)
        /\ UNCHANGED <<dir, slog, up, iNumTries, delivered, prod, wpc, wmsg, cpc, cmsg, listed, misread, restarts>>
    BY DEF QueScanRsndArena, QueFlushRsndArena, disk, handle, worker, admin, ghost
  <1>2. /\ ReadyQueue \in Seq(Msgs) /\ IsInjective(ReadyQueue) /\ RsndArenaQueue \subseteq Msgs
        /\ Range(ReadyQueue) \cap RsndArenaQueue = {}
    BY DEF CountsIInv, IInv, TypeOK, SingleOwner
  <1>3. IsFiniteSet(S) /\ S \in SUBSET Msgs /\ S \cap Range(ReadyQueue) = {}
    BY <1>2, MsgsAssumption, FS_Subset
  <1>4. Range(ReadyQueue') = Range(ReadyQueue) \cup S
    BY <1>1, <1>2, <1>3, AppendOrder DEF MoveToReady
  <1>5. Listed(n)' => Listed(n)
    BY <1>1, <1>4 DEF MoveToReady, Listed
  <1>6. Untouched(n)
    BY <1>1, <1>5 DEF Untouched, Starts, Committing, Resubmitting, Busy
  <1> QED
    BY <1>1, <1>6, UntouchedKept DEF CountsIInv

\* The server is started: what is spooled may be tried and delivered once more
\* than before.
LEMMA OpenCounts ==
    ASSUME CountsIInv, IInv', QueOpen, NEW n \in Msgs
    PROVE  DeliveryCounted(n)' /\ (n \notin Uncounted' => TriesCounted(n)')
  <1>a. \/ iNumTries'[n] = slog[n] /\ dir[n] = "rsnd"
        \/ iNumTries'[n] = 0 /\ dir[n] = "mess"
        \/ iNumTries'[n] = 0 /\ n \in misread'
        \/ /\ iNumTries'[n] = iNumTries[n]
           /\ ~Listed(n)'
    <2>1. PICK mess \in SUBSET {m \in Msgs : dir[m] = "mess"},
               rsnd \in SUBSET {m \in Msgs : dir[m] = "rsnd"} :
             \E new \in SUBSET rsnd :
                /\ ReadyQueue' \in Orders(mess) /\ RsndArenaQueue' = rsnd
                /\ iNumTries' = [m \in Msgs |-> IF m \in rsnd \ new THEN slog[m]
                                                ELSE IF m \in mess \cup new THEN 0
                                                ELSE iNumTries[m]]
                /\ misread' = misread \cup new
      BY OpenLoads
    <2>2. IsFiniteSet(mess) /\ mess \in SUBSET Msgs
      BY MsgsAssumption, FS_Subset
    <2>3. Range(ReadyQueue') = mess
      BY <2>1, <2>2, OrderOfSet
    <2> QED
      BY <2>1, <2>3 DEF Listed
  <1>1. /\ ~up /\ up' /\ UNCHANGED <<dir, slog, delivered, prod, wpc, wmsg, cpc, cmsg, restarts>>
    BY DEF QueOpen, disk, worker, admin, ghost
  <1>2. /\ IInv /\ DeliveryCounted(n) /\ (n \notin Uncounted => TriesCounted(n))
        /\ prod[n] = "none" /\ \A w \in Workers : ~Busy(w)'
    BY <1>1 DEF CountsIInv, IInv, DownMeansIdle, Busy
  <1>3. /\ delivered[n] \in Nat /\ slog[n] \in Nat /\ iNumTries[n] \in Nat
        /\ Starts \in Nat /\ iMaxRetry \in Nat \ {0} /\ Starts' = Starts + 1
    BY <1>1, <1>2, CountTypes DEF Starts
  <1>4. DeliveryCounted(n)'
    BY <1>1, <1>2, <1>3 DEF DeliveryCounted
  <1>5. ASSUME n \notin Uncounted' PROVE TriesCounted(n)'
    <2>0. n \notin Uncounted /\ n \notin misread'
      BY <1>5, UncountedGrows DEF Uncounted, Next
    <2>1. SlogOnDisk(n) /\ iNumTries[n] < iMaxRetry + Starts
      BY <1>2, <2>0 DEF TriesCounted
    <2>2. SlogOnDisk(n)' /\ iNumTries'[n] < iMaxRetry + Starts'
      BY <1>1, <1>3, <1>a, <2>0, <2>1 DEF SlogOnDisk
    <2>3. ~Committing(n)'
      BY <1>1, <1>2 DEF Committing
    <2>4. CASE dir[n] = "mess" /\ iNumTries'[n] = 0
      BY <1>1, <1>2, <1>3, <2>1, <2>2, <2>3, <2>4 DEF SlogOnDisk, TriesWaiting, TriesCounted
    <2>5. CASE dir[n] = "rsnd" /\ iNumTries'[n] = slog[n]
      BY <1>1, <1>2, <1>3, <2>1, <2>2, <2>3, <2>5 DEF SlogOnDisk, TriesWaiting, TriesCounted
    <2>6. CASE ~Listed(n)'
      BY <1>1, <1>2, <2>2, <2>3, <2>6 DEF TriesCounted
    <2> QED
      BY <1>a, <2>0, <2>4, <2>5, <2>6
  <1> QED
    BY <1>4, <1>5

\* The server ends: its life counts from now on among the restarts.
LEMMA LoseMemoryCounts ==
    ASSUME CountsIInv, IInv', LoseMemory, NEW n \in Msgs
    PROVE  DeliveryCounted(n)' /\ (n \notin Uncounted => TriesCounted(n)')
  <1>1. /\ up /\ ~up' /\ restarts' = restarts + 1 /\ prod'[n] = "none"
        /\ UNCHANGED <<dir, slog, iNumTries, delivered, listed>>
    BY DEF LoseMemory, disk, handle, ghost
  <1>2. /\ ReadyQueue' = <<>> /\ RsndArenaQueue' = {}
        /\ \A w \in Workers : wpc'[w] = "waiting"
        /\ \A t \in Admins : cpc'[t] = "idle"
    BY DEF LoseMemory
  <1>3. ~Owned(n)'
    BY <1>1, <1>2 DEF Owned, Listed, Processed, Committing, Resubmitting, Busy, Range
  <1>4. /\ IInv /\ DeliveryCounted(n) /\ (n \notin Uncounted => TriesCounted(n))
        /\ Starts' = Starts
    BY <1>1 DEF CountsIInv, Starts
  <1>5. Untouched(n)
    BY <1>1, <1>2, <1>3, <1>4 DEF Untouched, Owned, Processed
  <1> QED
    BY <1>1, <1>4, <1>5, UntouchedKept

\* An administrator's command gives a message nothing but a new life, and
\* touches none that no frozlist has shown.
LEMMA AdminCounts ==
    ASSUME CountsIInv, IInv', NEW t \in Admins, Admin(t), NEW n \in Msgs
    PROVE  DeliveryCounted(n)' /\ (n \notin Uncounted => TriesCounted(n)')
  <1>1. /\ UNCHANGED <<up, restarts, prod, wpc, wmsg, RsndArenaQueue>> /\ listed \subseteq listed'
        /\ IInv /\ DeliveryCounted(n) /\ (n \notin Uncounted => TriesCounted(n))
        /\ \A u \in Admins : cpc[u] # "idle" => cmsg[u] \in listed
    BY DEF Admin, FrozList, FrozCommand, QueInitMessageStats, UnFreezeMove, UnFreezeFails,
           QueUtUnFreezeMessage, QueUtDeleteFrozenMessage, QueAddNew, disk, queue, worker, ghost,
           CountsIInv, CommandsAreListed
  <1>2. \A w \in Workers : Busy(w)' <=> Busy(w)
    BY <1>1 DEF Busy
  <1>3. /\ Starts \in Nat /\ Starts' = Starts /\ delivered[n] \in Nat
    BY <1>1, CountTypes DEF Starts
  <1>4. CASE FrozList(t) \/ (\E m \in Msgs, command \in {"submit", "delete"} : FrozCommand(t, m, command))
             \/ UnFreezeFails(t)
    <2>1. /\ UNCHANGED <<dir, slog, iNumTries, delivered, ReadyQueue>>
          /\ cpc' = cpc \/ \E c \in {"submit", "delete", "idle"} : cpc' = [cpc EXCEPT ![t] = c]
          /\ \A u \in Admins : u # t => cmsg'[u] = cmsg[u]
          /\ cpc' = cpc => cmsg' = cmsg
      BY <1>1, <1>4 DEF FrozList, FrozCommand, UnFreezeFails, EndCommand, disk, queue, handle,
                        ghost, admin, IInv, TypeOK
    <2>2. Resubmitting(n)' => Resubmitting(n)
      BY <1>1, <2>1 DEF Resubmitting, IInv, TypeOK
    <2>3. Untouched(n)
      BY <1>1, <1>2, <1>3, <2>1, <2>2 DEF Untouched, Listed, Committing
    <2> QED
      BY <1>1, <2>3, UntouchedKept
  <1>5. ASSUME NEW m \in Msgs, m = cmsg[t], m \in listed, m # n,
               QueInitMessageStats(t) \/ UnFreezeMove(t) \/ QueUtUnFreezeMessage(t)
               \/ QueUtDeleteFrozenMessage(t)
        PROVE  Untouched(n)
    <2>1. /\ dir'[n] = dir[n] /\ slog'[n] = slog[n] /\ iNumTries'[n] = iNumTries[n]
          /\ delivered'[n] = delivered[n]
          /\ \A u \in Admins : u # t => cpc'[u] = cpc[u] /\ cmsg'[u] = cmsg[u]
          /\ cmsg'[t] = m \/ cpc'[t] = "idle"
      <3>1. /\ dir \in [Msgs -> Dirs] /\ slog \in [Msgs -> Nat] /\ iNumTries \in [Msgs -> Nat]
            /\ delivered \in [Msgs -> Nat] /\ DOMAIN cpc = Admins /\ DOMAIN cmsg = Admins
        BY <1>1 DEF IInv, TypeOK
      <3>2. /\ dir' = dir \/ \E d \in Dirs : dir' = [dir EXCEPT ![m] = d]
            /\ slog' = slog \/ slog' = [slog EXCEPT ![m] = 0]
            /\ iNumTries' = iNumTries \/ iNumTries' = [iNumTries EXCEPT ![m] = 0]
            /\ delivered' = delivered \/ delivered' = [delivered EXCEPT ![m] = 0]
        BY <1>5 DEF QueInitMessageStats, UnFreezeMove, QueUtUnFreezeMessage,
           QueUtDeleteFrozenMessage, disk, handle, ghost, Dirs
      <3>3. \/ cmsg' = cmsg /\ \E c \in {"reset", "moved"} : cpc' = [cpc EXCEPT ![t] = c]
            \/ cpc' = [cpc EXCEPT ![t] = "idle"] /\ cmsg' = [cmsg EXCEPT ![t] = NoMsg]
        BY <1>5 DEF QueInitMessageStats, UnFreezeMove, QueUtUnFreezeMessage, EndCommand,
           QueUtDeleteFrozenMessage
      <3>4. /\ dir'[n] = dir[n] /\ slog'[n] = slog[n] /\ iNumTries'[n] = iNumTries[n]
            /\ delivered'[n] = delivered[n]
        BY <1>5, <3>1, <3>2
      <3>5. /\ \A u \in Admins : u # t => cpc'[u] = cpc[u] /\ cmsg'[u] = cmsg[u]
            /\ cmsg'[t] = m \/ cpc'[t] = "idle"
        BY <1>5, <3>1, <3>3
      <3> QED
        BY <3>4, <3>5
    <2>2. Resubmitting(n)' => Resubmitting(n)
      BY <1>5, <2>1 DEF Resubmitting
    <2>3. Listed(n)' => Listed(n)
      <3>1. CASE QueUtUnFreezeMessage(t)
        <4>1. Resubmitting(m) /\ QueAddNew(m)
          BY <1>5, <3>1 DEF QueUtUnFreezeMessage, Resubmitting
        <4>2. ~Listed(m)
          BY <1>1, <4>1 DEF IInv, SingleOwner
        <4> QED
          BY <1>1, <1>5, <4>1, <4>2, ListGrows
      <3>2. CASE UNCHANGED queue
        BY <3>2 DEF queue, Listed
      <3> QED
        BY <1>5, <3>1, <3>2 DEF QueInitMessageStats, UnFreezeMove, QueUtDeleteFrozenMessage
    <2> QED
      BY <1>1, <1>2, <1>3, <2>1, <2>2, <2>3 DEF Untouched, Committing
  <1>6. ASSUME n \in listed, n = cmsg[t],
               QueInitMessageStats(t) \/ UnFreezeMove(t) \/ QueUtUnFreezeMessage(t)
               \/ QueUtDeleteFrozenMessage(t)
        PROVE  DeliveryCounted(n)'
    <2>1. CASE UnFreezeMove(t)
      <3>1. up /\ Starts \in Nat \ {0}
        BY <1>1, <2>1, CountTypes DEF UnFreezeMove, IInv, DownMeansIdle
      <3>2. delivered'[n] = 0
        BY <1>1, <1>6, <2>1 DEF UnFreezeMove, IInv, TypeOK
      <3> QED
        BY <1>3, <3>1, <3>2 DEF DeliveryCounted
    <2>2. CASE QueInitMessageStats(t) \/ QueUtUnFreezeMessage(t) \/ QueUtDeleteFrozenMessage(t)
      <3>1. delivered' = delivered
        BY <2>2 DEF QueInitMessageStats, QueUtUnFreezeMessage, QueUtDeleteFrozenMessage, ghost
      <3>2. \A u \in Admins : u # t => cpc'[u] = cpc[u] /\ cmsg'[u] = cmsg[u]
        BY <1>1, <2>2 DEF QueInitMessageStats, QueUtUnFreezeMessage, QueUtDeleteFrozenMessage,
                          EndCommand, IInv, TypeOK
      <3>3. cpc'[t] # "moved"
        BY <1>1, <2>2 DEF QueInitMessageStats, QueUtUnFreezeMessage, QueUtDeleteFrozenMessage,
                          EndCommand, IInv, TypeOK
      <3>4. Resubmitting(n)' => Resubmitting(n)
        BY <3>2, <3>3 DEF Resubmitting
      <3>5. Listed(n)' => Listed(n) \/ Resubmitting(n)
        <4>1. CASE QueUtUnFreezeMessage(t)
          BY <1>6, <4>1 DEF QueUtUnFreezeMessage, Resubmitting
        <4>2. CASE UNCHANGED queue
          BY <4>2 DEF queue, Listed
        <4> QED
          BY <2>2, <4>1, <4>2 DEF QueInitMessageStats, QueUtDeleteFrozenMessage
      <3>6. Pending(n)' => Pending(n)
        BY <1>1, <1>2, <3>4, <3>5 DEF Pending, Committing
      <3> QED
        BY <1>1, <1>3, <3>1, <3>6, DeliveryKept
    <2> QED
      BY <1>6, <2>1, <2>2
  <1>7. CASE QueInitMessageStats(t) \/ UnFreezeMove(t) \/ QueUtUnFreezeMessage(t)
             \/ QueUtDeleteFrozenMessage(t)
    <2>1. cpc[t] # "idle" /\ cmsg[t] \in Msgs /\ cmsg[t] \in listed
      BY <1>1, <1>7 DEF QueInitMessageStats, UnFreezeMove, QueUtUnFreezeMessage,
                        QueUtDeleteFrozenMessage, IInv, NamesAreMessages
    <2>2. CASE n = cmsg[t]
      BY <1>1, <1>6, <1>7, <2>1, <2>2 DEF Uncounted
    <2>3. CASE n # cmsg[t]
      BY <1>1, <1>5, <1>7, <2>1, <2>3, UntouchedKept
    <2> QED
      BY <2>2, <2>3
  <1> QED
    BY <1>4, <1>7 DEF Admin

\* A session that works on a message took it from a list that was shown.
LEMMA CommandsStayListed ==
    ASSUME CountsIInv, [Next]_vars
    PROVE  CommandsAreListed'
  <1>1. IInv /\ CommandsAreListed /\ cpc \in [Admins -> {"idle", "submit", "reset", "moved", "delete"}]
    BY DEF CountsIInv, IInv, TypeOK
  <1>2. CASE UNCHANGED <<cpc, cmsg, listed>>
    BY <1>1, <1>2 DEF CommandsAreListed
  <1>3. ASSUME NEW t \in Admins, Admin(t) PROVE CommandsAreListed'
    <2>1. listed \subseteq listed' /\ \A u \in Admins : u # t => cpc'[u] = cpc[u] /\ cmsg'[u] = cmsg[u]
      BY <1>1, <1>3 DEF Admin, FrozList, FrozCommand, QueInitMessageStats, UnFreezeMove,
         UnFreezeFails, QueUtUnFreezeMessage, QueUtDeleteFrozenMessage, EndCommand, admin, IInv, TypeOK
    <2>2. cpc'[t] # "idle" => cmsg'[t] \in listed
      BY <1>1, <1>3 DEF Admin, FrozList, FrozCommand, QueInitMessageStats, UnFreezeMove,
         UnFreezeFails, QueUtUnFreezeMessage, QueUtDeleteFrozenMessage, EndCommand, admin, IInv, TypeOK,
         CommandsAreListed
    <2> QED
      BY <1>1, <2>1, <2>2 DEF CommandsAreListed
  <1>4. CASE QueOpen \/ Arena \/ UNCHANGED vars
    BY <1>2, <1>4 DEF QueOpen, Arena, QueScanRsndArena, QueFlushRsndArena, vars, admin
  <1>5. CASE QueClose \/ Crash
    BY <1>5 DEF QueClose, Crash, LoseMemory, CommandsAreListed
  <1>6. ASSUME NEW m \in Msgs, Producer(m) PROVE CommandsAreListed'
    BY <1>2, <1>6 DEF Producer, QueCreateMessage, Abandon, CommitMove, QueCommitMessage, admin
  <1>7. ASSUME NEW w \in Workers, Worker(w) PROVE CommandsAreListed'
    BY <1>2, <1>7 DEF Worker, Process, WaitReadyEvent, ExtractNothing, QueExtractMessage,
       QueStatMessage, Deliver, TransientFailure, PermanentFailure, FilterOut, FilterCorrupts,
       ResendExpired, NotifyAndCondemn, ResendMove, ResendFails, QueResendMessage, QueCloseMessage, admin
  <1> QED
    BY <1>3, <1>4, <1>5, <1>6, <1>7 DEF Next

LEMMA InitCounts == Init => CountsIInv
  <1> SUFFICES ASSUME Init PROVE CountsIInv
    OBVIOUS
  <1>1. IInv
    BY InitIInv
  <1>2. ASSUME NEW m \in Msgs PROVE DeliveryCounted(m) /\ TriesCounted(m)
    <2>1. ~Owned(m) /\ ~Pending(m) /\ \A w \in Workers : ~Busy(w)
      BY DEF Init, Owned, Pending, Listed, Processed, Committing, Resubmitting, Busy, Range
    <2>2. /\ Starts = 0 /\ delivered[m] = 0 /\ iNumTries[m] = 0 /\ slog[m] = 0
          /\ dir[m] = "none" /\ prod[m] = "none"
      BY DEF Init, Starts
    <2> QED
      BY <2>1, <2>2, RetryAssumption DEF DeliveryCounted, TriesCounted, SlogOnDisk, Owned
  <1>3. CommandsAreListed
    BY DEF Init, CommandsAreListed
  <1> QED
    BY <1>1, <1>2, <1>3 DEF CountsIInv

LEMMA NextCounts == CountsIInv /\ [Next]_vars => CountsIInv'
  <1> SUFFICES ASSUME CountsIInv, [Next]_vars PROVE CountsIInv'
    OBVIOUS
  <1>1. IInv'
    BY NextKeepsIInv DEF CountsIInv
  <1>2. CommandsAreListed'
    BY CommandsStayListed
  <1>3. ASSUME NEW n \in Msgs
        PROVE  DeliveryCounted(n)' /\ (n \notin Uncounted' => TriesCounted(n)')
    <2>0. n \in Uncounted => n \in Uncounted'
      BY UncountedGrows
    <2>1. CASE QueOpen
      BY <1>1, <2>1, OpenCounts
    <2>2. CASE QueClose \/ Crash
      BY <1>1, <2>0, <2>2, LoseMemoryCounts DEF QueClose, Crash
    <2>3. CASE \E m \in Msgs : Producer(m)
      BY <1>1, <2>0, <2>3, ProducerCounts
    <2>4. CASE \E w \in Workers : Worker(w)
      BY <1>1, <2>0, <2>4, IdleCounts, ExtractCounts, ProcessingCounts, CloseCounts, ResendCounts
      DEF Worker, Process
    <2>5. CASE \E t \in Admins : Admin(t)
      BY <1>1, <2>0, <2>5, AdminCounts
    <2>6. CASE Arena
      BY <2>0, <2>6, ArenaCounts DEF Arena
    <2>7. CASE UNCHANGED vars
      <3>1. UNCHANGED <<dir, slog, up, ReadyQueue, RsndArenaQueue, iNumTries, delivered, prod,
                        wpc, wmsg, cpc, cmsg, listed, misread, restarts>>
        BY <2>7 DEF vars, disk, queue, handle, worker, admin, ghost
      <3>2. Untouched(n)
        BY <3>1 DEF Untouched, Starts, Listed, Committing, Resubmitting, Busy
      <3> QED
        BY <2>0, <3>1, <3>2, UntouchedKept DEF CountsIInv
    <2> QED
      BY <2>1, <2>2, <2>3, <2>4, <2>5, <2>6, <2>7 DEF Next
  <1> QED
    BY <1>1, <1>2, <1>3 DEF CountsIInv

\* The counters keep together, whatever the number of messages, threads,
\* sessions and restarts, and whatever fails.
THEOREM CountsInvariance == Spec => []CountsIInv
  <1> QED
    BY InitCounts, NextCounts, PTL DEF Spec

\* A message is delivered again only after a restart: a thread that delivered
\* it gives it back to nobody (SMAILSvr.cpp, QueCleanupMessage).
THEOREM SpecDeliveredOncePerRestart == Spec => []DeliveredOncePerRestart
  <1>1. CountsIInv => DeliveredOncePerRestart
    <2> SUFFICES ASSUME CountsIInv, NEW m \in Msgs PROVE delivered[m] <= 1 + restarts
      BY DEF DeliveredOncePerRestart
    <2>1. delivered[m] \in Nat /\ restarts \in Nat /\ delivered[m] <= Starts
      BY CountTypes DEF CountsIInv, DeliveryCounted
    <2> QED
      BY <2>1 DEF Starts
  <1> QED
    BY <1>1, CountsInvariance, PTL

\* No message that was never shown as frozen, and whose slog file could be
\* opened whenever the spool was loaded, is tried more than iMaxRetry times, and
\* once more for each restart (QueMessageExpired).
THEOREM SpecRetryBound == Spec => []RetryBound
  <1>1. CountsIInv => RetryBound
    <2> SUFFICES ASSUME CountsIInv, NEW m \in Msgs \ Uncounted
                 PROVE  iNumTries[m] <= iMaxRetry + restarts
      BY DEF RetryBound
    <2>1. /\ iNumTries[m] \in Nat /\ restarts \in Nat /\ iMaxRetry \in Nat \ {0} /\ Starts \in Nat
          /\ iNumTries[m] < iMaxRetry + Starts
      BY CountTypes DEF CountsIInv, TriesCounted
    <2>2. Starts <= restarts + 1
      BY <2>1 DEF Starts
    <2> QED
      BY <2>1, <2>2
  <1> QED
    BY <1>1, CountsInvariance, PTL
-----------------------------------------------------------------------------
(* The refinement of ReliableSpool *)

\* A step that changes the status of no message and settles none.
LEMMA SameStatus ==
    ASSUME \A n \in Msgs : StatusOf(n)' = StatusOf(n) /\ (Settled(n)' <=> Settled(n))
    PROVE  UNCHANGED RS!vars
  BY DEF RS!vars, Settled

\* A step that changes the status of one message, and settles it perhaps.
LEMMA OneStatus ==
    ASSUME NEW m \in Msgs,
           \A n \in Msgs : n # m => StatusOf(n)' = StatusOf(n) /\ (Settled(n)' <=> Settled(n))
    PROVE  LET status == [n \in Msgs |-> StatusOf(n)]
               settled == [n \in Msgs |-> Settled(n)]
           IN  /\ status' = [status EXCEPT ![m] = StatusOf(m)']
               /\ settled' = [settled EXCEPT ![m] = Settled(m)']
               /\ status[m] = StatusOf(m) /\ settled[m] = Settled(m)
               /\ (Settled(m)' <=> Settled(m)) => settled' = settled
               /\ StatusOf(m)' = StatusOf(m) => status' = status
  BY DEF Settled

LEMMA InitRefines == Init => RS!Init
  <1> SUFFICES ASSUME Init PROVE RS!Init
    OBVIOUS
  <1>1. \A m \in Msgs : StatusOf(m) = "absent" /\ Settled(m) = FALSE
    BY DEF Init, StatusOf, Settled, Spooled
  <1> QED
    BY <1>1 DEF RS!Init

LEMMA ProducerRefines ==
    ASSUME IInv, NEW m \in Msgs, Producer(m)
    PROVE  UNCHANGED RS!vars \/ RS!Accept(m)
  <1>1. CASE CommitMove(m)
    <2>1. dir[m] = "temp" /\ dir' = [dir EXCEPT ![m] = "mess"] /\ UNCHANGED ghost
      BY <1>1 DEF CommitMove, IInv, DraftsAreNew
    <2>2. \A n \in Msgs : Settled(n)' <=> Settled(n)
      BY <2>1 DEF Settled, ghost
    <2>3. dir'[m] = "mess" /\ \A n \in Msgs : n # m => dir'[n] = dir[n]
      BY <2>1 DEF IInv, TypeOK
    <2>4. \A n \in Msgs : n # m => StatusOf(n)' = StatusOf(n)
      BY <2>1, <2>2, <2>3 DEF StatusOf, ghost
    <2>5. StatusOf(m) = "absent" /\ StatusOf(m)' = "queued"
      BY <2>1, <2>3 DEF StatusOf, Spooled
    <2> QED
      BY <2>2, <2>4, <2>5, OneStatus DEF RS!Accept
  <1>2. CASE QueCreateMessage(m) \/ Abandon(m)
    <2>1. /\ dir[m] \in {"none", "temp"}
          /\ dir' = [dir EXCEPT ![m] = "temp"] \/ dir' = [dir EXCEPT ![m] = "gone"]
          /\ UNCHANGED ghost
      BY <1>2 DEF QueCreateMessage, Abandon, IInv, DraftsAreNew
    <2>2. \A n \in Msgs : Settled(n)' <=> Settled(n)
      BY <2>1 DEF Settled, ghost
    <2>3. ~Settled(m) /\ m \notin deleted
      BY <2>1 DEF IInv, DraftsAreNew
    <2>4. dir'[m] \in {"temp", "gone"} /\ \A n \in Msgs : n # m => dir'[n] = dir[n]
      BY <2>1 DEF IInv, TypeOK
    <2>5. \A n \in Msgs : StatusOf(n)' = StatusOf(n)
      BY <2>1, <2>2, <2>3, <2>4 DEF StatusOf, Spooled, ghost
    <2> QED
      BY <2>2, <2>5, SameStatus
  <1>3. CASE QueCommitMessage(m)
    <2>1. /\ UNCHANGED <<dir, deleted>>
          /\ \A n \in Msgs : Settled(n)' <=> Settled(n)
      BY <1>3 DEF QueCommitMessage, disk, Settled
    <2> QED
      BY <2>1, SameStatus DEF StatusOf
  <1> QED
    BY <1>1, <1>2, <1>3 DEF Producer

LEMMA WorkerRefines ==
    ASSUME RemoveSpoolErrors => ~IOFails, IInv, NEW w \in Workers, Worker(w)
    PROVE  \/ UNCHANGED RS!vars
           \/ \E m \in Msgs : RS!Settle(m) \/ RS!Finish(m) \/ RS!Freeze(m)
  <1>1. CASE Deliver(w) \/ PermanentFailure(w) \/ FilterOut(w) \/ ResendExpired(w)
    <2>1. /\ UNCHANGED <<dir, deleted>>
          /\ delivered' = delivered \/ delivered' = [delivered EXCEPT ![wmsg[w]] = @ + 1]
          /\ notified' = notified \/ notified' = notified \cup {wmsg[w]}
          /\ filtered' = filtered \/ filtered' = filtered \cup {wmsg[w]}
      BY <1>1 DEF Deliver, PermanentFailure, FilterOut, ResendExpired, NotifyAndCondemn, disk, ghost
    <2>2. Busy(w)
      BY <1>1 DEF Deliver, PermanentFailure, FilterOut, ResendExpired, Busy
    <2>3. PICK m \in Msgs : m = wmsg[w] /\ dir[m] \in Spooled
      BY <2>2, HeldMessage
    <2>4. \A n \in Msgs : n # m => (Settled(n)' <=> Settled(n))
      <3>1. \A n \in Msgs : n # m => delivered'[n] = delivered[n]
        BY <2>1, <2>3 DEF IInv, TypeOK
      <3> QED
        BY <2>1, <2>3, <3>1 DEF Settled
    <2>5. Settled(m) => Settled(m)'
      <3>1. delivered \in [Msgs -> Nat]
        BY DEF IInv, TypeOK
      <3> QED
        BY <2>1, <2>3, <3>1 DEF Settled
    <2>6. \A n \in Msgs : n # m => StatusOf(n)' = StatusOf(n)
      BY <2>1, <2>4 DEF StatusOf
    <2>7. StatusOf(m) = "queued" /\ StatusOf(m)' = "queued"
      BY <2>1, <2>3 DEF StatusOf
    <2>8. CASE Settled(m)' <=> Settled(m)
      BY <2>4, <2>6, <2>7, <2>8, SameStatus
    <2>9. CASE ~Settled(m) /\ Settled(m)'
      <3>1. RS!Settle(m)
        BY <2>3, <2>4, <2>6, <2>7, <2>9, OneStatus DEF RS!Settle, Settled
      <3> QED
        BY <2>3, <3>1
    <2> QED
      BY <2>5, <2>8, <2>9
  <1>2. CASE QueCloseMessage(w)
    <2>1. /\ \/ dir' = [dir EXCEPT ![wmsg[w]] = "froz"]
             \/ dir' = [dir EXCEPT ![wmsg[w]] = "gone"] /\ wpc[w] = "remove"
             \/ dir' = dir
          /\ UNCHANGED ghost
      BY <1>2 DEF QueCloseMessage, CleanupFreeze, CleanupRemove
    <2>2. Busy(w)
      BY <1>2 DEF QueCloseMessage, Busy
    <2>3. PICK m \in Msgs : m = wmsg[w] /\ dir[m] \in Spooled
      BY <2>2, HeldMessage
    <2>4. wpc[w] = "remove" => Settled(m)
      BY <2>3 DEF IInv, RemovalIsDue
    <2>5. \A n \in Msgs : Settled(n)' <=> Settled(n)
      BY <2>1 DEF Settled, ghost
    <2>6. /\ \/ dir'[m] = "froz"
             \/ dir'[m] = "gone" /\ Settled(m)
             \/ dir'[m] = dir[m]
          /\ \A n \in Msgs : n # m => dir'[n] = dir[n]
      BY <2>1, <2>3, <2>4 DEF IInv, TypeOK
    <2>7. \A n \in Msgs : n # m => StatusOf(n)' = StatusOf(n)
      BY <2>1, <2>5, <2>6 DEF StatusOf, ghost
    <2>8. StatusOf(m) = "queued"
      BY <2>3 DEF StatusOf
    <2>9. CASE dir'[m] = "froz"
      <3>1. StatusOf(m)' = "frozen"
        BY <2>9 DEF StatusOf, Spooled
      <3> QED
        BY <2>3, <2>5, <2>7, <2>8, <3>1, OneStatus DEF RS!Freeze
    <2>10. CASE dir'[m] = "gone" /\ Settled(m)
      <3>1. StatusOf(m)' = "gone"
        BY <2>3, <2>5, <2>10 DEF StatusOf, Spooled
      <3>2. RS!Finish(m)
        BY <2>3, <2>5, <2>7, <2>8, <2>10, <3>1, OneStatus DEF RS!Finish
      <3> QED
        BY <2>3, <3>2
    <2>11. CASE dir'[m] = dir[m]
      <3>1. StatusOf(m)' = StatusOf(m)
        BY <2>3, <2>11 DEF StatusOf
      <3> QED
        BY <2>5, <2>7, <3>1, SameStatus
    <2> QED
      BY <2>6, <2>9, <2>10, <2>11
  <1>3. CASE ResendMove(w)
    <2>1. dir' = [dir EXCEPT ![wmsg[w]] = "rsnd"] /\ UNCHANGED ghost /\ Busy(w)
      BY <1>3 DEF ResendMove, Busy
    <2>2. PICK m \in Msgs : m = wmsg[w] /\ dir[m] \in Spooled
      BY <2>1, HeldMessage
    <2>3. \A n \in Msgs : Settled(n)' <=> Settled(n)
      BY <2>1 DEF Settled, ghost
    <2>4. dir'[m] = "rsnd" /\ \A n \in Msgs : n # m => dir'[n] = dir[n]
      BY <2>1, <2>2 DEF IInv, TypeOK
    <2>5. \A n \in Msgs : StatusOf(n)' = StatusOf(n)
      BY <2>1, <2>2, <2>3, <2>4 DEF StatusOf, Spooled, ghost
    <2> QED
      BY <2>3, <2>5, SameStatus
  <1>4. CASE \/ WaitReadyEvent(w) \/ ExtractNothing(w) \/ QueExtractMessage(w)
             \/ QueStatMessage(w) \/ TransientFailure(w) \/ FilterCorrupts(w)
             \/ ResendFails(w) \/ QueResendMessage(w)
    <2>1. UNCHANGED <<dir, ghost>>
      BY <1>4 DEF WaitReadyEvent, ExtractNothing, QueExtractMessage, QueStatMessage,
         TransientFailure, FilterCorrupts, ResendFails, QueResendMessage, disk
    <2>2. \A n \in Msgs : Settled(n)' <=> Settled(n)
      BY <2>1 DEF Settled, ghost
    <2> QED
      BY <2>1, <2>2, SameStatus DEF StatusOf, ghost
  <1> QED
    BY <1>1, <1>2, <1>3, <1>4 DEF Worker, Process

LEMMA AdminRefines ==
    ASSUME IInv, NEW t \in Admins, Admin(t)
    PROVE  UNCHANGED RS!vars \/ \E m \in Msgs : RS!Resubmit(m) \/ RS!Delete(m)
  <1>1. CASE UnFreezeMove(t)
    <2>1. PICK m \in Msgs : m = cmsg[t]
      BY <1>1 DEF UnFreezeMove, IInv, NamesAreMessages
    <2>2. /\ dir[m] = "froz" /\ dir' = [dir EXCEPT ![m] = "mess"] /\ deleted' = deleted
          /\ notified' = notified \ {m} /\ filtered' = filtered \ {m}
          /\ delivered' = [delivered EXCEPT ![m] = 0]
      BY <1>1, <2>1 DEF UnFreezeMove
    <2>3. /\ dir'[m] = "mess" /\ delivered'[m] = 0
          /\ \A n \in Msgs : n # m => dir'[n] = dir[n] /\ delivered'[n] = delivered[n]
      BY <2>2 DEF IInv, TypeOK
    <2>4. ~Settled(m)' /\ \A n \in Msgs : n # m => (Settled(n)' <=> Settled(n))
      BY <2>2, <2>3 DEF Settled
    <2>5. \A n \in Msgs : n # m => StatusOf(n)' = StatusOf(n)
      BY <2>2, <2>3, <2>4 DEF StatusOf
    <2>6. StatusOf(m) = "frozen" /\ StatusOf(m)' = "queued"
      BY <2>2, <2>3 DEF StatusOf, Spooled
    <2>7. RS!Resubmit(m)
      BY <2>4, <2>5, <2>6, OneStatus DEF RS!Resubmit, Settled
    <2> QED
      BY <2>7
  <1>2. CASE QueUtDeleteFrozenMessage(t)
    <2>1. PICK m \in Msgs : m = cmsg[t]
      BY <1>2 DEF QueUtDeleteFrozenMessage, IInv, NamesAreMessages
    <2>2. /\ \/ dir[m] = "froz" /\ dir' = [dir EXCEPT ![m] = "gone"] /\ deleted' = deleted \cup {m}
             \/ UNCHANGED <<dir, deleted>>
          /\ UNCHANGED <<delivered, notified, filtered>>
      BY <1>2, <2>1 DEF QueUtDeleteFrozenMessage
    <2>3. \A n \in Msgs : Settled(n)' <=> Settled(n)
      BY <2>2 DEF Settled
    <2>4. CASE UNCHANGED <<dir, deleted>>
      BY <2>3, <2>4, SameStatus DEF StatusOf
    <2>5. CASE dir[m] = "froz" /\ dir' = [dir EXCEPT ![m] = "gone"] /\ deleted' = deleted \cup {m}
      <3>1. dir'[m] = "gone" /\ \A n \in Msgs : n # m => dir'[n] = dir[n]
        BY <2>5 DEF IInv, TypeOK
      <3>2. \A n \in Msgs : n # m => StatusOf(n)' = StatusOf(n)
        BY <2>3, <2>5, <3>1 DEF StatusOf
      <3>3. StatusOf(m) = "frozen" /\ StatusOf(m)' = "gone"
        BY <2>5, <3>1 DEF StatusOf, Spooled
      <3>4. RS!Delete(m)
        BY <2>3, <3>2, <3>3, OneStatus DEF RS!Delete
      <3> QED
        BY <3>4
    <2> QED
      BY <2>2, <2>4, <2>5
  <1>3. CASE \/ FrozList(t) \/ QueInitMessageStats(t) \/ UnFreezeFails(t) \/ QueUtUnFreezeMessage(t)
             \/ \E n \in Msgs, command \in {"submit", "delete"} : FrozCommand(t, n, command)
    <2>1. UNCHANGED <<dir, ghost>>
      BY <1>3 DEF FrozList, QueInitMessageStats, UnFreezeFails, QueUtUnFreezeMessage, FrozCommand, disk
    <2>2. \A n \in Msgs : Settled(n)' <=> Settled(n)
      BY <2>1 DEF Settled, ghost
    <2> QED
      BY <2>1, <2>2, SameStatus DEF StatusOf, ghost
  <1> QED
    BY <1>1, <1>2, <1>3 DEF Admin

LEMMA NextRefines ==
    ASSUME RemoveSpoolErrors => ~IOFails, IInv, [Next]_vars
    PROVE  [RS!Next]_RS!vars
  <1>1. ASSUME NEW m \in Msgs, Producer(m) PROVE [RS!Next]_RS!vars
    BY <1>1, ProducerRefines DEF RS!Next
  <1>2. ASSUME NEW w \in Workers, Worker(w) PROVE [RS!Next]_RS!vars
    BY <1>2, WorkerRefines DEF RS!Next
  <1>3. ASSUME NEW t \in Admins, Admin(t) PROVE [RS!Next]_RS!vars
    BY <1>3, AdminRefines DEF RS!Next
  <1>4. CASE QueOpen \/ QueClose \/ Crash \/ Arena \/ UNCHANGED vars
    <2>1. UNCHANGED <<dir, ghost>>
      BY <1>4 DEF QueOpen, QueClose, Crash, LoseMemory, Arena, QueScanRsndArena, QueFlushRsndArena,
         vars, disk
    <2>2. \A n \in Msgs : Settled(n)' <=> Settled(n)
      BY <2>1 DEF Settled, ghost
    <2> QED
      BY <2>1, <2>2, SameStatus DEF StatusOf, ghost
  <1> QED
    BY <1>1, <1>2, <1>3, <1>4 DEF Next

\* MessQueue.cpp keeps the promise of ReliableSpool for any number of crashes,
\* unless RemoveSpoolErrors is on and notifications may fail.
THEOREM Refinement ==
    ASSUME RemoveSpoolErrors => ~IOFails
    PROVE  Spec => ImplementsReliableSpool
  <1>1. Init => RS!Init
    BY InitRefines
  <1>2. IInv /\ [Next]_vars => [RS!Next]_RS!vars
    BY NextRefines
  <1>3. Spec => RS!Init /\ [][RS!Next]_RS!vars
    BY <1>1, <1>2, Invariance, PTL DEF Spec
  <1> QED
    BY <1>3 DEF ImplementsReliableSpool, RS!Spec
=============================================================================
