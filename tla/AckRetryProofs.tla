---------------------------- MODULE AckRetryProofs ----------------------------
(***************************************************************************)
(* Theorems about AckRetry, for every set of packets and every number of   *)
(* retries and tasks: its safety invariants, each from the invariant that  *)
(* makes it inductive.  RetriesEnd is liveness and stays with TLC.         *)
(***************************************************************************)
EXTENDS AckRetry, TLAPS

-----------------------------------------------------------------------------
(* Sequences.                                                              *)

\* What taking the head off a sequence leaves behind.
LEMMA TailFacts ==
    ASSUME NEW S, NEW s \in Seq(S), s # << >>
    PROVE  /\ Head(s) \in S /\ Tail(s) \in Seq(S)
           /\ Len(s) \in Nat /\ Len(s) >= 1 /\ Len(Tail(s)) = Len(s) - 1
           /\ Head(s) = s[1]
           /\ \A i \in 1 .. Len(s) - 1 : Tail(s)[i] = s[i + 1]
OBVIOUS

\* What adding an element at the end does.
LEMMA AppendFacts ==
    ASSUME NEW S, NEW s \in Seq(S), NEW e \in S
    PROVE  /\ Append(s, e) \in Seq(S)
           /\ Len(s) \in Nat /\ Len(Append(s, e)) = Len(s) + 1
           /\ Append(s, e)[Len(s) + 1] = e
           /\ \A i \in 1 .. Len(s) : Append(s, e)[i] = s[i]
OBVIOUS

\* A packet of the sequence is at its head or in its tail.
LEMMA HoldsTail ==
    ASSUME NEW s \in Seq(Entry), s # << >>, NEW p
    PROVE  Holds(s, p) <=> Head(s).packet = p \/ Holds(Tail(s), p)
<1>1. ASSUME Holds(s, p) PROVE Head(s).packet = p \/ Holds(Tail(s), p)
  <2>1. PICK i \in 1 .. Len(s) : s[i].packet = p
    BY <1>1 DEF Holds
  <2>2. CASE i = 1
    BY <2>1, <2>2, TailFacts
  <2>3. CASE i # 1
    <3>1. i - 1 \in 1 .. Len(s) - 1 /\ (i - 1) + 1 = i
      BY <2>3, TailFacts
    <3>2. Tail(s)[i - 1] = s[i] /\ i - 1 \in 1 .. Len(Tail(s))
      BY <3>1, TailFacts
    <3> QED
      BY <2>1, <3>2 DEF Holds
  <2> QED
    BY <2>2, <2>3
<1>2. ASSUME Head(s).packet = p PROVE Holds(s, p)
  <2>1. 1 \in 1 .. Len(s) /\ s[1] = Head(s)
    BY TailFacts
  <2> QED
    BY <1>2, <2>1 DEF Holds
<1>3. ASSUME Holds(Tail(s), p) PROVE Holds(s, p)
  <2>1. PICK i \in 1 .. Len(Tail(s)) : Tail(s)[i].packet = p
    BY <1>3 DEF Holds
  <2>2. i + 1 \in 1 .. Len(s) /\ s[i + 1] = Tail(s)[i]
    BY TailFacts
  <2> QED
    BY <2>1, <2>2 DEF Holds
<1> QED
  BY <1>1, <1>2, <1>3

\* An added entry's packet joins those of the sequence.
LEMMA HoldsAppend ==
    ASSUME NEW s \in Seq(Entry), NEW e \in Entry, NEW p
    PROVE  Holds(Append(s, e), p) <=> e.packet = p \/ Holds(s, p)
<1> DEFINE t == Append(s, e)
<1>1. /\ Len(s) \in Nat /\ Len(t) = Len(s) + 1 /\ t[Len(s) + 1] = e
      /\ \A i \in 1 .. Len(s) : t[i] = s[i]
  BY AppendFacts
<1> HIDE DEF t
<1>2. ASSUME Holds(t, p) PROVE e.packet = p \/ Holds(s, p)
  <2>1. PICK i \in 1 .. Len(t) : t[i].packet = p
    BY <1>2 DEF Holds
  <2>2. i = Len(s) + 1 \/ i \in 1 .. Len(s)
    BY <1>1
  <2> QED
    BY <1>1, <2>1, <2>2 DEF Holds
<1>3. ASSUME e.packet = p PROVE Holds(t, p)
  <2>1. Len(s) + 1 \in 1 .. Len(t)
    BY <1>1
  <2> QED
    BY <1>1, <1>3, <2>1 DEF Holds
<1>4. ASSUME Holds(s, p) PROVE Holds(t, p)
  <2>1. PICK i \in 1 .. Len(s) : s[i].packet = p
    BY <1>4 DEF Holds
  <2>2. i \in 1 .. Len(t) /\ t[i] = s[i]
    BY <1>1
  <2> QED
    BY <2>1, <2>2 DEF Holds
<1>5. QED
  BY <1>2, <1>3, <1>4 DEF t

\* The empty sequence holds no packet; inHand holds that of its one entry.
LEMMA HoldsFew ==
    ASSUME NEW p
    PROVE  /\ ~ Holds(<< >>, p)
           /\ \A e : Holds(<<e>>, p) <=> e.packet = p
BY DEF Holds

-----------------------------------------------------------------------------
(* Type correctness.                                                       *)

\* The fields of an entry.
LEMMA EntryFields == \A e \in Entry : e.packet \in Packet /\ e.retries \in Nat
BY DEF Entry

\* Counting a retry keeps an entry an entry, and its packet.
LEMMA RetriedFacts ==
    ASSUME NEW e \in Entry
    PROVE  /\ Retried(e) \in Entry /\ Retried(e).packet = e.packet
           /\ Retried(e).retries = e.retries + 1
BY DEF Entry, Retried

\* The one entry in hand.
LEMMA InHandFacts ==
    ASSUME NEW s \in Seq(Entry), Len(s) <= 1, s # << >>
    PROVE  s[1] \in Entry /\ \A p : Holds(s, p) <=> s[1].packet = p
<1>1. Len(s) \in Nat /\ Len(s) >= 1
  BY TailFacts
<1>2. \A n \in Nat : n <= 1 /\ n >= 1 => n = 1
  OBVIOUS
<1>3. Len(s) = 1
  BY <1>1, <1>2, Zenon
<1>4. 1 \in 1 .. 1 /\ \A i \in 1 .. 1 : i = 1
  OBVIOUS
<1>5. s[1] \in Entry
  BY <1>3
<1> QED
  BY <1>3, <1>4, <1>5, Zenon DEF Holds

\* The windows' tasks and prune keep the types.
LEMMA SenderTypes ==
    ASSUME TypeOK,
           \/ \E p \in Packet : SendFirst(p) \/ Acknowledge(p)
           \/ AddTask \/ PruneTask \/ Cancel
    PROVE  TypeOK'
<1> USE RetriesAssumption
<1>1. ASSUME NEW p \in Packet, SendFirst(p) PROVE TypeOK'
  BY <1>1 DEF SendFirst, AddAck, TypeOK, seenVars
<1>2. ASSUME NEW p \in Packet, Acknowledge(p) PROVE TypeOK'
  BY <1>2 DEF Acknowledge, TypeOK, seenVars
<1>3. ASSUME NEW p \in Packet, Insert(p) PROVE TypeOK'
  BY <1>3 DEF Insert, TypeOK, seenVars, historyVars
<1>4. ASSUME NEW p \in Packet, Push(p) PROVE TypeOK'
  <2>1. NewEntry(p) \in Entry
    BY DEF NewEntry, Entry
  <2>2. queue' \in Seq(Entry)
    BY <1>4, <2>1, AppendFacts DEF Push, TypeOK
  <2> QED
    BY <1>4, <2>2 DEF Push, TypeOK, seenVars, historyVars
<1>5. CASE Wake
  BY <1>5 DEF Wake, TypeOK, seenVars, historyVars
<1>6. CASE PopDue
  <2> DEFINE e == Retried(Head(queue))
  <2>1. Head(queue) \in Entry /\ queue' \in Seq(Entry)
    BY <1>6, TailFacts DEF PopDue, TypeOK
  <2>2. e \in Entry /\ e.packet \in Packet
    BY <2>1, RetriedFacts DEF Entry
  <2> HIDE DEF e
  <2>3. \/ expired' = expired \cup {e.packet} /\ toRetry' = toRetry
        \/ toRetry' = Append(toRetry, e) /\ expired' = expired
    BY <1>6 DEF PopDue, e
  <2>4. toRetry' \in Seq(Entry) /\ expired' \subseteq Packet
    <3>1. toRetry \in Seq(Entry) /\ expired \subseteq Packet
      BY DEF TypeOK
    <3>2. Append(toRetry, e) \in Seq(Entry)
      BY <2>2, <3>1, AppendFacts
    <3> QED
      BY <2>2, <2>3, <3>1, <3>2, Zenon
  <2> QED
    BY <1>6, <2>1, <2>4 DEF PopDue, TypeOK, seenVars, historyVars
<1>7. CASE EndScan
  BY <1>7 DEF EndScan, TypeOK, seenVars, historyVars
<1>8. CASE TakeRetry
  <2>1. Head(toRetry) \in Entry /\ toRetry' \in Seq(Entry)
    BY <1>8, TailFacts DEF TakeRetry, TypeOK
  <2>2. inHand' \in Seq(Entry) /\ Len(inHand') <= 1
    BY <1>8, <2>1 DEF TakeRetry
  <2> QED
    BY <1>8, <2>1, <2>2 DEF TakeRetry, TypeOK, seenVars, historyVars
<1>9. CASE Resend
  <2>1. inHand[1] \in Entry /\ inHand[1].packet \in Packet
    BY <1>9, InHandFacts DEF Resend, TypeOK, Entry
  <2>2. queue' \in Seq(Entry)
    BY <1>9, <2>1, AppendFacts DEF Resend, TypeOK
  <2>3. adding' = adding
    BY <1>9 DEF Resend, AddAck
  <2>4. copies' \in [Packet -> Nat]
    BY <1>9, <2>1 DEF Resend, TypeOK
  <2>5. inHand' \in Seq(Entry) /\ Len(inHand') <= 1
    BY <1>9 DEF Resend
  <2> QED
    BY <1>9, <2>2, <2>3, <2>4, <2>5 DEF Resend, TypeOK, seenVars
<1>10. CASE SkipRetry
  <2>1. inHand[1].packet \in Packet
    BY <1>10, InHandFacts DEF SkipRetry, TypeOK, Entry
  <2>2. inHand' \in Seq(Entry) /\ Len(inHand') <= 1
    BY <1>10 DEF SkipRetry
  <2> QED
    BY <1>10, <2>1, <2>2 DEF SkipRetry, TypeOK, seenVars
<1>11. CASE EndRound
  BY <1>11 DEF EndRound, TypeOK, seenVars, historyVars
<1>12. CASE Cancel
  BY <1>12 DEF Cancel, TypeOK, seenVars, historyVars
<1> QED
  BY <1>1, <1>2, <1>3, <1>4, <1>5, <1>6, <1>7, <1>8, <1>9, <1>10, <1>11, <1>12
     DEF AddTask, PruneTask

\* The receiver's tasks keep the types.
LEMMA ReceiverTypes == ASSUME TypeOK, ReceiverTask PROVE TypeOK'
<1>1. ASSUME NEW p \in Packet, Judge(p) PROVE TypeOK'
  BY <1>1 DEF Judge, TypeOK, windowVars, historyVars
<1>2. ASSUME NEW p \in Packet, Handle(p) PROVE TypeOK'
  <2>1. judged' \in [Packet -> Nat]
    <3>1. judged[p] \in Nat /\ judged[p] > 0
      BY <1>2 DEF Handle, TypeOK
    <3>2. judged[p] - 1 \in Nat
      BY <3>1
    <3> QED
      BY <1>2, <3>2 DEF Handle, TypeOK
  <2>2. seen' \subseteq Packet /\ noting' \subseteq Packet /\ acks' \subseteq Packet
    BY <1>2 DEF Handle, AckFor, TypeOK
  <2> QED
    BY <1>2, <2>1, <2>2 DEF Handle, TypeOK, windowVars, historyVars
<1>3. ASSUME NEW p \in Packet, Note(p) PROVE TypeOK'
  <2>1. seenQueue' \in Seq(Packet)
    BY <1>3, AppendFacts DEF Note, TypeOK
  <2> QED
    BY <1>3, <2>1 DEF Note, TypeOK, windowVars, historyVars
<1>4. CASE PopOld
  <2>1. Head(seenQueue) \in Packet /\ seenQueue' \in Seq(Packet)
    BY <1>4, TailFacts DEF PopOld, TypeOK
  <2> QED
    BY <1>4, <2>1 DEF PopOld, TypeOK, windowVars, historyVars
<1>5. CASE Forget
  BY <1>5 DEF Forget, TypeOK, windowVars, historyVars
<1> QED
  BY <1>1, <1>2, <1>3, <1>4, <1>5 DEF ReceiverTask

\* Every variable of the two windows keeps its type: TypeOK.
THEOREM TypeCorrect == AckSpec => []TypeOK
<1>1. AckInit => TypeOK
  <2>1. << >> \in Seq(Entry) /\ Len(<< >>) <= 1 /\ << >> \in Seq(Packet)
    OBVIOUS
  <2>2. AckInit => /\ adding \in [Packet -> {"none", "insert", "push"}]
                   /\ judged \in [Packet -> Nat] /\ copies \in [Packet -> Nat]
                   /\ ackedAt \in [Packet -> Nat]
    BY DEF AckInit
  <2>3. AckInit => /\ queue \in Seq(Entry) /\ toRetry \in Seq(Entry)
                   /\ inHand \in Seq(Entry) /\ Len(inHand) <= 1
                   /\ seenQueue \in Seq(Packet)
    BY <2>1, Zenon DEF AckInit
  <2>4. AckInit => /\ phase \in {"sleep", "scan", "resend", "ended"}
                   /\ canceled \in BOOLEAN
                   /\ pending \subseteq Packet /\ expired \subseteq Packet
                   /\ seen \subseteq Packet /\ noting \subseteq Packet
                   /\ forgotten \subseteq Packet /\ acks \subseteq Packet
                   /\ orphaned \subseteq Packet
    BY DEF AckInit
  <2> QED
    BY <2>2, <2>3, <2>4 DEF TypeOK
<1>2. TypeOK /\ [AckNext]_ackVars => TypeOK'
  <2> SUFFICES ASSUME TypeOK, [AckNext]_ackVars PROVE TypeOK'
    OBVIOUS
  <2>1. CASE UNCHANGED ackVars
    BY <2>1 DEF ackVars, windowVars, seenVars, historyVars, TypeOK
  <2>2. CASE AckNext
    BY <2>2, SenderTypes, ReceiverTypes DEF AckNext
  <2> QED
    BY <2>1, <2>2
<1> QED
  BY <1>1, <1>2, PTL DEF AckSpec

-----------------------------------------------------------------------------
(* Fingerprints.                                                           *)

Listed(s, p) == \E i \in 1 .. Len(s) : s[i] = p

\* A fingerprint of the queue is at its head or in its tail.
LEMMA ListedTail ==
    ASSUME NEW s \in Seq(Packet), s # << >>, NEW p, Listed(s, p)
    PROVE  Head(s) = p \/ Listed(Tail(s), p)
<1>1. PICK i \in 1 .. Len(s) : s[i] = p
  BY DEF Listed
<1>2. CASE i = 1
  BY <1>1, <1>2, TailFacts
<1>3. CASE i # 1
  <2>1. i - 1 \in 1 .. Len(s) - 1 /\ (i - 1) + 1 = i
    BY <1>3, TailFacts
  <2>2. Tail(s)[i - 1] = s[i] /\ i - 1 \in 1 .. Len(Tail(s))
    BY <2>1, TailFacts
  <2> QED
    BY <1>1, <2>2 DEF Listed
<1> QED
  BY <1>2, <1>3

\* A queued fingerprint joins those of the queue.
LEMMA ListedAppend ==
    ASSUME NEW s \in Seq(Packet), NEW q \in Packet, NEW p, p = q \/ Listed(s, p)
    PROVE  Listed(Append(s, q), p)
<1> DEFINE t == Append(s, q)
<1>1. /\ Len(s) \in Nat /\ Len(t) = Len(s) + 1 /\ t[Len(s) + 1] = q
      /\ \A i \in 1 .. Len(s) : t[i] = s[i]
  BY AppendFacts
<1> HIDE DEF t
<1>2. CASE p = q
  <2>1. Len(s) + 1 \in 1 .. Len(t)
    BY <1>1
  <2> QED
    BY <1>1, <1>2, <2>1 DEF Listed, t
<1>3. CASE Listed(s, p)
  <2>1. PICK i \in 1 .. Len(s) : s[i] = p
    BY <1>3 DEF Listed
  <2>2. i \in 1 .. Len(t) /\ t[i] = s[i]
    BY <1>1
  <2> QED
    BY <2>1, <2>2 DEF Listed, t
<1> QED
  BY <1>2, <1>3

\* The receiver's tasks hand a fingerprint on from one place to the next.
LEMMA ReceiverTimes == ASSUME TypeOK, SeenIsTimed, ReceiverTask PROVE SeenIsTimed'
<1> DEFINE Timed(p) == p \in noting \/ p \in forgotten \/ Listed(seenQueue, p)
<1>1. \A p \in seen : Timed(p)
  BY DEF SeenIsTimed, Listed
<1>2. SUFFICES \A p \in seen' : Timed(p)'
  BY DEF SeenIsTimed, Listed
<1>3. ASSUME NEW q \in Packet, Judge(q) PROVE \A p \in seen' : Timed(p)'
  BY <1>1, <1>3 DEF Judge
<1>4. ASSUME NEW q \in Packet, Handle(q) PROVE \A p \in seen' : Timed(p)'
  BY <1>1, <1>4 DEF Handle
<1>5. ASSUME NEW q \in Packet, Note(q), NEW p \in seen' PROVE Timed(p)'
  <2>1. /\ p \in seen /\ forgotten' = forgotten
        /\ noting' = noting \ {q} /\ seenQueue' = Append(seenQueue, q)
    BY <1>5 DEF Note
  <2>2. seenQueue \in Seq(Packet)
    BY DEF TypeOK
  <2> QED
    BY <1>1, <2>1, <2>2, ListedAppend
<1>6. ASSUME PopOld, NEW p \in seen' PROVE Timed(p)'
  <2>1. /\ p \in seen /\ noting' = noting /\ seenQueue # << >>
        /\ forgotten' = forgotten \cup {Head(seenQueue)} /\ seenQueue' = Tail(seenQueue)
    BY <1>6 DEF PopOld
  <2>2. seenQueue \in Seq(Packet)
    BY DEF TypeOK
  <2> QED
    BY <1>1, <2>1, <2>2, ListedTail
<1>7. ASSUME Forget PROVE \A p \in seen' : Timed(p)'
  BY <1>1, <1>7 DEF Forget
<1> QED
  BY <1>2, <1>3, <1>4, <1>5, <1>6, <1>7 DEF ReceiverTask

\* No interleaving of two tasks with copies of one packet, nor prune between
\* its two locks, leaves a fingerprint that nobody removes: SeenIsTimed.
THEOREM FingerprintsAreTimed == AckSpec => []SeenIsTimed
<1>1. AckInit => SeenIsTimed
  BY DEF AckInit, SeenIsTimed
<1>2. TypeOK /\ SeenIsTimed /\ [AckNext]_ackVars => SeenIsTimed'
  <2> SUFFICES ASSUME TypeOK, SeenIsTimed, [AckNext]_ackVars PROVE SeenIsTimed'
    OBVIOUS
  <2>1. CASE ReceiverTask
    BY <2>1, ReceiverTimes
  <2>2. CASE UNCHANGED seenVars
    BY <2>2 DEF seenVars, SeenIsTimed
  <2>3. CASE AckNext /\ ~ ReceiverTask
    <3>1. UNCHANGED seenVars
      BY <2>3 DEF AckNext, SendFirst, Acknowledge, AddTask, Insert, Push, PruneTask, Wake,
         PopDue, EndScan, TakeRetry, Resend, SkipRetry, EndRound, Cancel
    <3> QED
      BY <2>2, <3>1
  <2> QED
    BY <2>1, <2>2, <2>3 DEF ackVars
<1> QED
  BY <1>1, <1>2, TypeCorrect, PTL DEF AckSpec

-----------------------------------------------------------------------------
(* What `pending` holds.                                                   *)

Watched(p) ==
    \/ adding[p] = "push" \/ p \in expired \/ p \in orphaned
    \/ Holds(queue, p) \/ Holds(toRetry, p) \/ Holds(inHand, p)

\* PendingIsWatched needs that a packet is sent for the first time once only:
\* otherwise its second task would forget the entry the first is to queue.
UnsentIsUnknown == \A p \in Packet : copies[p] = 0 => adding[p] = "none" /\ p \notin pending

WatchInv == PendingIsWatched /\ UnsentIsUnknown

\* Storing a packet and queueing its entry.
LEMMA AddWatches ==
    ASSUME TypeOK, WatchInv, \/ \E q \in Packet : SendFirst(q) \/ Acknowledge(q)
                             \/ AddTask
    PROVE  WatchInv'
<1>1. /\ \A p \in pending : p \in Packet /\ Watched(p)
      /\ UnsentIsUnknown
  BY DEF WatchInv, PendingIsWatched, Watched, TypeOK
<1>2. SUFFICES (\A p \in pending' : Watched(p)') /\ UnsentIsUnknown'
  BY DEF WatchInv, PendingIsWatched, Watched
<1>3. /\ adding \in [Packet -> {"none", "insert", "push"}] /\ copies \in [Packet -> Nat]
      /\ queue \in Seq(Entry)
  BY DEF TypeOK
<1>4. ASSUME NEW q \in Packet, SendFirst(q)
      PROVE  (\A p \in pending' : Watched(p)') /\ UnsentIsUnknown'
  <2>1. /\ copies[q] = 0 /\ copies' = [copies EXCEPT ![q] = @ + 1]
        /\ \A p \in Packet : p # q => adding'[p] = adding[p]
        /\ UNCHANGED <<pending, queue, toRetry, inHand, expired, orphaned>>
    BY <1>3, <1>4 DEF SendFirst, AddAck
  <2>2. q \notin pending
    BY <1>1, <2>1 DEF UnsentIsUnknown
  <2>3. \A p \in pending' : Watched(p)'
    BY <1>1, <2>1, <2>2 DEF Watched, Holds
  <2>4. UnsentIsUnknown'
    BY <1>1, <1>3, <2>1 DEF UnsentIsUnknown
  <2> QED
    BY <2>3, <2>4
<1>5. ASSUME NEW q \in Packet, Acknowledge(q)
      PROVE  (\A p \in pending' : Watched(p)') /\ UnsentIsUnknown'
  BY <1>1, <1>5 DEF Acknowledge, Watched, Holds, UnsentIsUnknown
<1>6. ASSUME NEW q \in Packet, Insert(q)
      PROVE  (\A p \in pending' : Watched(p)') /\ UnsentIsUnknown'
  <2>1. /\ adding[q] = "insert" /\ adding' = [adding EXCEPT ![q] = "push"]
        /\ pending' = pending \cup {q}
        /\ UNCHANGED <<copies, queue, toRetry, inHand, expired, orphaned>>
    BY <1>6 DEF Insert, historyVars
  <2>2. \A p \in pending' : Watched(p)'
    BY <1>1, <1>3, <2>1 DEF Watched, Holds
  <2>3. copies[q] # 0
    BY <1>1, <2>1 DEF UnsentIsUnknown
  <2> QED
    BY <1>1, <1>3, <2>1, <2>2, <2>3 DEF UnsentIsUnknown
<1>7. ASSUME NEW q \in Packet, Push(q)
      PROVE  (\A p \in pending' : Watched(p)') /\ UnsentIsUnknown'
  <2>1. /\ adding' = [adding EXCEPT ![q] = "none"]
        /\ queue' = Append(queue, NewEntry(q))
        /\ UNCHANGED <<pending, copies, toRetry, inHand, expired, orphaned>>
    BY <1>7 DEF Push, historyVars
  <2>2. NewEntry(q) \in Entry /\ NewEntry(q).packet = q
    BY DEF NewEntry, Entry
  <2>3. \A p : Holds(queue', p) <=> q = p \/ Holds(queue, p)
    BY <1>3, <2>1, <2>2, HoldsAppend
  <2>4. \A p \in Packet : p # q => adding'[p] = adding[p]
    BY <1>3, <2>1
  <2>5. \A p \in pending' : Watched(p)'
    <3>1. SUFFICES ASSUME NEW p \in pending' PROVE Watched(p)'
      OBVIOUS
    <3>2. p \in Packet /\ Watched(p) /\ p \in pending
      BY <1>1, <2>1, <3>1
    <3>3. CASE p = q
      BY <2>3, <3>3 DEF Watched
    <3>4. CASE p # q
      BY <2>1, <2>3, <2>4, <3>2, <3>4 DEF Watched, Holds
    <3> QED
      BY <3>3, <3>4
  <2>6. UnsentIsUnknown'
    BY <1>1, <1>3, <2>1 DEF UnsentIsUnknown
  <2> QED
    BY <2>5, <2>6
<1> QED
  BY <1>4, <1>5, <1>6, <1>7 DEF AddTask

\* Prune moves entries, drops those of packets acknowledged or used up, and
\* sends nothing for the first time.
LEMMA PruneWatches == ASSUME TypeOK, WatchInv, PruneTask PROVE WatchInv'
<1>1. /\ \A p \in pending : p \in Packet /\ Watched(p)
      /\ UnsentIsUnknown
  BY DEF WatchInv, PendingIsWatched, Watched, TypeOK
<1>2. SUFFICES (\A p \in pending' : Watched(p)') /\ UnsentIsUnknown'
  BY DEF WatchInv, PendingIsWatched, Watched
<1>3. /\ copies \in [Packet -> Nat]
      /\ queue \in Seq(Entry) /\ toRetry \in Seq(Entry)
      /\ inHand \in Seq(Entry) /\ Len(inHand) <= 1
  BY DEF TypeOK
<1>4. UnsentIsUnknown'
  <2>1. /\ adding' = adding /\ pending' \subseteq pending
        /\ \A p \in Packet : copies'[p] = 0 => copies[p] = 0
    <3>1. CASE Resend
      <4>1. inHand[1].packet \in Packet
        BY <1>3, <3>1, InHandFacts DEF Resend, Entry
      <4> QED
        BY <1>3, <3>1, <4>1 DEF Resend, AddAck
    <3>2. CASE ~ Resend
      BY <3>2 DEF PruneTask, Wake, PopDue, EndScan, TakeRetry, SkipRetry, EndRound, historyVars
    <3> QED
      BY <3>1, <3>2
  <2> QED
    BY <1>1, <2>1 DEF UnsentIsUnknown
<1>5. CASE Wake \/ EndScan
  <2>1. UNCHANGED <<adding, pending, queue, toRetry, inHand, expired, orphaned>>
    BY <1>5 DEF Wake, EndScan, historyVars
  <2> QED
    BY <1>1, <1>4, <2>1 DEF Watched
<1>6. CASE PopDue
  <2> DEFINE e == Retried(Head(queue))
  <2>1. /\ queue # << >> /\ queue' = Tail(queue)
        /\ UNCHANGED <<adding, pending, inHand, orphaned>>
    BY <1>6 DEF PopDue, historyVars
  <2>2. Head(queue) \in Entry /\ e \in Entry /\ e.packet = Head(queue).packet
    BY <1>3, <2>1, TailFacts, RetriedFacts
  <2>3. \/ expired' = expired \cup {e.packet} /\ toRetry' = toRetry
        \/ toRetry' = Append(toRetry, e) /\ expired' = expired
    BY <1>6 DEF PopDue
  <2>4. \A p : Holds(queue, p) <=> e.packet = p \/ Holds(queue', p)
    BY <1>3, <2>1, <2>2, HoldsTail
  <2>5. \A p : Holds(Append(toRetry, e), p) <=> e.packet = p \/ Holds(toRetry, p)
    BY <1>3, <2>2, HoldsAppend
  <2> HIDE DEF e
  <2>6. \A p \in pending' : Watched(p)'
    <3>1. SUFFICES ASSUME NEW p \in pending' PROVE Watched(p)'
      OBVIOUS
    <3>2. Watched(p)
      BY <1>1, <2>1
    <3>3. Holds(inHand, p)' <=> Holds(inHand, p)
      BY <2>1
    <3>4. CASE expired' = expired \cup {e.packet} /\ toRetry' = toRetry
      BY <2>1, <2>4, <3>2, <3>3, <3>4 DEF Watched
    <3>5. CASE toRetry' = Append(toRetry, e) /\ expired' = expired
      BY <2>1, <2>4, <2>5, <3>2, <3>3, <3>5 DEF Watched
    <3> QED
      BY <2>3, <3>4, <3>5
  <2> QED
    BY <1>4, <2>6
<1>7. CASE TakeRetry
  <2>1. /\ toRetry # << >> /\ toRetry' = Tail(toRetry) /\ inHand = << >>
        /\ inHand' = IF Head(toRetry).packet \in pending THEN <<Head(toRetry)>> ELSE << >>
        /\ UNCHANGED <<adding, pending, queue, expired, orphaned>>
    BY <1>7 DEF TakeRetry, historyVars
  <2>2. \A p : Holds(toRetry, p) <=> Head(toRetry).packet = p \/ Holds(toRetry', p)
    BY <1>3, <2>1, HoldsTail
  <2>3. \A p \in pending : Head(toRetry).packet = p => Holds(inHand', p)
    BY <2>1, HoldsFew
  <2>4. \A p : ~ Holds(inHand, p)
    BY <2>1, HoldsFew
  <2>5. \A p \in pending' : Watched(p)'
    BY <1>1, <2>1, <2>2, <2>3, <2>4 DEF Watched
  <2> QED
    BY <1>4, <2>5
<1>8. CASE Resend
  <2>1. /\ inHand # << >> /\ inHand' = << >> /\ queue' = Append(queue, inHand[1])
        /\ adding' = adding
        /\ UNCHANGED <<pending, toRetry, expired, orphaned>>
    BY <1>8 DEF Resend, AddAck
  <2>2. inHand[1] \in Entry /\ \A p : Holds(inHand, p) <=> inHand[1].packet = p
    BY <1>3, <2>1, InHandFacts
  <2>3. \A p : Holds(queue', p) <=> inHand[1].packet = p \/ Holds(queue, p)
    BY <1>3, <2>1, <2>2, HoldsAppend
  <2>4. \A p \in pending' : Watched(p)'
    BY <1>1, <2>1, <2>2, <2>3 DEF Watched
  <2> QED
    BY <1>4, <2>4
<1>9. CASE SkipRetry
  <2>1. /\ inHand # << >> /\ inHand' = << >> /\ orphaned' = orphaned \cup {inHand[1].packet}
        /\ UNCHANGED <<adding, pending, queue, toRetry, expired>>
    BY <1>9 DEF SkipRetry
  <2>2. \A p : Holds(inHand, p) <=> inHand[1].packet = p
    BY <1>3, <2>1, InHandFacts
  <2>3. \A p \in pending' : Watched(p)'
    BY <1>1, <2>1, <2>2 DEF Watched
  <2> QED
    BY <1>4, <2>3
<1>10. CASE EndRound
  <2>1. /\ inHand = << >> /\ toRetry = << >> /\ pending' = pending \ expired
        /\ UNCHANGED <<adding, queue, toRetry, inHand, orphaned>>
    BY <1>10 DEF EndRound, historyVars
  <2>2. \A p : ~ Holds(inHand, p) /\ ~ Holds(toRetry, p)
    BY <2>1, HoldsFew
  <2>3. \A p \in pending' : Watched(p)'
    BY <1>1, <2>1, <2>2 DEF Watched
  <2> QED
    BY <1>4, <2>3
<1> QED
  BY <1>4, <1>5, <1>6, <1>7, <1>8, <1>9, <1>10 DEF PruneTask

\* Only a session that goes away leaves a packet in `pending` with nothing
\* that will take it out: PendingIsWatched.
THEOREM StoredPacketsAreWatched == AckSpec => []PendingIsWatched
<1>1. AckInit => WatchInv
  BY DEF AckInit, WatchInv, PendingIsWatched, UnsentIsUnknown
<1>2. TypeOK /\ WatchInv /\ [AckNext]_ackVars => WatchInv'
  <2> SUFFICES ASSUME TypeOK, WatchInv, [AckNext]_ackVars PROVE WatchInv'
    OBVIOUS
  <2>1. CASE (\E q \in Packet : SendFirst(q) \/ Acknowledge(q)) \/ AddTask
    BY <2>1, AddWatches
  <2>2. CASE PruneTask
    BY <2>2, PruneWatches
  <2>3. CASE Cancel \/ ReceiverTask \/ UNCHANGED ackVars
    <3>1. UNCHANGED <<adding, pending, queue, toRetry, inHand, expired, copies, orphaned>>
      BY <2>3 DEF Cancel, ReceiverTask, Judge, Handle, Note, PopOld, Forget, ackVars,
         windowVars, historyVars
    <3> QED
      BY <3>1 DEF WatchInv, PendingIsWatched, UnsentIsUnknown, Holds
  <2> QED
    BY <2>1, <2>2, <2>3 DEF AckNext
<1>3. WatchInv => PendingIsWatched
  BY DEF WatchInv
<1> QED
  BY <1>1, <1>2, <1>3, TypeCorrect, PTL DEF AckSpec

-----------------------------------------------------------------------------
(* After the acknowledgement.                                              *)

\* AckEndsRetries needs that an acknowledged packet is never stored again and
\* that what prune still has in hand was cloned before.
AckedInv ==
    \A p \in Packet :
        /\ copies[p] = 0 => adding[p] = "none" /\ p \notin pending /\ ackedAt[p] = 0
        /\ p \in pending => adding[p] # "insert"
        /\ ackedAt[p] > 0 =>
               /\ p \notin pending /\ adding[p] # "insert"
               /\ copies[p] <= ackedAt[p] + 1
               /\ Holds(inHand, p) => copies[p] <= ackedAt[p]

\* Sending, storing and acknowledging keep it.
LEMMA AddEnds ==
    ASSUME TypeOK, AckedInv, \/ \E q \in Packet : SendFirst(q) \/ Acknowledge(q)
                             \/ AddTask
    PROVE  AckedInv'
<1>1. /\ adding \in [Packet -> {"none", "insert", "push"}] /\ copies \in [Packet -> Nat]
      /\ ackedAt \in [Packet -> Nat]
  BY DEF TypeOK
<1>2. ASSUME NEW q \in Packet, SendFirst(q) PROVE AckedInv'
  <2>1. /\ copies[q] = 0 /\ copies' = [copies EXCEPT ![q] = @ + 1]
        /\ adding' \in {adding, [adding EXCEPT ![q] = "insert"]}
        /\ UNCHANGED <<pending, inHand, ackedAt>>
    BY <1>2 DEF SendFirst, AddAck
  <2>2. q \notin pending /\ ackedAt[q] = 0
    BY <2>1 DEF AckedInv
  <2>3. \A p \in Packet : p # q => copies'[p] = copies[p] /\ adding'[p] = adding[p]
    BY <1>1, <2>1
  <2>4. copies'[q] # 0
    BY <1>1, <2>1
  <2> QED
    BY <1>1, <2>1, <2>2, <2>3, <2>4 DEF AckedInv, Holds
<1>3. ASSUME NEW q \in Packet, Acknowledge(q) PROVE AckedInv'
  <2>1. /\ pending' = pending \ {q}
        /\ ackedAt' = IF q \in pending THEN [ackedAt EXCEPT ![q] = copies[q]] ELSE ackedAt
        /\ UNCHANGED <<adding, copies, inHand>>
    BY <1>3 DEF Acknowledge
  <2>2. CASE q \in pending
    <3>1. adding[q] # "insert" /\ copies[q] # 0 /\ ackedAt'[q] = copies[q]
      BY <1>1, <2>1, <2>2 DEF AckedInv
    <3>2. \A p \in Packet : p # q => ackedAt'[p] = ackedAt[p]
      BY <1>1, <2>1
    <3> QED
      BY <1>1, <2>1, <3>1, <3>2 DEF AckedInv, Holds
  <2>3. CASE q \notin pending
    BY <2>1, <2>3 DEF AckedInv, Holds
  <2> QED
    BY <2>2, <2>3
<1>4. ASSUME NEW q \in Packet, Insert(q) PROVE AckedInv'
  BY <1>1, <1>4 DEF Insert, AckedInv, Holds, historyVars
<1>5. ASSUME NEW q \in Packet, Push(q) PROVE AckedInv'
  BY <1>1, <1>5 DEF Push, AckedInv, Holds, historyVars
<1> QED
  BY <1>2, <1>3, <1>4, <1>5 DEF AddTask

\* Prune clones what is still pending, and sends each clone once.
LEMMA PruneEnds == ASSUME TypeOK, AckedInv, PruneTask PROVE AckedInv'
<1>1. /\ adding \in [Packet -> {"none", "insert", "push"}] /\ copies \in [Packet -> Nat]
      /\ ackedAt \in [Packet -> Nat]
      /\ inHand \in Seq(Entry) /\ Len(inHand) <= 1
  BY DEF TypeOK
<1>2. CASE Wake \/ PopDue \/ EndScan
  <2>1. UNCHANGED <<adding, pending, inHand, copies, ackedAt>>
    BY <1>2 DEF Wake, PopDue, EndScan, historyVars
  <2> QED
    BY <2>1 DEF AckedInv
<1>3. CASE TakeRetry
  <2>1. UNCHANGED <<adding, pending, copies, ackedAt>>
    BY <1>3 DEF TakeRetry, historyVars
  <2>2. inHand' \in {<< >>, <<Head(toRetry)>>}
    BY <1>3 DEF TakeRetry
  <2>3. Head(toRetry).packet \in pending \/ inHand' = << >>
    BY <1>3 DEF TakeRetry
  <2>4. \A p : Holds(inHand', p) => p \in pending
    BY <2>2, <2>3, HoldsFew
  <2> QED
    BY <1>1, <2>1, <2>4 DEF AckedInv
<1>4. CASE Resend
  <2> DEFINE q == inHand[1].packet
  <2>1. inHand # << >> /\ inHand' = << >> /\ adding' = adding
        /\ copies' = [copies EXCEPT ![q] = @ + 1]
        /\ UNCHANGED <<pending, ackedAt>>
    BY <1>4 DEF Resend, AddAck
  <2>2. q \in Packet /\ Holds(inHand, q) /\ \A p : ~ Holds(inHand', p)
    BY <1>1, <2>1, InHandFacts, HoldsFew DEF Entry
  <2> HIDE DEF q
  <2>3. copies'[q] = copies[q] + 1 /\ \A p \in Packet : p # q => copies'[p] = copies[p]
    BY <1>1, <2>1, <2>2
  <2>4. ackedAt[q] > 0 => copies'[q] <= ackedAt[q] + 1
    BY <1>1, <2>2, <2>3 DEF AckedInv
  <2>5. copies'[q] # 0
    BY <1>1, <2>2, <2>3
  <2> QED
    BY <1>1, <2>1, <2>2, <2>3, <2>4, <2>5 DEF AckedInv
<1>5. CASE SkipRetry \/ EndRound
  <2>1. /\ pending' \subseteq pending
        /\ inHand' = << >>
        /\ UNCHANGED <<adding, copies, ackedAt>>
    BY <1>5 DEF SkipRetry, EndRound, historyVars
  <2>2. \A p : ~ Holds(inHand', p)
    BY <2>1, HoldsFew
  <2> QED
    BY <1>1, <2>1, <2>2 DEF AckedInv
<1> QED
  BY <1>2, <1>3, <1>4, <1>5 DEF PruneTask

\* Once a packet is acknowledged at most one more copy of it is sent:
\* AckEndsRetries.
THEOREM AcknowledgedIsDone == AckSpec => []AckEndsRetries
<1>1. AckInit => AckedInv
  <2> SUFFICES ASSUME AckInit PROVE AckedInv
    OBVIOUS
  <2>1. \A p \in Packet : adding[p] = "none" /\ p \notin pending /\ ackedAt[p] = 0
    BY DEF AckInit
  <2>2. \A p \in Packet : ~ (ackedAt[p] > 0)
    <3>1. ~ (0 > 0)
      OBVIOUS
    <3> QED
      BY <2>1, <3>1, Zenon
  <2> QED
    <3> SUFFICES ASSUME NEW p \in Packet
                 PROVE  /\ copies[p] = 0 => adding[p] = "none" /\ p \notin pending /\ ackedAt[p] = 0
                        /\ p \in pending => adding[p] # "insert"
                        /\ ackedAt[p] > 0 => FALSE
      BY <2>2 DEF AckedInv
    <3> QED
      BY <2>1, <2>2
<1>2. TypeOK /\ AckedInv /\ [AckNext]_ackVars => AckedInv'
  <2> SUFFICES ASSUME TypeOK, AckedInv, [AckNext]_ackVars PROVE AckedInv'
    OBVIOUS
  <2>1. CASE (\E q \in Packet : SendFirst(q) \/ Acknowledge(q)) \/ AddTask
    BY <2>1, AddEnds
  <2>2. CASE PruneTask
    BY <2>2, PruneEnds
  <2>3. CASE Cancel \/ ReceiverTask \/ UNCHANGED ackVars
    <3>1. UNCHANGED <<adding, pending, inHand, copies, ackedAt>>
      BY <2>3 DEF Cancel, ReceiverTask, Judge, Handle, Note, PopOld, Forget, ackVars,
         windowVars, historyVars
    <3> QED
      BY <3>1 DEF AckedInv
  <2> QED
    BY <2>1, <2>2, <2>3 DEF AckNext
<1>3. AckedInv => AckEndsRetries
  BY DEF AckedInv, AckEndsRetries
<1> QED
  BY <1>1, <1>2, <1>3, TypeCorrect, PTL DEF AckSpec

-----------------------------------------------------------------------------
(* How often a packet is sent.                                             *)

\* No packet has two entries in a sequence.
Single(s) == \A i, j \in 1 .. Len(s) : s[i].packet = s[j].packet => i = j

\* Every entry's count covers the copies sent of its packet, and the one that
\* is due to be sent.
Covers(s, sent, due) ==
    \A i \in 1 .. Len(s) :
        /\ sent[s[i].packet] + due <= s[i].retries + 1
        /\ s[i].retries <= MaxRetries

LEMMA SingleTail ==
    ASSUME NEW s \in Seq(Entry), s # << >>, Single(s)
    PROVE  Single(Tail(s)) /\ ~ Holds(Tail(s), Head(s).packet)
<1> DEFINE t == Tail(s)
<1>1. /\ Len(s) \in Nat /\ Len(t) = Len(s) - 1 /\ Len(s) >= 1 /\ Head(s) = s[1]
      /\ \A i \in 1 .. Len(s) - 1 : t[i] = s[i + 1]
  BY TailFacts
<1> HIDE DEF t
<1>2. \A i \in 1 .. Len(t) : t[i] = s[i + 1] /\ i + 1 \in 1 .. Len(s) /\ i + 1 # 1
  BY <1>1
<1>3. Single(t)
  <2>1. SUFFICES ASSUME NEW i \in 1 .. Len(t), NEW j \in 1 .. Len(t), t[i].packet = t[j].packet
                 PROVE  i = j
    BY DEF Single
  <2>2. i + 1 = j + 1
    BY <1>2, <2>1 DEF Single
  <2> QED
    BY <2>2, <1>1
<1>4. ~ Holds(t, Head(s).packet)
  <2>1. SUFFICES ASSUME NEW i \in 1 .. Len(t), t[i].packet = s[1].packet PROVE FALSE
    BY <1>1 DEF Holds
  <2>2. 1 \in 1 .. Len(s)
    BY <1>1
  <2> QED
    BY <1>2, <2>1, <2>2 DEF Single
<1> QED
  BY <1>3, <1>4 DEF t

LEMMA SingleAppend ==
    ASSUME NEW s \in Seq(Entry), NEW e \in Entry, Single(s), ~ Holds(s, e.packet)
    PROVE  Single(Append(s, e))
<1> DEFINE t == Append(s, e)
<1>1. /\ Len(s) \in Nat /\ Len(t) = Len(s) + 1 /\ t[Len(s) + 1] = e
      /\ \A i \in 1 .. Len(s) : t[i] = s[i] /\ s[i].packet # e.packet
  BY AppendFacts DEF Holds
<1> HIDE DEF t
<1>2. SUFFICES ASSUME NEW i \in 1 .. Len(t), NEW j \in 1 .. Len(t), t[i].packet = t[j].packet
               PROVE  i = j
  BY DEF Single, t
<1>3. i \in 1 .. Len(s) \/ i = Len(s) + 1
  BY <1>1
<1>4. j \in 1 .. Len(s) \/ j = Len(s) + 1
  BY <1>1
<1> QED
  BY <1>1, <1>2, <1>3, <1>4 DEF Single

LEMMA CoversTail ==
    ASSUME NEW s \in Seq(Entry), s # << >>, NEW sent, NEW due, Covers(s, sent, due)
    PROVE  /\ Covers(Tail(s), sent, due)
           /\ sent[Head(s).packet] + due <= Head(s).retries + 1
           /\ Head(s).retries <= MaxRetries
<1> DEFINE t == Tail(s)
<1>1. /\ Len(s) \in Nat /\ Len(t) = Len(s) - 1 /\ Len(s) >= 1 /\ Head(s) = s[1]
      /\ \A i \in 1 .. Len(s) - 1 : t[i] = s[i + 1]
  BY TailFacts
<1> HIDE DEF t
<1>2. 1 \in 1 .. Len(s)
  BY <1>1
<1>3. \A i \in 1 .. Len(t) : t[i] = s[i + 1] /\ i + 1 \in 1 .. Len(s)
  BY <1>1
<1>4. Covers(t, sent, due)
  BY <1>3, Zenon DEF Covers
<1> QED
  BY <1>1, <1>2, <1>4, Zenon DEF Covers, t

LEMMA CoversAppend ==
    ASSUME NEW s \in Seq(Entry), NEW e \in Entry, NEW sent, NEW due, Covers(s, sent, due),
           sent[e.packet] + due <= e.retries + 1, e.retries <= MaxRetries
    PROVE  Covers(Append(s, e), sent, due)
<1> DEFINE t == Append(s, e)
<1>1. /\ Len(s) \in Nat /\ Len(t) = Len(s) + 1 /\ t[Len(s) + 1] = e
      /\ \A i \in 1 .. Len(s) : t[i] = s[i]
  BY AppendFacts
<1> HIDE DEF t
<1>2. \A i \in 1 .. Len(t) : i \in 1 .. Len(s) \/ i = Len(s) + 1
  BY <1>1
<1> QED
  BY <1>1, <1>2, Zenon DEF Covers, t

\* Sending another packet leaves a sequence covered.
LEMMA CoversOther ==
    ASSUME NEW s, NEW sent, NEW now, NEW due, NEW q, Covers(s, sent, due), ~ Holds(s, q),
           \A p \in Packet : p # q => now[p] = sent[p],
           \A i \in 1 .. Len(s) : s[i].packet \in Packet
    PROVE  Covers(s, now, due)
BY Zenon DEF Covers, Holds

\* The packets of entries.
LEMMA EntryPackets ==
    ASSUME NEW s \in Seq(Entry)
    PROVE  \A i \in 1 .. Len(s) : s[i].packet \in Packet /\ s[i].retries \in Nat
<1>1. \A i \in 1 .. Len(s) : s[i] \in Entry
  OBVIOUS
<1> QED
  BY <1>1, EntryFields, Zenon

-----------------------------------------------------------------------------
\* SendsBounded needs that a packet is in one place at a time, with a count
\* that covers its copies: in its first task, queued, due or in hand.
Entryless(p) == ~ Holds(queue, p) /\ ~ Holds(toRetry, p) /\ ~ Holds(inHand, p)

OnePlace ==
    /\ Single(queue) /\ Single(toRetry)
    /\ \A p \in Packet :
           /\ Holds(queue, p) => ~ Holds(toRetry, p) /\ ~ Holds(inHand, p)
           /\ Holds(toRetry, p) => ~ Holds(inHand, p)
           /\ adding[p] # "none" => copies[p] = 1 /\ Entryless(p)
           /\ copies[p] = 0 => adding[p] = "none" /\ Entryless(p)

Covered ==
    /\ Covers(queue, copies, 0) /\ Covers(toRetry, copies, 1) /\ Covers(inHand, copies, 1)
    /\ SendsBounded

\* A packet's first task.
LEMMA AddBounds ==
    ASSUME TypeOK, OnePlace, Covered,
           \/ \E q \in Packet : SendFirst(q) \/ Acknowledge(q)
           \/ AddTask
    PROVE  OnePlace' /\ Covered'
<1>1. /\ adding \in [Packet -> {"none", "insert", "push"}] /\ copies \in [Packet -> Nat]
      /\ queue \in Seq(Entry) /\ toRetry \in Seq(Entry) /\ inHand \in Seq(Entry)
  BY DEF TypeOK
<1>2. MaxRetries \in Nat
  BY RetriesAssumption
<1>3. ASSUME NEW q \in Packet, SendFirst(q) PROVE OnePlace' /\ Covered'
  <2>1. /\ copies[q] = 0 /\ copies' = [copies EXCEPT ![q] = @ + 1]
        /\ adding' \in {adding, [adding EXCEPT ![q] = "insert"]}
        /\ UNCHANGED <<queue, toRetry, inHand>>
    BY <1>3 DEF SendFirst, AddAck
  <2>2. Entryless(q) /\ adding[q] = "none"
    BY <2>1 DEF OnePlace
  <2>3. /\ copies'[q] = 1
        /\ \A p \in Packet : p # q => copies'[p] = copies[p] /\ adding'[p] = adding[p]
    BY <1>1, <2>1
  <2>4. OnePlace'
    <3>1. Single(queue') /\ Single(toRetry') /\ \A p : Entryless(p)' <=> Entryless(p)
      BY <2>1 DEF OnePlace, Entryless
    <3>2. Entryless(q)' /\ copies'[q] # 0
      BY <2>2, <2>3, <3>1
    <3> QED
      BY <2>1, <2>3, <3>1, <3>2 DEF OnePlace
  <2>5. Covers(queue, copies', 0) /\ Covers(toRetry, copies', 1) /\ Covers(inHand, copies', 1)
    <3>1. ~ Holds(queue, q) /\ ~ Holds(toRetry, q) /\ ~ Holds(inHand, q)
      BY <2>2 DEF Entryless
    <3>2. Covers(queue, copies', 0)
      BY <1>1, <2>3, <3>1, CoversOther, EntryPackets DEF Covered
    <3>3. Covers(toRetry, copies', 1)
      BY <1>1, <2>3, <3>1, CoversOther, EntryPackets DEF Covered
    <3>4. Covers(inHand, copies', 1)
      BY <1>1, <2>3, <3>1, CoversOther, EntryPackets DEF Covered
    <3> QED
      BY <3>2, <3>3, <3>4
  <2>6. SendsBounded'
    BY <1>2, <2>3 DEF Covered, SendsBounded
  <2> QED
    BY <2>1, <2>4, <2>5, <2>6 DEF Covered
<1>4. ASSUME NEW q \in Packet, Acknowledge(q) PROVE OnePlace' /\ Covered'
  <2>1. UNCHANGED <<adding, copies, queue, toRetry, inHand>>
    BY <1>4 DEF Acknowledge
  <2> QED
    BY <2>1 DEF OnePlace, Covered, SendsBounded, Entryless
<1>5. ASSUME NEW q \in Packet, Insert(q) PROVE OnePlace' /\ Covered'
  <2>1. /\ adding[q] # "none" /\ adding' = [adding EXCEPT ![q] = "push"]
        /\ UNCHANGED <<copies, queue, toRetry, inHand>>
    BY <1>5 DEF Insert, historyVars
  <2>2. adding'[q] # "none" /\ \A p \in Packet : p # q => adding'[p] = adding[p]
    BY <1>1, <2>1
  <2>3. \A p : Entryless(p)' <=> Entryless(p)
    BY <2>1 DEF Entryless
  <2>4. copies[q] = 1 /\ copies[q] # 0
    BY <2>1 DEF OnePlace
  <2> QED
    BY <2>1, <2>2, <2>3, <2>4 DEF OnePlace, Covered, SendsBounded
<1>6. ASSUME NEW q \in Packet, Push(q) PROVE OnePlace' /\ Covered'
  <2> DEFINE e == NewEntry(q)
  <2>1. /\ adding[q] # "none" /\ adding' = [adding EXCEPT ![q] = "none"]
        /\ queue' = Append(queue, e)
        /\ UNCHANGED <<copies, toRetry, inHand>>
    BY <1>6 DEF Push, historyVars
  <2>2. e \in Entry /\ e.packet = q /\ e.retries = 0
    BY DEF NewEntry, Entry
  <2> HIDE DEF e
  <2>3. copies[q] = 1 /\ copies[q] # 0 /\ Entryless(q)
    BY <2>1 DEF OnePlace
  <2>4. \A p : Holds(queue', p) <=> p = q \/ Holds(queue, p)
    BY <1>1, <2>1, <2>2, HoldsAppend
  <2>5. adding'[q] = "none" /\ \A p \in Packet : p # q => adding'[p] = adding[p]
    BY <1>1, <2>1
  <2>6. Single(queue')
    BY <1>1, <2>1, <2>2, <2>3, SingleAppend DEF OnePlace, Entryless
  <2>7. Covers(queue', copies, 0)
    <3>1. copies[e.packet] + 0 <= e.retries + 1 /\ e.retries <= MaxRetries
      BY <1>2, <2>2, <2>3
    <3> QED
      BY <1>1, <2>1, <2>2, <3>1, CoversAppend DEF Covered
  <2>8. OnePlace'
    <3>1. \A p : Entryless(p)' <=> p # q /\ Entryless(p)
      BY <2>1, <2>3, <2>4 DEF Entryless
    <3> QED
      BY <2>1, <2>3, <2>4, <2>5, <2>6, <3>1 DEF OnePlace, Entryless
  <2> QED
    BY <2>1, <2>7, <2>8 DEF Covered, SendsBounded
<1> QED
  BY <1>3, <1>4, <1>5, <1>6 DEF AddTask

\* Prune takes the front entry, which it drops or keeps as due.
LEMMA PopBounds == ASSUME TypeOK, OnePlace, Covered, PopDue PROVE OnePlace' /\ Covered'
<1> DEFINE h == Head(queue)
           e == Retried(h)
<1>1. queue \in Seq(Entry) /\ toRetry \in Seq(Entry) /\ copies \in [Packet -> Nat]
  BY DEF TypeOK
<1>2. /\ queue # << >> /\ queue' = Tail(queue)
      /\ IF UsedUp(e) THEN toRetry' = toRetry ELSE toRetry' = Append(toRetry, e)
      /\ UNCHANGED <<adding, inHand, copies>>
  BY DEF PopDue, historyVars
<1>3. /\ h \in Entry /\ h.packet \in Packet /\ h.retries \in Nat
      /\ e \in Entry /\ e.packet = h.packet /\ e.retries = h.retries + 1
  <2>1. h \in Entry
    BY <1>1, <1>2, TailFacts
  <2> HIDE DEF h
  <2>2. h.packet \in Packet /\ h.retries \in Nat
    BY <2>1, EntryFields
  <2>3. Retried(h) \in Entry /\ Retried(h).packet = h.packet /\ Retried(h).retries = h.retries + 1
    BY <2>1, RetriedFacts
  <2> QED
    BY <2>1, <2>2, <2>3
<1>4. Single(queue') /\ ~ Holds(queue', h.packet)
  BY <1>1, <1>2, SingleTail DEF OnePlace
<1>5. \A p : Holds(queue, p) <=> h.packet = p \/ Holds(queue', p)
  BY <1>1, <1>2, HoldsTail
<1>6. /\ Covers(queue', copies, 0)
      /\ copies[h.packet] + 0 <= h.retries + 1 /\ h.retries <= MaxRetries
  BY <1>1, <1>2, CoversTail DEF Covered
<1> HIDE DEF h, e
<1>7. ~ Holds(toRetry, h.packet) /\ ~ Holds(inHand, h.packet)
  BY <1>3, <1>5 DEF OnePlace
<1>8. /\ Single(toRetry') /\ Covers(toRetry', copies, 1)
      /\ \A p : Holds(toRetry', p) => p = h.packet \/ Holds(toRetry, p)
  <2>1. CASE UsedUp(e)
    BY <1>2, <2>1 DEF OnePlace, Covered
  <2>2. CASE ~ UsedUp(e)
    <3>1. toRetry' = Append(toRetry, e)
      BY <1>2, <2>2
    <3>2. Single(toRetry')
      BY <1>1, <1>3, <1>7, <3>1, SingleAppend DEF OnePlace
    <3>3. copies[e.packet] + 1 <= e.retries + 1 /\ e.retries <= MaxRetries
      BY <1>1, <1>3, <1>6, <2>2, RetriesAssumption DEF UsedUp
    <3>4. Covers(toRetry', copies, 1)
      BY <1>1, <1>3, <3>1, <3>3, CoversAppend DEF Covered
    <3>5. \A p : Holds(toRetry', p) => p = h.packet \/ Holds(toRetry, p)
      BY <1>1, <1>3, <3>1, HoldsAppend
    <3> QED
      BY <3>2, <3>4, <3>5
  <2> QED
    BY <2>1, <2>2
<1>9. \A p : Entryless(p) => Entryless(p)'
  BY <1>2, <1>5, <1>8 DEF Entryless
<1>10. OnePlace'
  BY <1>2, <1>3, <1>4, <1>5, <1>7, <1>8, <1>9 DEF OnePlace
<1> QED
  BY <1>2, <1>6, <1>8, <1>10 DEF Covered, SendsBounded

\* The entry of a clone moves to `inHand`, unless it was acknowledged.
LEMMA TakeBounds == ASSUME TypeOK, OnePlace, Covered, TakeRetry PROVE OnePlace' /\ Covered'
<1> DEFINE h == Head(toRetry)
<1>1. toRetry \in Seq(Entry)
  BY DEF TypeOK
<1>2. /\ inHand = << >> /\ toRetry # << >> /\ toRetry' = Tail(toRetry)
      /\ inHand' \in {<< >>, <<h>>}
      /\ UNCHANGED <<adding, queue, copies>>
  BY DEF TakeRetry, historyVars
<1>3. h \in Entry /\ h.packet \in Packet
  <2>1. h \in Entry
    BY <1>1, <1>2, TailFacts
  <2> HIDE DEF h
  <2> QED
    BY <2>1, EntryFields
<1>4. Single(toRetry') /\ ~ Holds(toRetry', h.packet)
  BY <1>1, <1>2, SingleTail DEF OnePlace
<1>5. \A p : Holds(toRetry, p) <=> h.packet = p \/ Holds(toRetry', p)
  BY <1>1, <1>2, HoldsTail
<1>6. /\ Covers(toRetry', copies, 1)
      /\ copies[h.packet] + 1 <= h.retries + 1 /\ h.retries <= MaxRetries
  BY <1>1, <1>2, CoversTail DEF Covered
<1> HIDE DEF h
<1>7. \A p : Holds(inHand', p) => p = h.packet
  BY <1>2, HoldsFew
<1>8. Covers(inHand', copies, 1)
  <2>1. Covers(<< >>, copies, 1)
    BY DEF Covers
  <2>2. Covers(<<h>>, copies, 1)
    BY <1>6 DEF Covers
  <2> QED
    BY <1>2, <2>1, <2>2
<1>9. \A p : Entryless(p) => Entryless(p)'
  BY <1>2, <1>5, <1>7 DEF Entryless
<1>10. OnePlace'
  BY <1>2, <1>3, <1>4, <1>5, <1>7, <1>9 DEF OnePlace
<1> QED
  BY <1>2, <1>6, <1>8, <1>10 DEF Covered, SendsBounded

\* The clone is sent and its entry queued again.
LEMMA ResendBounds == ASSUME TypeOK, OnePlace, Covered, Resend PROVE OnePlace' /\ Covered'
<1> DEFINE e == inHand[1]
<1>1. /\ queue \in Seq(Entry) /\ toRetry \in Seq(Entry) /\ copies \in [Packet -> Nat]
      /\ inHand \in Seq(Entry) /\ Len(inHand) <= 1
  BY DEF TypeOK
<1>2. /\ inHand # << >> /\ inHand' = << >> /\ queue' = Append(queue, e)
      /\ copies' = [copies EXCEPT ![e.packet] = @ + 1]
      /\ UNCHANGED <<adding, toRetry>>
  BY DEF Resend, AddAck
<1>3. e \in Entry /\ e.packet \in Packet /\ \A p : Holds(inHand, p) <=> e.packet = p
  BY <1>1, <1>2, InHandFacts DEF Entry
<1>4. copies[e.packet] + 1 <= e.retries + 1 /\ e.retries <= MaxRetries /\ e.retries \in Nat
  <2>1. PICK i \in 1 .. Len(inHand) : inHand[i].packet = e.packet
    BY <1>3 DEF Holds
  <2>2. i = 1
    BY <1>1, <2>1
  <2> QED
    BY <1>3, <2>1, <2>2 DEF Covered, Covers, Entry
<1> HIDE DEF e
<1>5. ~ Holds(queue, e.packet) /\ ~ Holds(toRetry, e.packet)
  BY <1>3 DEF OnePlace
<1>6. /\ copies'[e.packet] = copies[e.packet] + 1
      /\ \A p \in Packet : p # e.packet => copies'[p] = copies[p]
  BY <1>1, <1>2, <1>3
<1>7. Covers(queue, copies', 0) /\ Covers(toRetry, copies', 1)
  <2>0. /\ Covers(queue, copies, 0) /\ Covers(toRetry, copies, 1)
        /\ \A i \in 1 .. Len(queue) : queue[i].packet \in Packet
        /\ \A i \in 1 .. Len(toRetry) : toRetry[i].packet \in Packet
    BY <1>1, EntryPackets DEF Covered
  <2>1. Covers(queue, copies', 0)
    BY <2>0, <1>5, <1>6, CoversOther
  <2>2. Covers(toRetry, copies', 1)
    BY <2>0, <1>5, <1>6, CoversOther
  <2> QED
    BY <2>1, <2>2
<1>8. Covers(queue', copies', 0)
  <2>1. copies'[e.packet] + 0 <= e.retries + 1
    BY <1>1, <1>3, <1>4, <1>6
  <2> QED
    BY <1>1, <1>2, <1>3, <1>4, <1>7, <2>1, CoversAppend
<1>9. \A p : (Holds(queue', p) <=> p = e.packet \/ Holds(queue, p)) /\ ~ Holds(inHand', p)
  BY <1>1, <1>2, <1>3, HoldsAppend, HoldsFew
<1>10. OnePlace'
  <2>1. Single(queue')
    BY <1>1, <1>2, <1>3, <1>5, SingleAppend DEF OnePlace
  <2>2. adding[e.packet] = "none" /\ copies'[e.packet] # 0
    BY <1>1, <1>3, <1>6 DEF OnePlace, Entryless
  <2>3. \A p : Entryless(p)' <=> Entryless(p)
    BY <1>2, <1>3, <1>9 DEF Entryless
  <2> QED
    BY <1>2, <1>3, <1>5, <1>6, <1>9, <2>1, <2>2, <2>3 DEF OnePlace
<1>11. SendsBounded'
  BY <1>1, <1>3, <1>4, <1>6, RetriesAssumption DEF Covered, SendsBounded
<1>12. Covers(inHand', copies', 1)
  BY <1>2 DEF Covers
<1> QED
  BY <1>2, <1>7, <1>8, <1>10, <1>11, <1>12 DEF Covered

\* The other steps of prune.
LEMMA PruneBounds == ASSUME TypeOK, OnePlace, Covered, PruneTask PROVE OnePlace' /\ Covered'
<1>1. CASE Wake \/ EndScan \/ EndRound
  <2>1. UNCHANGED <<adding, copies, queue, toRetry, inHand>>
    BY <1>1 DEF Wake, EndScan, EndRound, historyVars
  <2> QED
    BY <2>1 DEF OnePlace, Covered, SendsBounded, Entryless
<1>2. CASE SkipRetry
  <2>1. inHand' = << >> /\ UNCHANGED <<adding, copies, queue, toRetry>>
    BY <1>2 DEF SkipRetry
  <2>2. (\A p : ~ Holds(inHand', p)) /\ Covers(inHand', copies, 1)
    BY <2>1, HoldsFew DEF Covers
  <2> QED
    BY <2>1, <2>2 DEF OnePlace, Covered, SendsBounded, Entryless
<1> QED
  BY <1>1, <1>2, PopBounds, TakeBounds, ResendBounds DEF PruneTask

\* A packet is sent at most MaxRetries + 1 times, however the tasks interleave
\* and whatever is acknowledged: SendsBounded.
THEOREM SendsAreBounded == AckSpec => []SendsBounded
<1>1. AckInit => OnePlace /\ Covered
  <2> SUFFICES ASSUME AckInit PROVE OnePlace /\ Covered
    OBVIOUS
  <2>1. queue = << >> /\ toRetry = << >> /\ inHand = << >>
    BY DEF AckInit
  <2>2. \A p \in Packet : copies[p] = 0 /\ adding[p] = "none" /\ copies[p] # 1
    <3>1. 0 # 1
      OBVIOUS
    <3>2. \A p \in Packet : copies[p] = 0 /\ adding[p] = "none"
      BY DEF AckInit
    <3> QED
      BY <3>1, <3>2, Zenon
  <2>3. \A p : Entryless(p)
    BY <2>1, HoldsFew DEF Entryless
  <2>4. OnePlace
    BY <2>1, <2>2, <2>3 DEF OnePlace, Single, Entryless
  <2>5. SendsBounded
    <3>1. 0 <= MaxRetries + 1
      BY RetriesAssumption
    <3> QED
      BY <2>2, <3>1, Zenon DEF SendsBounded
  <2> QED
    BY <2>1, <2>4, <2>5 DEF Covered, Covers
<1>2. TypeOK /\ OnePlace /\ Covered /\ [AckNext]_ackVars => OnePlace' /\ Covered'
  <2> SUFFICES ASSUME TypeOK, OnePlace, Covered, [AckNext]_ackVars
               PROVE  OnePlace' /\ Covered'
    OBVIOUS
  <2>1. CASE (\E q \in Packet : SendFirst(q) \/ Acknowledge(q)) \/ AddTask
    BY <2>1, AddBounds
  <2>2. CASE PruneTask
    BY <2>2, PruneBounds
  <2>3. CASE Cancel \/ ReceiverTask \/ UNCHANGED ackVars
    <3>1. UNCHANGED <<adding, copies, queue, toRetry, inHand>>
      BY <2>3 DEF Cancel, ReceiverTask, Judge, Handle, Note, PopOld, Forget, ackVars,
         windowVars, historyVars
    <3> QED
      BY <3>1 DEF OnePlace, Covered, SendsBounded, Entryless
  <2> QED
    BY <2>1, <2>2, <2>3 DEF AckNext
<1>3. Covered => SendsBounded
  BY DEF Covered
<1> QED
  BY <1>1, <1>2, <1>3, TypeCorrect, PTL DEF AckSpec
===============================================================================
