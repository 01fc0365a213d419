------------------------------- MODULE AckRetry -------------------------------
(****************************************************************************)
(* Packets that ask for an acknowledgement: PendingAckWindow at their       *)
(* sender, FingerprintWindow at their receiver, and the tasks between which *)
(* both are shared.                                                         *)
(*                                                                          *)
(* Sender: sending a packet starts a task that stores it in `pending` and   *)
(* queues an entry for it, under two locks.  One task, prune, goes round:   *)
(* it pops the entries that are due, sends a copy of each packet that is    *)
(* still pending and queues the entry again, and drops a packet whose       *)
(* entry has been due more than MaxRetries times.  An acknowledgement only  *)
(* touches `pending`.                                                       *)
(*                                                                          *)
(* Receiver: each datagram has a task of its own, which looks its           *)
(* fingerprint up under one lock and adds it under another.                 *)
(*                                                                          *)
(* The network may deliver a datagram late, again or never.  Time is        *)
(* abstracted: any prefix of a queue may be due.  The locks make one step   *)
(* of what is done under them; pops are separate steps, but nobody else     *)
(* takes the queue between them.                                            *)
(****************************************************************************)
EXTENDS Naturals, Sequences

CONSTANTS
    Packet,      \* packets that carry RequireAck, each with its fingerprint
    Answered,    \* those whose handler acknowledges them (data, retransmission
                 \* requests); playback control and track rejections are not
    MaxRetries,  \* PendingAckQueueEntry::MAX_RETRIES
    MaxTasks,    \* bound: copies of a packet judged at the same time
    MayClose     \* does PendingAckWindow::close come?

ASSUME RetriesAssumption == MaxRetries \in Nat /\ Answered \subseteq Packet

VARIABLES
    \* PendingAckWindow
    adding,     \* tasks of inner_add: packet -> "none", "insert", "push"
    pending,    \* packets stored until acknowledged
    queue,      \* entries [packet, retries], oldest first
    phase,      \* prune: "sleep", "scan", "resend", "ended"
    toRetry,    \* prune: entries popped and due
    inHand,     \* prune: <<entry>> whose packet has been cloned, or <<>>
    expired,    \* prune: packets popped for the last time
    canceled,
    \* FingerprintWindow
    judged,     \* tasks that found the fingerprint missing, per packet
    seen,       \* fingerprints
    noting,     \* tasks that inserted the fingerprint and not yet queued it
    seenQueue,  \* fingerprints in the order they came
    forgotten,  \* prune: fingerprints popped, not yet removed
    \* the network and history
    acks,       \* acknowledgements sent
    copies,     \* times each packet was sent
    ackedAt,    \* copies sent when a pending packet was acknowledged; 0: never
    orphaned    \* packets whose entry was dropped for want of a session

windowVars == <<adding, pending, queue, phase, toRetry, inHand, expired, canceled>>
seenVars == <<judged, seen, noting, seenQueue, forgotten>>
historyVars == <<copies, ackedAt, orphaned>>
ackVars == <<windowVars, seenVars, acks, historyVars>>

Entry == [packet : Packet, retries : Nat]
Holds(s, p) == \E i \in 1 .. Len(s) : s[i].packet = p
\* `queue` is locked while prune pops what is due.
QueueFree == phase # "scan"

-----------------------------------------------------------------------------
(* Sending.                                                                 *)

\* add_ack and add: a packet sent for the first time gets a task; the stored
\* copy is marked Resend, so that a retry passes here without one.
AddAckAlways(p, resend) ==  \* mutant of AddAck
    adding' = IF canceled THEN adding ELSE [adding EXCEPT ![p] = "insert"]

AddAck(p, resend) ==
    adding' = IF resend \/ canceled THEN adding ELSE [adding EXCEPT ![p] = "insert"]

SendFirst(p) ==
    /\ copies[p] = 0
    /\ AddAck(p, FALSE)
    /\ copies' = [copies EXCEPT ![p] = @ + 1]
    /\ UNCHANGED <<pending, queue, phase, toRetry, inHand, expired, canceled,
                   seenVars, acks, ackedAt, orphaned>>

\* inner_add
Insert(p) ==
    /\ adding[p] = "insert"
    /\ adding' = [adding EXCEPT ![p] = "push"]
    /\ pending' = pending \cup {p}
    /\ UNCHANGED <<queue, phase, toRetry, inHand, expired, canceled, seenVars, acks, historyVars>>

NewEntry(p) == [packet |-> p, retries |-> 0]

Push(p) ==
    /\ adding[p] = "push" /\ QueueFree
    /\ adding' = [adding EXCEPT ![p] = "none"]
    /\ queue' = Append(queue, NewEntry(p))
    /\ UNCHANGED <<pending, phase, toRetry, inHand, expired, canceled, seenVars, acks, historyVars>>

\* acknowledge
Acknowledge(p) ==
    /\ p \in acks /\ ~canceled
    /\ pending' = pending \ {p}
    /\ ackedAt' = IF p \in pending THEN [ackedAt EXCEPT ![p] = copies[p]] ELSE ackedAt
    /\ UNCHANGED <<adding, queue, phase, toRetry, inHand, expired, canceled,
                   seenVars, acks, copies, orphaned>>

-----------------------------------------------------------------------------
(* prune, one step per lock it takes.                                       *)

\* A round starts when the sleep is over, canceled meanwhile or not.
WakeWhenPending ==  \* mutant of Wake
    /\ phase = "sleep" /\ pending # {}
    /\ phase' = "scan"
    /\ UNCHANGED <<adding, pending, queue, toRetry, inHand, expired, canceled,
                   seenVars, acks, historyVars>>

Wake ==
    /\ phase = "sleep"
    /\ phase' = "scan"
    /\ UNCHANGED <<adding, pending, queue, toRetry, inHand, expired, canceled,
                   seenVars, acks, historyVars>>

\* The front entry is due: retried() counts before it compares.
RetriedDown(e) == [e EXCEPT !.retries = @ - 1]  \* mutant of Retried
Retried(e) == [e EXCEPT !.retries = @ + 1]
UsedUp(e) == e.retries > MaxRetries

PopDue ==
    /\ phase = "scan" /\ queue # << >>
    /\ LET e == Retried(Head(queue)) IN
           IF UsedUp(e)
           THEN expired' = expired \cup {e.packet} /\ UNCHANGED toRetry
           ELSE toRetry' = Append(toRetry, e) /\ UNCHANGED expired
    /\ queue' = Tail(queue)
    /\ UNCHANGED <<adding, pending, phase, inHand, canceled, seenVars, acks, historyVars>>

EndScan ==
    /\ phase = "scan"
    /\ phase' = "resend"
    /\ UNCHANGED <<adding, pending, queue, toRetry, inHand, expired, canceled,
                   seenVars, acks, historyVars>>

\* The next packet to resend is cloned, or skipped when it was acknowledged.
TakeRetryUnchecked ==  \* mutant of TakeRetry
    /\ phase = "resend" /\ inHand = << >> /\ toRetry # << >>
    /\ inHand' = <<Head(toRetry)>>
    /\ toRetry' = Tail(toRetry)
    /\ UNCHANGED <<adding, pending, queue, phase, expired, canceled, seenVars, acks, historyVars>>

TakeRetry ==
    /\ phase = "resend" /\ inHand = << >> /\ toRetry # << >>
    /\ inHand' = IF Head(toRetry).packet \in pending THEN <<Head(toRetry)>> ELSE << >>
    /\ toRetry' = Tail(toRetry)
    /\ UNCHANGED <<adding, pending, queue, phase, expired, canceled, seenVars, acks, historyVars>>

\* With its session established the entry is queued again and the copy sent.
Resend ==
    /\ phase = "resend" /\ inHand # << >>
    /\ LET e == inHand[1] IN
           /\ queue' = Append(queue, e)
           /\ copies' = [copies EXCEPT ![e.packet] = @ + 1]
           /\ AddAck(e.packet, TRUE)
    /\ inHand' = << >>
    /\ UNCHANGED <<pending, phase, toRetry, expired, canceled, seenVars, acks, ackedAt, orphaned>>

\* Without it the entry is dropped and the packet stays in `pending`.
SkipRetry ==
    /\ phase = "resend" /\ inHand # << >>
    /\ orphaned' = orphaned \cup {inHand[1].packet}
    /\ inHand' = << >>
    /\ UNCHANGED <<adding, pending, queue, phase, toRetry, expired, canceled,
                   seenVars, acks, copies, ackedAt>>

\* The expired packets go, and the loop looks whether it is canceled.
EndRoundKeeps ==  \* mutant of EndRound
    /\ phase = "resend" /\ inHand = << >> /\ toRetry = << >>
    /\ phase' = IF canceled THEN "ended" ELSE "sleep"
    /\ expired' = {}
    /\ UNCHANGED <<adding, pending, queue, toRetry, inHand, canceled, seenVars, acks, historyVars>>

EndRound ==
    /\ phase = "resend" /\ inHand = << >> /\ toRetry = << >>
    /\ phase' = IF canceled THEN "ended" ELSE "sleep"
    /\ pending' = pending \ expired
    /\ expired' = {}
    /\ UNCHANGED <<adding, queue, toRetry, inHand, canceled, seenVars, acks, historyVars>>

\* close
Cancel ==
    /\ MayClose /\ ~canceled
    /\ canceled' = TRUE
    /\ UNCHANGED <<adding, pending, queue, phase, toRetry, inHand, expired,
                   seenVars, acks, historyVars>>
-----------------------------------------------------------------------------
(* The receiver.                                                            *)

\* dedup: contains ...
Judge(p) ==
    /\ copies[p] > 0 /\ p \notin seen
    /\ judged[p] < MaxTasks
    /\ judged' = [judged EXCEPT ![p] = @ + 1]
    /\ UNCHANGED <<windowVars, seen, noting, seenQueue, forgotten, acks, historyVars>>

\* received_packet_that_requires_ack, which data and retransmission requests
\* reach.
AckFor(p) == {p} \cap Answered

\* ... then add, whose answer is not looked at: the packet is handled, and
\* acknowledged if its handler does that.
Handle(p) ==
    /\ judged[p] > 0
    /\ judged' = [judged EXCEPT ![p] = @ - 1]
    /\ seen' = seen \cup {p}
    /\ noting' = IF p \in seen THEN noting ELSE noting \cup {p}
    /\ acks' = acks \cup AckFor(p)
    /\ UNCHANGED <<windowVars, seenQueue, forgotten, historyVars>>

Note(p) ==
    /\ p \in noting
    /\ noting' = noting \ {p}
    /\ seenQueue' = Append(seenQueue, p)
    /\ UNCHANGED <<windowVars, judged, seen, forgotten, acks, historyVars>>

\* FingerprintWindow::prune: old fingerprints leave the queue, then the set.
PopOld ==
    /\ seenQueue # << >>
    /\ forgotten' = forgotten \cup {Head(seenQueue)}
    /\ seenQueue' = Tail(seenQueue)
    /\ UNCHANGED <<windowVars, judged, seen, noting, acks, historyVars>>

ForgetOne ==  \* mutant of Forget
    /\ forgotten # {}
    /\ \E p \in forgotten : seen' = seen \ {p}
    /\ forgotten' = {}
    /\ UNCHANGED <<windowVars, judged, noting, seenQueue, acks, historyVars>>

Forget ==
    /\ forgotten # {}
    /\ seen' = seen \ forgotten
    /\ forgotten' = {}
    /\ UNCHANGED <<windowVars, judged, noting, seenQueue, acks, historyVars>>
-----------------------------------------------------------------------------

AckInit ==
    /\ adding = [p \in Packet |-> "none"]
    /\ pending = {} /\ queue = << >>
    /\ phase = "sleep" /\ toRetry = << >> /\ inHand = << >> /\ expired = {}
    /\ canceled = FALSE
    /\ judged = [p \in Packet |-> 0]
    /\ seen = {} /\ noting = {} /\ seenQueue = << >> /\ forgotten = {}
    /\ acks = {}
    /\ copies = [p \in Packet |-> 0]
    /\ ackedAt = [p \in Packet |-> 0]
    /\ orphaned = {}

AddTask == \E p \in Packet : Insert(p) \/ Push(p)
PruneTask == Wake \/ PopDue \/ EndScan \/ TakeRetry \/ Resend \/ SkipRetry \/ EndRound
ReceiverTask ==
    \/ \E p \in Packet : Judge(p) \/ Handle(p) \/ Note(p)
    \/ PopOld \/ Forget

AckNext ==
    \/ \E p \in Packet : SendFirst(p) \/ Acknowledge(p)
    \/ AddTask
    \/ PruneTask
    \/ Cancel
    \/ ReceiverTask

AckSpec == AckInit /\ [][AckNext]_ackVars

\* Tasks run, and an entry does not stay young for ever: a round pops the
\* front entry again and again.  Nothing is assumed of the network.
AckFairSpec ==
    AckSpec /\ WF_ackVars(AddTask) /\ WF_ackVars(PruneTask) /\ SF_ackVars(PopDue)

-----------------------------------------------------------------------------
(* Properties.                                                              *)

\* Each variable keeps its type.
TypeOK ==
    /\ adding \in [Packet -> {"none", "insert", "push"}]
    /\ pending \subseteq Packet /\ queue \in Seq(Entry)
    /\ phase \in {"sleep", "scan", "resend", "ended"}
    /\ toRetry \in Seq(Entry) /\ inHand \in Seq(Entry) /\ Len(inHand) <= 1
    /\ expired \subseteq Packet /\ canceled \in BOOLEAN
    /\ judged \in [Packet -> Nat] /\ seen \subseteq Packet /\ noting \subseteq Packet
    /\ seenQueue \in Seq(Packet) /\ forgotten \subseteq Packet
    /\ acks \subseteq Packet
    /\ copies \in [Packet -> Nat] /\ ackedAt \in [Packet -> Nat] /\ orphaned \subseteq Packet

\* A packet is sent once and retried at most MaxRetries times, whatever the
\* acknowledgements and however the tasks interleave: a retry is never added
\* as a packet of its own, and no packet has two entries in the window.
SendsBounded == \A p \in Packet : copies[p] <= MaxRetries + 1

\* Once the acknowledgement of a stored packet is handled, at most the copy
\* that prune has already cloned is still sent.
AckEndsRetries == \A p \in Packet : ackedAt[p] > 0 => copies[p] <= ackedAt[p] + 1

\* A stored packet has an entry, or a task about to queue one, or is about to
\* expire: only a session that goes away leaves packets behind in `pending`.
PendingIsWatched ==
    \A p \in pending :
        \/ adding[p] = "push" \/ p \in expired \/ p \in orphaned
        \/ Holds(queue, p) \/ Holds(toRetry, p) \/ Holds(inHand, p)

\* A fingerprint stays in the set only as long as something is going to take
\* it out again: two tasks with copies of one packet, or prune between its
\* two locks, leave no fingerprint behind.
SeenIsTimed ==
    \A p \in seen :
        \/ p \in noting \/ p \in forgotten
        \/ \E i \in 1 .. Len(seenQueue) : seenQueue[i] = p

\* Every packet leaves the window, acknowledged, used up or orphaned, unless
\* the window is closed first.
RetriesEnd == <>[](canceled \/ (queue = << >> /\ toRetry = << >>))
===============================================================================
