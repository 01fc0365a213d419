------------------------------- MODULE Transfer -------------------------------
(***************************************************************************)
(* One stream from end to end: the sending loop (StreamSender), the         *)
(* receiver's handlers (StreamReceiver), forward error correction and the   *)
(* UDP network between them.                                                *)
(*                                                                         *)
(* The network reorders at will and may lose MaxLoss messages; a behaviour *)
(* has losses or seeks, as `disturbance` chooses, not both.  Copies of     *)
(* one datagram are dropped by the fingerprint window and are not modelled; *)
(* a Seek or Done, which the sender of the message retries because it is     *)
(* never acknowledged, may be delivered again MaxResend times.              *)
(*                                                                         *)
(* Error correction is used through what XorFec establishes: a batch with    *)
(* one data packet missing and its parity present has exactly one task that  *)
(* recovers it, and yields the missing packet.                              *)
(***************************************************************************)
EXTENDS Integers, Sequences, FiniteSets

CONSTANTS
    Full, HasTail,   \* the track: whole chunks, and is there a shorter one?
    BatchSize,       \* PACKET_COUNT_PER_BATCH
    MaxBatch,        \* bound: batches the sender may send
    MaxLoss,         \* bound: messages the network may lose
    MaxSeek,         \* bound: seeks the application makes
    Disturbances,    \* what may disturb a behaviour: "loss", "seek"
    MaxSeekBatch,    \* bound: batches the sender may send beside a seek
    MaxResend,       \* bound: second deliveries of Seek and Done
    MaxPrune,        \* bound: batches that expire in the FEC module
    MayExpire,       \* beside which do pending markers and mirror entries grow too old?
    MayAcceptHoles   \* does the application call complete() accepting holes?

ASSUME TransferAssumption ==
    /\ Full \in Nat
    /\ HasTail \in BOOLEAN
    /\ BatchSize \in Nat \ {0}
    /\ MaxBatch \in Nat

VARIABLES
    \* StreamSender
    position, lastSent, extras, sent, batch, playing, event, notified, open,
    \* StreamReceiver
    map, head, areas, pending, mirror, partial, streaming, closed,
    \* the network
    dataNet,    \* packets <<batch, chunk>>, chunk Parity for a parity packet
    controlNet, \* control messages to the sender
    batches,    \* batches[b]: the chunks batch b was sent with (history)
    \* the receiver's FEC module
    inbound,    \* entries: [mask (chunks received), parity (received?)]
    claimed,    \* batches a task is about to recover
    found,      \* recovered packets <<batch, chunk>> not yet written
    \* bounds
    disturbance, \* losses or seeks?  chosen once, never changed
    losses, seeks, resends, prunes,
    lostData    \* data packets lost (history)

sendVars == <<position, lastSent, extras, sent, batch, playing, event, notified, open>>
recvVars == <<map, head, areas, pending, mirror, partial, streaming, closed>>
fecVars == <<inbound, claimed, found>>
boundVars == <<losses, seeks, resends, prunes, lostData>>
vars == <<sendVars, recvVars, dataNet, controlNet, batches, fecVars, boundVars>>

Send == INSTANCE StreamSender
Recv == INSTANCE StreamReceiver WITH BatchId <- 1 .. MaxBatch

Chunk == 0 .. Full
Parity == Full + 1

\* Where a chunk comes in its batch, and how large the batch is.
BatchPos(b, c) == Cardinality({d \in batches[b] : d < c})
SizeOf(b) == Cardinality(batches[b])

-----------------------------------------------------------------------------
(* The receiver's FEC module, each call a step (see XorFec for their        *)
(* interleavings).                                                          *)

EntryOf(b) == IF b \in DOMAIN inbound THEN inbound[b] ELSE [mask |-> {}, parity |-> FALSE]

\* A slip: a batch is taken up only once nothing of it is missing.
ReadyWhenWhole(b, e) == Cardinality(e.mask) = SizeOf(b) /\ e.parity

\* ready_to_recover, for a batch that was not taken up yet.
Ready(b, e) == Cardinality(e.mask) = SizeOf(b) - 1 /\ e.parity

\* received: the packet joins its batch, which may now be ready.
FecReceived(b, e) ==
    /\ inbound' = [x \in DOMAIN inbound \cup {b} |-> IF x = b THEN e ELSE inbound[x]]
    /\ claimed' = IF Ready(b, e) THEN claimed \cup {b} ELSE claimed

\* recover: the entry goes, and with it what it yields.
Recover(b) ==
    /\ b \in claimed
    /\ claimed' = claimed \ {b}
    /\ inbound' = [x \in DOMAIN inbound \ {b} |-> inbound[x]]
    /\ found' = IF b \in DOMAIN inbound /\ Ready(b, inbound[b])
                THEN found \cup {<<b, c>> : c \in batches[b] \ inbound[b].mask}
                ELSE found
    /\ UNCHANGED <<sendVars, recvVars, dataNet, controlNet, batches, boundVars>>

\* missing_positions: enumerable only when the packets received look contiguous.
MissingPositions(b, mask) ==
    LET bases == {Recv!DerivedBase(c, BatchPos(b, c)) : c \in mask}
    IN  {base + i : base \in bases, i \in {j \in 0 .. SizeOf(b) - 1 :
            Cardinality(bases) = 1 /\ \A c \in mask : BatchPos(b, c) # j}}

-----------------------------------------------------------------------------
(* Messages.                                                                *)

Request(asked) == IF asked = {} THEN {} ELSE {Send!Retransmit(asked)}
DoneMessage == Send!Control("done")
SeekMessage(i, inside) == [type |-> "seek", to |-> i, inside |-> inside]

\* What a handler sends when it is through: Done, or a request if any.
Answer(asked) ==
    controlNet' = controlNet \cup (IF Recv!IsDone THEN {DoneMessage} ELSE Request(asked))

-----------------------------------------------------------------------------
(* The sender.                                                              *)

SendBatch(chunks) ==
    /\ Send!Tick(chunks)
    /\ disturbance = "seek" => batch < MaxSeekBatch
    /\ batches' = Append(batches, chunks)
    /\ dataNet' = dataNet \cup {<<batch', c>> : c \in chunks \cup {Parity}}
    /\ UNCHANGED <<recvVars, controlNet, fecVars, boundVars>>

HandleEvent ==
    /\ Send!Handle
    /\ UNCHANGED <<recvVars, dataNet, controlNet, batches, fecVars, boundVars>>

\* A control message reaches the handler, which puts it in the event slot; a
\* Seek or Done may come again.
DeliverControl(m) ==
    /\ m \in controlNet
    /\ IF open THEN Send!Post(m) ELSE UNCHANGED sendVars
    /\ \/ controlNet' = controlNet \ {m} /\ UNCHANGED resends
       \/ /\ m.type \in {"seek", "done"}
          /\ resends < MaxResend /\ resends' = resends + 1
          /\ UNCHANGED controlNet
    /\ UNCHANGED <<recvVars, dataNet, batches, fecVars, losses, seeks, prunes, lostData>>

-----------------------------------------------------------------------------
(* The network.                                                             *)

LoseData(p) ==
    /\ p \in dataNet
    /\ disturbance = "loss"
    /\ losses < MaxLoss /\ losses' = losses + 1
    /\ dataNet' = dataNet \ {p}
    /\ lostData' = lostData \cup {p}
    /\ UNCHANGED <<sendVars, recvVars, controlNet, batches, fecVars, seeks, resends, prunes>>

LoseControl(m) ==
    /\ m \in controlNet
    /\ disturbance = "loss"
    /\ losses < MaxLoss /\ losses' = losses + 1
    /\ controlNet' = controlNet \ {m}
    /\ UNCHANGED <<sendVars, recvVars, dataNet, batches, fecVars, seeks, resends, prunes, lostData>>

-----------------------------------------------------------------------------
(* The receiver.  `stale` and `old`: the markers and mirror entries that     *)
(* have outlived their time by now.                                         *)

Stales == IF disturbance \in MayExpire THEN SUBSET pending ELSE {{}}
Olds(b) == IF disturbance \in MayExpire THEN SUBSET (DOMAIN mirror \cup {b}) ELSE {{}}

\* A data packet on a session that no longer streams, or for a chunk already
\* there: the batch never sees it.
DropData(b, c) ==
    /\ IF streaming THEN Recv!RefuseData(b, SizeOf(b), BatchPos(b, c), c)
                    ELSE UNCHANGED recvVars
    /\ UNCHANGED <<controlNet, fecVars>>

\* A new chunk; unless it completes the stream the batch sees it as well.
TakeData(b, c, stale, old, asked) ==
    /\ Recv!AcceptData(b, SizeOf(b), BatchPos(b, c), c, stale, old, asked)
    /\ Answer(asked)
    /\ IF Recv!IsDone
       THEN UNCHANGED fecVars
       ELSE FecReceived(b, [EntryOf(b) EXCEPT !.mask = @ \cup {c}]) /\ UNCHANGED found

ReceiveData(b, c) ==
    /\ <<b, c>> \in dataNet /\ c \in Chunk
    /\ dataNet' = dataNet \ {<<b, c>>}
    /\ \/ DropData(b, c)
       \/ \E stale \in Stales, old \in Olds(b),
             asked \in SUBSET Chunk : TakeData(b, c, stale, old, asked)
    /\ UNCHANGED <<sendVars, batches, boundVars>>

ReceiveParity(b) ==
    /\ <<b, Parity>> \in dataNet
    /\ dataNet' = dataNet \ {<<b, Parity>>}
    /\ FecReceived(b, [EntryOf(b) EXCEPT !.parity = TRUE])
    /\ UNCHANGED <<sendVars, recvVars, controlNet, batches, found, boundVars>>

\* recovered_packet for a packet the FEC module yielded.
WriteRecovered(b, c) ==
    /\ <<b, c>> \in found
    /\ found' = found \ {<<b, c>>}
    /\ \/ /\ IF streaming THEN Recv!RefuseRecovered(b, c) ELSE UNCHANGED recvVars
          /\ UNCHANGED controlNet
       \/ \E stale \in Stales, old \in Olds(b), asked \in SUBSET Chunk :
             Recv!AcceptRecovered(b, c, stale, old, asked) /\ Answer(asked)
    /\ UNCHANGED <<sendVars, dataNet, batches, inbound, claimed, boundVars>>

\* An expired batch: the entry goes, its missing positions are asked for.
Prune(b) ==
    /\ prunes < MaxPrune /\ prunes' = prunes + 1
    /\ b \in DOMAIN inbound
    /\ inbound' = [x \in DOMAIN inbound \ {b} |-> inbound[x]]
    /\ IF streaming
       THEN \E stale \in Stales, asked \in SUBSET Chunk :
                /\ Recv!AskForPruned(MissingPositions(b, inbound[b].mask), stale, asked)
                /\ controlNet' = controlNet \cup Request(asked)
       ELSE UNCHANGED <<recvVars, controlNet>>
    /\ UNCHANGED <<sendVars, dataNet, batches, claimed, found, losses, seeks, resends, lostData>>

\* The application: seek, while it holds the stream, and complete().
AppSeek(i, inside) ==
    /\ ~partial
    /\ disturbance = "seek"
    /\ seeks < MaxSeek /\ seeks' = seeks + 1
    /\ Recv!Seek(i, inside)
    /\ controlNet' = controlNet \cup {SeekMessage(i, inside)}
    /\ UNCHANGED <<sendVars, dataNet, batches, fecVars, losses, resends, prunes, lostData>>

AppAcceptHoles ==
    /\ MayAcceptHoles
    /\ Recv!AllowPartial
    /\ UNCHANGED <<sendVars, dataNet, controlNet, batches, fecVars, boundVars>>

-----------------------------------------------------------------------------

Init ==
    /\ Send!Init
    /\ Recv!Init
    /\ dataNet = {} /\ controlNet = {}
    /\ batches = << >>
    /\ inbound = [b \in {} |-> 0] /\ claimed = {} /\ found = {}
    /\ disturbance \in Disturbances
    /\ losses = 0 /\ seeks = 0 /\ resends = 0 /\ prunes = 0
    /\ lostData = {}

SenderStep == HandleEvent \/ \E chunks \in SUBSET Chunk : SendBatch(chunks)

ReceiverStep ==
    \/ \E p \in dataNet : ReceiveData(p[1], p[2])
    \/ \E b \in 1 .. MaxBatch : ReceiveParity(b) \/ Recover(b)
    \/ \E p \in found : WriteRecovered(p[1], p[2])

Next ==
    \/ SenderStep
    \/ ReceiverStep
    \/ \E m \in controlNet : DeliverControl(m) \/ LoseControl(m)
    \/ \E p \in dataNet : LoseData(p)
    \/ \E b \in 1 .. MaxBatch : Prune(b)
    \/ \E i \in Chunk, inside \in BOOLEAN : AppSeek(i, inside)
    \/ AppAcceptHoles

Spec == Init /\ [][Next /\ UNCHANGED disturbance]_<<vars, disturbance>>

\* Ticks come, tasks run, and what is not lost arrives.  Nothing is assumed of
\* the application, of losses, or of entries expiring.
Fairness ==
    /\ WF_vars(HandleEvent)
    /\ WF_vars(\E chunks \in SUBSET Chunk : SendBatch(chunks))
    /\ WF_vars(ReceiverStep)
    /\ WF_vars(\E m \in controlNet : DeliverControl(m))

FairSpec == Spec /\ Fairness

-----------------------------------------------------------------------------
(* Properties.                                                              *)

\* The parts keep their types, and what is between them names real batches.
TypeOK ==
    /\ Send!TypeOK /\ Recv!Buf!TypeOK
    /\ pending \subseteq Chunk
    /\ Len(batches) = batch
    /\ DOMAIN mirror \cup DOMAIN inbound \cup claimed \subseteq 1 .. batch
    /\ \A p \in dataNet \cup found : p[1] \in 1 .. batch

\* A marker of `pending` stands for a chunk that is still missing: a chunk
\* that arrives, by data or by recovery, is never left blocked or asked for.
PendingIsMissing == \A c \in pending : ~map[c]

\* The receiver asks only for what the sender has passed: a hole the policy
\* picks, or the FEC module reports, was sent or is queued to be sent, so that
\* a request never runs ahead of the stream, whatever is lost, late or expired.
\* The runs check this without seeks; the theorem on it covers them as well.
AskedWasPassed == \A c \in pending : c \in sent \cup extras

\* While both ends stream, a missing chunk is ahead of the sender, queued by
\* it, on its way, recovered and about to be written, or a packet of it was
\* lost: no seek, overwritten event or refused packet makes one disappear.
MissingIsAccountedFor ==
    (open /\ streaming) =>
        \A c \in Chunk :
            \/ map[c] \/ c >= position \/ c \in extras
            \/ \E p \in dataNet \cup found \cup lostData : p[2] = c

\* The sender stops only after the receiver was done, and the receiver is done
\* only with every chunk, or with its head at the end and holes accepted.
SenderStopsOnlyWhenDone ==
    /\ ~open => closed
    /\ closed => \A c \in Chunk : map[c] \/ (partial /\ Recv!Buf!HeadAtEnd(head))

\* The receiving application sees what Delivery promises.
Promise == INSTANCE Delivery WITH
    Chunk <- Chunk, End <- Recv!Buf!EndHead,
    got <- {c \in Chunk : map[c]}, at <- head,
    accepts <- partial, finished <- closed
DeliversWhatIsPromised == Promise!Spec

\* The stream ends: every chunk arrives and the application is told so.
Completes == <>closed

\* The same where the bound may be reached: every chunk arrives unless the
\* sender has sent all the batches the model allows it.  reserve_for_request
\* sweeps old markers so that a lost response never blocks a chunk for good.
CompletesWithinBound == <>(closed \/ batch = MaxBatch)

\* recovered_packet claims the same policy as received_data_packet, which sets
\* the session Up when the stream is done: a closed stream frees its session.
DoneFreesSession == closed => ~streaming
=============================================================================
