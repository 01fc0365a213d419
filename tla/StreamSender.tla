---------------------------- MODULE StreamSender ----------------------------
(***************************************************************************)
(* The sending side of one stream: the loop of `send_on_session`           *)
(* (manager/state.rs), the `StreamingTo` state it works on, and the        *)
(* `Shared<StreamEvent>` slot (utils/mod.rs) through which the network      *)
(* handlers talk to it.                                                    *)
(*                                                                         *)
(* The loop waits for an event in the slot or, while playing, for the next *)
(* tick.  A tick sends a batch of fresh chunks; only when none is left does *)
(* it drain `extras`, the chunks skipped by seeks or asked for again.      *)
(*                                                                         *)
(* Positions are chunk numbers, as in WriteableBuffer: chunks 0..Full-1    *)
(* are whole and, when HasTail, chunk Full is the shorter last one.  Chunk *)
(* Full exists without a tail too: reading at `len` gives an empty payload. *)
(* The slot holds one event.  A second one overwrites it unread, and the   *)
(* permit of its Notify can be lost: `listen_then` takes it before it has  *)
(* the value's lock, and `select!` drops `listen_then` when a tick is due. *)
(***************************************************************************)
EXTENDS Integers, FiniteSets

CONSTANTS
    Full,        \* number of whole chunks
    HasTail,     \* does a shorter chunk follow them?
    BatchSize,   \* PACKET_COUNT_PER_BATCH
    MaxBatch     \* bound: batches sent in one stream (u16::MAX in the code)

ASSUME SenderAssumption ==
    /\ Full \in Nat
    /\ HasTail \in BOOLEAN
    /\ BatchSize \in Nat \ {0}
    /\ MaxBatch \in Nat

VARIABLES
    position,  \* ReadableBuffer.head, in chunks
    lastSent,  \* last_sent: where the last packet sent begins
    extras,    \* chunks to send again or that a seek skipped
    sent,      \* every chunk sent so far (history)
    batch,     \* current_batch: the last batch number given out
    playing,   \* the loop's `playing`
    event,     \* the event in the slot, the last one written to it
    notified,  \* does the slot's Notify hold a permit?
    open       \* is the session still `Streaming::To` this stream?

vars == <<position, lastSent, extras, sent, batch, playing, event, notified, open>>

Chunk == 0 .. Full
EndPos == IF HasTail THEN Full + 1 ELSE Full

Retransmit(chunks) == [type |-> "retransmit", chunks |-> chunks]
Control(type) == [type |-> type]

\* A byte position in chunk i: where it begins or, when inside, further in.
\* Positions past the end of the buffer are no use to the receiver.
Seeks == {s \in [type : {"seek"}, to : Chunk, inside : BOOLEAN] :
            s.to = Full /\ s.inside => HasTail}
Retransmits == {Retransmit(chunks) : chunks \in SUBSET Chunk}
Controls == {Control(type) : type \in {"pause", "play", "done", "close"}}
Event == Seeks \cup Retransmits \cup Controls

-----------------------------------------------------------------------------
(* What the next batch holds.                                               *)

\* get_chunks: the next BatchSize chunks, fewer at the end.
NextPos == IF position + BatchSize < EndPos THEN position + BatchSize ELSE EndPos
Fresh == IF position < EndPos THEN position .. NextPos - 1 ELSE {}

\* The BatchSize lowest of a set of chunks: the BTreeSet's order.
Lowest(S) == {i \in S : Cardinality({j \in S : j < i}) < BatchSize}

\* add_seek_hole_indices: the chunks between the two positions, the seek's
\* rounded up when it is the higher one.
SeekHole(last, i, inside) ==
    IF i > last \/ (i = last /\ inside)
    THEN last .. (IF inside THEN i ELSE i - 1)
    ELSE i .. last - 1

-----------------------------------------------------------------------------

\* stream_to and the loop's own variables.
Init ==
    /\ position = 0
    /\ lastSent = 0
    /\ extras = {}
    /\ sent = {}
    /\ batch = 0
    /\ playing = TRUE
    /\ event = Control("none")
    /\ notified = FALSE
    /\ open = TRUE

\* A slip: extras are sent before the seek's hole has been looked at, and
\* forgotten instead of taken out one by one.
DrainForgets(chunks) ==
    /\ position = EndPos /\ extras # {}
    /\ chunks = Lowest(extras)
    /\ extras' = {}
    /\ UNCHANGED position

\* A slip: extras fill the ticks only as long as the stream is fresh.
DrainWhileFresh(chunks) ==
    /\ position < EndPos /\ extras # {}
    /\ chunks = Lowest(extras)
    /\ extras' = extras \ chunks
    /\ UNCHANGED position

\* The tick has no fresh chunk: drain the lowest extras.
Drain(chunks) ==
    /\ position = EndPos /\ extras # {}
    /\ chunks = Lowest(extras)
    /\ extras' = extras \ chunks
    /\ UNCHANGED position

\* A slip: the buffer moves on by a whole batch after a short one too.
SendFreshUnclamped(chunks) ==
    /\ position < EndPos
    /\ chunks = Fresh
    /\ position' = position + BatchSize
    /\ UNCHANGED extras

SendFresh(chunks) ==
    /\ position < EndPos
    /\ chunks = Fresh
    /\ position' = NextPos
    /\ UNCHANGED extras

\* send_stream_action on a tick that has something to send; `chunks` go out as
\* one batch, in order.  A tick with nothing to send changes nothing.
Tick(chunks) ==
    /\ playing /\ open
    /\ batch < MaxBatch
    /\ SendFresh(chunks) \/ Drain(chunks)
    /\ \E last \in chunks : (\A i \in chunks : i <= last) /\ lastSent' = last
    /\ sent' = sent \cup chunks
    /\ batch' = batch + 1
    /\ UNCHANGED <<playing, event, notified, open>>

\* Shared::update by a network handler: overwrite the slot and notify.
Post(e) ==
    /\ open
    /\ event' = e
    /\ notified' = TRUE
    /\ UNCHANGED <<position, lastSent, extras, sent, batch, playing, open>>

\* The same, but a tick is due while the writer still holds the value's lock:
\* the permit has been taken and the future that took it is dropped.
PostLosesPermit(e) ==
    /\ open /\ playing
    /\ event' = e
    /\ notified' = FALSE
    /\ UNCHANGED <<position, lastSent, extras, sent, batch, playing, open>>

\* close_stream, shared by every way to end the stream: it writes Close to the
\* slot the loop itself listens on.
CloseStream ==
    /\ event' = Control("close")
    /\ notified' = TRUE
    /\ open' = FALSE

\* close_stream called by a handler: Close from the peer, or the application.
Close ==
    /\ open
    /\ CloseStream
    /\ UNCHANGED <<position, lastSent, extras, sent, batch, playing>>

-----------------------------------------------------------------------------
(* handle_stream_event, for the event in the slot.                          *)

Listen == notified /\ notified' = FALSE /\ UNCHANGED event

\* A slip: the hole is measured from where the buffer stands, after the seek.
SeekForgetsHole ==
    /\ Listen
    /\ event.type = "seek"
    /\ position' = IF open THEN event.to ELSE position
    /\ extras' = extras \cup SeekHole(position', event.to, event.inside)
    /\ UNCHANGED <<lastSent, sent, batch, playing, open>>

\* Seek: move the buffer (if it is still there), remember the chunks skipped.
HandleSeek ==
    /\ Listen
    /\ event.type = "seek"
    /\ position' = IF open THEN event.to ELSE position
    /\ extras' = extras \cup SeekHole(lastSent, event.to, event.inside)
    /\ UNCHANGED <<lastSent, sent, batch, playing, open>>

\* The requested ranges, chunk by chunk; the slot is left with an empty list.
HandleRetransmit ==
    /\ notified /\ notified' = FALSE
    /\ event.type = "retransmit"
    /\ event' = Retransmit({})
    /\ extras' = extras \cup event.chunks
    /\ UNCHANGED <<position, lastSent, sent, batch, playing, open>>

HandlePause ==
    /\ Listen
    /\ event.type = "pause"
    /\ playing' = FALSE
    /\ UNCHANGED <<position, lastSent, extras, sent, batch, open>>

HandlePlay ==
    /\ Listen
    /\ event.type = "play"
    /\ playing' = TRUE
    /\ UNCHANGED <<position, lastSent, extras, sent, batch, open>>

\* Done and Close: close_stream, which wakes this same loop again; once the
\* stream is closed they change nothing.
HandleClose ==
    /\ notified
    /\ event.type \in {"done", "close"}
    /\ IF open THEN CloseStream
               ELSE notified' = FALSE /\ UNCHANGED <<event, open>>
    /\ UNCHANGED <<position, lastSent, extras, sent, batch, playing>>

Handle == HandleSeek \/ HandleRetransmit \/ HandlePause \/ HandlePlay \/ HandleClose

Next ==
    \/ \E chunks \in SUBSET Chunk : Tick(chunks)
    \/ \E e \in Event : Post(e) \/ PostLosesPermit(e)
    \/ Close
    \/ Handle

Spec == Init /\ [][Next]_vars

-----------------------------------------------------------------------------
(* Properties.                                                              *)

\* Every variable keeps its type; the buffer never stands past its end.
TypeOK ==
    /\ position \in 0 .. EndPos
    /\ lastSent \in Chunk
    /\ extras \subseteq Chunk
    /\ sent \subseteq Chunk
    /\ batch \in 0 .. MaxBatch
    /\ playing \in BOOLEAN
    /\ event \in Event \cup {Control("none")}
    /\ notified \in BOOLEAN
    /\ open \in BOOLEAN

\* A chunk the buffer has moved past was sent or is in `extras`: no sequence
\* of seeks, forward or back, and of drains between them, which also move
\* last_sent, makes the sender forget a chunk.
SkippedTracked == \A i \in Chunk : i < position => i \in sent \cup extras

\* The chunks before last_sent are accounted for as well: this is what lets
\* add_seek_hole_indices start the hole at last_sent.
LastSentTracked == \A i \in Chunk : i < lastSent => i \in sent \cup extras

\* A chunk leaves `extras` only in the batch of the step that takes it out: a
\* short budget, a Seek, a Pause or a Close never drops an accepted request.
ExtrasLeaveBySending ==
    [][\A i \in extras \ extras' : batch' = batch + 1 /\ i <= lastSent']_vars
=============================================================================
