-------------------------- MODULE StreamSenderProofs --------------------------
(***************************************************************************)
(* Theorems about StreamSender, for every track, batch size and bound.     *)
(***************************************************************************)
EXTENDS StreamSender, TLAPS

\* SkippedTracked needs LastSentTracked: a seek's hole begins at last_sent, so
\* what lies before last_sent must be accounted for already.
IInv == TypeOK /\ SkippedTracked /\ LastSentTracked

\* The hole of a seek lies in the track and reaches from last_sent to the
\* chunk the buffer moves to.
LEMMA SeekHoleCovers ==
    ASSUME NEW last \in Chunk, NEW i \in Chunk, NEW inside \in BOOLEAN
    PROVE  /\ SeekHole(last, i, inside) \subseteq Chunk
           /\ \A c \in Chunk : last <= c /\ c < i => c \in SeekHole(last, i, inside)
BY SenderAssumption DEF SeekHole, Chunk

\* What the loop finds in the slot, by the type of the event.
LEMMA EventFields ==
    ASSUME NEW e \in Event \cup {Control("none")}
    PROVE  /\ e.type = "seek" => e.to \in Chunk /\ e.inside \in BOOLEAN
           /\ e.type = "retransmit" => e.chunks \subseteq Chunk
<1>1. CASE e \in Seeks
  BY <1>1 DEF Seeks
<1>2. CASE e \in Retransmits
  <2>1. PICK chunks \in SUBSET Chunk : e = [type |-> "retransmit", chunks |-> chunks]
    BY <1>2 DEF Retransmits, Retransmit
  <2> QED
    BY <2>1
<1>3. CASE e \in Controls \cup {Control("none")}
  BY <1>3 DEF Controls, Control
<1> QED
  BY <1>1, <1>2, <1>3 DEF Event

\* What close_stream and the emptied request leave in the slot are events.
LEMMA CloseIsEvent == Control("close") \in Event /\ Retransmit({}) \in Event
BY DEF Event, Controls, Retransmits

\* stream_to and the loop's start satisfy the invariant.
LEMMA InitIInv == Init => IInv
<1> SUFFICES ASSUME Init PROVE IInv
  OBVIOUS
<1>1. TypeOK
  <2>1. 0 \in Chunk /\ 0 \in 0 .. EndPos /\ 0 \in 0 .. MaxBatch
    BY SenderAssumption DEF Chunk, EndPos
  <2> QED
    BY <2>1 DEF Init, TypeOK
<1>2. SkippedTracked /\ LastSentTracked
  BY SenderAssumption DEF Init, SkippedTracked, LastSentTracked, Chunk
<1> QED
  BY <1>1, <1>2 DEF IInv

\* A tick keeps the invariant: a fresh batch reaches exactly to the new
\* position, and a drain happens only with nothing fresh left.
LEMMA TickStep ==
    ASSUME IInv, NEW chunks \in SUBSET Chunk, Tick(chunks)
    PROVE  IInv'
<1> USE SenderAssumption DEF Chunk, EndPos
<1>1. PICK last \in chunks : (\A i \in chunks : i <= last) /\ lastSent' = last
  BY DEF Tick
<1>2. /\ sent' = sent \cup chunks
      /\ batch' = batch + 1 /\ batch < MaxBatch
      /\ UNCHANGED <<playing, event, notified, open>>
  BY DEF Tick
<1>3. TypeOK /\ SkippedTracked /\ LastSentTracked
  BY DEF IInv
<1>4. CASE SendFresh(chunks)
  <2>1. /\ position < EndPos
        /\ chunks = position .. NextPos - 1
        /\ position' = NextPos /\ extras' = extras
    BY <1>4 DEF SendFresh, Fresh
  <2>2. NextPos \in position + 1 .. EndPos
    BY <1>3, <2>1 DEF NextPos, TypeOK
  <2>3. last < NextPos
    BY <1>3, <2>1, <2>2 DEF TypeOK
  <2>4. TypeOK'
    BY <1>1, <1>2, <1>3, <2>1, <2>2 DEF TypeOK
  <2>5. SkippedTracked'
    BY <1>2, <1>3, <2>1, <2>2 DEF SkippedTracked, TypeOK
  <2>6. LastSentTracked'
    BY <1>1, <1>2, <2>1, <2>2, <2>3, <2>5, <1>3 DEF LastSentTracked, SkippedTracked, TypeOK
  <2> QED
    BY <2>4, <2>5, <2>6 DEF IInv
<1>5. CASE Drain(chunks)
  <2>1. position = EndPos /\ position' = position /\ extras' = extras \ chunks
    BY <1>5 DEF Drain
  <2>2. TypeOK'
    BY <1>1, <1>2, <1>3, <2>1 DEF TypeOK
  <2>3. \A i \in Chunk : i \in sent \cup extras => i \in sent' \cup extras'
    BY <1>2, <2>1
  <2>4. SkippedTracked'
    BY <1>3, <2>1, <2>3 DEF SkippedTracked
  <2>5. LastSentTracked'
    BY <1>1, <1>3, <2>1, <2>3 DEF LastSentTracked, SkippedTracked
  <2> QED
    BY <2>2, <2>4, <2>5 DEF IInv
<1> QED
  BY <1>4, <1>5 DEF Tick

\* A Seek keeps the invariant, whichever way it goes.
LEMMA HandleSeekStep == ASSUME IInv, HandleSeek PROVE IInv'
<1> USE SenderAssumption
<1>1. TypeOK /\ SkippedTracked /\ LastSentTracked
  BY DEF IInv
<1>2. event.to \in Chunk /\ event.inside \in BOOLEAN /\ lastSent \in Chunk
  BY <1>1, EventFields DEF HandleSeek, TypeOK
<1>3. /\ position' \in {event.to, position}
      /\ extras' = extras \cup SeekHole(lastSent, event.to, event.inside)
      /\ UNCHANGED <<lastSent, sent, batch, playing, event, open>>
      /\ notified' = FALSE
  BY DEF HandleSeek, Listen
<1>4. /\ SeekHole(lastSent, event.to, event.inside) \subseteq Chunk
      /\ \A c \in Chunk : lastSent <= c /\ c < event.to
            => c \in SeekHole(lastSent, event.to, event.inside)
  BY <1>2, SeekHoleCovers
<1>5. TypeOK'
  <2>1. event.to \in 0 .. EndPos
    BY <1>2 DEF Chunk, EndPos
  <2> QED
    BY <1>1, <1>3, <1>4, <2>1 DEF TypeOK
<1>6. LastSentTracked'
  BY <1>1, <1>3 DEF LastSentTracked
<1>7. SkippedTracked'
  <2> SUFFICES ASSUME NEW c \in Chunk, c < position'
               PROVE  c \in sent \cup extras'
    BY <1>3 DEF SkippedTracked
  <2>1. CASE position' = position
    BY <1>1, <1>3, <2>1 DEF SkippedTracked
  <2>2. CASE position' = event.to /\ c < lastSent
    BY <1>1, <1>3, <2>2 DEF LastSentTracked
  <2>3. CASE position' = event.to /\ ~(c < lastSent)
    BY <1>2, <1>3, <1>4, <2>3 DEF Chunk
  <2> QED
    BY <1>3, <2>1, <2>2, <2>3
<1> QED
  BY <1>5, <1>6, <1>7 DEF IInv

\* The other events add to extras or touch only the loop and the slot.
LEMMA QuietStep ==
    ASSUME IInv, UNCHANGED <<position, lastSent, sent, batch>>,
           extras \subseteq extras', extras' \subseteq Chunk,
           playing' \in BOOLEAN, notified' \in BOOLEAN, open' \in BOOLEAN,
           event' \in Event \cup {Control("none")}
    PROVE  IInv'
BY DEF IInv, TypeOK, SkippedTracked, LastSentTracked

\* Every step of the loop and of its writers keeps the invariant.
LEMMA NextStep == IInv /\ [Next]_vars => IInv'
<1> SUFFICES ASSUME IInv, [Next]_vars PROVE IInv'
  OBVIOUS
<1>0. TypeOK
  BY DEF IInv
<1>1. ASSUME NEW chunks \in SUBSET Chunk, Tick(chunks) PROVE IInv'
  BY <1>1, TickStep
<1>2. ASSUME NEW e \in Event, Post(e) \/ PostLosesPermit(e) PROVE IInv'
  BY <1>0, <1>2, QuietStep DEF Post, PostLosesPermit, TypeOK
<1>3. CASE Close
  BY <1>0, <1>3, QuietStep, CloseIsEvent DEF Close, CloseStream, TypeOK
<1>4. CASE HandleSeek
  BY <1>4, HandleSeekStep
<1>5. CASE HandleRetransmit
  <2>1. event.chunks \subseteq Chunk
    BY <1>0, <1>5, EventFields DEF HandleRetransmit, TypeOK
  <2> QED
    BY <1>0, <1>5, <2>1, QuietStep, CloseIsEvent DEF HandleRetransmit, TypeOK
<1>6. CASE HandlePause \/ HandlePlay
  BY <1>0, <1>6, QuietStep DEF HandlePause, HandlePlay, Listen, TypeOK
<1>7. CASE HandleClose
  BY <1>0, <1>7, QuietStep, CloseIsEvent DEF HandleClose, CloseStream, TypeOK
<1>8. CASE UNCHANGED vars
  BY <1>8 DEF vars, IInv, TypeOK, SkippedTracked, LastSentTracked
<1> QED
  BY <1>1, <1>2, <1>3, <1>4, <1>5, <1>6, <1>7, <1>8 DEF Next, Handle

\* The strengthened invariant of the sending loop.
THEOREM Invariance == Spec => []IInv
<1> QED
  BY InitIInv, NextStep, PTL DEF Spec

\* The loop's variables keep their types: no batch and no seek takes the
\* buffer past its end, nothing outside the track is ever queued.
THEOREM TypeCorrect == Spec => []TypeOK
BY Invariance, PTL DEF IInv

\* No sequence of ticks, seeks, drains and requests makes the sender forget a
\* chunk it has moved past.
THEOREM NothingSkippedIsForgotten == Spec => []SkippedTracked
BY Invariance, PTL DEF IInv

\* The start of a seek's hole, last_sent, is always far enough back.
THEOREM HoleStartIsFarEnoughBack == Spec => []LastSentTracked
BY Invariance, PTL DEF IInv

\* A chunk queued for sending again leaves the queue only in a batch, which
\* goes at least as far as the chunk.
LEMMA ExtrasStep ==
    [Next]_vars => [\A i \in extras \ extras' : batch' = batch + 1 /\ i <= lastSent']_vars
<1> SUFFICES ASSUME [Next]_vars, vars' # vars, NEW i \in extras \ extras'
             PROVE  batch' = batch + 1 /\ i <= lastSent'
  OBVIOUS
<1>1. ASSUME NEW chunks \in SUBSET Chunk, Tick(chunks)
      PROVE  batch' = batch + 1 /\ i <= lastSent'
  <2>1. i \in chunks
    BY <1>1 DEF Tick, SendFresh, Drain
  <2> QED
    BY <1>1, <2>1 DEF Tick
<1>2. ASSUME NEW e \in Event, Post(e) \/ PostLosesPermit(e)
      PROVE  FALSE
  BY <1>2 DEF Post, PostLosesPermit
<1>3. Close \/ Handle => extras \subseteq extras'
  BY DEF Close, Handle, HandleSeek, HandleRetransmit, HandlePause, HandlePlay, HandleClose
<1> QED
  BY <1>1, <1>2, <1>3 DEF Next

\* No Seek, Pause, Close or short budget drops a request the loop accepted.
THEOREM AcceptedRequestsAreSent == Spec => ExtrasLeaveBySending
<1> QED
  BY ExtrasStep, PTL DEF Spec, ExtrasLeaveBySending
=============================================================================
