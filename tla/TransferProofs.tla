---------------------------- MODULE TransferProofs ----------------------------
(***************************************************************************)
(* Theorems about Transfer, for every track, batch size and bound: the      *)
(* end-to-end safety properties, and that Transfer implements Delivery.     *)
(*                                                                         *)
(* What StreamSenderProofs and WriteableBufferProofs show of the parts is    *)
(* used through the instances Sender and Buffer, whose definitions are those *)
(* of Send and Recv!Buf.                                                    *)
(***************************************************************************)
EXTENDS Transfer, FiniteSetTheorems, TLAPS

Sender == INSTANCE StreamSenderProofs
Buffer == INSTANCE WriteableBufferProofs

-----------------------------------------------------------------------------
(* The parts.                                                               *)

\* What the steps of Transfer do to the sender.
SenderMoves ==
    \/ \E chunks \in SUBSET Chunk : Send!Tick(chunks)
    \/ \E e \in Send!Event : Send!Post(e)
    \/ Send!Handle
    \/ UNCHANGED sendVars

\* The sender's invariant survives them.
LEMMA SenderKeeps == ASSUME Sender!IInv, SenderMoves PROVE Sender!IInv'
<1>1. Sender!Chunk = Chunk /\ Sender!Event = Send!Event
  BY DEF Sender!Chunk, Chunk, Sender!Event, Send!Event, Sender!Seeks, Send!Seeks,
         Sender!Retransmits, Send!Retransmits, Sender!Controls, Send!Controls,
         Sender!Retransmit, Send!Retransmit, Sender!Control, Send!Control, Send!Chunk
<1>2. ASSUME NEW chunks \in SUBSET Chunk, Send!Tick(chunks) PROVE Sender!Tick(chunks)
  BY <1>2 DEF Sender!Tick, Send!Tick, Sender!SendFresh, Send!SendFresh, Sender!Drain, Send!Drain,
         Sender!Fresh, Send!Fresh, Sender!NextPos, Send!NextPos, Sender!EndPos, Send!EndPos,
         Sender!Lowest, Send!Lowest, Sender!Cardinality, Send!Cardinality
<1>3. ASSUME NEW e \in Send!Event, Send!Post(e) PROVE Sender!Post(e)
  BY <1>3 DEF Sender!Post, Send!Post
<1>4. ASSUME Send!Handle PROVE Sender!Handle
  BY <1>4 DEF Sender!Handle, Send!Handle, Sender!HandleSeek, Send!HandleSeek,
         Sender!HandleRetransmit, Send!HandleRetransmit, Sender!HandlePause, Send!HandlePause,
         Sender!HandlePlay, Send!HandlePlay, Sender!HandleClose, Send!HandleClose,
         Sender!Listen, Send!Listen, Sender!SeekHole, Send!SeekHole, Sender!CloseStream,
         Send!CloseStream, Sender!Control, Send!Control, Sender!Retransmit, Send!Retransmit
<1>5. [Sender!Next]_(Sender!vars)
  BY <1>1, <1>2, <1>3, <1>4 DEF SenderMoves, Sender!Next, Sender!vars, sendVars
<1> QED
  BY <1>5, TransferAssumption, Sender!NextStep

\* What the steps of Transfer do to the receiver's buffer.
BufferMoves ==
    \/ \E c \in Chunk : Recv!Buf!Write(c, Recv!Size(c))
    \/ \E i \in Chunk, inside \in BOOLEAN : Recv!Buf!SeekHead(i, inside)
    \/ UNCHANGED <<map, head, areas>>

\* The definitions of the buffer that both instances have.
LEMMA SameBuffer ==
    /\ Buffer!Chunk = Chunk /\ Recv!Buf!Chunk = Chunk /\ Recv!Chunk = Chunk
    /\ Buffer!EndHead = Recv!Buf!EndHead
    /\ \A m, h : Buffer!AdvanceHead(m, h) = Recv!Buf!AdvanceHead(m, h)
BY DEF Buffer!Chunk, Recv!Buf!Chunk, Recv!Chunk, Chunk, Buffer!EndHead, Recv!Buf!EndHead,
       Buffer!AdvanceHead, Recv!Buf!AdvanceHead, Buffer!FirstHole, Recv!Buf!FirstHole,
       Buffer!HeadChunk, Recv!Buf!HeadChunk

LEMMA SameCut == \A s, i : Buffer!CutArea(s, i) = Recv!Buf!CutArea(s, i)
BY DEF Buffer!CutArea, Recv!Buf!CutArea, Buffer!InArea, Recv!Buf!InArea,
       Buffer!RemoveAt, Recv!Buf!RemoveAt, Buffer!InsertAt, Recv!Buf!InsertAt

\* The buffer's invariant survives them, and the head does not go back.
LEMMA BufferKeeps ==
    ASSUME Buffer!IInv, BufferMoves
    PROVE  Buffer!IInv' /\ head' >= head
<1>1. ASSUME NEW c \in Chunk, Recv!Buf!Write(c, Recv!Size(c))
      PROVE  Buffer!Write(c, Recv!Size(c)) /\ Recv!Size(c) \in {"full", "short"}
  BY <1>1, SameBuffer, SameCut
     DEF Buffer!Write, Recv!Buf!Write, Buffer!SizeFits, Recv!Buf!SizeFits, Recv!Size
<1>2. ASSUME NEW i \in Chunk, NEW inside \in BOOLEAN, Recv!Buf!SeekHead(i, inside)
      PROVE  Buffer!SeekHead(i, inside)
  BY <1>2, SameBuffer
     DEF Buffer!SeekHead, Recv!Buf!SeekHead, Buffer!InRange, Recv!Buf!InRange,
         Buffer!SeekMoves, Recv!Buf!SeekMoves, Buffer!PastHead, Recv!Buf!PastHead
<1>3. [Buffer!Next]_(Buffer!vars)
  BY <1>1, <1>2, SameBuffer DEF BufferMoves, Buffer!Next, Buffer!vars
<1>4. Buffer!IInv' /\ [head' >= head]_(Buffer!vars)
  BY <1>3, TransferAssumption, Buffer!NextStep
<1>5. head \in Int
  BY TransferAssumption, Buffer!TypeOK DEF Buffer!IInv, Buffer!TypeOK, Buffer!EndHead
<1> QED
  BY <1>4, <1>5 DEF Buffer!vars

-----------------------------------------------------------------------------
(* What is between the parts.                                               *)

\* Batches on the network and in the FEC module are batches that were sent,
\* with chunks of theirs; what is on its way to the sender are its events.
Shape ==
    /\ batches \in Seq(SUBSET Chunk) /\ Len(batches) = batch
    /\ \A b \in 1 .. batch : batches[b] \subseteq sent
    /\ dataNet \subseteq (1 .. batch) \X (Chunk \cup {Parity})
    /\ \A p \in dataNet : p[2] \in Chunk => p[2] \in batches[p[1]]
    /\ found \subseteq (1 .. batch) \X Chunk
    /\ \A p \in found : p[2] \in batches[p[1]]
    /\ controlNet \subseteq Send!Event
    /\ DOMAIN mirror \cup DOMAIN inbound \cup claimed \subseteq 1 .. batch
    /\ \A b \in DOMAIN inbound : inbound[b] \in [mask : SUBSET batches[b], parity : BOOLEAN]
    /\ pending \subseteq Chunk
    /\ partial \in BOOLEAN /\ streaming \in BOOLEAN /\ closed \in BOOLEAN

Parts == Sender!IInv /\ Buffer!IInv /\ Shape

\* The messages a handler sends are events of the sender.
LEMMA MessagesAreEvents ==
    /\ DoneMessage \in Send!Event
    /\ \A asked \in SUBSET Chunk : Request(asked) \subseteq Send!Event
    /\ \A i \in Chunk, inside \in BOOLEAN :
           Recv!Buf!InRange(i, inside) => SeekMessage(i, inside) \in Send!Event
<1>1. DoneMessage \in Send!Controls
  BY DEF DoneMessage, Send!Controls
<1>2. ASSUME NEW asked \in SUBSET Chunk PROVE Request(asked) \subseteq Send!Retransmits
  BY DEF Request, Send!Retransmits, Send!Chunk, Chunk
<1>3. ASSUME NEW i \in Chunk, NEW inside \in BOOLEAN, Recv!Buf!InRange(i, inside)
      PROVE  SeekMessage(i, inside) \in Send!Seeks
  BY <1>3, TransferAssumption DEF SeekMessage, Send!Seeks, Send!Chunk, Chunk, Recv!Buf!InRange
<1> QED
  BY <1>1, <1>2, <1>3 DEF Send!Event

\* Every step moves the parts as their own modules say.
LEMMA StepMoves ==
    ASSUME Shape, Next
    PROVE  SenderMoves /\ BufferMoves
<1>1. CASE SenderStep
  BY <1>1 DEF SenderStep, HandleEvent, SendBatch, SenderMoves, BufferMoves, recvVars
<1>2. ASSUME NEW p \in dataNet, ReceiveData(p[1], p[2]) PROVE SenderMoves /\ BufferMoves
  <2>1. p[2] \in Chunk /\ UNCHANGED sendVars
    BY <1>2 DEF ReceiveData
  <2>2. \/ UNCHANGED <<map, head, areas>>
        \/ Recv!Buf!Write(p[2], Recv!Size(p[2]))
    BY <1>2 DEF ReceiveData, DropData, TakeData, recvVars, Recv!RefuseData, Recv!AcceptData,
           Recv!bufVars
  <2> QED
    BY <2>1, <2>2 DEF SenderMoves, BufferMoves
<1>3. ASSUME NEW b \in 1 .. MaxBatch, ReceiveParity(b) \/ Recover(b)
      PROVE  SenderMoves /\ BufferMoves
  BY <1>3 DEF ReceiveParity, Recover, SenderMoves, BufferMoves, recvVars
<1>4. ASSUME NEW p \in found, WriteRecovered(p[1], p[2]) PROVE SenderMoves /\ BufferMoves
  <2>1. p[2] \in Chunk /\ UNCHANGED sendVars
    BY <1>4 DEF WriteRecovered, Shape
  <2>2. \/ UNCHANGED <<map, head, areas>>
        \/ Recv!Buf!Write(p[2], Recv!Size(p[2]))
    BY <1>4 DEF WriteRecovered, recvVars, Recv!RefuseRecovered, Recv!AcceptRecovered, Recv!bufVars
  <2> QED
    BY <2>1, <2>2 DEF SenderMoves, BufferMoves
<1>5. ASSUME NEW m \in controlNet, DeliverControl(m) \/ LoseControl(m)
      PROVE  SenderMoves /\ BufferMoves
  <2>1. m \in Send!Event
    BY DEF Shape
  <2> QED
    BY <1>5, <2>1 DEF DeliverControl, LoseControl, SenderMoves, BufferMoves, recvVars
<1>6. ASSUME NEW p \in dataNet, LoseData(p) PROVE SenderMoves /\ BufferMoves
  BY <1>6 DEF LoseData, SenderMoves, BufferMoves, recvVars
<1>7. ASSUME NEW b \in 1 .. MaxBatch, Prune(b) PROVE SenderMoves /\ BufferMoves
  BY <1>7 DEF Prune, Recv!AskForPruned, Recv!bufVars, SenderMoves, BufferMoves, recvVars
<1>8. ASSUME NEW i \in Chunk, NEW inside \in BOOLEAN, AppSeek(i, inside)
      PROVE  SenderMoves /\ BufferMoves
  BY <1>8 DEF AppSeek, Recv!Seek, SenderMoves, BufferMoves
<1>9. CASE AppAcceptHoles
  BY <1>9 DEF AppAcceptHoles, Recv!AllowPartial, Recv!bufVars, SenderMoves, BufferMoves
<1> QED
  BY <1>1, <1>2, <1>3, <1>4, <1>5, <1>6, <1>7, <1>8, <1>9 DEF Next, ReceiverStep

\* The shared tail of the handlers: old markers and mirror entries go, what is
\* asked for is marked.
LEMMA DecideShape ==
    ASSUME NEW decides \in BOOLEAN, NEW before \in SUBSET Chunk, NEW mir,
           DOMAIN mir \subseteq 1 .. batch,
           NEW stale, NEW old, NEW asked \in SUBSET Chunk,
           Recv!Decide(decides, before, mir, stale, old, asked)
    PROVE  pending' \subseteq Chunk /\ DOMAIN mirror' \subseteq 1 .. batch
BY DEF Recv!Decide, Recv!Without

LEMMA MirrorShape ==
    ASSUME Shape, NEW b \in 1 .. batch, NEW size, NEW pos, NEW c
    PROVE  /\ DOMAIN Recv!MirrorAdd(mirror, b, size, pos, c) \subseteq 1 .. batch
           /\ DOMAIN Recv!Without(mirror, {b}) \subseteq 1 .. batch
BY DEF Shape, Recv!MirrorAdd, Recv!Without

\* A packet joins an entry of its batch.
LEMMA FecReceivedShape ==
    ASSUME Shape, NEW b \in 1 .. batch, NEW e \in [mask : SUBSET batches[b], parity : BOOLEAN],
           FecReceived(b, e), batches' = batches, batch' = batch
    PROVE  /\ DOMAIN inbound' \cup claimed' \subseteq 1 .. batch'
           /\ \A x \in DOMAIN inbound' : inbound'[x] \in [mask : SUBSET batches'[x], parity : BOOLEAN]
BY DEF Shape, FecReceived

LEMMA EntryShape ==
    ASSUME Shape, NEW b \in 1 .. batch
    PROVE  EntryOf(b) \in [mask : SUBSET batches[b], parity : BOOLEAN]
BY DEF Shape, EntryOf

LEMMA SendBatchShape ==
    ASSUME Parts, NEW chunks \in SUBSET Chunk, SendBatch(chunks)
    PROVE  Shape'
<1>1. batch \in Nat /\ batch' = batch + 1 /\ sent' = sent \cup chunks
  BY DEF Parts, Sender!IInv, Sender!TypeOK, SendBatch, Send!Tick
<1>2. /\ batches \in Seq(SUBSET Chunk) /\ Len(batches) = batch
      /\ batches' = Append(batches, chunks)
      /\ dataNet' = dataNet \cup {<<batch', c>> : c \in chunks \cup {Parity}}
      /\ UNCHANGED <<recvVars, controlNet, fecVars>>
  BY DEF Parts, Shape, SendBatch
<1>3. /\ batches' \in Seq(SUBSET Chunk) /\ Len(batches') = batch'
      /\ \A b \in 1 .. batch : batches'[b] = batches[b]
      /\ batches'[batch'] = chunks
  BY <1>1, <1>2
<1>4. Parity \notin Chunk
  BY TransferAssumption DEF Parity, Chunk
<1>5. /\ dataNet' \subseteq (1 .. batch') \X (Chunk \cup {Parity})
      /\ \A p \in dataNet' : p[2] \in Chunk => p[2] \in batches'[p[1]]
  <2> SUFFICES ASSUME NEW p \in dataNet'
               PROVE  /\ p \in (1 .. batch') \X (Chunk \cup {Parity})
                      /\ p[2] \in Chunk => p[2] \in batches'[p[1]]
    OBVIOUS
  <2>1. CASE p \in dataNet
    BY <1>1, <1>3, <2>1 DEF Parts, Shape
  <2>2. CASE p \notin dataNet
    <3>1. PICK c \in chunks \cup {Parity} : p = <<batch', c>>
      BY <1>2, <2>2
    <3> QED
      BY <1>1, <1>3, <1>4, <3>1
  <2> QED
    BY <2>1, <2>2
<1>6. \A b \in 1 .. batch' : b \in 1 .. batch \/ b = batch'
  BY <1>1
<1>7. \A b \in 1 .. batch' : batches'[b] \subseteq sent'
  BY <1>1, <1>3, <1>6 DEF Parts, Shape
<1>8. 1 .. batch \subseteq 1 .. batch'
  BY <1>1
<1>9. /\ found' \subseteq (1 .. batch') \X Chunk
      /\ \A p \in found' : p[2] \in batches'[p[1]]
  BY <1>2, <1>3, <1>8 DEF Parts, Shape, fecVars
<1>10. /\ DOMAIN mirror' \cup DOMAIN inbound' \cup claimed' \subseteq 1 .. batch'
       /\ \A b \in DOMAIN inbound' : inbound'[b] \in [mask : SUBSET batches'[b], parity : BOOLEAN]
  BY <1>2, <1>3, <1>8 DEF Parts, Shape, fecVars, recvVars
<1>11. /\ controlNet' \subseteq Send!Event /\ pending' \subseteq Chunk
       /\ partial' \in BOOLEAN /\ streaming' \in BOOLEAN /\ closed' \in BOOLEAN
  BY <1>2 DEF Parts, Shape, recvVars
<1> QED
  BY <1>3, <1>5, <1>7, <1>9, <1>10, <1>11 DEF Shape

\* No other step sends: what the batches are stays.
LEMMA ReceiveDataShape ==
    ASSUME Parts, NEW p \in dataNet, ReceiveData(p[1], p[2])
    PROVE  Shape'
<1> DEFINE b == p[1]
           c == p[2]
<1>1. /\ b \in 1 .. batch /\ c \in Chunk /\ c \in batches[b] /\ p = <<b, c>>
      /\ dataNet' = dataNet \ {p}
      /\ UNCHANGED <<sendVars, batches>>
  <2>1. b \in 1 .. batch /\ c \in Chunk \cup {Parity} /\ p = <<b, c>>
    BY DEF Parts, Shape
  <2>2. c \in Chunk /\ dataNet' = dataNet \ {p} /\ UNCHANGED <<sendVars, batches>>
    BY <2>1 DEF ReceiveData
  <2> QED
    BY <2>1, <2>2 DEF Parts, Shape
<1>2. CASE DropData(b, c)
  <2>1. UNCHANGED <<controlNet, inbound, claimed, found>>
    BY <1>2 DEF DropData, fecVars
  <2>2. /\ UNCHANGED <<pending, partial, streaming, closed>>
        /\ DOMAIN mirror' \subseteq 1 .. batch
    <3>1. CASE streaming
      BY <1>1, <1>2, <3>1, MirrorShape DEF DropData, Recv!RefuseData, Parts
    <3>2. CASE ~streaming
      BY <1>2, <3>2 DEF DropData, recvVars, Parts, Shape
    <3> QED
      BY <3>1, <3>2
  <2> QED
    BY <1>1, <2>1, <2>2 DEF Parts, Shape, sendVars
<1>3. ASSUME NEW stale, NEW old, NEW asked \in SUBSET Chunk, TakeData(b, c, stale, old, asked)
      PROVE  Shape'
  <2>1. DOMAIN Recv!MirrorAdd(mirror, b, SizeOf(b), BatchPos(b, c), c) \subseteq 1 .. batch
    BY <1>1, MirrorShape DEF Parts
  <2>2. pending' \subseteq Chunk /\ DOMAIN mirror' \subseteq 1 .. batch
    <3>1. /\ (Recv!Buf!HeadAtEnd(head') \/ BatchPos(b, c) + 1 = SizeOf(b)) \in BOOLEAN
          /\ pending \ {c} \in SUBSET Chunk
      BY DEF Parts, Shape, Recv!Buf!HeadAtEnd
    <3>2. Recv!Decide(Recv!Buf!HeadAtEnd(head') \/ BatchPos(b, c) + 1 = SizeOf(b), pending \ {c},
              Recv!MirrorAdd(mirror, b, SizeOf(b), BatchPos(b, c), c), stale, old, asked)
      BY <1>3 DEF TakeData, Recv!AcceptData
    <3> QED
      BY <2>1, <3>1, <3>2, DecideShape
  <2>3. partial' \in BOOLEAN /\ streaming' \in BOOLEAN /\ closed' \in BOOLEAN
    BY <1>3 DEF TakeData, Recv!AcceptData, Recv!IsDone, Recv!Buf!IsDone, Recv!Buf!HeadAtEnd, Parts, Shape
  <2>4. controlNet' \subseteq Send!Event
    BY <1>3, MessagesAreEvents DEF TakeData, Answer, Parts, Shape
  <2>5. /\ found' = found
        /\ DOMAIN inbound' \cup claimed' \subseteq 1 .. batch'
        /\ \A x \in DOMAIN inbound' : inbound'[x] \in [mask : SUBSET batches'[x], parity : BOOLEAN]
    <3>1. CASE Recv!IsDone
      BY <1>1, <1>3, <3>1 DEF TakeData, fecVars, Parts, Shape, sendVars
    <3>2. CASE ~Recv!IsDone
      <4> DEFINE e == [EntryOf(b) EXCEPT !.mask = @ \cup {c}]
      <4>1. e \in [mask : SUBSET batches[b], parity : BOOLEAN]
        BY <1>1, EntryShape DEF Parts
      <4>2. FecReceived(b, e) /\ found' = found /\ batches' = batches /\ batch' = batch
        BY <1>1, <1>3, <3>2 DEF TakeData, sendVars
      <4> QED
        BY <1>1, <4>1, <4>2, FecReceivedShape DEF Parts
    <3> QED
      BY <3>1, <3>2
  <2> QED
    BY <1>1, <2>2, <2>3, <2>4, <2>5 DEF Parts, Shape, sendVars
<1> QED
  BY <1>2, <1>3 DEF ReceiveData

LEMMA WriteRecoveredShape ==
    ASSUME Parts, NEW p \in found, WriteRecovered(p[1], p[2])
    PROVE  Shape'
<1> DEFINE b == p[1]
           c == p[2]
<1>1. /\ b \in 1 .. batch /\ c \in Chunk
      /\ found' \subseteq found
      /\ UNCHANGED <<sendVars, dataNet, batches, inbound, claimed>>
  BY DEF Parts, Shape, WriteRecovered
<1>2. DOMAIN Recv!Without(mirror, {b}) \subseteq 1 .. batch
  BY <1>1, MirrorShape DEF Parts
<1>3. CASE controlNet' = controlNet /\ IF streaming THEN Recv!RefuseRecovered(b, c) ELSE UNCHANGED recvVars
  <2>1. UNCHANGED <<pending, partial, streaming, closed>> /\ DOMAIN mirror' \subseteq 1 .. batch
    BY <1>2, <1>3 DEF Recv!RefuseRecovered, recvVars, Parts, Shape
  <2> QED
    BY <1>1, <1>3, <2>1 DEF Parts, Shape, sendVars
<1>4. ASSUME NEW stale, NEW old, NEW asked \in SUBSET Chunk,
             Recv!AcceptRecovered(b, c, stale, old, asked), Answer(asked)
      PROVE  Shape'
  <2>1. pending' \subseteq Chunk /\ DOMAIN mirror' \subseteq 1 .. batch
    <3>1. pending \ {c} \in SUBSET Chunk
      BY DEF Parts, Shape
    <3>2. Recv!Decide(TRUE, pending \ {c}, Recv!Without(mirror, {b}), stale, old, asked)
      BY <1>4 DEF Recv!AcceptRecovered
    <3> QED
      BY <1>2, <3>1, <3>2, DecideShape
  <2>2. partial' \in BOOLEAN /\ streaming' \in BOOLEAN /\ closed' \in BOOLEAN
    BY <1>4 DEF Recv!AcceptRecovered, Recv!IsDone, Recv!Buf!IsDone, Recv!Buf!HeadAtEnd, Parts, Shape
  <2>3. controlNet' \subseteq Send!Event
    BY <1>4, MessagesAreEvents DEF Answer, Parts, Shape
  <2> QED
    BY <1>1, <2>1, <2>2, <2>3 DEF Parts, Shape, sendVars
<1> QED
  BY <1>3, <1>4 DEF WriteRecovered

LEMMA ReceiveParityShape ==
    ASSUME Parts, NEW b, ReceiveParity(b)
    PROVE  Shape'
<1>1. /\ b \in 1 .. batch
      /\ dataNet' \subseteq dataNet
      /\ UNCHANGED <<sendVars, recvVars, controlNet, batches, found>>
  BY DEF Parts, Shape, ReceiveParity
<1> DEFINE e == [EntryOf(b) EXCEPT !.parity = TRUE]
<1>2. e \in [mask : SUBSET batches[b], parity : BOOLEAN]
  BY <1>1, EntryShape DEF Parts
<1>3. /\ DOMAIN inbound' \cup claimed' \subseteq 1 .. batch'
      /\ \A x \in DOMAIN inbound' : inbound'[x] \in [mask : SUBSET batches'[x], parity : BOOLEAN]
  BY <1>1, <1>2, FecReceivedShape DEF Parts, ReceiveParity, sendVars
<1> QED
  BY <1>1, <1>3 DEF Parts, Shape, sendVars, recvVars

LEMMA RecoverShape ==
    ASSUME Parts, NEW b, Recover(b)
    PROVE  Shape'
<1>1. /\ b \in 1 .. batch
      /\ claimed' \subseteq claimed
      /\ inbound' = [x \in DOMAIN inbound \ {b} |-> inbound[x]]
      /\ UNCHANGED <<sendVars, recvVars, dataNet, controlNet, batches>>
  BY DEF Parts, Shape, Recover
<1>2. batches[b] \subseteq Chunk
  BY <1>1 DEF Parts, Shape
<1>3. \A p \in found' : p \in found \/ \E c \in batches[b] : p = <<b, c>>
  BY DEF Recover
<1>4. /\ found' \subseteq (1 .. batch) \X Chunk
      /\ \A p \in found' : p[2] \in batches[p[1]]
  BY <1>1, <1>2, <1>3 DEF Parts, Shape
<1> QED
  BY <1>1, <1>4 DEF Parts, Shape, sendVars, recvVars

LEMMA PruneShape ==
    ASSUME Parts, NEW b, Prune(b)
    PROVE  Shape'
<1>1. /\ inbound' = [x \in DOMAIN inbound \ {b} |-> inbound[x]]
      /\ UNCHANGED <<sendVars, dataNet, batches, claimed, found>>
  BY DEF Prune
<1>2. /\ pending' \subseteq Chunk
      /\ controlNet' \subseteq Send!Event
      /\ UNCHANGED <<mirror, partial, streaming, closed>>
  <2>1. CASE streaming
    BY <2>1, MessagesAreEvents DEF Prune, Recv!AskForPruned, Parts, Shape
  <2>2. CASE ~streaming
    BY <2>2 DEF Prune, recvVars, Parts, Shape
  <2> QED
    BY <2>1, <2>2
<1> QED
  BY <1>1, <1>2 DEF Parts, Shape, sendVars

\* Every step keeps it.
LEMMA ShapeStep ==
    ASSUME Parts, Next
    PROVE  Shape'
<1>1. CASE SenderStep
  <2>1. CASE HandleEvent
    <3>1. UNCHANGED <<sent, batch>>
      BY <2>1 DEF HandleEvent, Send!Handle, Send!HandleSeek, Send!HandleRetransmit,
             Send!HandlePause, Send!HandlePlay, Send!HandleClose
    <3> QED
      BY <2>1, <3>1 DEF HandleEvent, Parts, Shape, recvVars, fecVars
  <2> QED
    BY <1>1, <2>1, SendBatchShape DEF SenderStep
<1>2. CASE ReceiverStep
  BY <1>2, ReceiveDataShape, ReceiveParityShape, RecoverShape, WriteRecoveredShape DEF ReceiverStep
<1>3. ASSUME NEW m \in controlNet, DeliverControl(m) PROVE Shape'
  <2>1. UNCHANGED <<sent, batch>>
    BY <1>3 DEF DeliverControl, Send!Post, sendVars
  <2>2. controlNet' \subseteq controlNet
    BY <1>3 DEF DeliverControl
  <2> QED
    BY <1>3, <2>1, <2>2 DEF DeliverControl, Parts, Shape, recvVars, fecVars
<1>4. ASSUME NEW m \in controlNet, LoseControl(m) PROVE Shape'
  BY <1>4 DEF LoseControl, Parts, Shape, sendVars, recvVars, fecVars
<1>5. ASSUME NEW p \in dataNet, LoseData(p) PROVE Shape'
  BY <1>5 DEF LoseData, Parts, Shape, sendVars, recvVars, fecVars
<1>6. ASSUME NEW b \in 1 .. MaxBatch, Prune(b) PROVE Shape'
  BY <1>6, PruneShape
<1>7. ASSUME NEW i \in Chunk, NEW inside \in BOOLEAN, AppSeek(i, inside) PROVE Shape'
  <2>1. Recv!Buf!InRange(i, inside)
    BY <1>7 DEF AppSeek, Recv!Seek, Recv!Buf!SeekHead
  <2> QED
    BY <1>7, <2>1, MessagesAreEvents DEF AppSeek, Recv!Seek, Parts, Shape, sendVars, fecVars
<1>8. CASE AppAcceptHoles
  BY <1>8 DEF AppAcceptHoles, Recv!AllowPartial, Parts, Shape, sendVars, fecVars
<1> QED
  BY <1>1, <1>2, <1>3, <1>4, <1>5, <1>6, <1>7, <1>8 DEF Next

LEMMA InitParts == Init => Parts
<1> SUFFICES ASSUME Init PROVE Parts
  OBVIOUS
<1>1. Sender!IInv
  <2>1. Sender!Init
    BY DEF Init, Sender!Init, Send!Init, Sender!Control, Send!Control
  <2> QED
    BY <2>1, TransferAssumption, Sender!InitIInv
<1>2. Buffer!IInv
  <2>1. Buffer!Init
    BY SameBuffer DEF Init, Buffer!Init, Recv!Init, Recv!Buf!Init
  <2> QED
    BY <2>1, TransferAssumption, Buffer!InitIInv
<1>3. Shape
  <2>1. batches = << >> /\ batch = 0 /\ dataNet = {} /\ controlNet = {} /\ found = {} /\ claimed = {}
    BY DEF Init, Send!Init
  <2>2. pending = {} /\ partial = FALSE /\ streaming = TRUE /\ closed = FALSE
    BY DEF Init, Recv!Init
  <2>3. DOMAIN mirror = {} /\ DOMAIN inbound = {}
    BY DEF Init, Recv!Init
  <2>4. batches \in Seq(SUBSET Chunk) /\ Len(batches) = batch /\ 1 .. batch = {}
    BY <2>1
  <2> QED
    BY <2>1, <2>2, <2>3, <2>4 DEF Shape
<1> QED
  BY <1>1, <1>2, <1>3 DEF Parts

LEMMA PartsStep == Parts /\ [Next /\ UNCHANGED disturbance]_<<vars, disturbance>> => Parts'
<1> SUFFICES ASSUME Parts, [Next /\ UNCHANGED disturbance]_<<vars, disturbance>> PROVE Parts'
  OBVIOUS
<1>1. CASE Next
  BY <1>1, StepMoves, SenderKeeps, BufferKeeps, ShapeStep DEF Parts
<1>2. CASE UNCHANGED vars
  <2>1. SenderMoves /\ BufferMoves
    BY <1>2 DEF vars, recvVars, SenderMoves, BufferMoves
  <2>2. Shape'
    BY <1>2 DEF vars, sendVars, recvVars, fecVars, Parts, Shape
  <2> QED
    BY <2>1, <2>2, SenderKeeps, BufferKeeps DEF Parts
<1> QED
  BY <1>1, <1>2

LEMMA PartsHold == Spec => []Parts
BY InitParts, PartsStep, PTL DEF Spec

\* What the parts' invariants say in the words of Transfer.
LEMMA PartsType == Parts => TypeOK
<1> SUFFICES ASSUME Parts PROVE TypeOK
  OBVIOUS
<1>1. Send!TypeOK
  BY DEF Parts, Sender!IInv, Sender!TypeOK, Send!TypeOK, Sender!EndPos, Send!EndPos,
         Sender!Chunk, Send!Chunk, Sender!Event, Send!Event, Sender!Seeks, Send!Seeks,
         Sender!Retransmits, Send!Retransmits, Sender!Controls, Send!Controls,
         Sender!Retransmit, Send!Retransmit, Sender!Control, Send!Control
<1>2. Recv!Buf!TypeOK
  BY SameBuffer DEF Parts, Buffer!IInv, Buffer!TypeOK, Recv!Buf!TypeOK, Buffer!Area, Recv!Buf!Area
<1>3. \A p \in dataNet \cup found : p[1] \in 1 .. batch
  BY DEF Parts, Shape
<1> QED
  BY <1>1, <1>2, <1>3 DEF TypeOK, Parts, Shape

\* The parts keep their types side by side, and every batch id on the network,
\* in the FEC module and in the session's mirror is one the sender gave out.
THEOREM TypeCorrect == Spec => []TypeOK
BY PartsHold, PartsType, PTL

-----------------------------------------------------------------------------
(* What the receiver asks for is missing.                                   *)

\* The retransmission policy is the one WriteableBufferProofs speaks of.
LEMMA SamePolicy ==
    \A s, h : Buffer!RequestableChunks(s, h) = Recv!Buf!RequestableChunks(s, h)
<1>1. \A a, h : Buffer!Urgency(a, h) = Recv!Buf!Urgency(a, h)
  BY DEF Buffer!Urgency, Recv!Buf!Urgency, Buffer!HeadChunk, Recv!Buf!HeadChunk,
         Buffer!InArea, Recv!Buf!InArea,
         Buffer!UrgencyDecayChunks, Recv!Buf!UrgencyDecayChunks,
         Buffer!BeforeHeadSizeDenom, Recv!Buf!BeforeHeadSizeDenom
<1>2. \A s, k : Buffer!ConfidenceLost(s, k) = Recv!Buf!ConfidenceLost(s, k)
  BY DEF Buffer!ConfidenceLost, Recv!Buf!ConfidenceLost, Buffer!ValidPast, Recv!Buf!ValidPast,
         Buffer!ConfidenceHalfSatChunks, Recv!Buf!ConfidenceHalfSatChunks,
         Buffer!MapThenSumSet, Recv!Buf!MapThenSumSet,
         Buffer!MapThenFoldSet, Recv!Buf!MapThenFoldSet
<1>3. \A s, k, h : Buffer!Score(s, k, h) = Recv!Buf!Score(s, k, h)
  BY <1>1, <1>2 DEF Buffer!Score, Recv!Buf!Score
<1>4. \A s, h, j, k : Buffer!Outranks(s, h, j, k) <=> Recv!Buf!Outranks(s, h, j, k)
  BY <1>3 DEF Buffer!Outranks, Recv!Buf!Outranks
<1>5. ASSUME NEW s, NEW h
      PROVE  Buffer!RequestableChunks(s, h) = Recv!Buf!RequestableChunks(s, h)
  <2>1. PICK over : over = {k \in DOMAIN s : Buffer!OverThreshold(Buffer!Score(s, k, h))}
    OBVIOUS
  <2>2. over = {k \in DOMAIN s : Recv!Buf!OverThreshold(Recv!Buf!Score(s, k, h))}
    BY <1>3, <2>1 DEF Buffer!OverThreshold, Recv!Buf!OverThreshold
  <2>3. \A k : {j \in over : Buffer!Outranks(s, h, j, k)} = {j \in over : Recv!Buf!Outranks(s, h, j, k)}
    BY <1>4
  <2>4. PICK asked : asked = {k \in over :
            Cardinality({j \in over : Buffer!Outranks(s, h, j, k)}) < Buffer!MaxRequestsPerTick}
    OBVIOUS
  <2>5. asked = {k \in over :
            Cardinality({j \in over : Recv!Buf!Outranks(s, h, j, k)}) < Recv!Buf!MaxRequestsPerTick}
    BY <2>3, <2>4 DEF Buffer!MaxRequestsPerTick, Recv!Buf!MaxRequestsPerTick
  <2>6. Buffer!RequestableChunks(s, h)
            = {i \in Buffer!Chunk : \E k \in asked : Buffer!InArea(s[k], i)}
    BY <2>1, <2>4 DEF Buffer!RequestableChunks, Buffer!Cardinality, Cardinality
  <2>7. Recv!Buf!RequestableChunks(s, h)
            = {i \in Recv!Buf!Chunk : \E k \in asked : Recv!Buf!InArea(s[k], i)}
    BY <2>2, <2>5 DEF Recv!Buf!RequestableChunks, Recv!Buf!Cardinality, Cardinality
  <2> QED
    BY <2>6, <2>7 DEF Buffer!Chunk, Recv!Buf!Chunk, Buffer!InArea, Recv!Buf!InArea
<1> QED
  BY <1>5

\* The candidates of a request are missing chunks, before the end and after.
LEMMA CandidatesAreMissing ==
    ASSUME Buffer!IInv', NEW mir, NEW c \in Recv!Candidates(mir)
    PROVE  c \in Chunk /\ ~map'[c]
<1>1. /\ map' \in [Chunk -> BOOLEAN]
      /\ \A i \in Chunk : ~map'[i] <=> Recv!Buf!Covered(areas', i)
  BY SameBuffer DEF Buffer!IInv, Buffer!TypeOK, Buffer!AreasMirrorMap, Buffer!Covered,
     Recv!Buf!Covered, Buffer!InArea, Recv!Buf!InArea
<1>2. c \in Chunk /\ Recv!Buf!Covered(areas', c)
  BY SameBuffer DEF Recv!Candidates, Recv!Buf!AllInvalidChunks, Recv!Buf!RequestableChunks,
     Recv!Buf!Covered
<1> QED
  BY <1>1, <1>2

\* The shared tail of the handlers: only missing chunks are marked.
LEMMA DecideMissing ==
    ASSUME Buffer!IInv', NEW decides, NEW before \in SUBSET Chunk, NEW mir, NEW stale, NEW old,
           NEW asked, Recv!Decide(decides, before, mir, stale, old, asked),
           \A c \in before : ~map'[c]
    PROVE  \A c \in pending' : ~map'[c]
<1>1. \A c \in asked : ~map'[c]
  BY CandidatesAreMissing DEF Recv!Decide, Recv!Reserve
<1> QED
  BY <1>1 DEF Recv!Decide

\* A write leaves every other chunk as it was.
LEMMA WriteOne ==
    ASSUME Buffer!IInv, NEW c, NEW size, Recv!Buf!Write(c, size)
    PROVE  \A d \in Chunk : map'[d] <=> (map[d] \/ d = c)
BY SameBuffer DEF Buffer!IInv, Buffer!TypeOK, Recv!Buf!Write

LEMMA MissingStep ==
    ASSUME Parts, Buffer!IInv', PendingIsMissing, Next
    PROVE  PendingIsMissing'
<1> USE DEF PendingIsMissing
<1>1. CASE UNCHANGED <<map, pending>>
  BY <1>1
<1>2. SenderStep => UNCHANGED <<map, pending>>
  BY DEF SenderStep, HandleEvent, SendBatch, recvVars
<1>3. ASSUME NEW p \in dataNet, ReceiveData(p[1], p[2]) PROVE PendingIsMissing'
  <2> DEFINE b == p[1]
             c == p[2]
  <2>1. CASE DropData(b, c)
    BY <1>1, <2>1 DEF DropData, recvVars, Recv!RefuseData, Recv!bufVars
  <2>2. ASSUME NEW stale, NEW old, NEW asked, TakeData(b, c, stale, old, asked)
        PROVE  PendingIsMissing'
    <3>1. Recv!AcceptData(b, SizeOf(b), BatchPos(b, c), c, stale, old, asked)
      BY <2>2 DEF TakeData
    <3>2. /\ pending \ {c} \in SUBSET Chunk
          /\ \A d \in pending \ {c} : ~map'[d]
      BY <3>1, WriteOne DEF Recv!AcceptData, Parts, Shape
    <3> QED
      BY <3>1, <3>2, DecideMissing DEF Recv!AcceptData
  <2> QED
    BY <1>3, <2>1, <2>2 DEF ReceiveData
<1>4. ASSUME NEW b, ReceiveParity(b) \/ Recover(b) PROVE UNCHANGED <<map, pending>>
  BY <1>4 DEF ReceiveParity, Recover, recvVars
<1>5. ASSUME NEW p \in found, WriteRecovered(p[1], p[2]) PROVE PendingIsMissing'
  <2> DEFINE b == p[1]
             c == p[2]
  <2>1. CASE IF streaming THEN Recv!RefuseRecovered(b, c) ELSE UNCHANGED recvVars
    BY <1>1, <2>1 DEF recvVars, Recv!RefuseRecovered, Recv!bufVars
  <2>2. ASSUME NEW stale, NEW old, NEW asked, Recv!AcceptRecovered(b, c, stale, old, asked)
        PROVE  PendingIsMissing'
    <3>1. /\ pending \ {c} \in SUBSET Chunk
          /\ \A d \in pending \ {c} : ~map'[d]
      BY <2>2, WriteOne DEF Recv!AcceptRecovered, Parts, Shape
    <3> QED
      BY <2>2, <3>1, DecideMissing DEF Recv!AcceptRecovered
  <2> QED
    BY <1>5, <2>1, <2>2 DEF WriteRecovered
<1>6. ASSUME NEW m, DeliverControl(m) \/ LoseControl(m) PROVE UNCHANGED <<map, pending>>
  BY <1>6 DEF DeliverControl, LoseControl, recvVars
<1>7. ASSUME NEW p, LoseData(p) PROVE UNCHANGED <<map, pending>>
  BY <1>7 DEF LoseData, recvVars
<1>8. ASSUME NEW b, Prune(b) PROVE PendingIsMissing'
  <2>1. CASE streaming
    BY <1>8, <2>1 DEF Prune, Recv!AskForPruned, Recv!Reserve, Recv!Missing, Recv!bufVars
  <2>2. CASE ~streaming
    BY <1>1, <1>8, <2>2 DEF Prune, recvVars
  <2> QED
    BY <2>1, <2>2
<1>9. ASSUME NEW i, NEW inside, AppSeek(i, inside) PROVE UNCHANGED <<map, pending>>
  BY <1>9 DEF AppSeek, Recv!Seek, Recv!Buf!SeekHead
<1>10. AppAcceptHoles => UNCHANGED <<map, pending>>
  BY DEF AppAcceptHoles, Recv!AllowPartial, Recv!bufVars
<1> QED
  BY <1>1, <1>2, <1>3, <1>4, <1>5, <1>6, <1>7, <1>8, <1>9, <1>10 DEF Next, ReceiverStep

\* A chunk that arrives, by data or by recovery, is never left marked as asked
\* for: a request names missing chunks only, and a write takes its marker.
THEOREM NothingThereIsPending == Spec => []PendingIsMissing
<1>1. Init => PendingIsMissing
  BY DEF Init, Recv!Init, PendingIsMissing
<1>2. Parts /\ Parts' /\ PendingIsMissing /\ [Next /\ UNCHANGED disturbance]_<<vars, disturbance>>
      => PendingIsMissing'
  <2> SUFFICES ASSUME Parts, Parts', PendingIsMissing,
                      [Next /\ UNCHANGED disturbance]_<<vars, disturbance>>
               PROVE  PendingIsMissing'
    OBVIOUS
  <2>1. CASE Next
    BY <2>1, MissingStep DEF Parts
  <2>2. CASE UNCHANGED vars
    BY <2>2 DEF vars, recvVars, PendingIsMissing
  <2> QED
    BY <2>1, <2>2
<1> QED
  BY PartsHold, <1>1, <1>2, PTL DEF Spec

-----------------------------------------------------------------------------
(* What was sent is somewhere.                                              *)

\* A chunk that was sent has arrived, is on its way, is about to be written, or
\* a packet of it was lost.
Somewhere(c) == map[c] \/ \E p \in dataNet \cup found \cup lostData : p[2] = c
SentIsSomewhere == streaming => \A c \in sent : Somewhere(c)

\* A chunk that has arrived stays.
LEMMA MapGrows ==
    ASSUME Buffer!IInv, BufferMoves
    PROVE  \A c \in Chunk : map[c] => map'[c]
BY WriteOne DEF BufferMoves, Recv!Buf!SeekHead

\* Nothing new is sent and no packet goes without its chunk having arrived.
LEMMA SomewhereStays ==
    ASSUME Parts, BufferMoves, sent' = sent, SentIsSomewhere, streaming' => streaming,
           \A p \in dataNet \cup found \cup lostData :
               \/ p \in dataNet' \cup found' \cup lostData'
               \/ p[2] = Parity
               \/ streaming => map'[p[2]]
    PROVE  SentIsSomewhere'
<1> SUFFICES ASSUME streaming', NEW c \in sent PROVE Somewhere(c)'
  BY DEF SentIsSomewhere
<1>1. c \in Chunk /\ c # Parity
  BY TransferAssumption DEF Parts, Sender!IInv, Sender!TypeOK, Sender!Chunk, Chunk, Parity
<1>2. CASE map[c]
  BY <1>1, <1>2, MapGrows DEF Parts, Somewhere
<1>3. ASSUME NEW p \in dataNet \cup found \cup lostData, p[2] = c PROVE Somewhere(c)'
  BY <1>1, <1>3 DEF Somewhere
<1> QED
  BY <1>2, <1>3 DEF SentIsSomewhere, Somewhere

LEMMA SomewhereStep ==
    ASSUME Parts, SentIsSomewhere, Next
    PROVE  SentIsSomewhere'
<1>0. BufferMoves
  BY StepMoves DEF Parts
<1>1. ASSUME NEW chunks \in SUBSET Chunk, SendBatch(chunks) PROVE SentIsSomewhere'
  <2>1. /\ sent' = sent \cup chunks
        /\ UNCHANGED <<map, streaming, found, lostData>>
        /\ dataNet' = dataNet \cup {<<batch', c>> : c \in chunks \cup {Parity}}
    BY <1>1 DEF SendBatch, Send!Tick, recvVars, fecVars, boundVars
  <2>2. ASSUME NEW c \in chunks PROVE Somewhere(c)'
    <3>1. <<batch', c>> \in dataNet'
      BY <2>1
    <3> QED
      BY <3>1 DEF Somewhere
  <2>3. ASSUME streaming, NEW c \in sent PROVE Somewhere(c)'
    BY <2>1, <2>3 DEF SentIsSomewhere, Somewhere
  <2> QED
    BY <2>1, <2>2, <2>3 DEF SentIsSomewhere
<1>2. HandleEvent => SentIsSomewhere'
  <2> SUFFICES ASSUME HandleEvent PROVE SentIsSomewhere'
    OBVIOUS
  <2>1. sent' = sent /\ UNCHANGED <<streaming, dataNet, found, lostData>>
    BY DEF HandleEvent, Send!Handle, Send!HandleSeek, Send!HandleRetransmit, Send!HandlePause,
           Send!HandlePlay, Send!HandleClose, recvVars, fecVars, boundVars
  <2> QED
    BY <1>0, <2>1, SomewhereStays
<1>3. ASSUME NEW p \in dataNet, ReceiveData(p[1], p[2]) PROVE SentIsSomewhere'
  <2> DEFINE b == p[1]
             c == p[2]
  <2>1. /\ p = <<b, c>> /\ c \in Chunk
        /\ dataNet' = dataNet \ {p} /\ lostData' = lostData
        /\ sent' = sent
    BY <1>3 DEF Parts, Shape, ReceiveData, sendVars, boundVars
  <2>2. CASE DropData(b, c)
    <3>1. found' = found /\ streaming' = streaming /\ (streaming => map'[c])
      BY <2>2 DEF DropData, fecVars, recvVars, Recv!RefuseData, Recv!bufVars
    <3> QED
      BY <1>0, <2>1, <3>1, SomewhereStays
  <2>3. ASSUME NEW stale, NEW old, NEW asked, TakeData(b, c, stale, old, asked)
        PROVE  SentIsSomewhere'
    <3>1. streaming /\ map'[c]
      BY <2>1, <2>3, WriteOne DEF TakeData, Recv!AcceptData, Parts
    <3>2. found' = found
      BY <2>3 DEF TakeData, fecVars
    <3> QED
      BY <1>0, <2>1, <3>1, <3>2, SomewhereStays
  <2> QED
    BY <1>3, <2>2, <2>3 DEF ReceiveData
<1>4. ASSUME NEW b, ReceiveParity(b) PROVE SentIsSomewhere'
  <2>1. /\ dataNet' = dataNet \ {<<b, Parity>>}
        /\ UNCHANGED <<sent, streaming, found, lostData>>
    BY <1>4 DEF ReceiveParity, sendVars, recvVars, boundVars
  <2> QED
    BY <1>0, <2>1, SomewhereStays
<1>5. ASSUME NEW b, Recover(b) PROVE SentIsSomewhere'
  <2>1. found \subseteq found' /\ UNCHANGED <<sent, streaming, dataNet, lostData>>
    BY <1>5 DEF Recover, sendVars, recvVars, boundVars
  <2> QED
    BY <1>0, <2>1, SomewhereStays
<1>6. ASSUME NEW p \in found, WriteRecovered(p[1], p[2]) PROVE SentIsSomewhere'
  <2> DEFINE b == p[1]
             c == p[2]
  <2>1. /\ p = <<b, c>> /\ c \in Chunk
        /\ found' = found \ {p}
        /\ UNCHANGED <<sent, dataNet, lostData>>
    BY <1>6 DEF Parts, Shape, WriteRecovered, sendVars, boundVars
  <2>2. (streaming' => streaming) /\ (streaming => map'[c])
    <3>1. CASE IF streaming THEN Recv!RefuseRecovered(b, c) ELSE UNCHANGED recvVars
      BY <3>1 DEF recvVars, Recv!RefuseRecovered, Recv!bufVars
    <3>2. ASSUME NEW stale, NEW old, NEW asked, Recv!AcceptRecovered(b, c, stale, old, asked)
          PROVE  streaming /\ map'[c]
      BY <2>1, <3>2, WriteOne DEF Recv!AcceptRecovered, Parts
    <3> QED
      BY <1>6, <3>1, <3>2 DEF WriteRecovered
  <2> QED
    BY <1>0, <2>1, <2>2, SomewhereStays
<1>7. ASSUME NEW m, DeliverControl(m) \/ LoseControl(m) PROVE SentIsSomewhere'
  <2>1. sent' = sent /\ UNCHANGED <<streaming, dataNet, found, lostData>>
    BY <1>7 DEF DeliverControl, LoseControl, Send!Post, sendVars, recvVars, fecVars
  <2> QED
    BY <1>0, <2>1, SomewhereStays
<1>8. ASSUME NEW p, LoseData(p) PROVE SentIsSomewhere'
  <2>1. /\ dataNet \cup lostData \subseteq dataNet' \cup lostData'
        /\ UNCHANGED <<sent, streaming, found>>
    BY <1>8 DEF LoseData, sendVars, recvVars, fecVars
  <2> QED
    BY <1>0, <2>1, SomewhereStays
<1>9. ASSUME NEW b, Prune(b) PROVE SentIsSomewhere'
  <2>1. UNCHANGED <<sent, streaming, dataNet, found, lostData>>
    BY <1>9 DEF Prune, Recv!AskForPruned, sendVars, recvVars
  <2> QED
    BY <1>0, <2>1, SomewhereStays
<1>10. ASSUME NEW i, NEW inside, AppSeek(i, inside) PROVE SentIsSomewhere'
  <2>1. UNCHANGED <<sent, streaming, dataNet, found, lostData>>
    BY <1>10 DEF AppSeek, Recv!Seek, sendVars, fecVars
  <2> QED
    BY <1>0, <2>1, SomewhereStays
<1>11. AppAcceptHoles => SentIsSomewhere'
  <2> SUFFICES ASSUME AppAcceptHoles PROVE SentIsSomewhere'
    OBVIOUS
  <2>1. UNCHANGED <<sent, streaming, dataNet, found, lostData>>
    BY DEF AppAcceptHoles, Recv!AllowPartial, sendVars, fecVars, boundVars
  <2> QED
    BY <1>0, <2>1, SomewhereStays
<1> QED
  BY <1>1, <1>2, <1>3, <1>4, <1>5, <1>6, <1>7, <1>8, <1>9, <1>10, <1>11
     DEF Next, SenderStep, ReceiverStep

\* Nothing gets lost between the ends: a missing chunk is ahead of the sender,
\* queued by it, on its way, recovered, or a packet of it was lost.
THEOREM NothingDisappears == Spec => []MissingIsAccountedFor
<1>1. Init => SentIsSomewhere
  BY DEF Init, Send!Init, SentIsSomewhere
<1>2. Parts /\ SentIsSomewhere /\ [Next /\ UNCHANGED disturbance]_<<vars, disturbance>>
      => SentIsSomewhere'
  <2> SUFFICES ASSUME Parts, SentIsSomewhere,
                      [Next /\ UNCHANGED disturbance]_<<vars, disturbance>>
               PROVE  SentIsSomewhere'
    OBVIOUS
  <2>1. CASE UNCHANGED vars
    BY <2>1 DEF vars, sendVars, recvVars, fecVars, boundVars, SentIsSomewhere, Somewhere
  <2> QED
    BY <2>1, SomewhereStep
<1>3. Parts /\ SentIsSomewhere => MissingIsAccountedFor
  <2> SUFFICES ASSUME Parts, SentIsSomewhere, streaming, NEW c \in Chunk, ~(c >= position)
               PROVE  c \in extras \/ Somewhere(c)
    BY DEF MissingIsAccountedFor, Somewhere
  <2>1. c < position
    BY TransferAssumption
       DEF Parts, Sender!IInv, Sender!TypeOK, Sender!EndPos, Chunk
  <2>2. c \in sent \cup extras
    BY <2>1 DEF Parts, Sender!IInv, Sender!SkippedTracked, Sender!Chunk, Chunk
  <2> QED
    BY <2>2 DEF SentIsSomewhere
<1> QED
  BY PartsHold, <1>1, <1>2, <1>3, PTL DEF Spec

-----------------------------------------------------------------------------
(* How a stream ends.                                                       *)

\* The receiver may be done: every chunk is there, or the head is at the end
\* and holes are accepted.
Finishable == \A c \in Chunk : map[c] \/ (partial /\ Recv!Buf!HeadAtEnd(head))

\* Done goes out, and reaches the sender, only from a receiver that was done;
\* the receiver never sends Close.
DoneComesFromReceiver ==
    /\ \A m \in controlNet : m.type # "close" /\ (m.type = "done" => closed)
    /\ event.type \in {"done", "close"} => closed
    /\ ~open => closed
EndInv == DoneComesFromReceiver /\ (closed => Finishable)

\* What is finishable stays so: chunks stay, the head stays at the end.
LEMMA FinishableStays ==
    ASSUME Parts, Parts', BufferMoves, partial => partial', Finishable
    PROVE  Finishable'
<1>1. Recv!Buf!HeadAtEnd(head) => Recv!Buf!HeadAtEnd(head')
  <2>1. head' >= head
    BY BufferKeeps DEF Parts
  <2>2. head \in 0 .. Recv!Buf!EndHead /\ head' \in 0 .. Recv!Buf!EndHead /\ Recv!Buf!EndHead \in Int
    BY SameBuffer, TransferAssumption
       DEF Parts, Buffer!IInv, Buffer!TypeOK, Recv!Buf!EndHead, Buffer!EndHead
  <2> QED
    BY <2>1, <2>2 DEF Recv!Buf!HeadAtEnd
<1> QED
  BY <1>1, MapGrows DEF Parts, Finishable

\* The handler of a chunk announces the end, and sends Done, only when done.
LEMMA HandlerEnds ==
    ASSUME EndInv, UNCHANGED <<event, open, partial>>, NEW asked, Answer(asked),
           closed' = (closed \/ Recv!IsDone), closed /\ Finishable => Finishable'
    PROVE  EndInv'
<1>1. Recv!IsDone => Finishable'
  BY SameBuffer DEF Recv!IsDone, Recv!Buf!IsDone, Finishable
<1>2. closed => closed'
  OBVIOUS
<1>3. \A m \in controlNet' : m.type # "close" /\ (m.type = "done" => closed')
  <2> SUFFICES ASSUME NEW m \in controlNet', m \notin controlNet
               PROVE  m.type # "close" /\ (m.type = "done" => closed')
    BY <1>2 DEF EndInv, DoneComesFromReceiver
  <2>1. CASE Recv!IsDone
    <3>1. m.type = "done"
      BY <2>1 DEF Answer, DoneMessage, Send!Control
    <3> QED
      BY <2>1, <3>1
  <2>2. CASE ~Recv!IsDone
    <3>1. m.type = "retransmit"
      BY <2>2 DEF Answer, Request, Send!Retransmit
    <3> QED
      BY <3>1
  <2> QED
    BY <2>1, <2>2
<1> QED
  BY <1>1, <1>2, <1>3 DEF EndInv, DoneComesFromReceiver

LEMMA EndStep ==
    ASSUME Parts, Parts', EndInv, Next
    PROVE  EndInv'
<1>0. BufferMoves
  BY StepMoves DEF Parts
<1>1. (partial => partial') /\ Finishable => Finishable'
  BY <1>0, FinishableStays
<1>2. ASSUME UNCHANGED <<event, open>>, closed' = closed, partial => partial',
             \A m \in controlNet' : m \in controlNet \/ m.type \notin {"close", "done"}
      PROVE  EndInv'
  BY <1>1, <1>2 DEF EndInv, DoneComesFromReceiver
<1>3. ASSUME NEW chunks, SendBatch(chunks) PROVE EndInv'
  <2>1. UNCHANGED <<event, open, closed, partial, controlNet>>
    BY <1>3 DEF SendBatch, Send!Tick, recvVars
  <2> QED
    BY <1>2, <2>1
<1>4. CASE HandleEvent
  <2>1. UNCHANGED <<closed, partial, controlNet>>
    BY <1>4 DEF HandleEvent, recvVars
  <2>2. (event'.type \in {"done", "close"} => closed) /\ (~open' => closed)
    <3>1. CASE UNCHANGED <<event, open>>
      BY <3>1 DEF EndInv, DoneComesFromReceiver
    <3>2. CASE Send!HandleRetransmit
      <4>1. event'.type = "retransmit" /\ open' = open
        BY <3>2 DEF Send!HandleRetransmit, Send!Retransmit
      <4> QED
        BY <4>1 DEF EndInv, DoneComesFromReceiver
    <3>3. CASE Send!HandleClose
      <4>1. closed
        BY <3>3 DEF Send!HandleClose, EndInv, DoneComesFromReceiver
      <4> QED
        BY <4>1
    <3> QED
      BY <1>4, <3>1, <3>2, <3>3 DEF HandleEvent, Send!Handle, Send!HandleSeek, Send!HandlePause,
         Send!HandlePlay, Send!Listen
  <2> QED
    BY <1>1, <2>1, <2>2 DEF EndInv, DoneComesFromReceiver
<1>5. ASSUME NEW p \in dataNet, ReceiveData(p[1], p[2]) PROVE EndInv'
  <2>1. UNCHANGED <<event, open>>
    BY <1>5 DEF ReceiveData, sendVars
  <2>2. CASE DropData(p[1], p[2])
    <3>1. UNCHANGED <<closed, partial, controlNet>>
      BY <2>2 DEF DropData, recvVars, Recv!RefuseData
    <3> QED
      BY <1>2, <2>1, <3>1
  <2>3. ASSUME NEW stale, NEW old, NEW asked, TakeData(p[1], p[2], stale, old, asked)
        PROVE  EndInv'
    <3>1. Answer(asked) /\ partial' = partial /\ closed' = (closed \/ Recv!IsDone)
      BY <2>3 DEF TakeData, Recv!AcceptData
    <3> QED
      BY <1>1, <2>1, <3>1, HandlerEnds
  <2> QED
    BY <1>5, <2>2, <2>3 DEF ReceiveData
<1>6. ASSUME NEW b, ReceiveParity(b) \/ Recover(b) PROVE EndInv'
  <2>1. UNCHANGED <<event, open, closed, partial, controlNet>>
    BY <1>6 DEF ReceiveParity, Recover, sendVars, recvVars
  <2> QED
    BY <1>2, <2>1
<1>7. ASSUME NEW p \in found, WriteRecovered(p[1], p[2]) PROVE EndInv'
  <2>1. UNCHANGED <<event, open>>
    BY <1>7 DEF WriteRecovered, sendVars
  <2>2. ASSUME controlNet' = controlNet,
               IF streaming THEN Recv!RefuseRecovered(p[1], p[2]) ELSE UNCHANGED recvVars
        PROVE  EndInv'
    <3>1. UNCHANGED <<closed, partial>>
      BY <2>2 DEF recvVars, Recv!RefuseRecovered
    <3> QED
      BY <1>2, <2>1, <2>2, <3>1
  <2>3. ASSUME NEW stale, NEW old, NEW asked, Answer(asked),
               Recv!AcceptRecovered(p[1], p[2], stale, old, asked)
        PROVE  EndInv'
    <3>1. partial' = partial /\ closed' = (closed \/ Recv!IsDone)
      BY <2>3 DEF Recv!AcceptRecovered
    <3> QED
      BY <1>1, <2>1, <2>3, <3>1, HandlerEnds
  <2> QED
    BY <1>7, <2>2, <2>3 DEF WriteRecovered
<1>8. ASSUME NEW m \in controlNet, DeliverControl(m) PROVE EndInv'
  <2>1. UNCHANGED <<closed, partial>> /\ controlNet' \subseteq controlNet
    BY <1>8 DEF DeliverControl, recvVars
  <2>2. CASE open
    <3>1. event' = m /\ open' = open
      BY <1>8, <2>2 DEF DeliverControl, Send!Post
    <3> QED
      BY <1>1, <2>1, <3>1 DEF EndInv, DoneComesFromReceiver
  <2>3. CASE ~open
    <3>1. UNCHANGED <<event, open>>
      BY <1>8, <2>3 DEF DeliverControl, sendVars
    <3> QED
      BY <1>2, <2>1, <3>1
  <2> QED
    BY <2>2, <2>3
<1>9. ASSUME NEW m, LoseControl(m) \/ LoseData(m) PROVE EndInv'
  <2>1. UNCHANGED <<event, open, closed, partial>> /\ controlNet' \subseteq controlNet
    BY <1>9 DEF LoseControl, LoseData, sendVars, recvVars
  <2> QED
    BY <1>2, <2>1
<1>10. ASSUME NEW b, Prune(b) PROVE EndInv'
  <2>1. UNCHANGED <<event, open, closed, partial>>
    BY <1>10 DEF Prune, Recv!AskForPruned, sendVars, recvVars
  <2>2. \A m \in controlNet' : m \in controlNet \/ m.type = "retransmit"
    BY <1>10 DEF Prune, Request, Send!Retransmit
  <2> QED
    BY <1>2, <2>1, <2>2
<1>11. ASSUME NEW i, NEW inside, AppSeek(i, inside) PROVE EndInv'
  <2>1. UNCHANGED <<event, open, closed, partial>>
    BY <1>11 DEF AppSeek, Recv!Seek, sendVars
  <2>2. \A m \in controlNet' : m \in controlNet \/ m.type = "seek"
    BY <1>11 DEF AppSeek, SeekMessage
  <2> QED
    BY <1>2, <2>1, <2>2
<1>12. CASE AppAcceptHoles
  <2>1. UNCHANGED <<event, open, closed, controlNet>> /\ partial'
    BY <1>12 DEF AppAcceptHoles, Recv!AllowPartial, sendVars
  <2> QED
    BY <1>2, <2>1
<1> QED
  BY <1>3, <1>4, <1>5, <1>6, <1>7, <1>8, <1>9, <1>10, <1>11, <1>12
     DEF Next, SenderStep, ReceiverStep

LEMMA EndHolds == Spec => []EndInv
<1>1. Init => EndInv
  <2> SUFFICES ASSUME Init PROVE EndInv
    OBVIOUS
  <2>1. controlNet = {} /\ event.type = "none" /\ open /\ ~closed
    BY DEF Init, Send!Init, Recv!Init, Send!Control
  <2> QED
    BY <2>1 DEF EndInv, DoneComesFromReceiver
<1>2. Parts /\ Parts' /\ EndInv /\ [Next /\ UNCHANGED disturbance]_<<vars, disturbance>> => EndInv'
  <2> SUFFICES ASSUME Parts, Parts', EndInv, [Next /\ UNCHANGED disturbance]_<<vars, disturbance>>
               PROVE  EndInv'
    OBVIOUS
  <2>1. CASE UNCHANGED vars
    BY <2>1 DEF vars, sendVars, recvVars, EndInv, DoneComesFromReceiver, Finishable
  <2> QED
    BY <2>1, EndStep
<1> QED
  BY PartsHold, <1>1, <1>2, PTL DEF Spec

\* The sender stops only after the receiver was done: Done travels, is
\* overwritten, is lost or comes twice, but nothing else closes the stream.
THEOREM SenderStopsOnlyWhenReceiverDone == Spec => []SenderStopsOnlyWhenDone
<1>1. EndInv => SenderStopsOnlyWhenDone
  BY DEF EndInv, DoneComesFromReceiver, Finishable, SenderStopsOnlyWhenDone
<1> QED
  BY EndHolds, <1>1, PTL

-----------------------------------------------------------------------------
(* Transfer implements Delivery.                                            *)

\* A new chunk, written by either handler, is an arrival.
LEMMA WriteArrives ==
    ASSUME Parts, Parts', BufferMoves, NEW c \in Chunk, Recv!Buf!Write(c, Recv!Size(c)),
           partial' = partial, closed' = (closed \/ Recv!IsDone)
    PROVE  Promise!Arrive(c)
<1> DEFINE got == {d \in Chunk : map[d]}
<1>1. c \notin got /\ got' = got \cup {c}
  BY WriteOne DEF Recv!Buf!Write, Parts
<1>2. head' \in head .. Recv!Buf!EndHead
  <2>1. head' >= head
    BY BufferKeeps DEF Parts
  <2>2. head \in 0 .. Recv!Buf!EndHead /\ head' \in 0 .. Recv!Buf!EndHead /\ Recv!Buf!EndHead \in Int
    BY SameBuffer, TransferAssumption
       DEF Parts, Buffer!IInv, Buffer!TypeOK, Recv!Buf!EndHead, Buffer!EndHead
  <2> QED
    BY <2>1, <2>2
<1>3. Recv!IsDone <=> Promise!MayFinish(got', head')
  <2>1. got' = Chunk <=> \A d \in Chunk : map'[d]
    OBVIOUS
  <2>2. (\A d \in Chunk : map'[d]) => Recv!Buf!HeadAtEnd(head')
    <3>1. Recv!Buf!HeadAtEnd(head') \/ ~map'[head']
      BY SameBuffer DEF Parts, Buffer!IInv, Buffer!HeadAtHole, Buffer!HeadAtEnd, Recv!Buf!HeadAtEnd
    <3>2. head' \in Chunk \/ Recv!Buf!HeadAtEnd(head')
      BY <1>2, TransferAssumption, SameBuffer
         DEF Parts, Buffer!IInv, Buffer!TypeOK, Recv!Buf!EndHead, Chunk, Recv!Buf!HeadAtEnd
    <3> QED
      BY <3>1, <3>2
  <2> QED
    BY <2>1, <2>2, SameBuffer
       DEF Recv!IsDone, Recv!Buf!IsDone, Recv!Buf!HeadAtEnd, Promise!MayFinish
<1>4. closed \in BOOLEAN /\ Recv!IsDone \in BOOLEAN /\ Promise!MayFinish(got', head') \in BOOLEAN
  BY DEF Parts, Shape, Recv!IsDone, Recv!Buf!IsDone, Promise!MayFinish
<1> QED
  BY <1>1, <1>2, <1>3, <1>4 DEF Promise!Arrive

\* A seek moves the head only while the stream is not over.
LEMMA SeekIsForward ==
    ASSUME Parts, Parts', BufferMoves, EndInv,
           NEW i \in Chunk, NEW inside \in BOOLEAN, AppSeek(i, inside)
    PROVE  Promise!SeekForward
<1>1. /\ head' >= head
      /\ head \in 0 .. Recv!Buf!EndHead /\ head' \in 0 .. Recv!Buf!EndHead
      /\ Recv!Buf!EndHead \in Int
  BY BufferKeeps, SameBuffer, TransferAssumption
     DEF Parts, Buffer!IInv, Buffer!TypeOK, Recv!Buf!EndHead, Buffer!EndHead
<1>2. ~closed
  <2> SUFFICES ASSUME closed PROVE FALSE
    OBVIOUS
  <2>1. \A c \in Chunk : map[c]
    BY DEF EndInv, Finishable, AppSeek
  <2>2. head = Recv!Buf!EndHead
    <3>1. head = Recv!Buf!EndHead \/ ~map[head]
      BY SameBuffer DEF Parts, Buffer!IInv, Buffer!HeadAtHole, Buffer!HeadAtEnd
    <3>2. head \in Chunk \/ head = Recv!Buf!EndHead
      BY <1>1, TransferAssumption DEF Recv!Buf!EndHead, Chunk
    <3> QED
      BY <2>1, <3>1, <3>2
  <2>3. Recv!Buf!InRange(i, inside) /\ Recv!Buf!PastHead(i, inside, head)
    BY DEF AppSeek, Recv!Seek, Recv!Buf!SeekHead, Recv!Buf!SeekMoves
  <2> QED
    BY <2>2, <2>3, TransferAssumption
       DEF Recv!Buf!InRange, Recv!Buf!PastHead, Recv!Buf!EndHead, Chunk
<1>3. UNCHANGED <<map, partial, closed>>
  BY DEF AppSeek, Recv!Seek, Recv!Buf!SeekHead
<1> QED
  BY <1>1, <1>2, <1>3 DEF Promise!SeekForward

LEMMA PromiseStep ==
    ASSUME Parts, Parts', EndInv, Next
    PROVE  [Promise!Next]_(Promise!vars)
<1>0. BufferMoves
  BY StepMoves DEF Parts
<1>1. CASE UNCHANGED <<map, head, partial, closed>>
  BY <1>1 DEF Promise!vars
<1>2. SenderStep => UNCHANGED <<map, head, partial, closed>>
  BY DEF SenderStep, HandleEvent, SendBatch, recvVars
<1>3. ASSUME NEW p \in dataNet, ReceiveData(p[1], p[2]) PROVE [Promise!Next]_(Promise!vars)
  <2>1. CASE DropData(p[1], p[2])
    BY <1>1, <2>1 DEF DropData, recvVars, Recv!RefuseData, Recv!bufVars
  <2>2. ASSUME NEW stale, NEW old, NEW asked, TakeData(p[1], p[2], stale, old, asked)
        PROVE  Promise!Next
    <3>1. /\ p[2] \in Chunk /\ Recv!Buf!Write(p[2], Recv!Size(p[2]))
          /\ partial' = partial /\ closed' = (closed \/ Recv!IsDone)
      BY <1>3, <2>2 DEF ReceiveData, TakeData, Recv!AcceptData
    <3> QED
      BY <1>0, <3>1, WriteArrives DEF Promise!Next
  <2> QED
    BY <1>3, <2>1, <2>2 DEF ReceiveData
<1>4. ASSUME NEW b, ReceiveParity(b) \/ Recover(b) PROVE UNCHANGED <<map, head, partial, closed>>
  BY <1>4 DEF ReceiveParity, Recover, recvVars
<1>5. ASSUME NEW p \in found, WriteRecovered(p[1], p[2]) PROVE [Promise!Next]_(Promise!vars)
  <2>1. CASE IF streaming THEN Recv!RefuseRecovered(p[1], p[2]) ELSE UNCHANGED recvVars
    BY <1>1, <2>1 DEF recvVars, Recv!RefuseRecovered, Recv!bufVars
  <2>2. ASSUME NEW stale, NEW old, NEW asked, Recv!AcceptRecovered(p[1], p[2], stale, old, asked)
        PROVE  Promise!Next
    <3>1. /\ p[2] \in Chunk /\ Recv!Buf!Write(p[2], Recv!Size(p[2]))
          /\ partial' = partial /\ closed' = (closed \/ Recv!IsDone)
      BY <2>2 DEF Recv!AcceptRecovered, Parts, Shape
    <3> QED
      BY <1>0, <3>1, WriteArrives DEF Promise!Next
  <2> QED
    BY <1>5, <2>1, <2>2 DEF WriteRecovered
<1>6. ASSUME NEW m, DeliverControl(m) \/ LoseControl(m) \/ LoseData(m)
      PROVE  UNCHANGED <<map, head, partial, closed>>
  BY <1>6 DEF DeliverControl, LoseControl, LoseData, recvVars
<1>7. ASSUME NEW b, Prune(b) PROVE UNCHANGED <<map, head, partial, closed>>
  BY <1>7 DEF Prune, Recv!AskForPruned, Recv!bufVars, recvVars
<1>8. ASSUME NEW i \in Chunk, NEW inside \in BOOLEAN, AppSeek(i, inside) PROVE Promise!Next
  BY <1>0, <1>8, SeekIsForward DEF Promise!Next
<1>9. AppAcceptHoles => Promise!Next
  BY DEF AppAcceptHoles, Recv!AllowPartial, Recv!bufVars, Promise!Next, Promise!Accept
<1> QED
  BY <1>1, <1>2, <1>3, <1>4, <1>5, <1>6, <1>7, <1>8, <1>9 DEF Next, ReceiverStep

\* The receiving application sees what Delivery promises: whatever the network,
\* error correction and both ends do, chunks only appear, the head only goes
\* forward, and the end is announced when it is one and at no other time.
THEOREM ImplementsDelivery == Spec => DeliversWhatIsPromised
<1>1. Init => Promise!Init
  <2> SUFFICES ASSUME Init PROVE Promise!Init
    OBVIOUS
  <2>1. map = [c \in Chunk |-> FALSE] /\ head = 0 /\ partial = FALSE /\ closed = FALSE
    BY SameBuffer DEF Init, Recv!Init, Recv!Buf!Init
  <2> QED
    BY <2>1 DEF Promise!Init
<1>2. Parts /\ Parts' /\ EndInv /\ [Next /\ UNCHANGED disturbance]_<<vars, disturbance>>
      => [Promise!Next]_(Promise!vars)
  <2> SUFFICES ASSUME Parts, Parts', EndInv, [Next /\ UNCHANGED disturbance]_<<vars, disturbance>>
               PROVE  [Promise!Next]_(Promise!vars)
    OBVIOUS
  <2>1. CASE UNCHANGED vars
    BY <2>1 DEF vars, recvVars, Promise!vars
  <2> QED
    BY <2>1, PromiseStep
<1> QED
  BY PartsHold, EndHolds, <1>1, <1>2, PTL DEF Spec, DeliversWhatIsPromised, Promise!Spec

-----------------------------------------------------------------------------
(* The receiver asks only for what the sender has passed.                   *)

Tracked == sent \cup extras

\* What has arrived was sent; below a chunk that was sent every chunk was sent
\* or is queued; with the head at the end of a track that has a tail, the tail
\* has arrived: no seek lands past it.
ArrivedWasSent == \A c \in Chunk : map[c] => c \in sent
SentBelow == \A j \in sent : \A i \in Chunk : i < j => i \in Tracked
EndArrived == Recv!Buf!HeadAtEnd(head) => map[Full]
AskInv == ArrivedWasSent /\ SentBelow /\ EndArrived /\ AskedWasPassed

\* The sender forgets nothing, and sends in order but for what it has queued.
LEMMA TrackedGrows ==
    ASSUME Sender!IInv, SenderMoves
    PROVE  sent \subseteq sent' /\ Tracked \subseteq Tracked'
<1>1. ASSUME NEW chunks \in SUBSET Chunk, Send!Tick(chunks)
      PROVE  sent \subseteq sent' /\ Tracked \subseteq Tracked'
  BY <1>1 DEF Send!Tick, Send!SendFresh, Send!Drain, Tracked
<1>2. Send!Handle => sent' = sent /\ extras \subseteq extras'
  BY DEF Send!Handle, Send!HandleSeek, Send!HandleRetransmit, Send!HandlePause, Send!HandlePlay,
         Send!HandleClose
<1> QED
  BY <1>1, <1>2 DEF SenderMoves, Send!Post, sendVars, Tracked

LEMMA SentBelowStep ==
    ASSUME Sender!IInv, Sender!IInv', SenderMoves, SentBelow
    PROVE  SentBelow'
<1> SUFFICES ASSUME NEW j \in sent', NEW i \in Chunk, i < j PROVE i \in Tracked'
  BY DEF SentBelow
<1>1. CASE j \in sent
  BY <1>1, TrackedGrows DEF SentBelow
<1>2. CASE j \notin sent
  <2>1. PICK chunks \in SUBSET Chunk : Send!Tick(chunks) /\ j \in chunks
    <3>1. sent' # sent
      BY <1>2
    <3>2. Send!Handle => sent' = sent
      BY DEF Send!Handle, Send!HandleSeek, Send!HandleRetransmit, Send!HandlePause,
             Send!HandlePlay, Send!HandleClose
    <3>3. \E chunks \in SUBSET Chunk : Send!Tick(chunks)
      BY <3>1, <3>2 DEF SenderMoves, Send!Post, sendVars
    <3> QED
      BY <1>2, <3>3 DEF Send!Tick
  <2>2. position \in Nat /\ j \in Nat /\ j <= Full /\ i \in Nat
    BY <2>1, TransferAssumption DEF Sender!IInv, Sender!TypeOK, Sender!EndPos, Chunk
  <2>3. i < position'
    <3>1. CASE Send!SendFresh(chunks)
      BY <2>1, <2>2, <3>1, TransferAssumption
         DEF Send!SendFresh, Send!Fresh, Send!NextPos, Send!EndPos
    <3>2. CASE Send!Drain(chunks)
      BY <2>2, <3>2, TransferAssumption DEF Send!Drain, Send!EndPos
    <3> QED
      BY <2>1, <3>1, <3>2 DEF Send!Tick
  <2> QED
    BY <2>3 DEF Sender!IInv, Sender!SkippedTracked, Sender!Chunk, Chunk, Tracked
<1> QED
  BY <1>1, <1>2

\* advance_head reaches the end over the tail, or was there before.
LEMMA EndIsPastTail ==
    ASSUME HasTail, NEW m \in [Chunk -> BOOLEAN], NEW h \in 0 .. Full + 1,
           Recv!Buf!HeadAtEnd(Recv!Buf!AdvanceHead(m, h))
    PROVE  m[Full] \/ h = Full + 1
<1> DEFINE c == Buffer!HeadChunk(h)
           j == Buffer!FirstHole(m, c)
<1>1. Buffer!HeadAtEnd(Buffer!AdvanceHead(m, h)) /\ Buffer!EndHead = Full + 1
  BY SameBuffer DEF Buffer!HeadAtEnd, Recv!Buf!HeadAtEnd, Buffer!EndHead
<1>2. c \in Chunk /\ (h # Full + 1 => c = h)
  BY TransferAssumption DEF Buffer!HeadChunk, Chunk
<1>3. j \in c .. Full + 1 /\ (j = Full + 1 \/ ~m[j]) /\ \A k \in c .. j - 1 : m[k]
  <2> HIDE DEF c
  <2> QED
    BY <1>2, SameBuffer, TransferAssumption, Buffer!FirstHoleCorrect
<1>4. Buffer!AdvanceHead(m, h) = IF j > Full THEN Full + 1 ELSE IF j = c THEN h ELSE j
  BY <1>1 DEF Buffer!AdvanceHead
<1> HIDE DEF c, j
<1>5. CASE j = Full + 1
  BY <1>2, <1>3, <1>5, TransferAssumption DEF Chunk
<1>6. CASE j # Full + 1
  BY <1>1, <1>2, <1>3, <1>4, <1>6, TransferAssumption DEF Chunk, Buffer!HeadAtEnd
<1> QED
  BY <1>5, <1>6

LEMMA EndArrivedStep ==
    ASSUME HasTail, Buffer!IInv, Buffer!IInv', BufferMoves, EndArrived
    PROVE  EndArrived'
<1> SUFFICES ASSUME Recv!Buf!HeadAtEnd(head') PROVE map'[Full]
  BY DEF EndArrived
<1>1. Full \in Chunk /\ head \in 0 .. Full + 1 /\ (head = Full + 1 => Recv!Buf!HeadAtEnd(head))
  BY TransferAssumption
     DEF Chunk, Buffer!IInv, Buffer!TypeOK, Buffer!EndHead, Recv!Buf!EndHead, Recv!Buf!HeadAtEnd
<1>2. map[Full] => map'[Full]
  BY <1>1, MapGrows
<1>3. ASSUME NEW c \in Chunk, Recv!Buf!Write(c, Recv!Size(c)) PROVE map'[Full]
  <2>1. map' \in [Chunk -> BOOLEAN]
    BY SameBuffer DEF Buffer!IInv, Buffer!TypeOK
  <2>2. head' = Recv!Buf!AdvanceHead(map', head)
    BY <1>3 DEF Recv!Buf!Write
  <2>3. map'[Full] \/ head = Full + 1
    BY <1>1, <2>1, <2>2, EndIsPastTail
  <2> QED
    BY <1>1, <1>2, <2>3 DEF EndArrived
<1>4. ASSUME NEW i \in Chunk, NEW inside \in BOOLEAN, Recv!Buf!SeekHead(i, inside) PROVE map'[Full]
  <2>1. map \in [Chunk -> BOOLEAN] /\ map' = map /\ head' = Recv!Buf!AdvanceHead(map, i)
    BY <1>4, SameBuffer DEF Buffer!IInv, Buffer!TypeOK, Recv!Buf!SeekHead
  <2>2. i \in 0 .. Full + 1 /\ i # Full + 1
    BY TransferAssumption DEF Chunk
  <2> QED
    BY <2>1, <2>2, EndIsPastTail
<1>5. CASE UNCHANGED <<map, head, areas>>
  BY <1>5 DEF EndArrived
<1> QED
  BY <1>3, <1>4, <1>5 DEF BufferMoves

LEMMA ChunkIsFinite == IsFiniteSet(Chunk)
BY TransferAssumption, FS_Interval DEF Chunk

\* A batch reaches at least as far past one of its chunks as it has chunks left
\* after it, so a position counted from that chunk is not past the batch.
LEMMA BatchReaches ==
    ASSUME NEW S \in SUBSET Chunk, NEW c \in S, NEW x \in Int,
           \A d \in S : d < x, x >= c
    PROVE  Cardinality(S) <= Cardinality({d \in S : d < c}) + (x - c)
<1> DEFINE low == {d \in S : d < c}
           high == {d \in S : ~(d < c)}
<1>1. IsFiniteSet(S) /\ c \in Int /\ \A d \in S : d \in Int
  <2>1. IsFiniteSet(S)
    BY ChunkIsFinite, FS_Subset
  <2>2. Chunk \subseteq Int
    BY TransferAssumption DEF Chunk
  <2> QED
    BY <2>1, <2>2
<1>2. IsFiniteSet(low) /\ IsFiniteSet(high) /\ Cardinality(low) \in Nat /\ Cardinality(high) \in Nat
  BY <1>1, FS_Subset, FS_CardinalityType
<1>3. Cardinality(high) <= x - c
  <2>1. high \subseteq c .. x - 1
    <3> SUFFICES ASSUME NEW d \in S, ~(d < c) PROVE d \in c .. x - 1
      OBVIOUS
    <3>1. d \in Int /\ d < x
      BY <1>1
    <3> QED
      BY <1>1, <3>1
  <2>2. IsFiniteSet(c .. x - 1) /\ Cardinality(c .. x - 1) = IF c > x - 1 THEN 0 ELSE x - 1 - c + 1
    BY <1>1, FS_Interval
  <2>3. Cardinality(high) <= Cardinality(c .. x - 1)
    BY <2>1, <2>2, FS_Subset
  <2> QED
    BY <1>1, <1>2, <2>2, <2>3
<1>4. Cardinality(S) = Cardinality(low) + Cardinality(high)
  <2>1. S = low \cup high /\ low \cap high = {}
    OBVIOUS
  <2>2. Cardinality(low \cup high) = Cardinality(low) + Cardinality(high) - Cardinality(low \cap high)
    BY <1>2, FS_Union
  <2>3. Cardinality(low \cap high) = 0
    BY <2>1, FS_EmptySet
  <2> HIDE DEF low, high
  <2> QED
    BY <1>2, <2>1, <2>2, <2>3
<1> QED
  BY <1>1, <1>2, <1>3, <1>4

LEMMA MissingPositionsBelow ==
    ASSUME NEW b, batches[b] \subseteq Chunk, NEW mask \in SUBSET batches[b],
           NEW x \in MissingPositions(b, mask)
    PROVE  \E d \in batches[b] : x <= d
<1>1. PICK c \in mask, i \in 0 .. SizeOf(b) - 1 : x = Recv!DerivedBase(c, BatchPos(b, c)) + i
  <2> DEFINE bases == {Recv!DerivedBase(c, BatchPos(b, c)) : c \in mask}
             free == {j \in 0 .. SizeOf(b) - 1 :
                         Cardinality(bases) = 1 /\ \A c \in mask : BatchPos(b, c) # j}
  <2>1. MissingPositions(b, mask) = {base + i : base \in bases, i \in free}
    BY DEF MissingPositions
  <2>2. PICK base \in bases, i \in free : x = base + i
    <3> HIDE DEF bases, free
    <3> QED
      BY <2>1
  <2>3. i \in 0 .. SizeOf(b) - 1
    OBVIOUS
  <2>4. PICK c \in mask : base = Recv!DerivedBase(c, BatchPos(b, c))
    OBVIOUS
  <2> QED
    BY <2>2, <2>3, <2>4
<1>2. c \in Int /\ c >= 0 /\ c \in batches[b]
  BY TransferAssumption DEF Chunk
<1>3. BatchPos(b, c) \in Nat /\ SizeOf(b) \in Nat
  <2>1. IsFiniteSet(batches[b]) /\ IsFiniteSet({d \in batches[b] : d < c})
    BY ChunkIsFinite, FS_Subset
  <2> QED
    BY <2>1, FS_CardinalityType DEF BatchPos, SizeOf
<1>4. BatchPos(b, c) <= c
  <2>1. {d \in batches[b] : d < c} \subseteq 0 .. c - 1
    BY <1>2, TransferAssumption DEF Chunk
  <2>2. IsFiniteSet(0 .. c - 1) /\ Cardinality(0 .. c - 1) = c
    BY <1>2, FS_Interval
  <2> QED
    BY <2>1, <2>2, FS_Subset DEF BatchPos
<1>5. x = c - BatchPos(b, c) + i
  BY <1>1, <1>2, <1>3, <1>4 DEF Recv!DerivedBase
<1> SUFFICES ASSUME \A d \in batches[b] : d < x PROVE FALSE
  BY <1>1, <1>2, <1>3, <1>5, TransferAssumption DEF Chunk
<1>6. x \in Int /\ c < x
  BY <1>1, <1>2, <1>3, <1>5
<1>7. SizeOf(b) <= BatchPos(b, c) + (x - c)
  <2>1. \A S \in SUBSET Chunk : \A e \in S : \A y \in Int :
           (\A d \in S : d < y) /\ y >= e
             => Cardinality(S) <= Cardinality({d \in S : d < e}) + (y - e)
    BY BatchReaches
  <2>2. x >= c /\ c \in batches[b] /\ batches[b] \in SUBSET Chunk
    BY <1>2, <1>6
  <2>3. Cardinality(batches[b]) <= Cardinality({d \in batches[b] : d < c}) + (x - c)
    BY <1>6, <2>1, <2>2
  <2> QED
    BY <2>3 DEF SizeOf, BatchPos
<1> QED
  BY <1>1, <1>2, <1>3, <1>5, <1>7

\* A missing chunk below one that was sent is tracked.
LEMMA BelowArrivedTracked ==
    ASSUME ArrivedWasSent, SentBelow, NEW c \in Chunk, NEW j \in Chunk, map[j], c < j
    PROVE  c \in Tracked
BY DEF ArrivedWasSent, SentBelow

\* What a handler may ask for after its write was sent or is queued.
LEMMA CandidatesTracked ==
    ASSUME Buffer!IInv', ArrivedWasSent', SentBelow', EndArrived', NEW mir,
           NEW c \in Recv!Candidates(mir)
    PROVE  c \in Tracked'
<1>1. c \in Chunk /\ ~map'[c]
  BY CandidatesAreMissing
<1>2. \E j \in Chunk : c < j /\ map'[j]
  <2>1. CASE Recv!Buf!HeadAtEnd(head')
    <3>1. Full \in Chunk /\ map'[Full]
      BY <2>1, TransferAssumption DEF EndArrived, Chunk
    <3> QED
      BY <1>1, <3>1, TransferAssumption DEF Chunk
  <2>2. CASE ~Recv!Buf!HeadAtEnd(head')
    <3>1. /\ areas' \in Seq(Buffer!Area) /\ Buffer!Separated(areas')
          /\ head' \in 0 .. Buffer!EndHead
          /\ map' \in [Chunk -> BOOLEAN]
          /\ \A i \in Chunk : ~map'[i] <=> Buffer!Covered(areas', i)
      BY SameBuffer
         DEF Buffer!IInv, Buffer!TypeOK, Buffer!AreasSeparated, Buffer!AreasMirrorMap
    <3>2. c \in Buffer!RequestableChunks(areas', head')
      BY <2>2, SamePolicy DEF Recv!Candidates
    <3>3. \E j \in Chunk : j > c /\ ~Buffer!Covered(areas', j)
      BY <3>1, <3>2, SameBuffer, TransferAssumption, Buffer!PolicyAsksForOvertaken
    <3> QED
      BY <1>1, <3>1, <3>3, TransferAssumption DEF Chunk
  <2> QED
    BY <2>1, <2>2
<1> QED
  BY <1>1, <1>2 DEF ArrivedWasSent, SentBelow

\* A handler that writes chunk c, which was sent, keeps the invariant.
LEMMA HandlerAsks ==
    ASSUME Parts, Parts', BufferMoves, HasTail, AskInv, UNCHANGED sendVars,
           NEW c \in sent, Recv!Buf!Write(c, Recv!Size(c)),
           NEW decides, NEW mir, NEW stale, NEW old, NEW asked,
           Recv!Decide(decides, pending \ {c}, mir, stale, old, asked)
    PROVE  AskInv'
<1>1. ArrivedWasSent'
  BY WriteOne DEF Parts, AskInv, ArrivedWasSent, sendVars
<1>2. SentBelow'
  BY DEF AskInv, SentBelow, Tracked, sendVars
<1>3. EndArrived'
  BY EndArrivedStep DEF Parts, AskInv
<1>4. \A d \in asked : d \in Tracked'
  BY <1>1, <1>2, <1>3, CandidatesTracked DEF Parts, Recv!Decide, Recv!Reserve
<1>5. \A d \in pending : d \in Tracked'
  BY DEF AskInv, AskedWasPassed, Tracked, sendVars
<1>6. pending' \subseteq pending \cup asked
  BY DEF Recv!Decide
<1> QED
  BY <1>1, <1>2, <1>3, <1>4, <1>5, <1>6 DEF AskInv, AskedWasPassed, Tracked

LEMMA AskStep ==
    ASSUME Parts, Parts', HasTail, AskInv, Next
    PROVE  AskInv'
<1>0. BufferMoves /\ SenderMoves
  BY StepMoves DEF Parts
<1>1. EndArrived' /\ SentBelow' /\ sent \subseteq sent' /\ Tracked \subseteq Tracked'
  BY <1>0, EndArrivedStep, SentBelowStep, TrackedGrows DEF Parts, AskInv
<1>2. ASSUME map' = map, pending' = pending PROVE AskInv'
  BY <1>1, <1>2 DEF AskInv, ArrivedWasSent, AskedWasPassed, Tracked
<1>3. SenderStep => UNCHANGED <<map, pending>>
  BY DEF SenderStep, HandleEvent, SendBatch, recvVars
<1>4. ASSUME NEW p \in dataNet, ReceiveData(p[1], p[2]) PROVE AskInv'
  <2> DEFINE b == p[1]
             c == p[2]
  <2>1. UNCHANGED sendVars /\ c \in sent
    BY <1>4 DEF ReceiveData, Parts, Shape
  <2>2. CASE DropData(b, c)
    BY <1>2, <2>2 DEF DropData, recvVars, Recv!RefuseData, Recv!bufVars
  <2>3. ASSUME NEW stale, NEW old, NEW asked, TakeData(b, c, stale, old, asked)
        PROVE  AskInv'
    <3>1. Recv!AcceptData(b, SizeOf(b), BatchPos(b, c), c, stale, old, asked)
      BY <2>3 DEF TakeData
    <3> QED
      BY <1>0, <2>1, <3>1, HandlerAsks DEF Recv!AcceptData
  <2> QED
    BY <1>4, <2>2, <2>3 DEF ReceiveData
<1>5. ASSUME NEW b, ReceiveParity(b) \/ Recover(b) PROVE UNCHANGED <<map, pending>>
  BY <1>5 DEF ReceiveParity, Recover, recvVars
<1>6. ASSUME NEW p \in found, WriteRecovered(p[1], p[2]) PROVE AskInv'
  <2> DEFINE b == p[1]
             c == p[2]
  <2>1. UNCHANGED sendVars /\ c \in sent
    BY <1>6 DEF WriteRecovered, Parts, Shape
  <2>2. CASE IF streaming THEN Recv!RefuseRecovered(b, c) ELSE UNCHANGED recvVars
    BY <1>2, <2>2 DEF recvVars, Recv!RefuseRecovered, Recv!bufVars
  <2>3. ASSUME NEW stale, NEW old, NEW asked, Recv!AcceptRecovered(b, c, stale, old, asked)
        PROVE  AskInv'
    BY <1>0, <2>1, <2>3, HandlerAsks DEF Recv!AcceptRecovered
  <2> QED
    BY <1>6, <2>2, <2>3 DEF WriteRecovered
<1>7. ASSUME NEW m, DeliverControl(m) \/ LoseControl(m) \/ LoseData(m)
      PROVE  UNCHANGED <<map, pending>>
  BY <1>7 DEF DeliverControl, LoseControl, LoseData, recvVars
<1>8. ASSUME NEW b, Prune(b) PROVE AskInv'
  <2>1. CASE streaming
    <3>1. PICK stale, asked : Recv!AskForPruned(MissingPositions(b, inbound[b].mask), stale, asked)
      BY <1>8, <2>1 DEF Prune
    <3>2. /\ b \in 1 .. batch /\ batches[b] \subseteq Chunk /\ batches[b] \subseteq sent
          /\ inbound[b].mask \subseteq batches[b]
      BY <1>8 DEF Prune, Parts, Shape
    <3>3. ASSUME NEW x \in asked PROVE x \in Tracked
      <4>1. x \in MissingPositions(b, inbound[b].mask) /\ x \in Chunk
        BY <3>1, SameBuffer DEF Recv!AskForPruned, Recv!Reserve, Recv!Missing
      <4>2. PICK d \in batches[b] : x <= d
        BY <3>2, <4>1, MissingPositionsBelow
      <4>3. x \in Int /\ d \in Int
        BY <3>2, <4>1, TransferAssumption DEF Chunk
      <4> QED
        BY <3>2, <4>1, <4>2, <4>3 DEF AskInv, SentBelow, Tracked
    <3>4. map' = map /\ pending' \subseteq pending \cup asked
      BY <3>1 DEF Recv!AskForPruned, Recv!bufVars
    <3> QED
      BY <1>1, <3>3, <3>4 DEF AskInv, ArrivedWasSent, AskedWasPassed, Tracked
  <2>2. CASE ~streaming
    BY <1>2, <1>8, <2>2 DEF Prune, recvVars
  <2> QED
    BY <2>1, <2>2
<1>9. ASSUME NEW i, NEW inside, AppSeek(i, inside) PROVE UNCHANGED <<map, pending>>
  BY <1>9 DEF AppSeek, Recv!Seek, Recv!Buf!SeekHead
<1>10. AppAcceptHoles => UNCHANGED <<map, pending>>
  BY DEF AppAcceptHoles, Recv!AllowPartial, Recv!bufVars
<1> QED
  BY <1>2, <1>3, <1>4, <1>5, <1>6, <1>7, <1>8, <1>9, <1>10 DEF Next, ReceiverStep

\* A request never runs ahead of the stream, whatever seeks both sides made and
\* whatever the FEC module reports missing.  The track must have a tail: for a
\* track without one the receiver asks for the empty last chunk, which the
\* sender sends only when asked, and may seek to the end before anything came.
THEOREM RequestsStayBehindTheStream ==
    ASSUME HasTail
    PROVE  Spec => []AskedWasPassed
<1>1. Init => AskInv
  <2> SUFFICES ASSUME Init PROVE AskInv
    OBVIOUS
  <2>1. map = [c \in Chunk |-> FALSE] /\ head = 0 /\ sent = {} /\ pending = {}
    BY SameBuffer DEF Init, Send!Init, Recv!Init, Recv!Buf!Init
  <2>2. ~Recv!Buf!HeadAtEnd(head)
    BY <2>1, TransferAssumption DEF Recv!Buf!HeadAtEnd, Recv!Buf!EndHead
  <2> QED
    BY <2>1, <2>2 DEF AskInv, ArrivedWasSent, SentBelow, EndArrived, AskedWasPassed
<1>2. Parts /\ Parts' /\ AskInv /\ [Next /\ UNCHANGED disturbance]_<<vars, disturbance>>
      => AskInv'
  <2> SUFFICES ASSUME Parts, Parts', AskInv,
                      [Next /\ UNCHANGED disturbance]_<<vars, disturbance>>
               PROVE  AskInv'
    OBVIOUS
  <2>1. CASE UNCHANGED vars
    BY <2>1 DEF vars, sendVars, recvVars, AskInv, ArrivedWasSent, SentBelow, EndArrived,
           AskedWasPassed, Tracked
  <2> QED
    BY <2>1, AskStep
<1>3. AskInv => AskedWasPassed
  BY DEF AskInv
<1> QED
  BY PartsHold, <1>1, <1>2, <1>3, PTL DEF Spec
===============================================================================
