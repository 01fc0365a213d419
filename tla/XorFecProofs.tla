----------------------------- MODULE XorFecProofs -----------------------------
(***************************************************************************)
(* Theorems about XorFec, for every set of batches, batch size, number of   *)
(* sweeps and build.                                                        *)
(***************************************************************************)
EXTENDS XorFec, FiniteSetTheorems, TLAPS

-----------------------------------------------------------------------------
(* The XOR of packets.                                                      *)

Packet == [id : Id, pos : Pos]
Field == Packet \X {"byte_range_start", "payload"}

\* The product of the packets of a batch at positions S, each taken once.
Contents(id, S) == UNION {FECData(DataPacket(id, pos)) : pos \in S}

LEMMA PacketFields ==
    ASSUME NEW id \in Id, NEW pos \in Pos
    PROVE  DataPacket(id, pos) \in Packet /\ FECData(DataPacket(id, pos)) \subseteq Field
BY DEF DataPacket, Packet, FECData, Field

LEMMA ContentsAreFields ==
    ASSUME NEW id \in Id, NEW S \in SUBSET Pos
    PROVE  Contents(id, S) \subseteq Field
BY PacketFields DEF Contents

\* What a product holds, and that two packets share no field.
LEMMA InContents ==
    ASSUME NEW id, NEW S
    PROVE  \A x : x \in Contents(id, S) <=> \E pos \in S : x \in FECData(DataPacket(id, pos))
BY DEF Contents

LEMMA FieldsApart ==
    ASSUME NEW id, NEW p, NEW q, NEW x, x \in FECData(DataPacket(id, p)), x \in FECData(DataPacket(id, q))
    PROVE  p = q
<1>1. x[1] = DataPacket(id, p) /\ x[1] = DataPacket(id, q)
  BY DEF FECData
<1>2. DataPacket(id, p).pos = p /\ DataPacket(id, q).pos = q
  BY DEF DataPacket
<1> QED
  BY <1>1, <1>2

\* A packet not yet in the product is added by the XOR.
LEMMA AddPacket ==
    ASSUME NEW id, NEW S, NEW pos, pos \notin S
    PROVE  SymDiff(Contents(id, S), FECData(DataPacket(id, pos))) = Contents(id, S \cup {pos})
<1>1. ASSUME NEW x PROVE x \in Contents(id, S \cup {pos})
                         <=> x \in Contents(id, S) \/ x \in FECData(DataPacket(id, pos))
  BY InContents
<1>2. ASSUME NEW x PROVE ~(x \in Contents(id, S) /\ x \in FECData(DataPacket(id, pos)))
  BY InContents, FieldsApart
<1> QED
  BY <1>1, <1>2 DEF SymDiff

\* The XOR of the parity with the product of the packets received leaves the
\* product of the packets that are missing.
LEMMA XorLeavesMissing ==
    ASSUME NEW id, NEW S \in SUBSET Pos
    PROVE  SymDiff(Contents(id, S), Contents(id, Pos)) = Contents(id, Pos \ S)
<1>1. ASSUME NEW x, x \in Contents(id, S) PROVE x \in Contents(id, Pos) /\ x \notin Contents(id, Pos \ S)
  <2>1. PICK p \in S : x \in FECData(DataPacket(id, p))
    BY <1>1, InContents
  <2>2. x \in Contents(id, Pos)
    BY <2>1, InContents
  <2>3. x \notin Contents(id, Pos \ S)
    BY <2>1, InContents, FieldsApart
  <2> QED
    BY <2>2, <2>3
<1>2. ASSUME NEW x, x \notin Contents(id, S) PROVE x \in Contents(id, Pos) <=> x \in Contents(id, Pos \ S)
  BY <1>2, InContents
<1> QED
  BY <1>1, <1>2 DEF SymDiff

LEMMA PosIsFinite == IsFiniteSet(Pos) /\ Cardinality(Pos) = Size
<1>1. IsFiniteSet(0 .. Size - 1) /\ Cardinality(0 .. Size - 1) = IF 0 > Size - 1 THEN 0 ELSE Size - 1 - 0 + 1
  BY XorFecAssumption, FS_Interval
<1> QED
  BY <1>1, XorFecAssumption DEF Pos

\* All positions but one: the one that is missing.
LEMMA OneMissing ==
    ASSUME NEW S \in SUBSET Pos, Cardinality(S) = Size - 1
    PROVE  \E pos \in Pos : Pos \ S = {pos}
<1>1. IsFiniteSet(Pos \ S) /\ Cardinality(Pos \ S) = Cardinality(Pos) - Cardinality(Pos \cap S)
  BY PosIsFinite, FS_Difference
<1>2. Pos \cap S = S
  OBVIOUS
<1>3. Cardinality(Pos \ S) = 1
  BY <1>1, <1>2, PosIsFinite, XorFecAssumption
<1>4. \E x : Pos \ S = {x}
  BY <1>1, <1>3, FS_Singleton
<1> QED
  BY <1>4

-----------------------------------------------------------------------------
(* The invariant.                                                           *)

Message == [id : Id, pos : 0 .. Size, data : SUBSET Field, packet : Packet]
Entries == [product : SUBSET Field, parity : SUBSET Field, hasParity : BOOLEAN, mask : SUBSET Pos]
Task == [m : Message, pc : {"add", "recover", "write"}, ref : Nat, result : SUBSET Field]

Types ==
    /\ unsent \subseteq Packet
    /\ outbound \in [Id -> [product : SUBSET Field, count : 0 .. Size - 1]]
    /\ net \subseteq Message /\ lost \subseteq Message
    /\ heap \in Seq(Entries)
    /\ table \in [Id -> 0 .. Len(heap)]
    /\ tasks \subseteq Task /\ \A t \in tasks : t.ref \in 1 .. Len(heap)
    /\ written \subseteq Packet
    /\ expired \subseteq Id /\ pruned \subseteq Id
    /\ prunes \in 0 .. MaxPrunes

\* The sender's entry is the product of what was sent of the batch, until the
\* batch is full and the entry is reset.
SentPos(id) == {pos \in Pos : DataPacket(id, pos) \notin unsent}
OutboundMirrorsSent ==
    \A id \in Id :
        \/ SentPos(id) = Pos
        \/ /\ outbound[id].product = Contents(id, SentPos(id))
           /\ outbound[id].count = Cardinality(SentPos(id))

\* A data packet carries its own fields, a parity packet those of its batch.
Carries(m) == m.data = Contents(m.id, IF IsData(m) THEN {m.pos} ELSE Pos)
MessagesCarry == (\A m \in net : Carries(m)) /\ \A t \in tasks : Carries(t.m)

\* Every entry made belongs to one batch: its product is that of the packets in
\* its mask, the map finds it under its batch, and only tasks with a packet of
\* that batch hold it, however long after the map has forgotten it.
Holds(e, id) ==
    /\ e.product = Contents(id, e.mask)
    /\ e.hasParity => e.parity = Contents(id, Pos)
Owned(own) ==
    /\ \A k \in DOMAIN heap : Holds(heap[k], own[k])
    /\ \A id \in Id : table[id] # 0 => own[table[id]] = id
    /\ \A t \in tasks : own[t.ref] = t.m.id
EntriesOwned == \E own \in [DOMAIN heap -> Id] : Owned(own)

\* In any build, what is recovered is what the sender XORed of one packet.
RecoveredIsPacket ==
    \A r \in recovered : r[1] \in Id /\ \E pos \in Pos : r[2] = FECData(DataPacket(r[1], pos))

IInv ==
    /\ Types
    /\ OutboundMirrorsSent /\ MessagesCarry /\ EntriesOwned
    /\ RecoveredIsPacket /\ ReadyIsClaimed

LEMMA InitIInv == Init => IInv
<1> SUFFICES ASSUME Init PROVE IInv
  OBVIOUS
<1>1. Types
  <2>1. unsent \subseteq Packet
    BY DEF Init, Packet, DataPacket
  <2>2. heap = << >> /\ Len(heap) = 0 /\ heap \in Seq(Entries)
    BY DEF Init
  <2>3. table \in [Id -> 0 .. Len(heap)]
    BY <2>2 DEF Init
  <2>4. outbound \in [Id -> [product : SUBSET Field, count : 0 .. Size - 1]]
    BY XorFecAssumption DEF Init
  <2>5. prunes \in 0 .. MaxPrunes
    BY XorFecAssumption DEF Init
  <2> QED
    BY <2>1, <2>2, <2>3, <2>4, <2>5 DEF Init, Types
<1>2. OutboundMirrorsSent
  <2> SUFFICES ASSUME NEW id \in Id
               PROVE  /\ outbound[id].product = Contents(id, SentPos(id))
                      /\ outbound[id].count = Cardinality(SentPos(id))
    BY DEF OutboundMirrorsSent
  <2>1. SentPos(id) = {}
    BY DEF SentPos, Init
  <2>2. outbound[id].product = {} /\ outbound[id].count = 0
    BY DEF Init
  <2> QED
    BY <2>1, <2>2, FS_EmptySet DEF Contents
<1>3. MessagesCarry /\ RecoveredIsPacket
  BY DEF Init, MessagesCarry, RecoveredIsPacket
<1>4. EntriesOwned
  <2>1. DOMAIN heap = {} /\ tasks = {} /\ \A id \in Id : table[id] = 0
    BY DEF Init
  <2>2. [k \in {} |-> 0] \in [DOMAIN heap -> Id]
    BY <2>1
  <2> QED
    BY <2>1, <2>2 DEF EntriesOwned, Owned
<1>5. ReadyIsClaimed
  BY DEF Init, ReadyIsClaimed
<1> QED
  BY <1>1, <1>2, <1>3, <1>4, <1>5 DEF IInv

\* The sender adds a packet; the one that completes the batch closes it.
LEMMA SendStep ==
    ASSUME IInv, NEW p \in unsent, Send(p)
    PROVE  IInv'
<1> DEFINE id == p.id
           pos == p.pos
           product == SymDiff(outbound[id].product, FECData(p))
           count == outbound[id].count + 1
           data == [id |-> id, pos |-> pos, data |-> FECData(p), packet |-> p]
           parity == [id |-> id, pos |-> Size, data |-> product, packet |-> p]
<1>1. /\ id \in Id /\ pos \in Pos /\ p \in Packet /\ p = DataPacket(id, pos)
      /\ pos \in 0 .. Size /\ Size \in 0 .. Size /\ pos < Size
  BY XorFecAssumption DEF IInv, Types, Packet, DataPacket, Pos
<1>2. /\ unsent' = unsent \ {p}
      /\ UNCHANGED <<heap, table, tasks, written, expired, prunes, histVars>>
      /\ \/ /\ count = Size
            /\ outbound' = [outbound EXCEPT ![id] = [product |-> {}, count |-> 0]]
            /\ net' = net \cup {data, parity}
         \/ /\ count # Size
            /\ outbound' = [outbound EXCEPT ![id] = [product |-> product, count |-> count]]
            /\ net' = net \cup {data}
  BY DEF Send, FillsBatch
<1> HIDE DEF id, pos
<1>3. /\ SentPos(id) \subseteq Pos /\ pos \notin SentPos(id)
      /\ SentPos(id)' = SentPos(id) \cup {pos}
      /\ \A i \in Id : i # id => SentPos(i)' = SentPos(i)
  <2>1. \A i \in Id, q \in Pos : DataPacket(i, q) = p <=> i = id /\ q = pos
    BY <1>1 DEF DataPacket
  <2>2. SentPos(id) \subseteq Pos /\ pos \notin SentPos(id)
    BY <1>1 DEF SentPos
  <2>3. \A i \in Id, q \in Pos : DataPacket(i, q) \notin unsent' <=> DataPacket(i, q) \notin unsent \/ (i = id /\ q = pos)
    BY <1>2, <2>1
  <2>4. SentPos(id)' = SentPos(id) \cup {pos}
    BY <1>1, <2>3 DEF SentPos
  <2>5. \A i \in Id : i # id => SentPos(i)' = SentPos(i)
    BY <2>3 DEF SentPos
  <2> QED
    BY <2>2, <2>4, <2>5
<1>4. /\ outbound[id].product = Contents(id, SentPos(id))
      /\ outbound[id].count = Cardinality(SentPos(id))
  BY <1>1, <1>3 DEF IInv, OutboundMirrorsSent
<1>5. product = Contents(id, SentPos(id)')
  <2>1. SymDiff(Contents(id, SentPos(id)), FECData(DataPacket(id, pos))) = Contents(id, SentPos(id) \cup {pos})
    BY <1>3, AddPacket
  <2> QED
    BY <1>1, <1>3, <1>4, <2>1
<1>6. count = Cardinality(SentPos(id)') /\ count \in 1 .. Size /\ (count = Size => SentPos(id)' = Pos)
  <2>1. IsFiniteSet(SentPos(id))
    BY <1>3, PosIsFinite, FS_Subset
  <2>2. Cardinality(SentPos(id) \cup {pos}) = Cardinality(SentPos(id)) + 1
    BY <1>3, <2>1, FS_AddElement
  <2>3. SentPos(id) \cup {pos} \subseteq Pos
    BY <1>1, <1>3
  <2>4. /\ Cardinality(SentPos(id) \cup {pos}) <= Size
        /\ Cardinality(SentPos(id) \cup {pos}) = Size => SentPos(id) \cup {pos} = Pos
    BY <2>3, PosIsFinite, FS_Subset
  <2>5. Cardinality(SentPos(id)) \in Nat
    BY <2>1, FS_CardinalityType
  <2> QED
    BY <1>3, <1>4, <2>2, <2>4, <2>5, XorFecAssumption
<1> HIDE DEF count
<1>7. product \subseteq Field /\ FECData(p) \subseteq Field
  <2>1. SentPos(id)' \subseteq Pos
    BY <1>1, <1>3
  <2> QED
    BY <1>1, <1>5, <2>1, ContentsAreFields, PacketFields
<1> HIDE DEF product
<1>8. Types'
  <2>1. net' \subseteq Message
    <3>1. data \in Message /\ parity \in Message
      BY <1>1, <1>7 DEF Message
    <3> HIDE DEF data, parity
    <3> QED
      BY <1>2, <3>1 DEF IInv, Types
  <2>2. outbound' \in [Id -> [product : SUBSET Field, count : 0 .. Size - 1]]
    <3>1. 0 \in 0 .. Size - 1 /\ (count # Size => count \in 0 .. Size - 1)
      BY <1>6, XorFecAssumption
    <3>2. outbound \in [Id -> [product : SUBSET Field, count : 0 .. Size - 1]]
      BY DEF IInv, Types
    <3> QED
      BY <1>1, <1>2, <1>7, <3>1, <3>2
  <2> QED
    BY <1>2, <2>1, <2>2 DEF IInv, Types, histVars
<1>9. OutboundMirrorsSent'
  <2> SUFFICES ASSUME NEW i \in Id, SentPos(i)' # Pos
               PROVE  /\ outbound'[i].product = Contents(i, SentPos(i)')
                      /\ outbound'[i].count = Cardinality(SentPos(i)')
    BY DEF OutboundMirrorsSent, Contents
  <2>1. DOMAIN outbound = Id
    BY DEF IInv, Types
  <2>2. CASE i = id
    <3>1. outbound'[i] = [product |-> product, count |-> count]
      BY <1>2, <1>6, <2>1, <2>2
    <3> QED
      BY <1>5, <1>6, <2>2, <3>1
  <2>3. CASE i # id
    <3>1. outbound'[i] = outbound[i] /\ SentPos(i)' = SentPos(i)
      BY <1>2, <1>3, <2>1, <2>3
    <3> QED
      BY <3>1 DEF IInv, OutboundMirrorsSent
  <2> QED
    BY <2>2, <2>3
<1>10. MessagesCarry'
  <2>1. Carries(data)
    BY <1>1 DEF Carries, IsData, Contents
  <2>2. count = Size => Carries(parity)
    <3>1. ~IsData(parity)
      BY XorFecAssumption DEF IsData
    <3> QED
      BY <1>5, <1>6, <3>1 DEF Carries
  <2> HIDE DEF data, parity
  <2>3. \A m \in net' : Carries(m)
    BY <1>2, <2>1, <2>2 DEF IInv, MessagesCarry
  <2> QED
    BY <1>2, <2>3 DEF IInv, MessagesCarry
<1>11. EntriesOwned' /\ RecoveredIsPacket' /\ ReadyIsClaimed'
  BY <1>2 DEF IInv, EntriesOwned, Owned, RecoveredIsPacket, ReadyIsClaimed, histVars
<1> QED
  BY <1>8, <1>9, <1>10, <1>11 DEF IInv

LEMMA LoseStep ==
    ASSUME IInv, NEW m \in net, Lose(m)
    PROVE  IInv'
<1>1. /\ net' = net \ {m} /\ lost' = lost \cup {m}
      /\ UNCHANGED <<sendVars, heap, table, tasks, written, expired, prunes, recovered, pruned>>
  BY DEF Lose
<1>2. Types'
  BY <1>1 DEF IInv, Types, sendVars
<1>3. OutboundMirrorsSent' /\ MessagesCarry'
  BY <1>1 DEF IInv, OutboundMirrorsSent, SentPos, MessagesCarry, sendVars
<1>4. EntriesOwned' /\ RecoveredIsPacket' /\ ReadyIsClaimed'
  BY <1>1 DEF IInv, EntriesOwned, Owned, RecoveredIsPacket, ReadyIsClaimed
<1> QED
  BY <1>2, <1>3, <1>4 DEF IInv

\* A fresh entry is not ready: it has no parity.
LEMMA FreshEntry ==
    /\ Entry \in Entries
    /\ ~Ready(Entry)
    /\ \A id \in Id : Holds(Entry, id)
BY DEF Entry, Entries, Ready, Holds, Contents

\* A packet's task finds the entry of its batch or makes one.
LEMMA FetchStep ==
    ASSUME IInv, NEW m \in net, Fetch(m),
           UNCHANGED <<unsent, outbound, expired, prunes, recovered, pruned, lost>>,
           net' \subseteq net, written' \subseteq Packet
    PROVE  IInv'
<1> DEFINE k == IF table[m.id] # 0 THEN table[m.id] ELSE Len(heap) + 1
           t == [m |-> m, pc |-> "add", ref |-> k, result |-> {}]
<1>1. /\ m \in Message /\ m.id \in Id /\ Carries(m)
      /\ heap \in Seq(Entries) /\ Len(heap) \in Nat /\ DOMAIN heap = 1 .. Len(heap)
      /\ table \in [Id -> 0 .. Len(heap)]
  BY DEF IInv, Types, Message, MessagesCarry
<1>2. /\ tasks' = tasks \cup {t}
      /\ \/ table[m.id] # 0 /\ UNCHANGED <<heap, table>>
         \/ /\ table[m.id] = 0
            /\ heap' = Append(heap, Entry)
            /\ table' = [table EXCEPT ![m.id] = Len(heap) + 1]
  <2>1. CASE table[m.id] # 0
    BY <2>1 DEF Fetch
  <2>2. CASE table[m.id] = 0
    <3>1. heap' = Append(heap, Entry)
      BY <2>2 DEF Fetch
    <3>2. Len(heap') = Len(heap) + 1
      BY <1>1, <3>1, FreshEntry
    <3> QED
      BY <2>2, <3>1, <3>2 DEF Fetch
  <2> QED
    BY <2>1, <2>2
<1>3. /\ k \in Nat /\ k \in 1 .. Len(heap') /\ k = table'[m.id]
      /\ heap' \in Seq(Entries) /\ Len(heap) <= Len(heap') /\ DOMAIN heap' = 1 .. Len(heap')
      /\ table' \in [Id -> 0 .. Len(heap')]
      /\ \A j \in DOMAIN heap : heap'[j] = heap[j]
      /\ \A j \in DOMAIN heap' : j \in DOMAIN heap \/ (j = k /\ heap'[j] = Entry /\ table[m.id] = 0)
  <2>1. CASE table[m.id] # 0
    BY <1>1, <1>2, <2>1
  <2>2. CASE table[m.id] = 0
    <3>1. heap' = Append(heap, Entry) /\ k = Len(heap) + 1 /\ table' = [table EXCEPT ![m.id] = k]
      BY <1>2, <2>2
    <3>2. heap' \in Seq(Entries) /\ Len(heap') = k /\ DOMAIN heap' = 1 .. k
      BY <1>1, <3>1, FreshEntry
    <3>3. \A j \in 1 .. Len(heap) : heap'[j] = heap[j]
      BY <1>1, <3>1, FreshEntry
    <3>4. heap'[k] = Entry
      BY <1>1, <3>1, FreshEntry
    <3> QED
      BY <1>1, <2>2, <3>1, <3>2, <3>3, <3>4
  <2> QED
    BY <2>1, <2>2
<1>4. t \in Task
  BY <1>1, <1>3 DEF Task
<1> HIDE DEF k
<1>5. Types'
  <2>1. tasks' \subseteq Task /\ \A u \in tasks' : u.ref \in 1 .. Len(heap')
    <3>1. t.ref = k
      OBVIOUS
    <3> HIDE DEF t
    <3> SUFFICES ASSUME NEW u \in tasks' PROVE u \in Task /\ u.ref \in 1 .. Len(heap')
      OBVIOUS
    <3>2. CASE u = t
      BY <1>3, <1>4, <3>1, <3>2
    <3>3. CASE u \in tasks
      <4>1. u \in Task /\ u.ref \in 1 .. Len(heap)
        BY <3>3 DEF IInv, Types
      <4>2. Len(heap') \in Nat
        BY <1>3
      <4> QED
        BY <1>1, <1>3, <4>1, <4>2
    <3> QED
      BY <1>2, <3>2, <3>3
  <2> QED
    BY <1>3, <2>1 DEF IInv, Types
<1>6. OutboundMirrorsSent' /\ MessagesCarry'
  <2>1. t.m = m
    OBVIOUS
  <2> HIDE DEF t
  <2> QED
    BY <1>1, <1>2, <2>1 DEF IInv, OutboundMirrorsSent, SentPos, MessagesCarry
<1>7. EntriesOwned'
  <2>1. PICK own \in [DOMAIN heap -> Id] : Owned(own)
    BY DEF IInv, EntriesOwned
  <2> DEFINE own2 == [j \in DOMAIN heap' |-> IF j \in DOMAIN heap THEN own[j] ELSE m.id]
  <2>2. own2 \in [DOMAIN heap' -> Id]
    BY <1>1
  <2>3. \A j \in DOMAIN heap' : Holds(heap'[j], own2[j])
    BY <1>1, <1>3, <2>1, FreshEntry DEF Owned
  <2>4. own2[k] = m.id
    <3>1. k \in DOMAIN heap'
      BY <1>3
    <3>2. CASE table[m.id] # 0
      <4>1. k = table[m.id] /\ k \in DOMAIN heap
        BY <1>1, <3>2 DEF k
      <4> QED
        BY <1>1, <2>1, <3>1, <3>2, <4>1 DEF Owned
    <3>3. CASE table[m.id] = 0
      <4>1. k \notin DOMAIN heap
        BY <1>1, <3>3 DEF k
      <4> QED
        BY <3>1, <4>1
    <3> QED
      BY <3>2, <3>3
  <2>5. \A id \in Id : table'[id] # 0 => own2[table'[id]] = id
    <3> SUFFICES ASSUME NEW id \in Id, table'[id] # 0, id # m.id PROVE own2[table'[id]] = id
      BY <1>3, <2>4
    <3>1. table'[id] = table[id] /\ table[id] \in DOMAIN heap
      BY <1>1, <1>2
    <3>2. table[id] \in DOMAIN heap'
      BY <1>1, <1>3, <3>1
    <3> QED
      BY <2>1, <3>1, <3>2 DEF Owned
  <2>6. \A u \in tasks' : own2[u.ref] = u.m.id
    <3>1. t.ref = k /\ t.m = m
      OBVIOUS
    <3> HIDE DEF t
    <3>2. ASSUME NEW u \in tasks PROVE own2[u.ref] = u.m.id
      <4>1. u.ref \in DOMAIN heap
        BY <1>1 DEF IInv, Types
      <4>2. u.ref \in DOMAIN heap'
        BY <1>1, <1>3, <4>1
      <4> QED
        BY <2>1, <4>1, <4>2 DEF Owned
    <3> QED
      BY <1>2, <2>4, <3>1, <3>2
  <2> HIDE DEF own2
  <2> QED
    BY <2>2, <2>3, <2>5, <2>6 DEF EntriesOwned, Owned
<1>8. ReadyIsClaimed'
  <2> SUFFICES ASSUME NEW id \in Id, table'[id] # 0, Ready(heap'[table'[id]])
               PROVE  \E u \in tasks' : u.pc = "recover" /\ u.m.id = id
    BY DEF ReadyIsClaimed, Ready
  <2>1. table'[id] \in DOMAIN heap'
    BY <1>3
  <2>2. table'[id] \in DOMAIN heap
    BY <1>3, <2>1, FreshEntry
  <2>3. table'[id] = table[id]
    BY <1>1, <1>2, <2>2
  <2>4. Ready(heap[table[id]])
    BY <1>3, <2>2, <2>3
  <2> QED
    BY <1>2, <2>3, <2>4 DEF IInv, ReadyIsClaimed
<1>9. RecoveredIsPacket'
  BY DEF IInv, RecoveredIsPacket
<1> QED
  BY <1>5, <1>6, <1>7, <1>8, <1>9 DEF IInv

LEMMA ArriveStep ==
    ASSUME IInv, NEW m \in net, Arrive(m)
    PROVE  IInv'
<1>1. /\ net' = net \ {m}
      /\ UNCHANGED <<sendVars, expired, prunes, histVars>>
  BY DEF Arrive
<1>2. CASE UNCHANGED <<heap, table, tasks, written>>
  <2>1. Types'
    BY <1>1, <1>2 DEF IInv, Types, sendVars, histVars
  <2>2. OutboundMirrorsSent' /\ MessagesCarry'
    BY <1>1, <1>2 DEF IInv, OutboundMirrorsSent, SentPos, MessagesCarry, sendVars
  <2>3. EntriesOwned' /\ RecoveredIsPacket' /\ ReadyIsClaimed'
    BY <1>1, <1>2 DEF IInv, EntriesOwned, Owned, RecoveredIsPacket, ReadyIsClaimed, histVars
  <2> QED
    BY <2>1, <2>2, <2>3 DEF IInv
<1>3. CASE Fetch(m) /\ written' \subseteq Packet
  BY <1>1, <1>3, FetchStep DEF sendVars, histVars
<1>4. Fetch(m) => written' \subseteq Packet
  <2>1. IsData(m) => DataPacket(m.id, m.pos) \in Packet
    BY XorFecAssumption DEF IInv, Types, Message, IsData, DataPacket, Packet, Pos
  <2>2. written \subseteq Packet
    BY DEF IInv, Types
  <2>3. \/ written' = written
        \/ IsData(m) /\ written' = written \cup {DataPacket(m.id, m.pos)}
    BY DEF Arrive
  <2> QED
    BY <2>1, <2>2, <2>3
<1> QED
  BY <1>2, <1>3, <1>4 DEF Arrive

\* The entry of a task after its packet has been added still belongs to the
\* packet's batch, whichever packets the entry had before.
LEMMA AddToHolds ==
    ASSUME NEW e \in Entries, NEW m \in Message, Carries(m), Holds(e, m.id)
    PROVE  AddTo(e, m) \in Entries /\ Holds(AddTo(e, m), m.id)
<1> DEFINE added == [e EXCEPT !.mask = @ \cup {m.pos}, !.product = SymDiff(@, m.data)]
           closed == [e EXCEPT !.hasParity = TRUE, !.parity = m.data]
<1>1. m.id \in Id /\ m.data \subseteq Field
  BY DEF Message
<1>2. CASE IsData(m) /\ m.pos \notin e.mask /\ AddTo(e, m) = added
  <2>1. m.pos \in Pos /\ e.mask \subseteq Pos
    BY <1>2, XorFecAssumption DEF Message, IsData, Pos, Entries
  <2>2. m.data = FECData(DataPacket(m.id, m.pos))
    BY <1>2 DEF Carries, Contents
  <2>3. e.product = Contents(m.id, e.mask) /\ (e.hasParity => e.parity = Contents(m.id, Pos))
    BY DEF Holds
  <2>4. SymDiff(e.product, m.data) = Contents(m.id, e.mask \cup {m.pos})
    BY <1>2, <2>2, <2>3, AddPacket
  <2>5. added.mask = e.mask \cup {m.pos} /\ added.product = SymDiff(e.product, m.data)
        /\ added.parity = e.parity /\ added.hasParity = e.hasParity
    BY DEF Entries
  <2>6. Contents(m.id, e.mask \cup {m.pos}) \subseteq Field
    BY <1>1, <2>1, ContentsAreFields
  <2>7. added \in Entries
    BY <2>1, <2>4, <2>6 DEF Entries
  <2> HIDE DEF added
  <2> QED
    BY <1>2, <2>3, <2>4, <2>5, <2>7 DEF Holds
<1>3. CASE ~IsData(m) /\ AddTo(e, m) = closed
  <2>1. m.data = Contents(m.id, Pos)
    BY <1>3 DEF Carries
  <2>2. closed.mask = e.mask /\ closed.product = e.product /\ closed.parity = m.data
    BY DEF Entries
  <2>3. closed \in Entries
    BY <1>1 DEF Entries
  <2> HIDE DEF closed
  <2> QED
    BY <1>3, <2>1, <2>2, <2>3 DEF Holds
<1>4. CASE AddTo(e, m) = e
  BY <1>4
<1> QED
  BY <1>2, <1>3, <1>4 DEF AddTo

\* A task adds its packet under the entry's lock; if the batch is ready then,
\* that task goes on to recover it.
LEMMA AddStep ==
    ASSUME IInv, NEW t \in tasks, Add(t)
    PROVE  IInv'
<1> DEFINE e == AddTo(heap[t.ref], t.m)
           u == [t EXCEPT !.pc = "recover"]
<1>1. /\ heap' = [heap EXCEPT ![t.ref] = e]
      /\ tasks' = (tasks \ {t}) \cup (IF Ready(heap'[t.ref]) THEN {u} ELSE {})
      /\ UNCHANGED <<sendVars, net, table, written, expired, prunes, histVars>>
  BY DEF Add
<1>2. /\ t \in Task /\ t.m \in Message /\ Carries(t.m)
      /\ heap \in Seq(Entries) /\ t.ref \in DOMAIN heap
      /\ \A j \in DOMAIN heap : heap[j] \in Entries
  BY DEF IInv, Types, Task, MessagesCarry
<1>3. PICK own \in [DOMAIN heap -> Id] : Owned(own)
  BY DEF IInv, EntriesOwned
<1>4. own[t.ref] = t.m.id /\ Holds(heap[t.ref], t.m.id)
  BY <1>2, <1>3 DEF Owned
<1>5. e \in Entries /\ Holds(e, t.m.id)
  BY <1>2, <1>4, AddToHolds
<1> HIDE DEF e
<1>6. /\ heap' \in Seq(Entries) /\ Len(heap') = Len(heap) /\ DOMAIN heap' = DOMAIN heap
      /\ heap'[t.ref] = e
      /\ \A j \in DOMAIN heap : j # t.ref => heap'[j] = heap[j]
  BY <1>1, <1>2, <1>5
<1>7. u \in Task /\ u.m = t.m /\ u.ref = t.ref /\ u.pc = "recover"
  BY <1>2 DEF Task
<1> HIDE DEF u
<1>8. \A v \in tasks' : v \in tasks \/ v = u
  BY <1>1
<1>9. Types'
  BY <1>1, <1>2, <1>6, <1>7, <1>8 DEF IInv, Types, sendVars, histVars
<1>10. OutboundMirrorsSent' /\ MessagesCarry' /\ RecoveredIsPacket'
  <2>1. OutboundMirrorsSent' /\ RecoveredIsPacket'
    BY <1>1 DEF IInv, OutboundMirrorsSent, SentPos, RecoveredIsPacket, sendVars, histVars
  <2>2. MessagesCarry'
    BY <1>1, <1>2, <1>7, <1>8 DEF IInv, MessagesCarry
  <2> QED
    BY <2>1, <2>2
<1>11. EntriesOwned'
  <2>1. \A j \in DOMAIN heap' : Holds(heap'[j], own[j])
    BY <1>3, <1>4, <1>5, <1>6 DEF Owned
  <2>2. \A v \in tasks' : own[v.ref] = v.m.id
    BY <1>3, <1>4, <1>7, <1>8 DEF Owned
  <2>3. Owned(own)'
    BY <1>1, <1>3, <2>1, <2>2 DEF Owned
  <2> QED
    BY <1>3, <1>6, <2>3 DEF EntriesOwned
<1>12. ReadyIsClaimed'
  <2> SUFFICES ASSUME NEW id \in Id, table[id] # 0, Ready(heap'[table[id]])
               PROVE  \E v \in tasks' : v.pc = "recover" /\ v.m.id = id
    BY <1>1 DEF ReadyIsClaimed, Ready
  <2>1. table[id] \in DOMAIN heap
    BY <1>2 DEF IInv, Types
  <2>2. CASE table[id] = t.ref
    <3>1. id = t.m.id
      BY <1>3, <1>4, <2>2 DEF Owned
    <3> QED
      BY <1>1, <1>7, <2>2, <3>1
  <2>3. CASE table[id] # t.ref
    <3>1. Ready(heap[table[id]])
      BY <1>6, <2>1, <2>3
    <3>2. PICK v \in tasks : v.pc = "recover" /\ v.m.id = id
      BY <3>1 DEF IInv, ReadyIsClaimed
    <3>3. v # t
      BY <3>2 DEF Add
    <3> QED
      BY <1>1, <3>2, <3>3
  <2> QED
    BY <2>2, <2>3
<1> QED
  BY <1>9, <1>10, <1>11, <1>12 DEF IInv

\* What recover yields is the packet the batch lacked.
LEMMA RecoverYields ==
    ASSUME IInv, NEW id \in Id, NEW r \in Recover(id)
    PROVE  r \subseteq Field /\ \E pos \in Pos : r = FECData(DataPacket(id, pos))
<1> DEFINE e == heap[table[id]]
<1>1. table[id] # 0 /\ Ready(e) /\ r = SymDiff(e.product, e.parity)
  BY DEF Recover
<1>2. table[id] \in DOMAIN heap /\ e \in Entries
  BY <1>1 DEF IInv, Types
<1>3. Holds(e, id)
  BY <1>1, <1>2 DEF IInv, EntriesOwned, Owned
<1> HIDE DEF e
<1>4. e.mask \subseteq Pos /\ r = SymDiff(Contents(id, e.mask), Contents(id, Pos))
  BY <1>1, <1>2, <1>3 DEF Holds, Ready, Entries
<1>5. PICK pos \in Pos : Pos \ e.mask = {pos}
  BY <1>1, <1>4, OneMissing DEF Ready
<1>6. r = Contents(id, {pos})
  BY <1>4, <1>5, XorLeavesMissing
<1>7. r = FECData(DataPacket(id, pos))
  BY <1>6 DEF Contents
<1> QED
  BY <1>7, PacketFields

LEMMA PositionsArePackets == \A r : Positions(r) \subseteq Packet
BY DEF Positions, Packet

LEMMA NoEntryIsInRange == ASSUME IInv PROVE 0 \in 0 .. Len(heap)
BY DEF IInv, Types

\* recover: the entry leaves the map, its yield joins what was recovered; the
\* task goes on, to write it, or ends.
LEMMA RecoverStep ==
    ASSUME IInv, NEW t \in tasks, NEW written2 \in SUBSET Packet,
           written' = written2,
           tasks' \subseteq (tasks \ {t}) \cup {[t EXCEPT !.pc = "write", !.result = r] : r \in Recover(t.m.id)},
           tasks \ {t} \subseteq tasks',
           recovered' = recovered \cup {<<t.m.id, r>> : r \in Recover(t.m.id)},
           table' = [table EXCEPT ![t.m.id] = 0],
           UNCHANGED <<sendVars, net, heap, expired, prunes, pruned, lost>>
    PROVE  IInv'
<1> DEFINE id == t.m.id
<1>1. t \in Task /\ id \in Id /\ t.ref \in 1 .. Len(heap)
  BY DEF IInv, Types, Task, Message
<1>2. \A v \in tasks' : v \in Task /\ \E w \in tasks : v.ref = w.ref /\ v.m = w.m
  <2>1. ASSUME NEW r \in Recover(id), NEW v, v = [t EXCEPT !.pc = "write", !.result = r]
        PROVE  v \in Task /\ v.ref = t.ref /\ v.m = t.m
    <3>1. r \subseteq Field
      BY <1>1, RecoverYields
    <3> QED
      BY <1>1, <2>1, <3>1 DEF Task
  <2>2. tasks \subseteq Task
    BY DEF IInv, Types
  <2> TAKE v \in tasks'
  <2>3. CASE v \in tasks
    BY <2>2, <2>3
  <2>4. CASE v \notin tasks
    <3>1. PICK r \in Recover(id) : v = [t EXCEPT !.pc = "write", !.result = r]
      BY <2>4
    <3> QED
      BY <2>1, <3>1
  <2> QED
    BY <2>3, <2>4
<1>3. heap \in Seq(Entries) /\ table \in [Id -> 0 .. Len(heap)]
  BY DEF IInv, Types
<1>4. Types'
  <2>1. table' \in [Id -> 0 .. Len(heap)]
    <3>1. 0 \in 0 .. Len(heap)
      BY NoEntryIsInRange
    <3> QED
      BY <1>1, <1>3, <3>1
  <2>2. tasks' \subseteq Task /\ \A v \in tasks' : v.ref \in 1 .. Len(heap)
    BY <1>2 DEF IInv, Types
  <2> QED
    BY <2>1, <2>2 DEF IInv, Types, sendVars
<1>5. OutboundMirrorsSent'
  BY DEF IInv, OutboundMirrorsSent, SentPos, sendVars
<1>6. MessagesCarry'
  BY <1>2 DEF IInv, MessagesCarry
<1>7. EntriesOwned'
  <2>1. PICK own \in [DOMAIN heap -> Id] : Owned(own)
    BY DEF IInv, EntriesOwned
  <2>2. \A i \in Id : table'[i] # 0 => table'[i] = table[i]
    BY <1>1 DEF IInv, Types
  <2>3. \A v \in tasks' : own[v.ref] = v.m.id
    BY <1>2, <2>1 DEF Owned
  <2>4. Owned(own)'
    BY <2>1, <2>2, <2>3 DEF Owned
  <2> QED
    BY <2>4 DEF EntriesOwned
<1>8. RecoveredIsPacket'
  <2>1. ASSUME NEW r \in Recover(id), NEW x, x = <<id, r>>
        PROVE  x[1] \in Id /\ \E pos \in Pos : x[2] = FECData(DataPacket(x[1], pos))
    BY <1>1, <2>1, RecoverYields
  <2>2. \A x \in recovered' : x \in recovered \/ \E r \in Recover(id) : x = <<id, r>>
    OBVIOUS
  <2> QED
    BY <2>1, <2>2 DEF IInv, RecoveredIsPacket
<1>9. ReadyIsClaimed'
  <2> SUFFICES ASSUME NEW i \in Id, table'[i] # 0, Ready(heap[table'[i]])
               PROVE  \E v \in tasks' : v.pc = "recover" /\ v.m.id = i
    BY DEF ReadyIsClaimed, Ready
  <2>1. i # id /\ table'[i] = table[i]
    BY <1>1 DEF IInv, Types
  <2>2. PICK v \in tasks : v.pc = "recover" /\ v.m.id = i
    BY <2>1 DEF IInv, ReadyIsClaimed
  <2> QED
    BY <2>1, <2>2
<1> QED
  BY <1>4, <1>5, <1>6, <1>7, <1>8, <1>9 DEF IInv

LEMMA RecoverForDataStep ==
    ASSUME IInv, NEW t \in tasks, RecoverForData(t)
    PROVE  IInv'
<1>1. written' \in SUBSET Packet
  BY DEF RecoverForData, IInv, Types
<1> QED
  BY <1>1, RecoverStep DEF RecoverForData

LEMMA RecoverForParityStep ==
    ASSUME IInv, NEW t \in tasks, RecoverForParity(t)
    PROVE  IInv'
<1>1. written' \in SUBSET Packet
  <2>1. written' = written \cup UNION {Positions(r) : r \in Recover(t.m.id)}
    BY DEF RecoverForParity
  <2>2. written \subseteq Packet
    BY DEF IInv, Types
  <2> QED
    BY <2>1, <2>2, PositionsArePackets
<1> QED
  BY <1>1, RecoverStep DEF RecoverForParity

\* The steps that touch neither an entry nor a task on its way to recover.
LEMMA WriteRecoveredStep ==
    ASSUME IInv, NEW t \in tasks, WriteRecovered(t)
    PROVE  IInv'
<1>1. /\ t.pc = "write" /\ tasks' = tasks \ {t}
      /\ written' = written \cup Positions(t.result)
      /\ UNCHANGED <<sendVars, net, heap, table, expired, prunes, histVars>>
  BY DEF WriteRecovered
<1>2. Types'
  BY <1>1, PositionsArePackets DEF IInv, Types, sendVars, histVars
<1>3. OutboundMirrorsSent' /\ MessagesCarry' /\ RecoveredIsPacket'
  BY <1>1 DEF IInv, OutboundMirrorsSent, SentPos, MessagesCarry, RecoveredIsPacket, sendVars, histVars
<1>4. EntriesOwned'
  BY <1>1 DEF IInv, EntriesOwned, Owned
<1>5. ReadyIsClaimed'
  <2> SUFFICES ASSUME NEW id \in Id, table[id] # 0, Ready(heap[table[id]])
               PROVE  \E v \in tasks' : v.pc = "recover" /\ v.m.id = id
    BY <1>1 DEF ReadyIsClaimed, Ready
  <2>1. PICK v \in tasks : v.pc = "recover" /\ v.m.id = id
    BY DEF IInv, ReadyIsClaimed
  <2>2. v # t
    BY <1>1, <2>1
  <2> QED
    BY <1>1, <2>1, <2>2
<1> QED
  BY <1>2, <1>3, <1>4, <1>5 DEF IInv

LEMMA PruneScanStep ==
    ASSUME IInv, NEW ids \in SUBSET Id, PruneScan(ids)
    PROVE  IInv'
<1>1. /\ expired' = ids /\ prunes < MaxPrunes /\ prunes' = prunes + 1
      /\ UNCHANGED <<sendVars, net, heap, table, tasks, written, histVars>>
  BY DEF PruneScan
<1>2. prunes' \in 0 .. MaxPrunes
  BY <1>1, XorFecAssumption DEF IInv, Types
<1>3. Types'
  BY <1>1, <1>2 DEF IInv, Types, sendVars, histVars
<1>4. OutboundMirrorsSent' /\ MessagesCarry' /\ RecoveredIsPacket'
  BY <1>1 DEF IInv, OutboundMirrorsSent, SentPos, MessagesCarry, RecoveredIsPacket, sendVars, histVars
<1>5. EntriesOwned' /\ ReadyIsClaimed'
  BY <1>1 DEF IInv, EntriesOwned, Owned, ReadyIsClaimed, Ready
<1> QED
  BY <1>3, <1>4, <1>5 DEF IInv

LEMMA PruneRemoveStep ==
    ASSUME IInv, PruneRemove
    PROVE  IInv'
<1>1. /\ expired' = {} /\ pruned' = pruned \cup expired
      /\ table' = [id \in Id |-> IF id \in expired THEN 0 ELSE table[id]]
      /\ UNCHANGED <<sendVars, net, heap, tasks, written, prunes, recovered, lost>>
  BY DEF PruneRemove
<1>2. heap \in Seq(Entries) /\ table \in [Id -> 0 .. Len(heap)]
  BY DEF IInv, Types
<1>3. /\ table' \in [Id -> 0 .. Len(heap)]
      /\ \A id \in Id : table'[id] # 0 => table'[id] = table[id]
  <2>1. 0 \in 0 .. Len(heap)
    BY <1>2
  <2> QED
    BY <1>1, <1>2, <2>1
<1>4. Types'
  BY <1>1, <1>3 DEF IInv, Types, sendVars
<1>5. OutboundMirrorsSent' /\ MessagesCarry' /\ RecoveredIsPacket'
  BY <1>1 DEF IInv, OutboundMirrorsSent, SentPos, MessagesCarry, RecoveredIsPacket, sendVars
<1>6. EntriesOwned'
  <2>1. PICK own \in [DOMAIN heap -> Id] : Owned(own)
    BY DEF IInv, EntriesOwned
  <2>2. Owned(own)'
    BY <1>1, <1>3, <2>1 DEF Owned
  <2> QED
    BY <1>1, <2>2 DEF EntriesOwned
<1>7. ReadyIsClaimed'
  BY <1>1, <1>3 DEF IInv, ReadyIsClaimed, Ready
<1> QED
  BY <1>4, <1>5, <1>6, <1>7 DEF IInv

LEMMA NextStep == IInv /\ [Next]_vars => IInv'
<1> SUFFICES ASSUME IInv, [Next]_vars PROVE IInv'
  OBVIOUS
<1>1. CASE UNCHANGED vars
  <2>1. Types'
    BY <1>1 DEF vars, sendVars, histVars, IInv, Types
  <2>2. OutboundMirrorsSent' /\ MessagesCarry' /\ RecoveredIsPacket'
    BY <1>1 DEF vars, sendVars, histVars, IInv, OutboundMirrorsSent, SentPos, MessagesCarry,
           RecoveredIsPacket
  <2>3. EntriesOwned' /\ ReadyIsClaimed'
    BY <1>1 DEF vars, sendVars, histVars, IInv, EntriesOwned, Owned, ReadyIsClaimed, Ready
  <2> QED
    BY <2>1, <2>2, <2>3 DEF IInv
<1>2. CASE TaskStep
  BY <1>2, AddStep, RecoverForDataStep, RecoverForParityStep, WriteRecoveredStep DEF TaskStep
<1> QED
  BY <1>1, <1>2, SendStep, LoseStep, ArriveStep, PruneScanStep, PruneRemoveStep DEF Next

-----------------------------------------------------------------------------
(* The theorems.                                                            *)

\* An entry belongs to one batch and holds the XOR of exactly the packets its
\* mask names, even after the map has forgotten it.
THEOREM Invariance == Spec => []IInv
BY InitIInv, NextStep, PTL DEF Spec

\* No task and no map entry ever points outside the entries made, and the
\* sender's counter stays below the batch size.
THEOREM TypeCorrect == Spec => []TypeOK
<1>1. Types => TypeOK
  <2> SUFFICES ASSUME Types PROVE TypeOK
    OBVIOUS
  <2>1. \A id \in Id : outbound[id].count \in 0 .. Size - 1
    BY DEF Types
  <2>2. \A m \in net \cup lost : m.id \in Id /\ m.pos \in 0 .. Size
    BY DEF Types, Message
  <2>3. \A t \in tasks : t.pc \in {"add", "recover", "write"} /\ t.ref \in 1 .. Len(heap)
    BY DEF Types, Task
  <2> QED
    BY <2>1, <2>2, <2>3 DEF Types, TypeOK, Packet
<1> QED
  BY Invariance, <1>1, PTL DEF IInv

\* Whatever the order of packets, recoveries and sweeps, a batch that can be
\* recovered has a task on its way to do it.
THEOREM ReadyBatchesAreClaimed == Spec => []ReadyIsClaimed
BY Invariance, PTL DEF IInv

\* A debug build recovers whole packets, position and payload, of the batch
\* they belong to, and never a mixture.
THEOREM RecoversWholePackets ==
    ASSUME DebugAssertions
    PROVE  Spec => []RecoveredIsWhole
<1>1. IInv => RecoveredIsWhole
  BY DEF IInv, RecoveredIsPacket, RecoveredIsWhole, FECData
<1> QED
  BY Invariance, <1>1, PTL

\* Any build recovers the fields the sender XORed of one packet: a build without
\* debug assertions writes the right place with the wrong bytes.
THEOREM RecoversWhatWasXored == Spec => []RecoveredIsPacket
BY Invariance, PTL DEF IInv
===============================================================================
