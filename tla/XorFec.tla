-------------------------------- MODULE XorFec --------------------------------
(***************************************************************************)
(* The XOR forward error correction (packet_processor/fec/mod.rs, xor.rs)  *)
(* of one session, with the tasks that call it.                            *)
(*                                                                         *)
(* The sender XORs the packets of a batch into one parity packet.  At the  *)
(* receiver every packet is a task: it takes the batch's entry from the     *)
(* `inbound` map (one lock), then changes the entry (the entry's own lock), *)
(* and, when that made the batch ready, removes it and recovers the missing *)
(* packet.  Data packets do the first two under the `connections` lock of   *)
(* received_data_packet; parity packets and `prune` do not, so an entry may *)
(* leave the map while a task still holds it.                               *)
(*                                                                         *)
(* XOR is symmetric difference: a packet's FECData is the set of its fields, *)
(* its byte position and its payload, and a recovered packet is whatever is *)
(* left of the product.                                                     *)
(***************************************************************************)
EXTENDS Integers, Sequences, FiniteSets, FiniteSetsExt

CONSTANTS
    Id,               \* batch ids
    Size,             \* packets in a batch
    DebugAssertions,  \* a debug build?  (debug_assert! evaluates its argument)
    MaxPrunes         \* bound: sweeps of the prune task

ASSUME XorFecAssumption ==
    /\ Size \in Nat \ {0}
    /\ DebugAssertions \in BOOLEAN
    /\ MaxPrunes \in Nat

VARIABLES
    unsent,     \* data packets whose `sent` has not run yet
    outbound,   \* outbound[id]: the batch being sent, as [product, count]
    net,        \* packets on their way to the receiver
    heap,       \* every inbound entry made so far; tasks point into it
    table,      \* the `inbound` map: table[id] indexes heap, 0 for none
    tasks,      \* the receiver's tasks
    written,    \* chunks the receiver's buffer holds
    expired,    \* the prune task's expired keys, found but not yet removed
    prunes,     \* sweeps begun (bound)
    recovered,  \* what was recovered so far, as <<id, product>> (history)
    pruned,     \* ids whose entry a sweep removed (history)
    lost        \* packets lost by the network (history)

sendVars == <<unsent, outbound>>
histVars == <<recovered, pruned, lost>>
vars == <<sendVars, net, heap, table, tasks, written, expired, prunes, histVars>>

Pos == 0 .. Size - 1
DataPacket(id, pos) == [id |-> id, pos |-> pos]

\* From<&DataPacket>: the payload is copied by the argument of a debug_assert!,
\* so a build without debug assertions leaves zeros in its place.
FECData(p) ==
    {<<p, "byte_range_start">>} \cup (IF DebugAssertions THEN {<<p, "payload">>} ELSE {})

Entry == [product |-> {}, parity |-> {}, hasParity |-> FALSE, mask |-> {}]

\* A slip: a batch that has more than it needs counts as ready as well.
ReadyAtLeast(e) == Cardinality(e.mask) >= Size - 1 /\ e.hasParity

\* data_received is the number of bits in batch_mask.
Ready(e) == Cardinality(e.mask) = Size - 1 /\ e.hasParity

-----------------------------------------------------------------------------
(* The sender.                                                              *)

\* A slip: the batch is closed one packet too late.
FillsBatchLate(count) == count > Size

\* OutboundBatchData::add: does this packet fill the batch?
FillsBatch(count) == count = Size

\* sent: add the packet to the batch; the one that fills it makes the parity.
Send(p) ==
    /\ p \in unsent
    /\ unsent' = unsent \ {p}
    /\ LET product == SymDiff(outbound[p.id].product, FECData(p))
           count == outbound[p.id].count + 1
           data == [id |-> p.id, pos |-> p.pos, data |-> FECData(p), packet |-> p]
           parity == [id |-> p.id, pos |-> Size, data |-> product, packet |-> p]
       IN  IF FillsBatch(count)
           THEN /\ outbound' = [outbound EXCEPT ![p.id] = [product |-> {}, count |-> 0]]
                /\ net' = net \cup {data, parity}
           ELSE /\ outbound' = [outbound EXCEPT ![p.id] = [product |-> product, count |-> count]]
                /\ net' = net \cup {data}
    /\ UNCHANGED <<heap, table, tasks, written, expired, prunes, histVars>>

Lose(m) ==
    /\ m \in net
    /\ net' = net \ {m}
    /\ lost' = lost \cup {m}
    /\ UNCHANGED <<sendVars, heap, table, tasks, written, expired, prunes, recovered, pruned>>

-----------------------------------------------------------------------------
(* received, in two steps, for data and for parity.                         *)

IsData(m) == m.pos < Size

\* The connections lock is held by a data packet from its write to the end of
\* `received`.
ConnectionsLocked == \E t \in tasks : t.pc = "add" /\ IsData(t.m)

\* The map lock: find the batch's entry or make one, and keep a reference.
Fetch(m) ==
    IF table[m.id] # 0
    THEN /\ tasks' = tasks \cup {[m |-> m, pc |-> "add", ref |-> table[m.id], result |-> {}]}
         /\ UNCHANGED <<heap, table>>
    ELSE /\ heap' = Append(heap, Entry)
         /\ table' = [table EXCEPT ![m.id] = Len(heap')]
         /\ tasks' = tasks \cup {[m |-> m, pc |-> "add", ref |-> Len(heap'), result |-> {}]}

\* A data packet is first written to the buffer; if its chunk is there already
\* the task ends and the batch never sees it.
Arrive(m) ==
    /\ m \in net
    /\ net' = net \ {m}
    /\ IF IsData(m)
       THEN /\ ~ConnectionsLocked
            /\ IF DataPacket(m.id, m.pos) \in written
               THEN UNCHANGED <<heap, table, tasks, written>>
               ELSE /\ written' = written \cup {DataPacket(m.id, m.pos)}
                    /\ Fetch(m)
       ELSE Fetch(m) /\ UNCHANGED written
    /\ UNCHANGED <<sendVars, expired, prunes, histVars>>

\* InboundBatchData::add and ::parity on the entry the task holds.
AddTo(e, m) ==
    IF IsData(m)
    THEN IF Cardinality(e.mask) < Size /\ m.pos \notin e.mask
         THEN [e EXCEPT !.mask = @ \cup {m.pos}, !.product = SymDiff(@, m.data)]
         ELSE e
    ELSE IF e.hasParity THEN e
         ELSE [e EXCEPT !.hasParity = TRUE, !.parity = m.data]

\* A slip: readiness is judged on the entry as it was before the packet.
AddJudgesBefore(t) ==
    /\ t \in tasks /\ t.pc = "add"
    /\ heap' = [heap EXCEPT ![t.ref] = AddTo(@, t.m)]
    /\ tasks' = (tasks \ {t}) \cup
                   (IF Ready(heap[t.ref]) THEN {[t EXCEPT !.pc = "recover"]} ELSE {})
    /\ UNCHANGED <<sendVars, net, table, written, expired, prunes, histVars>>

\* The entry's lock: add the packet; the task that sees the batch ready goes on
\* to recover it.
Add(t) ==
    /\ t \in tasks /\ t.pc = "add"
    /\ heap' = [heap EXCEPT ![t.ref] = AddTo(@, t.m)]
    /\ tasks' = (tasks \ {t}) \cup
                   (IF Ready(heap'[t.ref]) THEN {[t EXCEPT !.pc = "recover"]} ELSE {})
    /\ UNCHANGED <<sendVars, net, table, written, expired, prunes, histVars>>

-----------------------------------------------------------------------------
(* recover and recovered_packet.                                            *)

\* A slip: the batch's state is not looked at again before it is recovered.
RecoverUnchecked(id) ==
    IF table[id] = 0 \/ ~heap[table[id]].hasParity THEN {}
    ELSE {SymDiff(heap[table[id]].product, heap[table[id]].parity)}

\* fec::recover: what the batch yields; nothing if it is gone or not ready.
Recover(id) ==
    IF table[id] = 0 \/ ~Ready(heap[table[id]]) THEN {}
    ELSE {SymDiff(heap[table[id]].product, heap[table[id]].parity)}

\* recovered_packet writes the packet where its byte position says.
Positions(product) ==
    {p \in [id : Id, pos : Pos] : <<p, "byte_range_start">> \in product}

\* A data packet's task: recover with no lock held, ...
RecoverForData(t) ==
    /\ t \in tasks /\ t.pc = "recover" /\ IsData(t.m)
    /\ tasks' = (tasks \ {t}) \cup {[t EXCEPT !.pc = "write", !.result = r] : r \in Recover(t.m.id)}
    /\ recovered' = recovered \cup {<<t.m.id, r>> : r \in Recover(t.m.id)}
    /\ table' = [table EXCEPT ![t.m.id] = 0]
    /\ UNCHANGED <<sendVars, net, heap, written, expired, prunes, pruned, lost>>

\* ... then recovered_packet under the connections lock.
WriteRecovered(t) ==
    /\ t \in tasks /\ t.pc = "write"
    /\ ~ConnectionsLocked
    /\ tasks' = tasks \ {t}
    /\ written' = written \cup Positions(t.result)
    /\ UNCHANGED <<sendVars, net, heap, table, expired, prunes, histVars>>

\* A parity packet's task does both under the connections lock.
RecoverForParity(t) ==
    /\ t \in tasks /\ t.pc = "recover" /\ ~IsData(t.m)
    /\ ~ConnectionsLocked
    /\ tasks' = tasks \ {t}
    /\ written' = written \cup UNION {Positions(r) : r \in Recover(t.m.id)}
    /\ recovered' = recovered \cup {<<t.m.id, r>> : r \in Recover(t.m.id)}
    /\ table' = [table EXCEPT ![t.m.id] = 0]
    /\ UNCHANGED <<sendVars, net, heap, expired, prunes, pruned, lost>>

-----------------------------------------------------------------------------
(* prune: time is not modelled, any entry may have outlived its ttl.        *)

\* Snapshot the map, look at each entry's age.
PruneScan(ids) ==
    /\ prunes < MaxPrunes
    /\ expired = {} /\ ids # {}
    /\ ids \subseteq {id \in Id : table[id] # 0}
    /\ expired' = ids
    /\ prunes' = prunes + 1
    /\ UNCHANGED <<sendVars, net, heap, table, tasks, written, histVars>>

\* Remove the expired keys, whatever entries they name by now.
PruneRemove ==
    /\ expired # {}
    /\ expired' = {}
    /\ table' = [id \in Id |-> IF id \in expired THEN 0 ELSE table[id]]
    /\ pruned' = pruned \cup expired
    /\ UNCHANGED <<sendVars, net, heap, tasks, written, prunes, recovered, lost>>

Init ==
    /\ unsent = {DataPacket(id, pos) : id \in Id, pos \in Pos}
    /\ outbound = [id \in Id |-> [product |-> {}, count |-> 0]]
    /\ net = {}
    /\ heap = << >>
    /\ table = [id \in Id |-> 0]
    /\ tasks = {}
    /\ written = {}
    /\ expired = {}
    /\ prunes = 0
    /\ recovered = {}
    /\ pruned = {}
    /\ lost = {}

TaskStep ==
    \E t \in tasks : Add(t) \/ RecoverForData(t) \/ WriteRecovered(t) \/ RecoverForParity(t)

Next ==
    \/ \E p \in unsent : Send(p)
    \/ \E m \in net : Lose(m) \/ Arrive(m)
    \/ TaskStep
    \/ \E ids \in SUBSET Id : PruneScan(ids)
    \/ PruneRemove

\* The runtime runs every task that can run, and what is not lost arrives.
Fairness ==
    /\ WF_vars(\E p \in unsent : Send(p))
    /\ WF_vars(\E m \in net : Arrive(m))
    /\ WF_vars(TaskStep)

Spec == Init /\ [][Next]_vars
FairSpec == Spec /\ Fairness

-----------------------------------------------------------------------------
(* Properties.                                                              *)

\* Every variable keeps its type; no task and no map entry points outside the
\* entries made.
TypeOK ==
    /\ unsent \subseteq [id : Id, pos : Pos]
    /\ \A id \in Id : outbound[id].count \in 0 .. Size - 1
    /\ \A m \in net \cup lost : m.id \in Id /\ m.pos \in 0 .. Size
    /\ table \in [Id -> 0 .. Len(heap)]
    /\ \A t \in tasks : t.pc \in {"add", "recover", "write"} /\ t.ref \in 1 .. Len(heap)
    /\ written \subseteq [id : Id, pos : Pos]
    /\ expired \subseteq Id /\ pruned \subseteq Id
    /\ prunes \in 0 .. MaxPrunes

\* What recovery yields is one packet of that batch, position and payload, the
\* one it lacked: no order of arrivals, recoveries and sweeps mixes batches up
\* or XORs a packet in twice.
RecoveredIsWhole ==
    \A r \in recovered :
        \E pos \in Pos :
            LET p == DataPacket(r[1], pos)
            IN  r[2] = {<<p, "byte_range_start">>, <<p, "payload">>}

\* A batch that has become recoverable always has a task on its way to recover
\* it: one of the tasks that add packets sees it become ready, and no sweep or
\* late packet makes that task miss it (received, XorFEC's `ready`).
ReadyIsClaimed ==
    \A id \in Id :
        (table[id] # 0 /\ Ready(heap[table[id]]))
            => \E t \in tasks : t.pc = "recover" /\ t.m.id = id

\* And no second one: of the tasks that add packets of a batch to its entry, or
\* to one made anew after a sweep, only the one whose packet makes the batch
\* ready goes on to recover it.
ClaimedOnce ==
    \A t, u \in tasks :
        (t.pc = "recover" /\ u.pc = "recover" /\ t.m.id = u.m.id) => t = u

\* A batch that no sweep removed and of which at most one packet was lost ends
\* up complete in the receiver's buffer.
OneLossIsRepaired ==
    \A id \in Id :
        <>[]( \/ id \in pruned
              \/ Cardinality({m \in lost : m.id = id}) > 1
              \/ {DataPacket(id, pos) : pos \in Pos} \subseteq written )
=============================================================================
