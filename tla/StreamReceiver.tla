---------------------------- MODULE StreamReceiver ----------------------------
(***************************************************************************)
(* The receiving side of one stream: `StreamingFrom` and the session's     *)
(* mirror of the FEC batches (`SessionFecState`), with the handlers that   *)
(* change them, received_data_packet and recovered_packet                  *)
(* (manager/state.rs).                                                     *)
(*                                                                         *)
(* A handler writes the chunk, then decides whether the stream is done or,  *)
(* if not, which missing chunks to ask for.  What it asks for is a          *)
(* parameter of the action, and so is what has outlived its time to live    *)
(* by then: ages are not modelled, any marker may be old.                   *)
(***************************************************************************)
EXTENDS Integers, Sequences, FiniteSets

CONSTANTS
    Full,      \* number of whole chunks
    HasTail,   \* does a shorter chunk follow them?
    BatchId    \* batch ids

VARIABLES
    map, head, areas,  \* the WriteableBuffer
    pending,           \* chunks asked for, awaited
    mirror,            \* batches with a packet here: [base, size, contiguous]
    partial,           \* `complete` = Some(true): holes are accepted
    streaming,         \* is the session still `Streaming::From` this stream?
    closed             \* `closed` of the StreamMessage the application watches

Buf == INSTANCE WriteableBuffer

bufVars == <<map, head, areas>>
vars == <<bufVars, pending, mirror, partial, streaming, closed>>

Chunk == Buf!Chunk
Missing == {c \in Chunk : ~map[c]}

-----------------------------------------------------------------------------
(* SessionFecState: the manager's mirror of the batches.                    *)

\* add_data: a batch is taken to start `pos` chunks before its first packet
\* (no earlier than 0) and to be contiguous until a packet says otherwise.
DerivedBase(c, pos) == IF c >= pos THEN c - pos ELSE 0
MirrorAdd(mir, b, size, pos, c) ==
    IF b \in DOMAIN mir
    THEN [mir EXCEPT ![b].contiguous = @ /\ mir[b].base = DerivedBase(c, pos)]
    ELSE [x \in DOMAIN mir \cup {b} |->
            IF x = b THEN [base |-> DerivedBase(c, pos), size |-> size, contiguous |-> TRUE]
                     ELSE mir[x]]

\* evict, and the sweep of the entries that have grown too old.
Without(mir, ids) == [b \in DOMAIN mir \ ids |-> mir[b]]

\* active_byte_ranges: the chunks the batches of the mirror still promise.
ActiveIn(entry) ==
    IF entry.contiguous THEN entry.base .. entry.base + entry.size - 1 ELSE {}
Active(mir) == UNION {ActiveIn(mir[b]) : b \in DOMAIN mir}

-----------------------------------------------------------------------------
(* What to ask for.                                                         *)

\* Slips: the end of the buffer is enough; accepting holes is enough.
IsDoneAtEnd == Buf!HeadAtEnd(head')
IsDoneWhenAccepting == Buf!IsDone(map', head') \/ partial

\* declare_done, after the write.
IsDone == Buf!IsDone(map', head') \/ (partial /\ Buf!HeadAtEnd(head'))

\* reserve_for_request: drop stale markers, then take what is missing and not
\* pending; the chunks taken are marked.
Reserve(candidates, stale, before) == {c \in candidates : c \notin before \ stale}

\* A slip: every missing chunk is a candidate before the end, too.
CandidatesWithoutPolicy(mir) == Buf!AllInvalidChunks(areas') \ Active(mir)

\* score_policy_pick and finalize_sweep_pick, on the buffer after the write.
Candidates(mir) ==
    (IF Buf!HeadAtEnd(head')
     THEN Buf!AllInvalidChunks(areas')
     ELSE Buf!RequestableChunks(areas', head')) \ Active(mir)

\* The tail both handlers share.  `asked` is {} unless a request goes out.
Decide(decides, before, mir, stale, old, asked) ==
    IF ~IsDone /\ decides
    THEN /\ old \subseteq DOMAIN mir
         /\ stale \subseteq before
         /\ mirror' = Without(mir, old)
         /\ asked = Reserve(Candidates(mirror'), stale, before)
         /\ pending' = (before \ stale) \cup asked
    ELSE /\ old = {} /\ stale = {} /\ asked = {}
         /\ mirror' = mir
         /\ pending' = before

-----------------------------------------------------------------------------

\* streaming_from: a fresh buffer, on a session that becomes Streaming.
Init ==
    /\ Buf!Init
    /\ pending = {}
    /\ mirror = [b \in {} |-> 0]
    /\ partial = FALSE
    /\ streaming = TRUE
    /\ closed = FALSE

Size(c) == IF c < Full THEN "full" ELSE "short"

\* received_data_packet, the write being refused: only the mirror has changed.
RefuseData(b, size, pos, c) ==
    /\ streaming
    /\ map[c]
    /\ mirror' = MirrorAdd(mirror, b, size, pos, c)
    /\ UNCHANGED <<bufVars, pending, partial, streaming, closed>>

\* received_data_packet, the chunk being new.  A request is decided on at the
\* end of the buffer, or else after the last packet of a batch.  When done,
\* close_stream: the session is Up again.
AcceptData(b, size, pos, c, stale, old, asked) ==
    /\ streaming
    /\ Buf!Write(c, Size(c))
    /\ Decide(Buf!HeadAtEnd(head') \/ pos + 1 = size,
              pending \ {c}, MirrorAdd(mirror, b, size, pos, c), stale, old, asked)
    /\ closed' = (closed \/ IsDone)
    /\ streaming' = ~IsDone
    /\ UNCHANGED partial

\* recovered_packet, the write being refused: the batch is off the mirror.
RefuseRecovered(b, c) ==
    /\ streaming
    /\ map[c]
    /\ mirror' = Without(mirror, {b})
    /\ UNCHANGED <<bufVars, pending, partial, streaming, closed>>

\* A slip: the recovered chunk's marker stays.
AcceptRecoveredKeepsMarker(b, c, stale, old, asked) ==
    /\ streaming
    /\ Buf!Write(c, Size(c))
    /\ Decide(TRUE, pending, Without(mirror, {b}), stale, old, asked)
    /\ closed' = (closed \/ IsDone)
    /\ UNCHANGED <<partial, streaming>>

\* recovered_packet, the chunk being new.  It always decides; when done it
\* tells the application so, and leaves the session Streaming.
AcceptRecovered(b, c, stale, old, asked) ==
    /\ streaming
    /\ Buf!Write(c, Size(c))
    /\ Decide(TRUE, pending \ {c}, Without(mirror, {b}), stale, old, asked)
    /\ closed' = (closed \/ IsDone)
    /\ UNCHANGED <<partial, streaming>>

\* FecPruneTask::prune, for the missing positions of an expired batch.
AskForPruned(positions, stale, asked) ==
    /\ streaming
    /\ stale \subseteq pending
    /\ asked = Reserve(positions \cap Missing, stale, pending)
    /\ pending' = (pending \ stale) \cup asked
    /\ UNCHANGED <<bufVars, mirror, partial, streaming, closed>>

\* endpoints::seek, when it moves the head and so sends a Seek.
Seek(i, inside) ==
    /\ streaming
    /\ Buf!SeekHead(i, inside)
    /\ UNCHANGED <<pending, mirror, partial, streaming, closed>>

\* set_complete_stream: the application accepts holes from now on.
AllowPartial ==
    /\ streaming
    /\ ~partial /\ partial' = TRUE
    /\ UNCHANGED <<bufVars, pending, mirror, streaming, closed>>
=============================================================================
