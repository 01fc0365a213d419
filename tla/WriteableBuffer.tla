--------------------------- MODULE WriteableBuffer ---------------------------
(***************************************************************************)
(* The receiving application's buffer (`WriteableBuffer`, api/types.rs).   *)
(*                                                                         *)
(* A track of `len` bytes is cut into chunks of MAX_PAYLOAD_LENGTH bytes.  *)
(* The buffer keeps which chunks have arrived (`map`), the play head       *)
(* (`head`) and the runs of chunks still missing, in order (`areas`, the   *)
(* field `invalid_areas`), which the retransmission policy scores.         *)
(*                                                                         *)
(* Bytes are abstracted to chunks.  `len` is Full whole chunks followed,   *)
(* when HasTail, by a shorter last one.  The code always allocates         *)
(* len / MAX_PAYLOAD_LENGTH + 1 chunks, so when there is no tail the last  *)
(* chunk, number Full, is empty and starts at the end of the buffer.       *)
(*                                                                         *)
(* `head` is a byte position that is always the start of a chunk or `len`. *)
(* It is kept here as a chunk number, EndHead standing for `len`: with no  *)
(* tail, `len` is also where the empty last chunk starts.                  *)
(***************************************************************************)
EXTENDS Integers, Sequences, SequencesExt, FiniteSets, FiniteSetsExt

CONSTANTS
    Full,     \* number of whole chunks in the track
    HasTail   \* does a shorter chunk follow them?

ASSUME FullAssumption == Full \in Nat
ASSUME HasTailAssumption == HasTail \in BOOLEAN

VARIABLES
    map,      \* map[i]: has chunk i been written?
    head,     \* the play head, in chunks
    areas     \* sequence of runs [start, end) of missing chunks

vars == <<map, head, areas>>

Chunk == 0 .. Full
EndHead == IF HasTail THEN Full + 1 ELSE Full
Area == [start : Chunk, end : 1 .. Full + 1]

\* The chunk the head's byte position falls in: `*self.head / MAX_PAYLOAD_LENGTH`.
HeadChunk(h) == IF h > Full THEN Full ELSE h

HeadAtEnd(h) == h = EndHead
IsDone(m, h) == HeadAtEnd(h) /\ \A i \in Chunk : m[i]

InArea(a, i) == a.start <= i /\ i < a.end
Covered(s, i) == \E k \in DOMAIN s : InArea(s[k], i)

\* Runs that are non-empty, in order, and never touch.
Separated(s) ==
    /\ \A k \in DOMAIN s : s[k].start < s[k].end
    /\ \A j, k \in DOMAIN s : j < k => s[j].end < s[k].start

-----------------------------------------------------------------------------
(* occupy: mark a chunk written and cut it out of the run that held it.    *)

\* A slip in the three-way cut: the part of the run right of i is dropped.
CutAreaLosesRight(s, i) ==
    LET k == CHOOSE j \in DOMAIN s : InArea(s[j], i)
        a == s[k]
    IN  IF a.start = i
        THEN IF a.end = i + 1
             THEN RemoveAt(s, k)
             ELSE [s EXCEPT ![k] = [start |-> i + 1, end |-> a.end]]
        ELSE [s EXCEPT ![k] = [start |-> a.start, end |-> i]]

\* Another slip: a run of one chunk is shortened instead of removed.
CutAreaKeepsEmpty(s, i) ==
    LET k == CHOOSE j \in DOMAIN s : InArea(s[j], i)
        a == s[k]
        left  == [start |-> a.start, end |-> i]
        right == [start |-> i + 1, end |-> a.end]
    IN  IF a.start = i
        THEN [s EXCEPT ![k] = right]
        ELSE IF a.end = i + 1
             THEN [s EXCEPT ![k] = left]
             ELSE InsertAt([s EXCEPT ![k] = left], k + 1, right)

\* The runs once chunk i, which lies in one of them, is no longer missing.
CutArea(s, i) ==
    LET k == CHOOSE j \in DOMAIN s : InArea(s[j], i)
        a == s[k]
        left  == [start |-> a.start, end |-> i]
        right == [start |-> i + 1, end |-> a.end]
    IN  IF a.start = i
        THEN IF a.end = i + 1
             THEN RemoveAt(s, k)
             ELSE [s EXCEPT ![k] = right]
        ELSE IF a.end = i + 1
             THEN [s EXCEPT ![k] = left]
             ELSE InsertAt([s EXCEPT ![k] = left], k + 1, right)

-----------------------------------------------------------------------------
(* advance_head: walk over written chunks; past the last one, jump to len. *)

FirstHole(m, i) ==
    CHOOSE j \in i .. Full + 1 :
        /\ j = Full + 1 \/ ~m[j]
        /\ \A k \in i .. j - 1 : m[k]

\* A slip: the walk moves one chunk instead of over the whole written run.
AdvanceHeadOnce(m, h) ==
    IF h > Full \/ ~m[HeadChunk(h)] THEN h
    ELSE IF h = Full THEN EndHead ELSE h + 1

AdvanceHead(m, h) ==
    LET j == FirstHole(m, HeadChunk(h))
    IN  IF j > Full THEN EndHead
        ELSE IF j = HeadChunk(h) THEN h ELSE j

-----------------------------------------------------------------------------
(* The retransmission policy's view of the runs.  Scores are exact          *)
(* fractions <<numerator, denominator>> where the code uses f64.            *)

UrgencyDecayChunks == 4
BeforeHeadSizeDenom == 8
ConfidenceHalfSatChunks == 4
MaxRequestsPerTick == 2

Urgency(a, h) ==
    LET hc == HeadChunk(h)
        size == a.end - a.start
    IN  CASE InArea(a, hc) -> <<0, 1>>
          [] a.start > hc    -> <<UrgencyDecayChunks, a.start - hc>>
          [] a.end <= hc     -> IF 10 * size <= 9 * BeforeHeadSizeDenom
                                THEN <<size, BeforeHeadSizeDenom>>
                                ELSE <<9, 10>>

\* A slip: the count begins where the run begins, not where it ends.
ValidPastFromStart(s, k) ==
    LET later == MapThenSumSet(LAMBDA j : s[j].end - s[j].start, k + 1 .. Len(s))
    IN  Full + 1 - s[k].start - later

\* Chunks past run k that have arrived (both subtractions saturate at 0).
ValidPast(s, k) ==
    LET later == MapThenSumSet(LAMBDA j : s[j].end - s[j].start, k + 1 .. Len(s))
        n == Full + 1 - s[k].end - later
    IN  IF n < 0 THEN 0 ELSE n

ConfidenceLost(s, k) ==
    <<ValidPast(s, k), ValidPast(s, k) + ConfidenceHalfSatChunks>>

Score(s, k, h) ==
    LET u == Urgency(s[k], h)
        c == ConfidenceLost(s, k)
    IN  <<u[1] * c[1], u[2] * c[2]>>

\* SCORE_THRESHOLD is 0.3.
OverThreshold(score) == 10 * score[1] >= 3 * score[2]

\* Stable descending order: a higher score first, equal scores by position.
Outranks(s, h, j, k) ==
    LET x == Score(s, j, h)
        y == Score(s, k, h)
    IN  \/ x[1] * y[2] > y[1] * x[2]
        \/ x[1] * y[2] = y[1] * x[2] /\ j < k

\* The chunks of the at most two best runs: `requestable_areas`.
RequestableChunks(s, h) ==
    LET over == {k \in DOMAIN s : OverThreshold(Score(s, k, h))}
        asked == {k \in over :
                    Cardinality({j \in over : Outranks(s, h, j, k)}) < MaxRequestsPerTick}
    IN  {i \in Chunk : \E k \in asked : InArea(s[k], i)}

\* `all_invalid_areas`, used once the head has reached the end.
AllInvalidChunks(s) == {i \in Chunk : Covered(s, i)}

-----------------------------------------------------------------------------

Init ==
    /\ map = [i \in Chunk |-> FALSE]
    /\ head = 0
    /\ areas = << [start |-> 0, end |-> Full + 1] >>

\* The payload sizes `write` accepts: a whole chunk anywhere but in the last
\* place, where only a shorter (perhaps empty) one fits in the buffer.
SizeFits(i, size) == size = "full" <=> i < Full

\* write: an occupied place and a wrong size are refused with no change.
\* Otherwise occupy, copy, advance_head.
Write(i, size) ==
    /\ ~map[i]
    /\ SizeFits(i, size)
    /\ map' = [map EXCEPT ![i] = TRUE]
    /\ areas' = CutArea(areas, i)
    /\ head' = AdvanceHead(map', head)

\* A byte position in chunk i: its first byte, or one further in.  Positions
\* past len are refused (position_to_index).
InRange(i, inside) == i < Full \/ (i = Full /\ (HasTail \/ ~inside))

\* Is the position strictly past the head, in bytes?
PastHead(i, inside, h) == i > h \/ (i = h /\ inside)

\* A slip: a backward seek takes the head back with it.
SeekAnywhere(i, inside, h) == TRUE

SeekMoves(i, inside, h) == PastHead(i, inside, h)

\* seek_head: forward only; align down to the chunk, then advance_head.
SeekHead(i, inside) ==
    /\ InRange(i, inside)
    /\ SeekMoves(i, inside, head)
    /\ head' = AdvanceHead(map, i)
    /\ UNCHANGED <<map, areas>>

Next ==
    \/ \E i \in Chunk, size \in {"full", "short"} : Write(i, size)
    \/ \E i \in Chunk, inside \in BOOLEAN : SeekHead(i, inside)

Spec == Init /\ [][Next]_vars

-----------------------------------------------------------------------------
(* Properties.                                                              *)

\* Every variable keeps its type: `map` covers every chunk, `head` never
\* passes the end, `invalid_areas` holds runs inside the buffer.
TypeOK ==
    /\ map \in [Chunk -> BOOLEAN]
    /\ head \in 0 .. EndHead
    /\ areas \in Seq(Area)

\* The runs `occupy` maintains are non-empty, in order, and never touch: no
\* missing stretch is ever split over two entries of `invalid_areas`.
AreasSeparated == Separated(areas)

\* `invalid_areas` holds exactly the chunks whose `map` entry is false, so the
\* policy can neither forget a lost chunk nor ask for one that arrived.
AreasMirrorMap ==
    \A i \in Chunk : ~map[i] <=> Covered(areas, i)

\* The head rests on a missing chunk or at the end: `advance_head` runs after
\* every write and every seek and never stops on a chunk that is there.
HeadAtHole == HeadAtEnd(head) \/ ~map[head]

\* The policy asks only for chunks that are missing and that some later
\* arrival has overtaken; data still in flight behind everything that has
\* arrived is never asked for.
OnlyOvertakenRequested ==
    \A i \in RequestableChunks(areas, head) :
        ~map[i] /\ \E j \in Chunk : j > i /\ map[j]

\* No write and no seek takes the head back: the hole-detection window
\* [0, head) that seek_head's comment protects never shrinks.
HeadNeverRetreats == [][head' >= head]_vars

\* api/types.rs says of the score threshold that it "lets head-adjacent or
\* strong-confidence holes through": a missing chunk at the head with enough
\* arrivals past its run is asked for.
HeadHoleRequestable ==
    \A k \in DOMAIN areas :
        (areas[k].start = head /\ OverThreshold(ConfidenceLost(areas, k)))
            => areas[k].start \in RequestableChunks(areas, head)
=============================================================================
