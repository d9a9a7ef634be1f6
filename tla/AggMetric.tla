------------------------------ MODULE AggMetric ------------------------------
(***************************************************************************)
(* The per-key aggregated metric: a ring of at most NumChunks chunks, the  *)
(* newest of which may be open.  Its code (AggMetric.Add, .GC and          *)
(* .SyncChunkSaveState) is not among the repository's files under src/, so *)
(* these operators are written from the spec, section 4.3.  They are pure: *)
(* the composing module (MetricTank) applies them to its metric objects    *)
(* and hands the chunks they seal to the persistence store.                *)
(*                                                                         *)
(* A chunk is [t0, closed, points]; points is the set of data timestamps   *)
(* appended to it, which is all the properties need of the compressed      *)
(* series.  lastWrite is the wall clock of the last accepted append; the   *)
(* open chunk is always the newest and received that append, so its own    *)
(* lastWrite equals the metric's and is not kept separately.               *)
(***************************************************************************)
EXTENDS Integers, Sequences

CONSTANTS ChunkSpan, NumChunks

ASSUME ChunkSpan \in Nat \ {0} /\ NumChunks \in Nat \ {0}

\* t0 of the chunk a point with timestamp ts belongs to
ChunkT0(ts) == ts - (ts % ChunkSpan)

\* the spec leaves lastWrite of a metric that has no point yet unsaid; it is
\* taken as the creation time, so that GC does not find a metric stale
\* between its creation and its first Add
NewAggMetric(key, now) ==
    [key |-> key, chunks |-> <<>>, lastWrite |-> now, lastSaveFinish |-> 0]

NewChunk(ts) == [t0 |-> ChunkT0(ts), closed |-> FALSE, points |-> {ts}]

CurrentChunk(m) == m.chunks[Len(m.chunks)]

HasOpenChunk(m) == m.chunks # <<>> /\ ~CurrentChunk(m).closed

\* the chunks with the current one marked closed (its series is now immutable)
CloseCurrent(m) == [m.chunks EXCEPT ![Len(m.chunks)].closed = TRUE]

(***************************************************************************)
(* Add(ts): the three outcomes of an append.                               *)
(***************************************************************************)
\* ts is older than the current chunk, or falls in a current chunk that is
\* already closed: the point is dropped and the metric is left as it was.
Drops(m, ts) ==
    /\ m.chunks # <<>>
    /\ \/ ChunkT0(ts) < CurrentChunk(m).t0
       \/ ChunkT0(ts) = CurrentChunk(m).t0 /\ CurrentChunk(m).closed

\* ts falls in the open current chunk: append to it
AppendsToCurrent(m, ts) ==
    /\ HasOpenChunk(m)
    /\ ChunkT0(ts) = CurrentChunk(m).t0

AppendToCurrent(m, ts, now) ==
    [m EXCEPT !.chunks[Len(m.chunks)].points = @ \cup {ts}, !.lastWrite = now]

\* ts is the first point, or starts a newer span: open a chunk at its t0
StartsChunk(m, ts) == IF m.chunks = <<>> THEN TRUE ELSE ChunkT0(ts) > CurrentChunk(m).t0

\* bug variant: seal the current chunk whether or not GC already sealed it
SealedByEvenIfClosed(m, ts) == IF m.chunks = <<>> THEN {} ELSE {CurrentChunk(m)}

\* the chunk the new span seals: the current one, unless GC already sealed it
SealedBy(m, ts) == IF HasOpenChunk(m) THEN {CurrentChunk(m)} ELSE {}

\* seal the current chunk, advance the ring (dropping the oldest chunk when
\* it is full) and open the new chunk
StartChunk(m, ts, now) ==
    LET ring == Append(IF m.chunks = <<>> THEN <<>> ELSE CloseCurrent(m),
                       NewChunk(ts))
    IN  [m EXCEPT !.chunks = IF Len(ring) > NumChunks THEN Tail(ring) ELSE ring,
                  !.lastWrite = now]

(***************************************************************************)
(* GC(chunkMinTs, metricMinTs)                                             *)
(***************************************************************************)
\* the open chunk has not been written since chunkMinTs: GC seals it
GCSeals(m, chunkMinTs) == HasOpenChunk(m) /\ m.lastWrite < chunkMinTs

GCSealed(m, chunkMinTs) == IF GCSeals(m, chunkMinTs) THEN {CurrentChunk(m)} ELSE {}

GC(m, chunkMinTs) ==
    IF GCSeals(m, chunkMinTs) THEN [m EXCEPT !.chunks = CloseCurrent(m)] ELSE m

\* the value GC returns: the metric may be removed from the registry
GCStale(m, metricMinTs) == m.lastWrite < metricMinTs

(***************************************************************************)
(* SyncChunkSaveState(t0): the running maximum of saved chunk t0s          *)
(***************************************************************************)
SyncChunkSaveState(m, t0) ==
    [m EXCEPT !.lastSaveFinish = IF t0 > @ THEN t0 ELSE @]

=============================================================================
