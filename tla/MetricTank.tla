----------------------------- MODULE MetricTank -----------------------------
(***************************************************************************)
(* The write side of the in-memory store and its persistence pipeline:     *)
(*   - the metric registry AggMetrics (Get/GetOrCreate and the GC reaper   *)
(*     goroutine, src/metric_tank/aggmetrics.go);                          *)
(*   - the per-key AggMetric objects (module AggMetric, from the spec);    *)
(*   - the ingest callers, which do GetOrCreate(key) and then Add(ts) on   *)
(*     the metric they got back (spec section 2, data flow);               *)
(*   - the CassandraStore write path: Add to the key's shard queue and one *)
(*     processWriteQueue goroutine per shard that retries insertChunk      *)
(*     until it succeeds, then calls SyncChunkSaveState on the metric      *)
(*     (src/docs/CONTRIBUTING, the cassandra store).                       *)
(*                                                                         *)
(* Metric objects are never freed: metrics is the sequence of all objects  *)
(* ever created, and the registry maps a key to the index of its current   *)
(* object (0 when absent).  A caller or a write request that still holds   *)
(* the index of an object the reaper removed keeps using that object, as   *)
(* the Go pointer would.                                                   *)
(***************************************************************************)
EXTENDS Integers, Sequences, FiniteSets

CONSTANTS
    Keys,            \* metric keys (model values)
    KeyHash,         \* KeyHash[k]: org plus the sum of the key's bytes
    Ingesters,       \* concurrent ingest callers
    Ts,              \* data timestamps the ingest may carry
    ChunkSpan, NumChunks,
    ChunkMaxStale, MetricMaxStale,
    WriteConcurrency,  \* number of write queues and writer goroutines
    WriteQueueSize,    \* capacity of each write queue
    StartTime, MaxTime,  \* wall clock bounds (unix seconds)
    MaxMetrics,      \* bound: metric objects ever created
    MaxFailures,     \* bound: failed insertChunk calls in a behaviour
    StoreTTLs,       \* the TTLs the store was configured with
    KeyTTL,          \* KeyTTL[k]: the TTL of key k's AggMetric and its chunks
    Readers          \* goroutines reading ms.Metrics under ms.RLock: Get
                     \* callers and the stats ticker, whose len() read has
                     \* the same lock and map access as Get's lookup

ASSUME /\ KeyHash \in [Keys -> Nat]
       /\ WriteConcurrency \in Nat \ {0} /\ WriteQueueSize \in Nat \ {0}
       \* the clock is far past the stale windows, as a unix clock is, so the
       \* uint32 subtractions computing chunkMinTs and metricMinTs never wrap
       /\ StartTime >= ChunkMaxStale + ChunkSpan /\ StartTime >= MetricMaxStale + ChunkSpan

AM == INSTANCE AggMetric

\* the store's TTL tables (GetTTLTables, getTable); only its constant
\* operators are used, so its variables are given fixed values
TT == INSTANCE TTLTable
          WITH TTLs <- StoreTTLs, WindowFactor <- 20,
               Requests <- StoreTTLs \cup {KeyTTL[k] : k \in Keys},
               ttl <- 0, result <- 0

Shards == 0..WriteConcurrency - 1
T0s == {AM!ChunkT0(t) : t \in Ts}
MetricIds == 1..MaxMetrics

VARIABLES
    now,          \* wall clock
    registry,     \* AggMetrics.Metrics: key -> metric index, 0 when absent
    metrics,      \* every AggMetric object created so far
    ingest,       \* per caller: the metric it got and the point it will add
    reaper,       \* the GC goroutine
    writeQueues,  \* CassandraStore.writeQueues
    writing,      \* per writer: the ChunkWriteRequest it is saving
    failures,     \* insertChunk failures so far
    table,        \* the Cassandra table: <<key, t0>> -> points of the row
    sealed,       \* history: [obj, t0] of every chunk handed to the store
    saved,        \* history: [obj, t0] of every chunk inserted
    acked,        \* history: <<key, ts>> of every point an Add accepted
    reading       \* the registry readers inside their ms.RLock section

vars == <<now, registry, metrics, ingest, reaper, writeQueues, writing,
          failures, table, sealed, saved, acked, reading>>

Idle == [obj |-> 0, ts |-> 0]
NoWrite == [key |-> CHOOSE k \in Keys : TRUE, t0 |-> 0, obj |-> 0, points |-> {}, ttl |-> 0]
ReaperIdle == [pc |-> "idle", keys |-> {}, key |-> NoWrite.key,
               chunkMinTs |-> 0, metricMinTs |-> 0]

ChunkWriteRequest ==
    [key : Keys, t0 : T0s, obj : MetricIds, points : SUBSET Ts \ {{}},
     ttl : {KeyTTL[k] : k \in Keys}]

(***************************************************************************)
(* CassandraStore.Add: the shard is (org + sum of key bytes) mod the       *)
(* number of queues; the send blocks while that queue is full.             *)
(***************************************************************************)
Shard(k) == KeyHash[k] % WriteConcurrency

CWR(o, c) == [key |-> metrics[o].key, t0 |-> c.t0, obj |-> o, points |-> c.points,
              ttl |-> KeyTTL[metrics[o].key]]

\* bug variant: a send that does not wait for room in the queue
PersistUnbounded(o, cs) ==
    /\ writeQueues' = [s \in Shards |->
                         IF s = Shard(metrics[o].key) /\ cs # {}
                         THEN Append(writeQueues[s], CWR(o, CHOOSE c \in cs : TRUE))
                         ELSE writeQueues[s]]
    /\ sealed' = sealed \cup {[obj |-> o, t0 |-> c.t0] : c \in cs}

\* hand the chunks in cs (none or one) sealed on metric o to the store
Persist(o, cs) ==
    /\ \A c \in cs : Len(writeQueues[Shard(metrics[o].key)]) < WriteQueueSize
    /\ writeQueues' = [s \in Shards |->
                         IF s = Shard(metrics[o].key) /\ cs # {}
                         THEN Append(writeQueues[s], CWR(o, CHOOSE c \in cs : TRUE))
                         ELSE writeQueues[s]]
    /\ sealed' = sealed \cup {[obj |-> o, t0 |-> c.t0] : c \in cs}

(***************************************************************************)
(* Ingest: GetOrCreate(key) under the registry's exclusive lock, which     *)
(* waits for the readers to leave, then Add(ts) on the returned metric,    *)
(* a separate step.                                                        *)
(***************************************************************************)
GetOrCreate(i, k, ts) ==
    /\ ingest[i] = Idle
    /\ reading = {}
    /\ \/ /\ registry[k] # 0
          /\ ingest' = [ingest EXCEPT ![i] = [obj |-> registry[k], ts |-> ts]]
          /\ UNCHANGED <<registry, metrics>>
       \/ /\ registry[k] = 0
          /\ Len(metrics) < MaxMetrics
          /\ metrics' = Append(metrics, AM!NewAggMetric(k, now))
          /\ registry' = [registry EXCEPT ![k] = Len(metrics')]
          /\ ingest' = [ingest EXCEPT ![i] = [obj |-> Len(metrics'), ts |-> ts]]
    /\ UNCHANGED <<reading, now, reaper, writeQueues, writing, failures, table, sealed, saved, acked>>

Add(i) ==
    LET o == ingest[i].obj
        ts == ingest[i].ts
        m == metrics[o]
    IN
    /\ ingest[i] # Idle
    /\ \/ /\ AM!Drops(m, ts)
          /\ UNCHANGED <<metrics, writeQueues, sealed, acked>>
       \/ /\ AM!AppendsToCurrent(m, ts)
          /\ metrics' = [metrics EXCEPT ![o] = AM!AppendToCurrent(m, ts, now)]
          /\ acked' = acked \cup {<<m.key, ts>>}
          /\ UNCHANGED <<writeQueues, sealed>>
       \/ /\ AM!StartsChunk(m, ts)
          /\ Persist(o, AM!SealedBy(m, ts))
          /\ metrics' = [metrics EXCEPT ![o] = AM!StartChunk(m, ts, now)]
          /\ acked' = acked \cup {<<m.key, ts>>}
    /\ ingest' = [ingest EXCEPT ![i] = Idle]
    /\ UNCHANGED <<reading, now, registry, reaper, writing, failures, table, saved>>

(***************************************************************************)
(* AggMetrics.GC, one tick: compute the stale thresholds, snapshot the     *)
(* keys under the read lock, then for each key look up its metric and call *)
(* its GC; when that reports it stale, delete the key -- without the lock  *)
(* and without re-checking.  The ticker fires forever; a round over an    *)
(* empty registry changes nothing.                                          *)
(***************************************************************************)
GCTick ==
    /\ reaper.pc = "idle"
    /\ reaper' = IF \A k \in Keys : registry[k] = 0 THEN ReaperIdle ELSE
                 [pc |-> "scan", keys |-> {k \in Keys : registry[k] # 0},
                  key |-> ReaperIdle.key,
                  chunkMinTs |-> now - (now % ChunkSpan) - ChunkMaxStale,
                  metricMinTs |-> now - (now % ChunkSpan) - MetricMaxStale]
    /\ UNCHANGED <<reading, now, registry, metrics, ingest, writeQueues, writing, failures,
                   table, sealed, saved, acked>>

\* the reaper is done with key k and moves on to the rest of its snapshot
NextKey(k) ==
    IF reaper.keys = {k} THEN ReaperIdle
    ELSE [reaper EXCEPT !.pc = "scan", !.keys = @ \ {k}]

GCMetric(k) ==
    LET o == registry[k]
        m == metrics[o]
    IN
    /\ reaper.pc = "scan"
    /\ k \in reaper.keys
    /\ Persist(o, AM!GCSealed(m, reaper.chunkMinTs))
    /\ metrics' = [metrics EXCEPT ![o] = AM!GC(m, reaper.chunkMinTs)]
    /\ reaper' = IF AM!GCStale(m, reaper.metricMinTs)
                 THEN [reaper EXCEPT !.pc = "delete", !.key = k]
                 ELSE NextKey(k)
    /\ UNCHANGED <<reading, now, registry, ingest, writing, failures, table, saved, acked>>

\* delete(ms.Metrics, key) with no lock held: the runtime's mapdelete marks
\* the map as being written (hashWriting), removes the entry, then clears
\* the mark; the two steps are the start and the end of that write
GCDelete ==
    /\ reaper.pc = "delete"
    /\ reaper' = [reaper EXCEPT !.pc = "deleting"]
    /\ UNCHANGED <<reading, now, registry, metrics, ingest, writeQueues, writing, failures,
                   table, sealed, saved, acked>>

GCDeleteDone ==
    /\ reaper.pc = "deleting"
    /\ registry' = [registry EXCEPT ![reaper.key] = 0]
    /\ reaper' = NextKey(reaper.key)
    /\ UNCHANGED <<reading, now, metrics, ingest, writeQueues, writing, failures, table,
                   sealed, saved, acked>>

(***************************************************************************)
(* Registry readers: Get(key), and the stats ticker alike, take ms.RLock, *)
(* read the map (a lookup, its len) and release the lock.  GetOrCreate's  *)
(* ms.Lock waits for them; the reaper's unlocked delete does not.         *)
(***************************************************************************)
\* ms.RLock(); m, ok := ms.Metrics[key]
GetStart(r) ==
    /\ r \notin reading
    /\ reading' = reading \cup {r}
    /\ UNCHANGED <<now, registry, metrics, ingest, reaper, writeQueues, writing,
                   failures, table, sealed, saved, acked>>

\* ms.RUnlock()
ReadDone(r) ==
    /\ r \in reading
    /\ reading' = reading \ {r}
    /\ UNCHANGED <<now, registry, metrics, ingest, reaper, writeQueues, writing,
                   failures, table, sealed, saved, acked>>

(***************************************************************************)
(* processWriteQueue, one goroutine per shard.                             *)
(***************************************************************************)
\* bug variant: the writer takes the newest request rather than the oldest
DequeueNewest(s) ==
    /\ writing[s] = NoWrite
    /\ writeQueues[s] # <<>>
    /\ writing' = [writing EXCEPT ![s] = writeQueues[s][Len(writeQueues[s])]]
    /\ writeQueues' = [writeQueues EXCEPT ![s] = SubSeq(@, 1, Len(@) - 1)]
    /\ UNCHANGED <<reading, now, registry, metrics, ingest, reaper, failures, table,
                   sealed, saved, acked>>

Dequeue(s) ==
    /\ writing[s] = NoWrite
    /\ writeQueues[s] # <<>>
    /\ writing' = [writing EXCEPT ![s] = Head(writeQueues[s])]
    /\ writeQueues' = [writeQueues EXCEPT ![s] = Tail(@)]
    /\ UNCHANGED <<reading, now, registry, metrics, ingest, reaper, failures, table,
                   sealed, saved, acked>>

\* bug variant: the writer gives up on a request whose insert failed
InsertFailDrop(s) ==
    /\ writing[s] # NoWrite
    /\ failures < MaxFailures
    /\ failures' = failures + 1
    /\ writing' = [writing EXCEPT ![s] = NoWrite]
    /\ UNCHANGED <<reading, now, registry, metrics, ingest, reaper, writeQueues,
                   table, sealed, saved, acked>>

\* insertChunk(key, t0, ttl, data) can succeed only when getTable(ttl)
\* finds the TTL's table: otherwise it returns errTableNotFound, every time
InsertChunk(cwr) == TT!GetTable(cwr.ttl) # TT!NotFound

\* insertChunk returned an error: count it, back off, try again.  The
\* loop retries errTableNotFound as it does a Cassandra error; once the
\* failures bound is reached its further attempts are stuttering steps.
InsertFail(s) ==
    /\ writing[s] # NoWrite
    /\ failures < MaxFailures
    /\ failures' = failures + 1
    /\ UNCHANGED <<reading, now, registry, metrics, ingest, reaper, writeQueues, writing,
                   table, sealed, saved, acked>>

InsertOk(s) ==
    LET cwr == writing[s] IN
    /\ cwr # NoWrite
    /\ InsertChunk(cwr)
    /\ table' = [table EXCEPT ![<<cwr.key, cwr.t0>>] = cwr.points]
    /\ metrics' = [metrics EXCEPT ![cwr.obj] = AM!SyncChunkSaveState(@, cwr.t0)]
    /\ saved' = saved \cup {[obj |-> cwr.obj, t0 |-> cwr.t0]}
    /\ writing' = [writing EXCEPT ![s] = NoWrite]
    /\ UNCHANGED <<reading, now, registry, ingest, reaper, writeQueues, failures, sealed, acked>>

Tick ==
    /\ now < MaxTime
    /\ now' = now + 1
    /\ UNCHANGED <<reading, registry, metrics, ingest, reaper, writeQueues, writing,
                   failures, table, sealed, saved, acked>>

Init ==
    /\ now = StartTime
    /\ registry = [k \in Keys |-> 0]
    /\ metrics = <<>>
    /\ ingest = [i \in Ingesters |-> Idle]
    /\ reaper = ReaperIdle
    /\ writeQueues = [s \in Shards |-> <<>>]
    /\ writing = [s \in Shards |-> NoWrite]
    /\ failures = 0
    /\ table = [r \in Keys \X T0s |-> {}]
    /\ sealed = {}
    /\ saved = {}
    /\ acked = {}
    /\ reading = {}

Next ==
    \/ \E i \in Ingesters, k \in Keys, ts \in Ts : GetOrCreate(i, k, ts)
    \/ \E i \in Ingesters : Add(i)
    \/ GCTick
    \/ \E k \in Keys : GCMetric(k)
    \/ GCDelete
    \/ GCDeleteDone
    \/ \E r \in Readers : GetStart(r)
    \/ \E r \in reading : ReadDone(r)
    \/ \E s \in Shards : Dequeue(s) \/ InsertFail(s) \/ InsertOk(s)
    \/ Tick

\* The writer goroutines loop forever; nothing in the code makes ingest, the
\* clock or the reaper's ticks happen, so only the writers are fair.
Fairness == \A s \in Shards : WF_vars(Dequeue(s)) /\ WF_vars(InsertOk(s))

Spec == Init /\ [][Next]_vars /\ Fairness

-----------------------------------------------------------------------------
TypeOK ==
    /\ now \in StartTime..MaxTime
    /\ registry \in [Keys -> 0..Len(metrics)]
    /\ Len(metrics) <= MaxMetrics
    /\ ingest \in [Ingesters -> {Idle} \cup [obj : 1..Len(metrics), ts : Ts]]
    /\ reaper.pc \in {"idle", "scan", "delete", "deleting"} /\ reaper.keys \subseteq Keys
    /\ writeQueues \in [Shards -> Seq(ChunkWriteRequest)]
    /\ \A s \in Shards : Len(writeQueues[s]) <= WriteQueueSize
    /\ writing \in [Shards -> {NoWrite} \cup ChunkWriteRequest]
    /\ failures \in 0..MaxFailures
    /\ table \in [Keys \X T0s -> SUBSET Ts]
    /\ reading \subseteq Readers

SaveWatermarkSound ==
    \A c \in sealed :
        c.t0 <= metrics[c.obj].lastSaveFinish => c \in saved

(***************************************************************************)
(* The write pipeline implements ChunkPersistence: with sealed as the      *)
(* chunks handed over and saved as the chunks inserted, every step of      *)
(* Add, the reaper's GC and processWriteQueue is a step of the abstract    *)
(* store or leaves it unchanged, the chunks pending being those the write  *)
(* requests in the queues and the writers carry, and the writers' fairness *)
(* gives its eventual saving.  It says at once that a chunk is sealed only once      *)
(* (whether by Add starting a new span or by GC closing a stale chunk),    *)
(* that each metric's chunks are saved once and in t0 order, and that      *)
(* processWriteQueue, retrying a failed insertChunk, never drops one.      *)
(***************************************************************************)
\* the write requests in the queues and in the writers' hands, by position
InFlightAt == UNION {{<<s, j>> : j \in DOMAIN writeQueues[s]} : s \in Shards}
              \cup {<<s, 0>> : s \in {x \in Shards : writing[x] # NoWrite}}

RequestAt(p) == IF p[2] = 0 THEN writing[p[1]] ELSE writeQueues[p[1]][p[2]]

ChunkOf(r) == [obj |-> r.obj, t0 |-> r.t0]

\* the bag of chunks those requests carry
InFlight ==
    [c \in {ChunkOf(RequestAt(p)) : p \in InFlightAt} |->
        Cardinality({p \in InFlightAt : ChunkOf(RequestAt(p)) = c})]

Persistence == INSTANCE ChunkPersistence
                   WITH Objs <- MetricIds, handed <- sealed, pending <- InFlight,
                        durable <- saved

PersistenceRefined == Persistence!Spec

(***************************************************************************)
(* No accepted point is lost: every point an Add accepted is still in the  *)
(* chunks of the key's registered metric, in a queued or in-flight write   *)
(* request, or in the Cassandra row of its chunk.  It is about the        *)
(* reaper's check-then-delete (a.GC, then an unlocked delete with no       *)
(* re-check, whichever side of an ingest's GetOrCreate and Add it falls),  *)
(* and about a metric created again after a delete whose chunk has the     *)
(* t0 of one the old metric saved: the INSERT replaces that row.           *)
(***************************************************************************)
Held(k, ts) ==
    \/ /\ registry[k] # 0
       /\ \E j \in DOMAIN metrics[registry[k]].chunks :
             ts \in metrics[registry[k]].chunks[j].points
    \/ \E s \in Shards :
          \/ writing[s].key = k /\ ts \in writing[s].points
          \/ \E j \in DOMAIN writeQueues[s] :
                writeQueues[s][j].key = k /\ ts \in writeQueues[s][j].points
    \/ ts \in table[<<k, AM!ChunkT0(ts)>>]

NoAckedPointLost == \A p \in acked : Held(p[1], p[2])

(***************************************************************************)
(* Go maps are not safe for concurrent use: no GetOrCreate, Get or stats   *)
(* read of ms.Metrics overlaps the reaper's delete writing it.  The        *)
(* comment in AggMetrics.GC holds that, the reaper being the only deleter, *)
(* the lock is needed only for the key snapshot; GetOrCreate's ms.Lock and *)
(* the readers' ms.RLock do not exclude the unlocked delete, and the       *)
(* runtime aborts the process on a map access that overlaps a write.       *)
(***************************************************************************)
MapAccessExclusive ==
    [][/\ reaper'.pc = "deleting" => reading = {}
       /\ reaper.pc = "deleting" =>
             /\ reading' = {}
             /\ \A i \in Ingesters : ingest[i] = Idle => ingest'[i] = Idle]_vars

=============================================================================
