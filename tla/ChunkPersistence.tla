--------------------------- MODULE ChunkPersistence ---------------------------
(***************************************************************************)
(* What the write side promises each metric object, abstractly (spec      *)
(* sections 4.3 and 4.4): a chunk is handed to the store once, when it is  *)
(* sealed; the store saves each handed chunk once, oldest first, so that   *)
(* a metric's save watermark (the newest saved t0) covers only saved       *)
(* chunks; and every handed chunk is eventually saved, whatever transient  *)
(* failures the store meets.  Queues, shards, retries and the reaper are   *)
(* not visible at this level.                                              *)
(***************************************************************************)
EXTENDS Naturals, Bags, BagsExt

CONSTANTS
    Objs,   \* metric objects
    T0s     \* chunk start times

VARIABLES
    handed,   \* the chunks [obj, t0] ever handed to the store
    pending,  \* bag of the chunks handed and not yet saved
    durable   \* the chunks the store has saved

vars == <<handed, pending, durable>>

Chunk == [obj : Objs, t0 : T0s]

Init == handed = {} /\ pending = EmptyBag /\ durable = {}

Hand(c) ==
    /\ c \notin handed
    /\ handed' = handed \cup {c}
    /\ pending' = BagAdd(pending, c)
    /\ UNCHANGED durable

\* the oldest pending chunk of its object is saved
Save(c) ==
    /\ BagIn(c, pending)
    /\ \A d \in BagToSet(pending) : d.obj = c.obj => c.t0 <= d.t0
    /\ pending' = BagRemove(pending, c)
    /\ durable' = durable \cup {c}
    /\ UNCHANGED handed

Next == \E c \in Chunk : Hand(c) \/ Save(c)

Spec == Init /\ [][Next]_vars /\ \A c \in Chunk : WF_vars(Save(c))

=============================================================================
