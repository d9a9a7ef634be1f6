--------------------------- MODULE MC_MetricTank ---------------------------
(* Two keys hashing to different shards of two writers, one ingest caller.  *)
EXTENDS MetricTank

CONSTANTS k1, k2

MCKeyHash == [k \in Keys |-> IF k = k1 THEN 2 ELSE 3]

\* every key's TTL is one the store has a table for
MCKeyTTL == [k \in Keys |-> 86400]

\* the key's TTL (two days) has no table among the store's TTLs
MCKeyTTLUnconfigured == [k \in Keys |-> 172800]

=============================================================================
