------------------------- MODULE MC_SearchCassandra -------------------------
EXTENDS SearchCassandra

\* both sides of the month boundaries 24 and 48 and of the chunk boundaries
Bounds == {0, 5, 6, 24, 25, 30, 48, 50}
MCRanges == {r \in Bounds \X (Bounds \ {0}) : r[1] <= r[2] + 1}
\* start = end = 0: passes start > end, and end - 1 wraps to the word's top
MCRangesEmptyAtZero == {<<0, 0>>}
MCStoredT0s == {0, 18, 24, 42, 48}
MCBadT0s == {42}
=============================================================================
