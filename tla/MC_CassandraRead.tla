--------------------------- MODULE MC_CassandraRead ---------------------------
EXTENDS CassandraRead

\* three searches against a queue of two, the third finding it full (spec
\* S6); two workers, so that two requests are in flight at once
MCSearches == {"s1", "s2", "s3"}
MCWorkers == {"w1", "w2"}

=============================================================================
