---------------------------- MODULE SearchTable ----------------------------
(***************************************************************************)
(* CassandraStore.SearchTable (src/docs/CONTRIBUTING): the read of one     *)
(* key's chunks over [start, end).  It rejects an empty range, computes    *)
(* the first and last month rows with uint32 arithmetic, builds the row-key *)
(* list in a loop that steps a uint32 month by Month_sec, and issues one    *)
(* query for every chunk in those rows with ts < end, sorting the result   *)
(* by t0.  The read queue and its workers are left to another module; here *)
(* the query is answered from the stored chunks directly.                  *)
(*                                                                         *)
(* A row key "{key}_{n}" is represented by its month number n; the key is  *)
(* fixed.  Month and the word width are constants so that TLC, whose       *)
(* integers are 32-bit signed, can check scaled instances in which the     *)
(* word still wraps part-way through a month (2^32 mod Month_sec # 0).     *)
(***************************************************************************)
EXTENDS Integers, Sequences, SequencesExt

CONSTANTS
    Month,       \* Month_sec
    WordBits,    \* width of the uint32 arithmetic
    Span,        \* chunk span of the stored chunks; Month % Span = 0
    Ranges,      \* the <<start, end>> pairs a caller may ask for
    StoredT0s    \* the t0s that may be stored for the key

Word == 2^WordBits
ASSUME Month % Span = 0 /\ Word % Month # 0
ASSUME \A t \in StoredT0s : t % Span = 0 /\ t + Span <= Word

VARIABLES stored, start, end, pc, month, rowKeys, result

vars == <<stored, start, end, pc, month, rowKeys, result>>

\* x - (x % Month_sec): the month a uint32 timestamp falls in
MonthOf(x) == x - (x % Month)

StartMonth == MonthOf(start)
\* (end - 1) in uint32: wraps to Word - 1 when end = 0
EndMonth == MonthOf((end - 1) % Word)

Init ==
    /\ stored \in SUBSET StoredT0s
    /\ \E r \in Ranges : start = r[1] /\ end = r[2]
    /\ pc = "check"
    /\ month = 0
    /\ rowKeys = <<>>
    /\ result = <<>>

\* if start >= end { return itgens, errInvalidRange }
CheckRange ==
    /\ pc = "check"
    /\ pc' = IF start >= end THEN "invalid" ELSE "rows"
    /\ month' = StartMonth
    /\ UNCHANGED <<stored, start, end, rowKeys, result>>

\* bug variant: the row key formatted with the month's timestamp, not its number
RowLoopKeyedByTimestamp ==
    /\ pc = "rows"
    /\ month <= EndMonth
    /\ rowKeys' = Append(rowKeys, month)
    /\ month' = (month + Month) % Word
    /\ UNCHANGED <<stored, start, end, pc, result>>

\* for month := start_month; month <= end_month; month += Month_sec
RowLoop ==
    /\ pc = "rows"
    /\ month <= EndMonth
    /\ rowKeys' = Append(rowKeys, month \div Month)
    /\ month' = (month + Month) % Word
    /\ UNCHANGED <<stored, start, end, pc, result>>

RowsDone ==
    /\ pc = "rows"
    /\ month > EndMonth
    /\ pc' = "query"
    /\ UNCHANGED <<stored, start, end, month, rowKeys, result>>

\* bug variant: a query for t0 >= start, which misses the chunk holding start
QueryFromStart ==
    /\ pc = "query"
    /\ result' = SetToSortSeq({t \in stored : t \div Month \in Range(rowKeys)
                                              /\ start <= t /\ t < end}, <)
    /\ pc' = "done"
    /\ UNCHANGED <<stored, start, end, month, rowKeys>>

\* SELECT ts, data FROM table WHERE key IN rowKeys AND ts < end, then
\* sort.Sort(chunk.IterGensAsc(itgens))
Query ==
    /\ pc = "query"
    /\ result' = SetToSortSeq({t \in stored : t \div Month \in Range(rowKeys)
                                              /\ t < end}, <)
    /\ pc' = "done"
    /\ UNCHANGED <<stored, start, end, month, rowKeys>>

Next == CheckRange \/ RowLoop \/ RowsDone \/ Query

Spec == Init /\ [][Next]_vars /\ WF_vars(Next)

-----------------------------------------------------------------------------
TypeOK ==
    /\ stored \subseteq StoredT0s
    /\ start \in 0..Word - 1 /\ end \in 0..Word - 1
    /\ pc \in {"check", "invalid", "rows", "query", "done"}
    /\ month \in 0..Word - 1
    /\ rowKeys \in Seq(0..(Word - 1) \div Month)
    /\ result \in Seq(stored)

(***************************************************************************)
(* Search superset (spec section 8, property 4): a search that completes   *)
(* returns every stored chunk whose interval [t0, t0 + Span) meets         *)
(* [start, end).  It rests on the comment's argument: the chunk holding    *)
(* start lies in start's month row because Month_sec % span = 0, so the    *)
(* single ts < end query over the month rows reaches it.                   *)
(***************************************************************************)
SearchSuperset ==
    pc = "done" =>
        \A t \in stored : (t < end /\ t + Span > start) => t \in Range(result)

(***************************************************************************)
(* The row-key loop visits only the months of the range: every row it     *)
(* appends lies between start's month and (end - 1)'s month.  The loop     *)
(* steps a uint32 month by Month_sec and stops when month > end_month; when *)
(* end_month is within a month of the top of the word the step wraps to a  *)
(* small month, which is again <= end_month.                               *)
(***************************************************************************)
RowKeysInRange ==
    \A j \in DOMAIN rowKeys :
        StartMonth \div Month <= rowKeys[j] /\ rowKeys[j] <= EndMonth \div Month

=============================================================================
