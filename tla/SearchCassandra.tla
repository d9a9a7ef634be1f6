--------------------------- MODULE SearchCassandra ---------------------------
(***************************************************************************)
(* The legacy searchCassandra of src/metric_tank/aggmetrics.go: one       *)
(* goroutine per query over the single "metric" table, whose results      *)
(* arrive on an unbuffered channel in any order and are sorted by sortKey *)
(* before their rows are scanned.                                         *)
(*                                                                         *)
(* Queries of one row of the month-partitioned table:                      *)
(*   "le1"  ts <= start LIMIT 1 (clustering order ts DESC: the newest)     *)
(*   "gtlt" ts > start AND ts < end      "gt"  ts > start                  *)
(*   "lt"   ts < end                     "all" the whole row               *)
(* Month and the word width are scaled, as in SearchTable, so that the    *)
(* uint32 arithmetic still wraps part-way through a month.                 *)
(***************************************************************************)
EXTENDS Integers, Sequences, SequencesExt

CONSTANTS
    Month,       \* month_sec
    WordBits,    \* width of the uint32 arithmetic
    Span,        \* chunk span; Month % Span = 0
    Ranges,      \* the <<start, end>> pairs a caller may ask for
    StoredT0s,   \* the t0s that may be stored for the key
    BadT0s,      \* stored chunks whose data may fail to decode
    MayFail      \* whether a query may fail part-way (a Cassandra error)

Word == 2^WordBits
ASSUME Month % Span = 0 /\ Word % Month # 0 /\ BadT0s \subseteq StoredT0s

VARIABLES stored, bad, start, end, pc, month, issued, delivered,
          outcomes, result, err

vars == <<stored, bad, start, end, pc, month, issued, delivered,
          outcomes, result, err>>

MonthOf(x) == x - (x % Month)
StartMonth == MonthOf(start)
EndMonth == MonthOf((end - 1) % Word)

\* the t0s a query selects, in the order the iterator yields them
Rows(q) ==
    LET row == {t \in stored : t \div Month = q.month \div Month}
    IN  CASE q.kind = "le1"  -> IF \E t \in row : t <= start
                                THEN <<Max({t \in row : t <= start})>> ELSE <<>>
          [] q.kind = "gtlt" -> SetToSortSeq({t \in row : start < t /\ t < end}, <)
          [] q.kind = "gt"   -> SetToSortSeq({t \in row : start < t}, <)
          [] q.kind = "lt"   -> SetToSortSeq({t \in row : t < end}, <)
          [] q.kind = "all"  -> SetToSortSeq(row, <)

\* query(month, sortKey, q): wg.Add(1) and a goroutine that will send
Query(m, key, kind) == [month |-> m, sortKey |-> key % Word, kind |-> kind]

Init ==
    /\ stored \in SUBSET StoredT0s
    /\ bad \in SUBSET (stored \cap BadT0s)
    /\ \E r \in Ranges : start = r[1] /\ end = r[2]
    /\ pc = "check"
    /\ month = 0
    /\ issued = <<>>
    /\ delivered = {}
    /\ outcomes = <<>>
    /\ result = <<>>
    /\ err = "none"

\* bug variant: the start row's LIMIT 1 query sorted with the rest of its row
CheckRangeSameKey ==
    /\ pc = "check"
    /\ IF start > end
       THEN pc' = "done" /\ err' = "range" /\ UNCHANGED <<month, issued>>
       ELSE /\ issued' = <<Query(StartMonth, StartMonth + 1, "le1")>>
                         \o IF StartMonth = EndMonth
                            THEN <<Query(StartMonth, StartMonth + 1, "gtlt")>> ELSE <<>>
            /\ pc' = IF StartMonth = EndMonth THEN "collect" ELSE "rows"
            /\ month' = StartMonth
            /\ UNCHANGED err
    /\ UNCHANGED <<stored, bad, start, end, delivered, outcomes, result>>

\* if start > end { error }; the LIMIT 1 query of start's row; then the
\* single-row query, or the loop over the rows
CheckRange ==
    /\ pc = "check"
    /\ IF start > end
       THEN pc' = "done" /\ err' = "range" /\ UNCHANGED <<month, issued>>
       ELSE /\ issued' = <<Query(StartMonth, StartMonth, "le1")>>
                         \o IF StartMonth = EndMonth
                            THEN <<Query(StartMonth, StartMonth + 1, "gtlt")>> ELSE <<>>
            /\ pc' = IF StartMonth = EndMonth THEN "collect" ELSE "rows"
            /\ month' = StartMonth
            /\ UNCHANGED err
    /\ UNCHANGED <<stored, bad, start, end, delivered, outcomes, result>>

\* for month := start_month; month <= end_month; month += month_sec
RowLoop ==
    /\ pc = "rows"
    /\ month <= EndMonth
    /\ issued' = Append(issued,
                   CASE month = StartMonth -> Query(month, month + 1, "gt")
                     [] month = EndMonth   -> Query(month, month, "lt")
                     [] OTHER              -> Query(month, month, "all"))
    /\ month' = (month + Month) % Word
    /\ UNCHANGED <<stored, bad, start, end, pc, delivered, outcomes, result, err>>

RowsDone ==
    /\ pc = "rows"
    /\ month > EndMonth
    /\ pc' = "collect"
    /\ UNCHANGED <<stored, bad, start, end, month, issued, delivered, outcomes, result, err>>

\* a goroutine's send is received by the collecting loop; a failing query
\* yields a prefix of its rows and an error on Close
Deliver(i) ==
    /\ pc = "collect"
    /\ i \in DOMAIN issued \ delivered
    /\ \E failed \in IF MayFail THEN BOOLEAN ELSE {FALSE} :
       \E n \in IF failed THEN 0..Len(Rows(issued[i])) - 1 ELSE {Len(Rows(issued[i]))} :
          outcomes' = Append(outcomes, [query |-> i, sortKey |-> issued[i].sortKey,
                                        rows |-> SubSeq(Rows(issued[i]), 1, n),
                                        failed |-> failed])
    /\ delivered' = delivered \cup {i}
    /\ UNCHANGED <<stored, bad, start, end, pc, month, issued, result, err>>

\* the order sort.Sort leaves asc in: no element Less than one before it
SortedAsc(s) == \A j, k \in DOMAIN s : j < k => ~(s[k].sortKey < s[j].sortKey)

\* wg.Wait closes the channel; sort.Sort(asc(outcomes)), which is not
\* stable: outcomes of equal sortKey may end up in either order
Collected ==
    /\ pc = "collect"
    /\ delivered = DOMAIN issued
    /\ \E s \in SetToSeqs(Range(outcomes)) :
          /\ SortedAsc(s)
          /\ outcomes' = s
    /\ pc' = "scan"
    /\ UNCHANGED <<stored, bad, start, end, month, issued, delivered, result, err>>

\* scan the first outcome's rows: a chunk that fails to decode returns the
\* iters so far with the error; a Close error is only logged
Scan ==
    /\ pc = "scan"
    /\ outcomes # <<>>
    /\ LET rows == Head(outcomes).rows
           badAt == {j \in DOMAIN rows : rows[j] \in bad}
       IN  IF badAt = {}
           THEN /\ result' = result \o rows
                /\ outcomes' = Tail(outcomes)
                /\ UNCHANGED <<pc, err>>
           ELSE /\ result' = result \o SubSeq(rows, 1, Min(badAt) - 1)
                /\ pc' = "done" /\ err' = "chunk"
                /\ UNCHANGED outcomes
    /\ UNCHANGED <<stored, bad, start, end, month, issued, delivered>>

ScanDone ==
    /\ pc = "scan"
    /\ outcomes = <<>>
    /\ pc' = "done"
    /\ UNCHANGED <<stored, bad, start, end, month, issued, delivered, outcomes, result, err>>

Next ==
    \/ CheckRange \/ RowLoop \/ RowsDone \/ Collected \/ Scan \/ ScanDone
    \/ \E i \in DOMAIN issued : Deliver(i)

Spec == Init /\ [][Next]_vars /\ WF_vars(Next)

-----------------------------------------------------------------------------
(***************************************************************************)
(* A search that returns no error returns every stored chunk whose        *)
(* interval meets [start, end), each once and in ascending t0, although   *)
(* the queries' results arrived in any order: it rests on the sortKeys    *)
(* (start_month for the LIMIT 1 query, start_month + 1 for the rest of    *)
(* start's row, month for the others) and on the LIMIT 1 query returning  *)
(* the newest chunk at or before start.  The spec (4.5) has a query error *)
(* returned to the caller, so a failed query may not go unreported.       *)
(***************************************************************************)
LegacySearchSound ==
    (pc = "done" /\ err = "none") =>
        /\ \A j, k \in DOMAIN result : j < k => result[j] < result[k]
        /\ \A t \in stored : (t < end /\ t + Span > start) => t \in Range(result)

(***************************************************************************)
(* The row loop queries each month row once: a month the loop visits is   *)
(* never one it visited before.  month is a uint32 stepped by month_sec;  *)
(* when end_month is the word's last month it wraps, and end = 0 makes    *)
(* end - 1 the top of the word, which start > end does not reject.        *)
(***************************************************************************)
RowsQueriedOnce ==
    \A j, k \in DOMAIN issued :
        (j < k /\ issued[j].kind # "le1" /\ issued[k].kind # "le1")
            => issued[j].month \div Month # issued[k].month \div Month

=============================================================================
