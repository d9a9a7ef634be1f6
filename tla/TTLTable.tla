------------------------------ MODULE TTLTable ------------------------------
(***************************************************************************)
(* GetTTLTables / GetTTLTable / getTable (src/docs/CONTRIBUTING): the      *)
(* table a chunk of a given TTL is written to and read from.  The table    *)
(* name is fmt.Sprintf(Table_name_format, preFactorWindow); the format is  *)
(* injective in the number, so a table is represented by that number.     *)
(*                                                                         *)
(* preFactorWindow = uint32(math.Exp2(math.Floor(math.Log2(ttl / 3600)))). *)
(* The float steps are modelled by what they compute over the rational    *)
(* ttl / 3600: floor(log2) is an integer, negative below one hour, and    *)
(* -Inf at ttl 0; Exp2 of it is a power of two, in (0, 1) when negative,  *)
(* and 0 at -Inf; the uint32 conversion truncates toward zero.  float64   *)
(* rounding never reaches floor(log2) for uint32 TTLs: ttl / 3600 is at    *)
(* least 1/(3600 * 2^20) of its value away from the next power of two,    *)
(* far above the 2^-52 of a float64, and an exact power of two is exact.  *)
(***************************************************************************)
EXTENDS Integers

CONSTANTS
    TTLs,          \* the TTLs the store is configured with (ttls argument)
    WindowFactor,  \* config.WindowFactor
    Requests       \* TTLs a read or a write request may carry

ASSUME WindowFactor \in Nat \ {0} /\ TTLs \subseteq Requests

VARIABLES ttl, result

vars == <<ttl, result>>

NotFound == [table |-> -1, windowSize |-> 0]   \* errTableNotFound
Pending == [table |-> -2, windowSize |-> 0]

\* math.Floor(math.Log2(n / d)) for n, d > 0; ttlUnits(ttl) is ttl / 3600
RECURSIVE FloorLog2Ratio(_, _)
FloorLog2Ratio(n, d) ==
    IF n >= 2 * d THEN 1 + FloorLog2Ratio(n, 2 * d)
    ELSE IF n < d THEN FloorLog2Ratio(2 * n, d) - 1
    ELSE 0

\* uint32(math.Exp2(k)): a negative k gives a value in (0, 1), truncated to 0
Uint32Exp2(k) == IF k < 0 THEN 0 ELSE 2^k

\* bug variant: math.Ceil in place of math.Floor
PreFactorWindowCeil(t) ==
    IF t = 0 THEN 0
    ELSE LET k == FloorLog2Ratio(t, 3600)
             exact == IF k >= 0 THEN t = 2^k * 3600 ELSE t * 2^(-k) = 3600
         IN  Uint32Exp2(IF exact THEN k ELSE k + 1)

\* Log2(0) is -Inf, Floor keeps it and Exp2(-Inf) is 0
PreFactorWindow(t) ==
    IF t = 0 THEN 0 ELSE Uint32Exp2(FloorLog2Ratio(t, 3600))

\* bug variant: the window size without its + 1
GetTTLTableNoMinimumWindow(t) ==
    [table |-> PreFactorWindow(t),
     windowSize |-> PreFactorWindow(t) \div WindowFactor]

GetTTLTable(t) ==
    [table |-> PreFactorWindow(t),
     windowSize |-> PreFactorWindow(t) \div WindowFactor + 1]

\* the map built once by NewCassandraStore
GetTTLTables == [t \in TTLs |-> GetTTLTable(t)]

\* getTable(ttl): the configured table, or errTableNotFound
GetTable(t) == IF t \in DOMAIN GetTTLTables THEN GetTTLTables[t] ELSE NotFound

Init == ttl \in Requests /\ result = Pending

Route ==
    /\ result = Pending
    /\ result' = GetTable(ttl)
    /\ UNCHANGED ttl

Next == Route

Spec == Init /\ [][Next]_vars

-----------------------------------------------------------------------------
TypeOK ==
    /\ ttl \in Requests
    /\ result \in {Pending, NotFound} \cup [table : Nat, windowSize : Nat \ {0}]

\* ceil(a / b) for a >= 0, b > 0
CeilDiv(a, b) == (a + b - 1) \div b

\* the date-tiered compaction windows of windowSize hours that the data of
\* one TTL (ttl seconds, not window-aligned) overlaps: the ceiling of
\* ttl / window, or one more
SSTablesLo(t, w) == CeilDiv(t, w * 3600)
SSTablesHi(t, w) == CeilDiv(t, w * 3600) + 1

(***************************************************************************)
(* The table of windows in GetTTLTable's comment (the "sstables" column)   *)
(* and spec 4.2: with window factor 20, the data of any configured TTL     *)
(* overlaps at most 2 * WindowFactor + 1 = 41 compaction windows, and, from *)
(* 256 hours up, at least WindowFactor = 20.  It rests on the + 1 of the    *)
(* window size, on Floor (not Ceil) of the Log2 and on the hours being     *)
(* the TTL over 3600; it is checked for TTLs on both sides of every band   *)
(* edge up to 2^17 hours.                                                  *)
(***************************************************************************)
SSTablesBounded ==
    result \notin {Pending, NotFound} =>
        /\ SSTablesHi(ttl, result.windowSize) <= 2 * WindowFactor + 1
        /\ ttl >= 256 * 3600 => SSTablesLo(ttl, result.windowSize) >= WindowFactor

=============================================================================
