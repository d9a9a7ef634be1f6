--------------------------- MODULE MC_SearchTable ---------------------------
(* An 8-bit word and a 24-second month: 256 % 24 = 16, so, as with uint32   *)
(* and Month_sec, the word ends part-way through a month.  Chunks of span 6 *)
(* are stored over the first three months.                                  *)
EXTENDS SearchTable

\* start and end around month boundaries, below the top month of the word
Bounds == {0, 1, 5, 6, 23, 24, 25, 47, 48, 50, 71, 72}
MCRanges == Bounds \X Bounds

\* every range also reaching into the word's last month
MCRangesToTop == MCRanges \cup {<<s, e>> : s \in {0, 230}, e \in {241, 250}}

MCStoredT0s == {0, 18, 24, 42, 48, 66}

=============================================================================
