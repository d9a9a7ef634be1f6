---------------------------- MODULE MC_TTLTable ----------------------------
(* TTLs on both sides of every power-of-two band of hours up to 2^17 hours, *)
(* plus 0 and sub-hour TTLs; one TTL a request may carry is unconfigured.   *)
EXTENDS TTLTable

MCTTLs == {0, 1, 3599} \cup
          {2^i * 3600 + d : i \in 0..17, d \in {-1, 0, 1}}
MCRequests == MCTTLs \cup {5 * 3600 + 7}

=============================================================================
