----------------------------- MODULE MCHashMap -----------------------------
(* Keys that share a bucket at both capacities, at the first, at neither.  *)
EXTENDS HashMap

MCKeys == 0 .. 4
MCHash == [k \in MCKeys |-> <<0, 8, 4, 1, 5>>[k + 1]]

=============================================================================
