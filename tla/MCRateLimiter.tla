--------------------------- MODULE MCRateLimiter ---------------------------
(***************************************************************************)
(* RateLimiter on a small instance: the server's bucket is refilled within *)
(* TTL, the mode's is not and is forgotten too soon; and the maps are      *)
(* cleaned up as soon as two clients are in them.                          *)
(***************************************************************************)
EXTENDS RateLimiter, TLC

CostValue == [l \in Limiters |-> IF l = Server THEN 1 ELSE 4]
BurstValue == [l \in Limiters |-> IF l = Server THEN 1 ELSE 8]

Symmetry == Permutations(Requests) \cup Permutations(Clients)
=============================================================================
