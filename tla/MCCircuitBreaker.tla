-------------------------- MODULE MCCircuitBreaker --------------------------
(* CircuitBreaker with two peers sharing the breaker, interchangeable       *)
(* requests and a clock that passes several cooldowns.                      *)
EXTENDS CircuitBreaker, TLC

Symmetry == Permutations(Requests) \cup Permutations(Peers)
=============================================================================
