-------------------------- MODULE MCCircuitBreaker --------------------------
(* CircuitBreaker on small instances: request threads are interchangeable. *)
EXTENDS CircuitBreaker, TLC

Symmetry == Permutations(Requests)

=============================================================================
