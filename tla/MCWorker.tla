------------------------------ MODULE MCWorker ------------------------------
(* Worker on small instances. *)
EXTENDS Worker, TLC

Symmetry == Permutations(Workers) \cup Permutations(Docs)

=============================================================================
