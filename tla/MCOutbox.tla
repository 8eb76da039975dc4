------------------------------ MODULE MCOutbox ------------------------------
(***************************************************************************)
(* Outbox on a small instance: two tenants, one of them with two documents.*)
(* Requests differ by their names only, documents of a tenant and tenants  *)
(* too. Instead of a symmetry set, which does not go with liveness, the    *)
(* first request's document is fixed and the others' come in order.        *)
(***************************************************************************)
EXTENDS Outbox, TLC

CONSTANTS t1, t2, d1, d2, d3, r1, r2, r3

MCTenants  == {t1, t2}
MCDocs     == {d1, d2, d3}
MCRequests == {r1, r2, r3}
MCTenantOf == [d \in MCDocs |-> IF d = d3 THEN t2 ELSE t1]

Place(d) == CASE d = d1 -> 1 [] d = d2 -> 2 [] d = d3 -> 3
InOrder ==
    /\ upload[r1] \in {None, d1}
    /\ None \in {upload[r2], upload[r3]} \/ Place(upload[r2]) <= Place(upload[r3])

MCSpec == Init /\ [][Next /\ InOrder']_vars /\ Fairness

=============================================================================
