----------------------------- MODULE MCGateway ------------------------------
(***************************************************************************)
(* The gateway's parts and its browser client on small instances. They     *)
(* share no state: a resolved key and a rate decision are single answers   *)
(* to the proxy, and a response one to the browser, which take each of     *)
(* them freely. The initial state therefore picks the part to run, and one *)
(* run explores them all.                                                  *)
(***************************************************************************)
EXTENDS KeyCache, RateLimiter, GatewayProxy, Workspace, TLC

VARIABLE part

ASSUME /\ KeyCacheAssumption /\ RateAssumption /\ ProxyAssumption /\ WorkspaceAssumption

vars == <<part, keyVars, bucketVars, proxyVars, workspaceVars>>

\* A part that is not running rests in one of its initial states.
Init ==
    /\ part \in {"keys", "bucket", "proxy", "browser"}
    /\ KeyInit /\ (part = "keys" \/ published = {})
    /\ BucketInit
    /\ ProxyInit /\ (part = "proxy" \/ req = [r \in Exchanges |-> Fresh(CHOOSE u \in Users : TRUE)])
    /\ WorkspaceInit

Next ==
    /\ UNCHANGED part
    /\ \/ part = "keys" /\ KeyNext /\ UNCHANGED <<bucketVars, proxyVars, workspaceVars>>
       \/ part = "bucket" /\ BucketNext /\ UNCHANGED <<keyVars, proxyVars, workspaceVars>>
       \/ part = "proxy" /\ ProxyNext /\ UNCHANGED <<keyVars, bucketVars, workspaceVars>>
       \/ part = "browser" /\ WorkspaceNext /\ UNCHANGED <<keyVars, bucketVars, proxyVars>>

Spec == Init /\ [][Next]_vars

Symmetry == Permutations(Requests) \cup Permutations(Slots)

=============================================================================
