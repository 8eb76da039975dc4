------------------------------- MODULE Breaker -------------------------------
(***************************************************************************)
(* What a circuit breaker promises its callers, without tickets, counters  *)
(* or clocks: while it is closed any call may start and its result counts; *)
(* while it is half open exactly the probe's result counts; changing mode  *)
(* makes every call still in flight irrelevant. CircuitBreaker implements  *)
(* this.                                                                   *)
(***************************************************************************)
CONSTANT Requests

VARIABLES mode,   \* "closed", "open" or "halfopen"
          live    \* calls in flight whose result will count

vars == <<mode, live>>

Init == mode = "closed" /\ live = {}

\* A call starts while the breaker is closed.
Admit(r) ==
    /\ mode = "closed"
    /\ r \notin live
    /\ live' = live \cup {r}
    /\ UNCHANGED mode

\* After the cooldown one call probes the provider.
Probe(r) ==
    /\ mode = "open"
    /\ mode' = "halfopen"
    /\ live' = {r}

\* A result that counts but changes nothing.
Settle(r) ==
    /\ mode = "closed"
    /\ r \in live
    /\ live' = live \ {r}
    /\ UNCHANGED mode

\* A failure that counts opens the breaker.
Open(r) ==
    /\ r \in live
    /\ mode' = "open"
    /\ live' = {}

\* The probe's success closes it.
Close(r) ==
    /\ mode = "halfopen"
    /\ r \in live
    /\ mode' = "closed"
    /\ live' = {}

\* A call ends without a verdict.
Abandon(r) ==
    /\ r \in live
    /\ live' = live \ {r}
    /\ UNCHANGED mode

Next ==
    \E r \in Requests :
        Admit(r) \/ Probe(r) \/ Settle(r) \/ Open(r) \/ Close(r) \/ Abandon(r)

Spec == Init /\ [][Next]_vars

=============================================================================
