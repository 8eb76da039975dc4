--------------------------- MODULE CircuitBreaker ---------------------------
(***************************************************************************)
(* Hosted generation as concurrent request threads of the query service    *)
(* see it: OpenAIGenerator.generate takes one of llm_concurrency slots,    *)
(* asks the shared CircuitBreaker for an epoch ticket, makes one HTTP call *)
(* and reports its result under that ticket.                               *)
(*                                                                         *)
(* acquire and finish run under the breaker's lock and are atomic; the     *)
(* HTTP call is everything that other threads do between them.             *)
(***************************************************************************)
EXTENDS Integers, FiniteSets

CONSTANTS Requests,    \* request threads; each may call generate again
          Limit,       \* llm_breaker_failures
          Slots,       \* llm_concurrency
          Uncaught,    \* whether _call may raise what generate does not catch
          MaxEpoch     \* bound: the provider stops failing at this epoch

ASSUME BreakerAssumption ==
    /\ Limit \in Nat \ {0}
    /\ Slots \in Nat \ {0}
    /\ Uncaught \in BOOLEAN
    /\ MaxEpoch \in Nat

VARIABLES opened,     \* "no", or the age of opened: "hot" or "cooled"
          failures,
          epoch,
          probing,
          free,       \* slots left in the semaphore
          pc,         \* where each thread is in generate
          ticket      \* the epoch it was given, None without one

breakerVars == <<opened, failures, epoch, probing>>
vars == <<breakerVars, free, pc, ticket>>

None == -1

Init ==
    /\ opened = "no"
    /\ failures = 0
    /\ epoch = 0
    /\ probing = FALSE
    /\ free = Slots
    /\ pc = [r \in Requests |-> "idle"]
    /\ ticket = [r \in Requests |-> None]

-----------------------------------------------------------------------------

\* The cooldown of llm_breaker_seconds has passed since opened.
Cool ==
    /\ opened = "hot"
    /\ opened' = "cooled"
    /\ UNCHANGED <<failures, epoch, probing, free, pc, ticket>>

Goto(r, step) == pc' = [pc EXCEPT ![r] = step]

\* Mutant: the result of the non-blocking acquire is not looked at.
MutantNoSlotCheck(r) ==
    /\ pc[r] = "idle"
    /\ free' = free - 1
    /\ Goto(r, "acquire")
    /\ UNCHANGED <<breakerVars, ticket>>

\* slots.acquire(blocking=False); without a slot generate raises "busy" and
\* nothing changes.
TakeSlot(r) ==
    /\ pc[r] = "idle"
    /\ free > 0
    /\ free' = free - 1
    /\ Goto(r, "acquire")
    /\ UNCHANGED <<breakerVars, ticket>>

\* Open and not cooled down, or a probe is already under way.
Refuses == opened = "hot" \/ (opened = "cooled" /\ probing)

\* breaker.acquire: refuse ("circuit_open"), or hand out the epoch; after the
\* cooldown the ticket is the probe's.
Acquire(r) ==
    /\ pc[r] = "acquire"
    /\ \/ /\ Refuses
          /\ Goto(r, "release")
          /\ UNCHANGED <<probing, ticket>>
       \/ /\ ~Refuses
          /\ probing' = (opened # "no")
          /\ ticket' = [ticket EXCEPT ![r] = epoch]
          /\ Goto(r, "call")
    /\ UNCHANGED <<opened, failures, epoch, free>>

\* Mutants: the counter survives a recovery; the probe's success is counted
\* but opened is not cleared.
MutantKeepFailures ==
    /\ opened' = IF probing THEN "no" ELSE opened
    /\ probing' = FALSE
    /\ epoch' = IF probing THEN epoch + 1 ELSE epoch
    /\ UNCHANGED failures

MutantStayOpen ==
    /\ failures' = 0
    /\ probing' = FALSE
    /\ UNCHANGED <<opened, epoch>>

\* finish with a current ticket and success: a probe's success closes.
Succeed ==
    /\ failures' = 0
    /\ opened' = IF probing THEN "no" ELSE opened
    /\ probing' = FALSE
    /\ epoch' = IF probing THEN epoch + 1 ELSE epoch

\* Mutants: only the counter opens the breaker, and opening resets it, so a
\* failed probe stays half open; opening does not start a new epoch.
MutantProbeIgnored ==
    LET opens == failures + 1 >= Limit
    IN  /\ failures' = IF opens THEN 0 ELSE failures + 1
        /\ opened' = IF opens THEN "hot" ELSE opened
        /\ probing' = (probing /\ ~opens)
        /\ epoch' = IF opens THEN epoch + 1 ELSE epoch

MutantSameEpoch ==
    LET opens == probing \/ failures + 1 >= Limit
    IN  /\ failures' = failures + 1
        /\ opened' = IF opens THEN "hot" ELSE opened
        /\ probing' = (probing /\ ~opens)
        /\ UNCHANGED epoch

\* finish with a current ticket and failure: a probe's failure, or the last
\* one allowed, opens. The counter keeps growing until a success.
Stumble ==
    LET opens == probing \/ failures + 1 >= Limit
    IN  /\ failures' = failures + 1
        /\ opened' = IF opens THEN "hot" ELSE opened
        /\ probing' = (probing /\ ~opens)
        /\ epoch' = IF opens THEN epoch + 1 ELSE epoch

Leave(r) ==
    /\ Goto(r, "release")
    /\ ticket' = [ticket EXCEPT ![r] = None]

\* The ticket still belongs to the current epoch.
Current(r) == ticket[r] = epoch

\* _call returned or raised, and finish applies the result unless the breaker
\* changed epoch during the call.
Finish(r, success) ==
    /\ pc[r] = "call"
    /\ success \/ epoch < MaxEpoch
    /\ \/ Current(r) /\ success /\ Succeed
       \/ Current(r) /\ ~success /\ Stumble
       \/ ~Current(r) /\ UNCHANGED breakerVars
    /\ Leave(r)
    /\ UNCHANGED free

\* Anything but HTTPError, ValueError, KeyError and TypeError passes generate
\* without a finish.
Escape(r) ==
    /\ Uncaught
    /\ pc[r] = "call"
    /\ Leave(r)
    /\ UNCHANGED <<breakerVars, free>>

\* Mutant: a refused call raises before the try whose finally releases.
MutantLeakSlot(r) ==
    /\ pc[r] = "release"
    /\ free' \in {free, free + 1}
    /\ Goto(r, "idle")
    /\ UNCHANGED <<breakerVars, ticket>>

\* finally: slots.release().
ReleaseSlot(r) ==
    /\ pc[r] = "release"
    /\ free' = free + 1
    /\ Goto(r, "idle")
    /\ UNCHANGED <<breakerVars, ticket>>

-----------------------------------------------------------------------------

Generate(r) == TakeSlot(r) \/ Acquire(r) \/ Escape(r) \/ ReleaseSlot(r)

Next ==
    \/ Cool
    \/ \E r \in Requests : Generate(r) \/ Finish(r, TRUE) \/ Finish(r, FALSE)

Spec == Init /\ [][Next]_vars

(* Time passes, and llm_timeout_seconds ends every call, one way or another. *)
Fairness ==
    /\ WF_vars(Cool)
    /\ \A r \in Requests :
          WF_vars(Acquire(r) \/ Finish(r, TRUE) \/ Finish(r, FALSE) \/ ReleaseSlot(r))

FairSpec == Spec /\ Fairness

-----------------------------------------------------------------------------
(* Properties. *)

TypeOK ==
    /\ opened \in {"no", "hot", "cooled"}
    /\ failures \in Nat
    /\ epoch \in Nat
    /\ probing \in BOOLEAN
    /\ free \in 0..Slots
    /\ pc \in [Requests -> {"idle", "acquire", "call", "release"}]
    /\ ticket \in [Requests -> Nat \cup {None}]

InSlot == {r \in Requests : pc[r] # "idle"}

\* Every slot is free or held by one thread, on every path out of generate:
\* refusals and unexpected exceptions do not wear the semaphore out.
SlotsAccounted == free + Cardinality(InSlot) = Slots

\* A closed breaker always has failures left to spend: no history of openings
\* and probes leaves it closed and one step past its limit.
ClosedBelowLimit == opened = "no" => failures < Limit

Live == {r \in Requests : pc[r] = "call" /\ Current(r)}

\* A probe under way has a thread that will report it, so the breaker cannot
\* refuse for ever - provided generate catches whatever _call raises.
ProbeHasReporter == probing => Live # {}

\* The promise of Breaker: one probe, and no call from before a change of mode
\* counts after it (breaker.py: "keep old in-flight calls from settling a
\* recovery probe").
Abstract == INSTANCE Breaker WITH
    mode <- IF opened = "no" THEN "closed" ELSE IF probing THEN "halfopen" ELSE "open",
    live <- Live

ImplementsBreaker == Abstract!Spec

Failure == \E r \in Requests : pc[r] = "call" /\ Current(r) /\ Finish(r, FALSE)

\* Once the provider answers again, and as long as questions keep coming, the
\* breaker closes: no interleaving of late failures, refusals and probes
\* keeps it open.
CircuitRecovers ==
    /\ <>[][~Failure]_vars
    /\ []<><<\E r \in Requests : TakeSlot(r)>>_vars
    => <>[](opened = "no")

=============================================================================
