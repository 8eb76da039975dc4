------------------------ MODULE CircuitBreakerProofs ------------------------
(***************************************************************************)
(* For any number of request threads, any limit and any number of slots:   *)
(* CircuitBreaker accounts for its slots, never stays closed past its      *)
(* limit, and implements Breaker.                                          *)
(***************************************************************************)
EXTENDS CircuitBreaker, FiniteSetTheorems, TLAPS

(* The breaker's part of TypeOK; the slots are counted separately. *)
BreakerType ==
    /\ opened \in {"no", "hot", "cooled"}
    /\ failures \in Nat
    /\ epoch \in Nat
    /\ probing \in BOOLEAN
    /\ pc \in [Requests -> {"idle", "acquire", "call", "release"}]
    /\ ticket \in [Requests -> Nat \cup {None}]

(* No ticket is ahead of the epoch, so a change of epoch outdates them all. *)
TicketsIssued == \A r \in Requests : ticket[r] <= epoch

(* A probe belongs to a breaker that has cooled down. *)
ProbeAfterCooldown == probing => opened = "cooled"

(* Nobody holds a current ticket while the breaker is open and not probing,  *)
(* and at most one thread does while it probes.                              *)
OpenIsDeserted == opened # "no" /\ ~probing => Live = {}
OneProbe == probing => \A r, s \in Live : r = s

Inv ==
    /\ BreakerType
    /\ TicketsIssued
    /\ ProbeAfterCooldown
    /\ OpenIsDeserted
    /\ OneProbe
    /\ ClosedBelowLimit

(* Every disjunct of Next, for a case analysis. *)
LEMMA NextCases ==
    ASSUME Next
    PROVE  \/ Cool
           \/ \E r \in Requests : TakeSlot(r)
           \/ \E r \in Requests : Acquire(r)
           \/ \E r \in Requests : Escape(r)
           \/ \E r \in Requests : ReleaseSlot(r)
           \/ \E r \in Requests, success \in BOOLEAN : Finish(r, success)
BY DEF Next, Generate

(* The breaker's inductive invariant: where current tickets can be in each   *)
(* mode of acquire and finish.                                               *)
THEOREM BreakerInvariant == Spec => []Inv
<1>1. Init => Inv
  <2> SUFFICES ASSUME Init PROVE Inv
    OBVIOUS
  <2>1. BreakerType
    BY DEF Init, BreakerType, None
  <2>2. TicketsIssued
    BY DEF Init, TicketsIssued, None
  <2>3. ProbeAfterCooldown /\ OpenIsDeserted /\ OneProbe
    BY DEF Init, ProbeAfterCooldown, OpenIsDeserted, OneProbe
  <2>4. ClosedBelowLimit
    BY BreakerAssumption DEF Init, ClosedBelowLimit
  <2> QED  BY <2>1, <2>2, <2>3, <2>4 DEF Inv
<1>2. Inv /\ [Next]_vars => Inv'
  <2> SUFFICES ASSUME Inv, [Next]_vars PROVE Inv'
    OBVIOUS
  <2> USE DEF Inv, BreakerType, TicketsIssued, ProbeAfterCooldown, OpenIsDeserted,
              OneProbe, ClosedBelowLimit, Live, Current, breakerVars, Goto, None
  <2>1. CASE UNCHANGED vars
    BY <2>1 DEF vars
  <2>2. CASE Cool
    BY <2>2 DEF Cool
  <2>3. ASSUME NEW r \in Requests, TakeSlot(r) PROVE Inv'
    BY <2>3 DEF TakeSlot
  <2>4. ASSUME NEW r \in Requests, Acquire(r) PROVE Inv'
    <3>1. CASE Refuses
      BY <2>4, <3>1 DEF Acquire
    <3>2. CASE ~Refuses
      <4>1. opened = "no" \/ (opened = "cooled" /\ ~probing)
        BY <3>2 DEF Refuses
      <4>2. /\ probing' = (opened # "no")
            /\ ticket' = [ticket EXCEPT ![r] = epoch]
            /\ pc' = [pc EXCEPT ![r] = "call"]
            /\ UNCHANGED <<opened, failures, epoch>>
        BY <2>4, <3>2 DEF Acquire
      <4>3. Live' = Live \cup {r}
        BY <4>2
      <4>4. BreakerType' /\ TicketsIssued'
        BY <4>2
      <4>5. ProbeAfterCooldown' /\ OpenIsDeserted' /\ ClosedBelowLimit'
        BY <4>1, <4>2
      <4>6. OneProbe'
        BY <4>1, <4>2, <4>3
      <4> QED  BY <4>4, <4>5, <4>6
    <3> QED  BY <3>1, <3>2
  <2>5. ASSUME NEW r \in Requests, Escape(r) PROVE Inv'
    BY <2>5 DEF Escape, Leave
  <2>6. ASSUME NEW r \in Requests, ReleaseSlot(r) PROVE Inv'
    BY <2>6 DEF ReleaseSlot
  <2>7. ASSUME NEW r \in Requests, NEW success \in BOOLEAN, Finish(r, success) PROVE Inv'
    <3>1. CASE ~Current(r)
      BY <2>7, <3>1 DEF Finish, Leave, Succeed, Stumble
    <3>2. CASE Current(r) /\ success
      <4>0. /\ pc[r] = "call"
            /\ pc' = [pc EXCEPT ![r] = "release"]
            /\ ticket' = [ticket EXCEPT ![r] = None]
            /\ Succeed
        BY <2>7, <3>2 DEF Finish, Leave
      <4>1. BreakerType' /\ TicketsIssued'
        <5>1. epoch' \in Nat /\ epoch <= epoch'
          BY <4>0 DEF Succeed
        <5>2. opened' \in {"no", "hot", "cooled"} /\ probing' \in BOOLEAN /\ failures' \in Nat
          BY <4>0 DEF Succeed
        <5>3. /\ pc' \in [Requests -> {"idle", "acquire", "call", "release"}]
              /\ ticket' \in [Requests -> Nat \cup {None}]
          BY <4>0
        <5>4. TicketsIssued'
          BY <4>0, <5>1
        <5> QED  BY <5>1, <5>2, <5>3, <5>4
      <4>2. opened' = "no"
        BY <3>2, <4>0 DEF Succeed
      <4>3. ProbeAfterCooldown' /\ OneProbe'
        BY <4>0 DEF Succeed
      <4>4. OpenIsDeserted' /\ ClosedBelowLimit'
        BY <4>0, <4>2, BreakerAssumption DEF Succeed
      <4> QED  BY <4>1, <4>3, <4>4
    <3>3. CASE Current(r) /\ ~success
      BY <2>7, <3>3, BreakerAssumption DEF Finish, Leave, Stumble
    <3> QED  BY <3>1, <3>2, <3>3
  <2> QED  BY <2>1, <2>2, <2>3, <2>4, <2>5, <2>6, <2>7, NextCases
<1> QED  BY <1>1, <1>2, PTL DEF Spec

(* A closed breaker has failures left to spend, for every limit: closing     *)
(* always resets the counter that opening left at or past the limit.         *)
THEOREM LimitSafety == Spec => []ClosedBelowLimit
<1>1. Inv => ClosedBelowLimit
  BY DEF Inv
<1> QED  BY <1>1, BreakerInvariant, PTL

(* A probe always has a thread that will report it: the ticket of a probe    *)
(* stays current until that thread finishes. It needs that nothing but       *)
(* finish ends a call, which generate does not guarantee for every           *)
(* exception.                                                                *)
THEOREM ProbeSafety ==
    ASSUME ~Uncaught
    PROVE  Spec => []ProbeHasReporter
<1>1. Init => ProbeHasReporter
  BY DEF Init, ProbeHasReporter
<1>2. Inv /\ ProbeHasReporter /\ [Next]_vars => ProbeHasReporter'
  <2> SUFFICES ASSUME Inv, ProbeHasReporter, [Next]_vars PROVE ProbeHasReporter'
    OBVIOUS
  <2> USE DEF Inv, BreakerType, ProbeHasReporter, Live, Current, breakerVars, Goto
  <2>1. CASE UNCHANGED vars \/ Cool
    BY <2>1 DEF vars, Cool
  <2>2. ASSUME NEW r \in Requests, TakeSlot(r) \/ ReleaseSlot(r) PROVE ProbeHasReporter'
    BY <2>2 DEF TakeSlot, ReleaseSlot
  <2>3. ASSUME NEW r \in Requests, Acquire(r) PROVE ProbeHasReporter'
    <3>1. CASE Refuses
      BY <2>3, <3>1 DEF Acquire
    <3>2. CASE ~Refuses
      <4>1. r \in Live'
        BY <2>3, <3>2 DEF Acquire
      <4> QED  BY <4>1
    <3> QED  BY <3>1, <3>2
  <2>4. ASSUME NEW r \in Requests, NEW success \in BOOLEAN, Finish(r, success)
        PROVE  ProbeHasReporter'
    <3>1. CASE Current(r)
      BY <2>4, <3>1 DEF Finish, Leave, Succeed, Stumble
    <3>2. CASE ~Current(r)
      <4>1. probing' = probing /\ Live' = Live
        BY <2>4, <3>2 DEF Finish, Leave
      <4> QED  BY <4>1
    <3> QED  BY <3>1, <3>2
  <2>5. \A r \in Requests : ~Escape(r)
    BY DEF Escape
  <2> QED  BY <2>1, <2>2, <2>3, <2>4, <2>5, NextCases
<1> QED  BY <1>1, <1>2, BreakerInvariant, PTL DEF Spec

-----------------------------------------------------------------------------
(* Slots. *)

SlotInv ==
    /\ pc \in [Requests -> {"idle", "acquire", "call", "release"}]
    /\ IsFiniteSet(InSlot)
    /\ free \in Nat
    /\ SlotsAccounted

(* The threads inside generate are finitely many, and with the free slots    *)
(* they make up the semaphore.                                               *)
THEOREM SlotInvariant == Spec => []SlotInv
<1>1. Init => SlotInv
  <2> SUFFICES ASSUME Init PROVE SlotInv
    OBVIOUS
  <2>1. InSlot = {}
    BY DEF Init, InSlot
  <2>2. IsFiniteSet(InSlot) /\ Cardinality(InSlot) = 0
    BY <2>1, FS_EmptySet
  <2> QED  BY <2>2, BreakerAssumption DEF Init, SlotInv, SlotsAccounted
<1>2. SlotInv /\ [Next]_vars => SlotInv'
  <2> SUFFICES ASSUME SlotInv, [Next]_vars PROVE SlotInv'
    OBVIOUS
  <2> USE DEF SlotInv
  <2>0. Cardinality(InSlot) \in Nat
    BY FS_CardinalityType
  <2>1. ASSUME InSlot' = InSlot, free' = free,
               pc' \in [Requests -> {"idle", "acquire", "call", "release"}]
        PROVE  SlotInv'
    BY <2>1 DEF SlotsAccounted
  <2>2. CASE UNCHANGED vars \/ Cool
    BY <2>1, <2>2 DEF vars, Cool, InSlot
  <2>3. ASSUME NEW r \in Requests, TakeSlot(r) PROVE SlotInv'
    <3>1. r \notin InSlot /\ InSlot' = InSlot \cup {r}
      BY <2>3 DEF TakeSlot, Goto, InSlot
    <3>2. /\ IsFiniteSet(InSlot')
          /\ Cardinality(InSlot') = Cardinality(InSlot) + 1
      BY <3>1, FS_AddElement
    <3>3. free > 0 /\ free' = free - 1
      BY <2>3 DEF TakeSlot
    <3>4. pc' \in [Requests -> {"idle", "acquire", "call", "release"}]
      BY <2>3 DEF TakeSlot, Goto
    <3>5. free' \in Nat /\ free' + Cardinality(InSlot') = Slots
      BY <3>2, <3>3, <2>0, BreakerAssumption DEF SlotsAccounted
    <3> QED  BY <3>2, <3>4, <3>5 DEF SlotsAccounted
  <2>4. ASSUME NEW r \in Requests, ReleaseSlot(r) PROVE SlotInv'
    <3>1. r \in InSlot /\ InSlot' = InSlot \ {r}
      BY <2>4 DEF ReleaseSlot, Goto, InSlot
    <3>2. /\ IsFiniteSet(InSlot')
          /\ Cardinality(InSlot') = Cardinality(InSlot) - 1
      BY <3>1, FS_RemoveElement
    <3>3. free' = free + 1
      BY <2>4 DEF ReleaseSlot
    <3>4. pc' \in [Requests -> {"idle", "acquire", "call", "release"}]
      BY <2>4 DEF ReleaseSlot, Goto
    <3>5. free' \in Nat /\ free' + Cardinality(InSlot') = Slots
      BY <3>2, <3>3, <2>0, BreakerAssumption DEF SlotsAccounted
    <3> QED  BY <3>2, <3>4, <3>5 DEF SlotsAccounted
  <2>5. ASSUME NEW r \in Requests, Acquire(r) PROVE SlotInv'
    BY <2>1, <2>5 DEF Acquire, Goto, InSlot
  <2>6. ASSUME NEW r \in Requests, Escape(r) PROVE SlotInv'
    BY <2>1, <2>6 DEF Escape, Leave, Goto, InSlot
  <2>7. ASSUME NEW r \in Requests, NEW success \in BOOLEAN, Finish(r, success)
        PROVE  SlotInv'
    BY <2>1, <2>7 DEF Finish, Leave, Goto, InSlot
  <2> QED  BY <2>2, <2>3, <2>4, <2>5, <2>6, <2>7, NextCases
<1> QED  BY <1>1, <1>2, PTL DEF Spec

(* Slots are conserved on every path of generate, exceptions included. *)
THEOREM SlotSafety == Spec => []SlotsAccounted
<1>1. SlotInv => SlotsAccounted
  BY DEF SlotInv
<1> QED  BY <1>1, SlotInvariant, PTL

(* Every variable keeps its type, and the semaphore stays within its bound. *)
THEOREM BreakerTypeCorrect == Spec => []TypeOK
<1>1. SlotInv /\ Inv => TypeOK
  <2> SUFFICES ASSUME SlotInv, Inv PROVE TypeOK
    OBVIOUS
  <2>1. Cardinality(InSlot) \in Nat
    BY FS_CardinalityType DEF SlotInv
  <2>2. free \in 0..Slots
    BY <2>1, BreakerAssumption DEF SlotInv, SlotsAccounted
  <2> QED  BY <2>2 DEF Inv, BreakerType, TypeOK
<1>2. Spec => []SlotInv
  BY SlotInvariant
<1> QED  BY <1>1, <1>2, BreakerInvariant, PTL

-----------------------------------------------------------------------------
(* Refinement. *)

(* CircuitBreaker implements Breaker: the epoch a ticket carries is enough    *)
(* to tell the results that count from those that do not, whatever calls     *)
(* overlap the opening, the cooldown and the probe.                          *)
THEOREM Refinement == Spec => ImplementsBreaker
<1>1. Init => Abstract!Init
  BY DEF Init, Abstract!Init, Live
<1>2. Inv /\ Inv' /\ [Next]_vars => [Abstract!Next]_(Abstract!vars)
  <2> SUFFICES ASSUME Inv, Inv', [Next]_vars PROVE [Abstract!Next]_(Abstract!vars)
    OBVIOUS
  <2> DEFINE mode == IF opened = "no" THEN "closed" ELSE IF probing THEN "halfopen" ELSE "open"
  <2>0. ASSUME mode' = mode, Live' = Live PROVE [Abstract!Next]_(Abstract!vars)
    BY <2>0 DEF Abstract!vars
  <2> USE DEF Inv, BreakerType, breakerVars, Goto
  <2>1. CASE UNCHANGED vars
    BY <2>1, <2>0 DEF vars, Live, Current
  <2>2. CASE Cool
    BY <2>2, <2>0 DEF Cool, Live, Current
  <2>3. ASSUME NEW r \in Requests, TakeSlot(r) PROVE [Abstract!Next]_(Abstract!vars)
    BY <2>3, <2>0 DEF TakeSlot, Live, Current
  <2>4. ASSUME NEW r \in Requests, Acquire(r) PROVE [Abstract!Next]_(Abstract!vars)
    <3>1. CASE Refuses
      BY <2>4, <3>1, <2>0 DEF Acquire, Live, Current
    <3>2. CASE ~Refuses
      <4>1. opened = "no" \/ (opened = "cooled" /\ ~probing)
        BY <3>2 DEF Refuses
      <4>2. /\ probing' = (opened # "no")
            /\ ticket' = [ticket EXCEPT ![r] = epoch]
            /\ pc[r] = "acquire"
            /\ pc' = [pc EXCEPT ![r] = "call"]
            /\ UNCHANGED <<opened, failures, epoch>>
        BY <2>4, <3>2 DEF Acquire
      <4>3. r \notin Live /\ Live' = Live \cup {r}
        BY <4>2 DEF Live, Current
      <4>4. CASE opened = "no"
        <5>1. mode = "closed" /\ mode' = "closed"
          BY <4>2, <4>4
        <5>2. Abstract!Admit(r)
          BY <4>3, <5>1 DEF Abstract!Admit
        <5> QED  BY <5>2 DEF Abstract!Next
      <4>5. CASE opened = "cooled" /\ ~probing
        <5>1. mode = "open" /\ mode' = "halfopen"
          BY <4>2, <4>5
        <5>2. Live' = {r}
          BY <4>3, <4>5 DEF OpenIsDeserted
        <5>3. Abstract!Probe(r)
          BY <5>1, <5>2 DEF Abstract!Probe
        <5> QED  BY <5>3 DEF Abstract!Next
      <4> QED  BY <4>1, <4>4, <4>5
    <3> QED  BY <3>1, <3>2
  <2>5. ASSUME NEW r \in Requests, Escape(r) PROVE [Abstract!Next]_(Abstract!vars)
    <3>1. Live' = Live \ {r} /\ mode' = mode
      BY <2>5 DEF Escape, Leave, Live, Current
    <3>2. CASE r \notin Live
      BY <3>1, <3>2, <2>0
    <3>3. CASE r \in Live
      <4>1. Abstract!Abandon(r)
        BY <3>1, <3>3 DEF Abstract!Abandon
      <4> QED  BY <4>1 DEF Abstract!Next
    <3> QED  BY <3>2, <3>3
  <2>6. ASSUME NEW r \in Requests, ReleaseSlot(r) PROVE [Abstract!Next]_(Abstract!vars)
    BY <2>6, <2>0 DEF ReleaseSlot, Live, Current
  <2>7. ASSUME NEW r \in Requests, NEW success \in BOOLEAN, Finish(r, success)
        PROVE  [Abstract!Next]_(Abstract!vars)
    <3>0. pc[r] = "call" /\ pc' = [pc EXCEPT ![r] = "release"]
          /\ ticket' = [ticket EXCEPT ![r] = None]
      BY <2>7 DEF Finish, Leave
    <3>1. CASE ~Current(r)
      <4>1. UNCHANGED breakerVars
        BY <2>7, <3>1 DEF Finish
      <4>2. Live' = Live
        BY <3>0, <3>1, <4>1 DEF Live, Current
      <4> QED  BY <4>1, <4>2, <2>0
    <3>2. ASSUME epoch' = epoch + 1 PROVE Live' = {}
      BY <3>2, <3>0 DEF Live, Current, TicketsIssued, None
    <3>3. ASSUME epoch' = epoch PROVE Live' = Live \ {r}
      BY <3>3, <3>0 DEF Live, Current
    <3>4. CASE Current(r) /\ success
      <4>0. r \in Live /\ Succeed
        BY <2>7, <3>0, <3>4 DEF Live, Finish
      <4>1. CASE probing
        <5>1. mode = "halfopen" /\ mode' = "closed" /\ Live' = {}
          BY <4>0, <4>1, <3>2 DEF Succeed, ProbeAfterCooldown
        <5>2. Abstract!Close(r)
          BY <4>0, <5>1 DEF Abstract!Close
        <5> QED  BY <5>2 DEF Abstract!Next
      <4>2. CASE ~probing
        <5>1. mode = "closed" /\ mode' = "closed" /\ Live' = Live \ {r}
          BY <4>0, <4>2, <3>3 DEF Succeed, OpenIsDeserted
        <5>2. Abstract!Settle(r)
          BY <4>0, <5>1 DEF Abstract!Settle
        <5> QED  BY <5>2 DEF Abstract!Next
      <4> QED  BY <4>1, <4>2
    <3>5. CASE Current(r) /\ ~success
      <4>0. r \in Live /\ Stumble
        BY <2>7, <3>0, <3>5 DEF Live, Finish
      <4>1. CASE probing \/ failures + 1 >= Limit
        <5>1. mode' = "open" /\ Live' = {}
          BY <4>0, <4>1, <3>2 DEF Stumble
        <5>2. Abstract!Open(r)
          BY <4>0, <5>1 DEF Abstract!Open
        <5> QED  BY <5>2 DEF Abstract!Next
      <4>2. CASE ~(probing \/ failures + 1 >= Limit)
        <5>1. mode = "closed" /\ mode' = "closed" /\ Live' = Live \ {r}
          BY <4>0, <4>2, <3>3 DEF Stumble, OpenIsDeserted
        <5>2. Abstract!Settle(r)
          BY <4>0, <5>1 DEF Abstract!Settle
        <5> QED  BY <5>2 DEF Abstract!Next
      <4> QED  BY <4>1, <4>2
    <3> QED  BY <3>1, <3>4, <3>5
  <2> QED  BY <2>1, <2>2, <2>3, <2>4, <2>5, <2>6, <2>7, NextCases
<1> QED  BY <1>1, <1>2, BreakerInvariant, PTL DEF Spec, ImplementsBreaker, Abstract!Spec

=============================================================================
