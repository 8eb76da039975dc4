---------------------------- MODULE WorkerProofs ----------------------------
(***************************************************************************)
(* What Worker guarantees for every number of workers, documents, events   *)
(* and attempts.                                                           *)
(***************************************************************************)
EXTENDS Worker, CountingTheorems, TLAPS

-----------------------------------------------------------------------------
(* Facts about the operators of the group. *)

\* A redelivery leaves an entry pending, within the counter's range.
LEMMA RedeliveredRange ==
    ASSUME NEW n \in 0..(MaxAttempts + 1)
    PROVE  Redelivered(n) \in 1..(MaxAttempts + 1)
  BY WorkerAssumption DEF Redelivered

\* A scan visits pending entries only and continues at an entry of the stream.
LEMMA ScanRange ==
    ASSUME NEW c \in 0..MaxEvents
    PROVE  /\ Scanned(c) \subseteq Pending
           /\ NextCursor(c) \in 0..MaxEvents
  <1>1. Scanned(c) \subseteq Pending
    BY DEF Scanned
  <1>2. Pending \subseteq 0..MaxEvents
    BY WorkerAssumption DEF Pending, Ids
  <1> DEFINE rest == {m \in Pending : m >= c} \ Scanned(c)
  <1>3. rest \subseteq Pending
    OBVIOUS
  <1>4. CASE rest = {}
    BY <1>1, <1>4, WorkerAssumption DEF NextCursor
  <1>5. CASE rest # {}
    <2> HIDE DEF rest
    <2>1. rest \subseteq Nat /\ rest \subseteq 0..MaxEvents
      BY <1>2, <1>3, WorkerAssumption
    <2>2. \E m \in rest : \A k \in rest : m <= k
      BY <1>5, <2>1, LeastNatural
    <2>3. (CHOOSE m \in rest : \A k \in rest : m <= k) \in 0..MaxEvents
      BY <2>1, <2>2
    <2> QED
      BY <1>1, <1>5, <2>3 DEF NextCursor, rest
  <1> QED
    BY <1>4, <1>5

-----------------------------------------------------------------------------
(* Type correctness. The ranges alone are not inductive: XACK and the dead   *)
(* letter need that a worker in handle() has a delivery, XREADGROUP needs    *)
(* that the group exists, Publish that nothing beyond the stream's end was   *)
(* delivered.                                                                *)

Control ==
    /\ offset <= added
    /\ \A m \in Ids : pel[m] > 0 => m <= offset
    /\ \A m \in dlq : m <= offset
    /\ \A w \in Workers :
          /\ pc[w] \in Handling <=> msg[w] # NoMsg
          /\ pc[w] \notin {"down", "setup"} => offset # NoGroup
          /\ msg[w] # NoMsg => msg[w] <= offset
          /\ \A m \in batch[w] : m <= offset

\* The faults that change nothing but the worker itself.
Abandon(w) == Transient(w) \/ RedisFault(w) \/ Crash(w) \/ Stop(w)

USE DEF streamVars, groupVars, docVars, localVars

\* Delivering any set of entries keeps the counters in range and pending
\* entries pending; only delivered entries become pending.
LEMMA DeliverEffect ==
    ASSUME TypeOK, NEW S \in SUBSET Ids, Deliver(S)
    PROVE  /\ pel' \in [Ids -> 0..(MaxAttempts + 1)]
           /\ lapsed' \in SUBSET Ids
           /\ \A m \in Ids : pel'[m] > 0 <=> (m \in S \/ pel[m] > 0)
  <1>1. \A m \in Ids : Redelivered(pel[m]) \in 1..(MaxAttempts + 1)
    BY RedeliveredRange DEF TypeOK
  <1> QED
    BY <1>1, WorkerAssumption DEF Deliver, TypeOK

\* Every call and fault of the worker keeps the variables in their ranges and
\* the control state consistent.
THEOREM ControlInvariant == Spec => [](TypeOK /\ Control)
  <1> USE WorkerAssumption
  <1>1. Init => TypeOK /\ Control
    <2> SUFFICES ASSUME Init PROVE TypeOK /\ Control
      OBVIOUS
    <2>1. TypeOK
      BY DEF Init, TypeOK, Ids, Targets, NoGroup, Statuses, Outputs, Calls, NoMsg
    <2>2. Control
      BY DEF Init, Control, Handling, DatabaseCalls, NoMsg, NoGroup
    <2> QED
      BY <2>1, <2>2
  <1>2. TypeOK /\ Control /\ [Next]_vars => TypeOK' /\ Control'
    <2> SUFFICES ASSUME TypeOK, Control, [Next]_vars PROVE TypeOK' /\ Control'
      OBVIOUS
    <2> USE DEF Goto, NoMsg, Calls, RedisCalls, DatabaseCalls, Handling
    <2>1. ASSUME NEW t \in Targets, Publish(t) PROVE TypeOK' /\ Control'
      <3>1. TypeOK'
        BY <2>1 DEF Publish, TypeOK, Ids, NoGroup
      <3>2. Control'
        BY <2>1 DEF Publish, TypeOK, Control, Ids, NoGroup
      <3> QED
        BY <3>1, <3>2
    <2>2. ASSUME NEW m \in Ids, Lapse(m) PROVE TypeOK' /\ Control'
      BY <2>2 DEF Lapse, TypeOK, Control
    <2>3. ASSUME NEW w \in Workers, Setup(w) PROVE TypeOK' /\ Control'
      <3>1. GroupOffset \in 0..MaxEvents /\ GroupOffset <= added /\ offset <= GroupOffset
        BY DEF GroupOffset, TypeOK, Control, NoGroup
      <3>2. GroupOffset # NoGroup
        BY <3>1 DEF NoGroup
      <3>3. TypeOK'
        BY <2>3, <3>1 DEF Setup, TypeOK, NoGroup
      <3>4. \A m \in Ids : m <= offset => m <= GroupOffset
        BY <3>1 DEF TypeOK, Ids, NoGroup
      <3>5. \A v \in Workers : msg[v] # NoMsg => msg[v] \in Ids
        BY DEF TypeOK, Ids
      <3> HIDE DEF Ids, NoGroup
      <3>6. Control'
        BY <2>3, <3>1, <3>2, <3>4, <3>5 DEF Setup, TypeOK, Control
      <3> QED
        BY <3>3, <3>6
    <2>4. ASSUME NEW w \in Workers, Reclaim(w) PROVE TypeOK' /\ Control'
      <3> DEFINE claimed == Scanned(cursor[w]) \cap lapsed
      <3>1. claimed \in SUBSET Ids /\ NextCursor(cursor[w]) \in 0..MaxEvents
        BY ScanRange DEF Pending, TypeOK
      <3>2. \A m \in claimed : pel[m] > 0 /\ m <= offset
        BY ScanRange DEF Pending, TypeOK, Control
      <3>3. Deliver(claimed)
        BY <2>4 DEF Reclaim
      <3> HIDE DEF claimed
      <3>4. /\ cursor' = [cursor EXCEPT ![w] = NextCursor(cursor[w])]
            /\ batch' = [batch EXCEPT ![w] = claimed]
            /\ pc' = [pc EXCEPT ![w] = IF claimed = {} THEN "read" ELSE "next"]
            /\ pc[w] = "pass"
            /\ UNCHANGED <<streamVars, offset, dlq, docVars, msg, attempts, runs>>
        BY <2>4 DEF Reclaim, claimed
      <3>5. TypeOK'
        BY <3>1, <3>3, <3>4, DeliverEffect DEF TypeOK
      <3>6. Control'
        BY <3>1, <3>2, <3>3, <3>4, DeliverEffect DEF TypeOK, Control
      <3> QED
        BY <3>5, <3>6
    <2>5. ASSUME NEW w \in Workers, SkipReclaim(w) PROVE TypeOK' /\ Control'
      BY <2>5 DEF SkipReclaim, TypeOK, Control
    <2>6. ASSUME NEW w \in Workers, Read(w) PROVE TypeOK' /\ Control'
      <3>1. offset \in 0..MaxEvents /\ offset <= added
        <4>1. offset # NoGroup
          BY <2>6 DEF Read, Control
        <4>2. offset \in NoGroup..MaxEvents /\ added \in 0..MaxEvents /\ offset <= added
          BY DEF TypeOK, Control
        <4> QED
          BY <4>1, <4>2 DEF NoGroup
      <3>2. /\ NewEntries \in SUBSET Ids
            /\ LastNew \in offset..added
            /\ \A m \in NewEntries : m <= LastNew
        BY <3>1 DEF NewEntries, LastNew, TypeOK, Ids
      <3>3. Deliver(NewEntries)
        BY <2>6 DEF Read
      <3>4. TypeOK'
        <4>1. LastNew \in NoGroup..MaxEvents
          BY <3>1, <3>2 DEF TypeOK, NoGroup
        <4>2. pel' \in [Ids -> 0..(MaxAttempts + 1)] /\ lapsed' \in SUBSET Ids
          BY <3>2, <3>3, DeliverEffect
        <4> QED
          BY <2>6, <3>2, <4>1, <4>2 DEF Read, TypeOK
      <3>5. \A m \in Ids : pel'[m] > 0 => m <= LastNew
        <4>1. \A m \in Ids : pel'[m] > 0 <=> (m \in NewEntries \/ pel[m] > 0)
          BY <3>2, <3>3, DeliverEffect
        <4> QED
          BY <4>1, <3>1, <3>2 DEF Control, Ids, TypeOK
      <3>6. \A m \in Ids : m <= offset => m <= LastNew
        BY <3>1, <3>2 DEF TypeOK, Ids
      <3>7. LastNew # NoGroup /\ LastNew <= added
        BY <3>1, <3>2 DEF NoGroup, TypeOK
      <3>8. \A v \in Workers : msg[v] # NoMsg => msg[v] \in Ids
        BY DEF TypeOK, Ids
      <3>9. Control'
        BY <2>6, <3>2, <3>5, <3>6, <3>7, <3>8 DEF Read, TypeOK, Control
      <3> QED
        BY <3>4, <3>9
    <2>7. ASSUME NEW w \in Workers, Check(w) PROVE TypeOK' /\ Control'
      <3>1. PICK m \in batch[w] :
               \/ /\ pel[m] = 0
                  /\ Return(w, batch[w] \ {m})
               \/ /\ pel[m] > 0
                  /\ pc' = [pc EXCEPT ![w] = IF event[m] = Malformed THEN "dead" ELSE "lookup"]
                  /\ batch' = [batch EXCEPT ![w] = @ \ {m}]
                  /\ msg' = [msg EXCEPT ![w] = m]
                  /\ attempts' = [attempts EXCEPT ![w] = pel[m]]
                  /\ UNCHANGED cursor
        BY <2>7 DEF Check
      <3>2. m \in Ids /\ m <= offset
        BY DEF TypeOK, Control
      <3>3. UNCHANGED <<streamVars, groupVars, dlq, docVars, runs>>
        BY <2>7 DEF Check
      <3>4. TypeOK'
        <4>1. m \in 1..MaxEvents
          BY <3>2 DEF Ids
        <4> QED
          BY <3>1, <3>3, <4>1 DEF Return, TypeOK
      <3>5. Control'
        <4>1. m # 0 /\ pc[w] = "next"
          BY <2>7, <3>2 DEF Ids, Check
        <4>2. CASE Return(w, batch[w] \ {m})
          BY <3>3, <4>1, <4>2 DEF Return, TypeOK, Control
        <4> QED
          BY <3>1, <3>2, <3>3, <4>1, <4>2 DEF TypeOK, Control
      <3> QED
        BY <3>4, <3>5
    <2>8. ASSUME NEW w \in Workers, Lookup(w) PROVE TypeOK' /\ Control'
      BY <2>8 DEF Lookup, Decision, TypeOK, Control
    <2>9. ASSUME NEW w \in Workers, Begin(w) PROVE TypeOK' /\ Control'
      <3>1. msg[w] \in Ids
        BY <2>9 DEF Begin, TypeOK, Control, Ids
      <3>2. TypeOK'
        <4>1. runs' \in [Ids -> Nat]
          <5>1. /\ runs \in [Ids -> Nat]
                /\ runs' = [runs EXCEPT ![msg[w]] = IF @ > MaxAttempts THEN @ ELSE @ + 1]
            BY <2>9 DEF Begin, TypeOK
          <5> QED
            BY <3>1, <5>1
        <4> QED
          BY <2>9, <4>1 DEF Begin, MarkStatus, Statuses, TypeOK
      <3>3. Control'
        BY <2>9, <3>1 DEF Begin, MarkStatus, Statuses, TypeOK, Control
      <3> QED
        BY <3>2, <3>3
    <2>10. ASSUME NEW w \in Workers, Index(w) \/ Finish(w) \/ Reject(w) \/ Fail(w)
           PROVE  TypeOK' /\ Control'
      <3>1. TypeOK'
        BY <2>10 DEF Index, Finish, Reject, Fail, MarkStatus, Statuses, Outputs, TypeOK
      <3>2. Control'
        BY <2>10 DEF Index, Finish, Reject, Fail, TypeOK, Control
      <3> QED
        BY <3>1, <3>2
    <2>11. ASSUME NEW w \in Workers, DeadLetter(w) PROVE TypeOK' /\ Control'
      <3>1. msg[w] \in Ids
        BY <2>11 DEF DeadLetter, TypeOK, Control, Ids
      <3> QED
        BY <2>11, <3>1 DEF DeadLetter, TypeOK, Control
    <2>12. ASSUME NEW w \in Workers, Ack(w) PROVE TypeOK' /\ Control'
      <3>1. msg[w] \in Ids
        BY <2>12 DEF Ack, TypeOK, Control, Ids
      <3>2. TypeOK'
        BY <2>12, <3>1 DEF Ack, Return, TypeOK
      <3>3. Control'
        BY <2>12, <3>1 DEF Ack, Return, TypeOK, Control
      <3> QED
        BY <3>2, <3>3
    <2>13. ASSUME NEW w \in Workers, Abandon(w) \/ Restart(w) PROVE TypeOK' /\ Control'
      <3>1. TypeOK'
        BY <2>13 DEF Abandon, Restart, Transient, RedisFault, Crash, Stop, Return, Forget, TypeOK
      <3>2. Control'
        BY <2>13 DEF Abandon, Restart, Transient, RedisFault, Crash, Stop, Return, Forget,
                     TypeOK, Control
      <3> QED
        BY <3>1, <3>2
    <2>15. ASSUME NEW w \in Workers, LostReclaim(w) PROVE TypeOK' /\ Control'
      <3> DEFINE claimed == Scanned(cursor[w]) \cap lapsed
      <3>1. /\ claimed \in SUBSET Ids
            /\ \A m \in claimed : pel[m] > 0 /\ m <= offset
        BY ScanRange DEF Pending, TypeOK, Control
      <3>2. Deliver(claimed)
        BY <2>15 DEF LostReclaim
      <3> HIDE DEF claimed
      <3>3. /\ batch' = [batch EXCEPT ![w] = {}]
            /\ msg' = [msg EXCEPT ![w] = NoMsg]
            /\ attempts' = [attempts EXCEPT ![w] = 0]
            /\ pc' = [pc EXCEPT ![w] = "setup"]
            /\ UNCHANGED <<streamVars, offset, dlq, docVars, cursor, runs>>
        BY <2>15 DEF LostReclaim, Forget
      <3>4. TypeOK'
        BY <3>1, <3>2, <3>3, DeliverEffect DEF TypeOK
      <3>5. Control'
        BY <3>1, <3>2, <3>3, DeliverEffect DEF TypeOK, Control
      <3> QED
        BY <3>4, <3>5
    <2>16. ASSUME NEW w \in Workers, LostMark(w) PROVE TypeOK' /\ Control'
      <3>1. TypeOK'
        BY <2>16 DEF LostMark, Return, MarkStatus, Statuses, TypeOK
      <3>2. Control'
        BY <2>16 DEF LostMark, Return, TypeOK, Control
      <3> QED
        BY <3>1, <3>2
    <2>14. CASE UNCHANGED vars
      BY <2>14 DEF vars, TypeOK, Control
    <2> QED
      BY <2>1, <2>2, <2>3, <2>4, <2>5, <2>6, <2>7, <2>8, <2>9, <2>10, <2>11, <2>12,
         <2>13, <2>14, <2>15, <2>16 DEF Next, Pass, Handle, Fault, Abandon
  <1> QED
    BY <1>1, <1>2, PTL DEF Spec

\* The ranges of the variables, as the runs check them.
THEOREM TypeCorrect == Spec => []TypeOK
  BY ControlInvariant, PTL

-----------------------------------------------------------------------------
(* Durable persistence precedes acknowledgement. The invariant follows the   *)
(* delivery through handle(): at "finish" the output is committed, at "ack"  *)
(* the outcome is durable, and no later step of any worker undoes either.    *)

Progress ==
    \A w \in Workers :
        /\ pc[w] \in DatabaseCalls => Doc(w) # Malformed
        /\ pc[w] \in {"begin", "index", "finish", "fail"} => Doc(w) \in Docs
        /\ pc[w] = "finish" => output[Doc(w)] = "current"
        /\ pc[w] = "ack" => Durable(msg[w])

\* Entries are immutable, dead letters and current output are never removed.
LEMMA DurableIsStable ==
    ASSUME TypeOK, Control, [Next]_vars
    PROVE  \A m \in Ids : m <= offset =>
              /\ event'[m] = event[m]
              /\ m \in dlq => m \in dlq'
              /\ Durable(m) => Durable(m)'
  <1> USE WorkerAssumption
  <1>1. ASSUME NEW m \in Ids, m <= offset
        PROVE  event'[m] = event[m]
    <2>1. m # added + 1
      BY <1>1 DEF TypeOK, Control, Ids, NoGroup
    <2> QED
      BY <2>1 DEF TypeOK, Next, vars, Publish, Lapse, Pass, Handle, Fault, Restart, Setup,
         Reclaim, SkipReclaim, Read, Check, Lookup, Begin, Index, Finish, Reject, Fail,
         DeadLetter, Ack, Transient, RedisFault, LostReclaim, LostMark, Crash, Stop
  <1>2. dlq \subseteq dlq'
    BY DEF Next, vars, Publish, Lapse, Pass, Handle, Fault, Restart, Setup,
         Reclaim, SkipReclaim, Read, Check, Lookup, Begin, Index, Finish, Reject, Fail,
         DeadLetter, Ack, Transient, RedisFault, LostReclaim, LostMark, Crash, Stop
  <1>3. \A d \in Docs : output[d] = "current" => output'[d] = "current"
    BY DEF TypeOK, Next, vars, Publish, Lapse, Pass, Handle, Fault, Restart, Setup,
         Reclaim, SkipReclaim, Read, Check, Lookup, Begin, Index, Finish, Reject, Fail,
         DeadLetter, Ack, Transient, RedisFault, LostReclaim, LostMark, Crash, Stop
  <1> QED
    BY <1>1, <1>2, <1>3 DEF Durable

\* An acknowledged entry left a durable outcome and a processed document has
\* output, for any number of workers and without any assumption on leases;
\* Progress is what makes it inductive.
THEOREM AckInvariant == Spec => [](AckedIsDurable /\ ProcessedHasOutput /\ Progress)
  <1> DEFINE IInv == AckedIsDurable /\ ProcessedHasOutput /\ Progress
  <1> USE WorkerAssumption
  <1>1. Init => IInv
    BY DEF Init, AckedIsDurable, ProcessedHasOutput, Progress, Ids, NoGroup, DatabaseCalls
  <1>2. TypeOK /\ Control /\ IInv /\ [Next]_vars => IInv'
    <2> SUFFICES ASSUME TypeOK, Control, IInv, [Next]_vars PROVE IInv'
      OBVIOUS
    <2> USE DEF Goto, NoMsg, DatabaseCalls, Handling
    <2>1. \A m \in Ids : m <= offset =>
              /\ event'[m] = event[m]
              /\ Durable(m) => Durable(m)'
      BY DurableIsStable
    <2>2. \A v \in Workers : pc[v] \in Handling => msg[v] \in Ids /\ msg[v] <= offset
      BY DEF TypeOK, Control, Ids
    <2>3. ASSUME pel' = pel, offset' = offset PROVE AckedIsDurable'
      BY <2>1, <2>3 DEF AckedIsDurable
    <2>4. ASSUME NEW t \in Targets, Publish(t) PROVE IInv'
      BY <2>1, <2>2, <2>4 DEF Publish, AckedIsDurable, ProcessedHasOutput, Progress, Doc
    <2>5. ASSUME NEW m \in Ids, Lapse(m) PROVE IInv'
      BY <2>5 DEF Lapse, AckedIsDurable, ProcessedHasOutput, Progress, Doc, Durable
    <2>6. ASSUME NEW w \in Workers, Setup(w) PROVE IInv'
      <3>1. \A m \in Ids : m <= GroupOffset => m <= offset
        BY DEF GroupOffset, Ids, TypeOK, NoGroup
      <3>2. AckedIsDurable'
        BY <2>1, <2>6, <3>1 DEF Setup, AckedIsDurable
      <3> QED
        BY <2>6, <3>2 DEF Setup, ProcessedHasOutput, Progress, Doc, Durable, TypeOK
    <2>7. ASSUME NEW w \in Workers, Reclaim(w) PROVE IInv'
      <3> DEFINE claimed == Scanned(cursor[w]) \cap lapsed
      <3>1. claimed \in SUBSET Ids
        BY DEF TypeOK
      <3>2. Deliver(claimed) /\ offset' = offset
        BY <2>7 DEF Reclaim
      <3> HIDE DEF claimed
      <3>3. \A m \in Ids : pel'[m] = 0 => pel[m] = 0
        BY <3>1, <3>2, DeliverEffect DEF TypeOK
      <3>4. AckedIsDurable'
        BY <2>1, <3>2, <3>3 DEF AckedIsDurable
      <3> QED
        BY <2>7, <3>4 DEF Reclaim, ProcessedHasOutput, Progress, Doc, Durable, TypeOK
    <2>8. ASSUME NEW w \in Workers, SkipReclaim(w) PROVE IInv'
      BY <2>3, <2>8 DEF SkipReclaim, ProcessedHasOutput, Progress, Doc, Durable, TypeOK
    <2>9. ASSUME NEW w \in Workers, Read(w) PROVE IInv'
      <3>1. offset \in 0..MaxEvents /\ offset <= added
        <4>1. offset # NoGroup
          BY <2>9 DEF Read, Control
        <4> QED
          BY <4>1 DEF NoGroup, TypeOK, Control
      <3>2. NewEntries \in SUBSET Ids
        BY <3>1 DEF NewEntries, LastNew, TypeOK, Ids
      <3>3. \A m \in Ids : pel'[m] > 0 <=> (m \in NewEntries \/ pel[m] > 0)
        BY <2>9, <3>2, DeliverEffect DEF Read
      <3>4. \A m \in Ids : m <= LastNew => m \in NewEntries \/ m <= offset
        BY <3>1 DEF NewEntries, LastNew, TypeOK, Ids
      <3>5. \A m \in Ids : pel'[m] = 0 => pel[m] = 0 /\ m \notin NewEntries
        BY <3>2, <3>3, <2>9, DeliverEffect DEF TypeOK, Read
      <3>6. AckedIsDurable'
        BY <2>1, <2>9, <3>4, <3>5 DEF Read, AckedIsDurable
      <3> QED
        BY <2>9, <3>6 DEF Read, ProcessedHasOutput, Progress, Doc, Durable, TypeOK
    <2>10. ASSUME NEW w \in Workers, Check(w) PROVE IInv'
      <3>1. PICK m \in batch[w] :
               \/ /\ pc' = [pc EXCEPT ![w] = IF batch[w] \ {m} = {} THEN "pass" ELSE "next"]
                  /\ msg' = [msg EXCEPT ![w] = NoMsg]
               \/ /\ pc' = [pc EXCEPT ![w] = IF event[m] = Malformed THEN "dead" ELSE "lookup"]
                  /\ msg' = [msg EXCEPT ![w] = m]
        BY <2>10 DEF Check, Return
      <3>2. UNCHANGED <<streamVars, groupVars, dlq, docVars>>
        BY <2>10 DEF Check
      <3>3. Progress'
        BY <3>1, <3>2 DEF Progress, Doc, Durable, TypeOK
      <3> QED
        BY <2>3, <3>2, <3>3 DEF ProcessedHasOutput
    <2>11. ASSUME NEW w \in Workers, Lookup(w) PROVE IInv'
      <3>1. UNCHANGED <<streamVars, groupVars, dlq, docVars, msg>>
        BY <2>11 DEF Lookup
      <3>2. Doc(w) \in Docs \cup {Dangling}
        BY <2>2, <2>11 DEF Lookup, Progress, Doc, TypeOK, Targets
      <3>3. Decision(w) = "ack" => Durable(msg[w])
        BY <3>2 DEF Decision, Completed, Durable, Doc
      <3>4. Decision(w) \in {"begin", "index", "finish", "fail"} =>
               Doc(w) \in Docs /\ Decision(w) # "finish"
        BY <3>2 DEF Decision
      <3>5. Doc(w) # Malformed
        BY <3>2
      <3>6. Progress'
        BY <2>11, <3>1, <3>3, <3>4, <3>5 DEF Lookup, Progress, Doc, Durable, TypeOK
      <3> QED
        BY <2>3, <3>1, <3>6 DEF ProcessedHasOutput
    <2>12. ASSUME NEW w \in Workers, Begin(w) PROVE IInv'
      BY <2>3, <2>12 DEF Begin, MarkStatus, ProcessedHasOutput, Progress, Doc, Durable, TypeOK
    <2>13. ASSUME NEW w \in Workers, Index(w) PROVE IInv'
      <3>1. Doc(w) \in Docs
        BY <2>13 DEF Index, Progress
      <3>2. Progress'
        BY <2>1, <2>2, <2>13, <3>1 DEF Index, Progress, Doc, TypeOK
      <3>3. ProcessedHasOutput'
        BY <2>13, <3>1 DEF Index, MarkStatus, ProcessedHasOutput, Doc, TypeOK
      <3> QED
        BY <2>3, <2>13, <3>2, <3>3 DEF Index
    <2>14. ASSUME NEW w \in Workers, Finish(w) PROVE IInv'
      <3>1. output[Doc(w)] = "current" /\ Doc(w) \in Docs
        BY <2>14 DEF Finish, Progress
      <3>2. ProcessedHasOutput'
        BY <2>14, <3>1 DEF Finish, MarkStatus, ProcessedHasOutput, Doc, TypeOK
      <3>3. Progress'
        BY <2>14, <3>1 DEF Finish, Progress, Doc, Durable, TypeOK
      <3> QED
        BY <2>3, <2>14, <3>2, <3>3 DEF Finish
    <2>15. ASSUME NEW w \in Workers, Reject(w) \/ Fail(w) PROVE IInv'
      BY <2>3, <2>15 DEF Reject, Fail, MarkStatus, ProcessedHasOutput, Progress, Doc, Durable,
                         TypeOK
    <2>16. ASSUME NEW w \in Workers, DeadLetter(w) PROVE IInv'
      <3>1. Progress'
        BY <2>16 DEF DeadLetter, Progress, Doc, Durable, TypeOK
      <3> QED
        BY <2>3, <2>16, <3>1 DEF DeadLetter, ProcessedHasOutput
    <2>17. ASSUME NEW w \in Workers, Ack(w) PROVE IInv'
      <3>1. Durable(msg[w]) /\ msg[w] \in Ids
        BY <2>2, <2>17 DEF Ack, Progress
      <3>2. AckedIsDurable'
        BY <2>1, <2>17, <3>1 DEF Ack, AckedIsDurable, TypeOK
      <3>3. Progress'
        BY <2>17 DEF Ack, Return, Progress, Doc, Durable, TypeOK
      <3> QED
        BY <2>17, <3>2, <3>3 DEF Ack, ProcessedHasOutput
    <2>18. ASSUME NEW w \in Workers, Abandon(w) \/ Restart(w) PROVE IInv'
      <3>1. UNCHANGED <<streamVars, groupVars, dlq, docVars>>
        BY <2>18 DEF Abandon, Restart, Transient, RedisFault, Crash, Stop
      <3>2. Progress'
        BY <2>18, <3>1 DEF Abandon, Restart, Transient, RedisFault, Crash, Stop, Return,
                           Forget, Progress, Doc, Durable, TypeOK
      <3> QED
        BY <2>3, <3>1, <3>2 DEF ProcessedHasOutput
    <2>20. ASSUME NEW w \in Workers, LostReclaim(w) PROVE IInv'
      <3> DEFINE claimed == Scanned(cursor[w]) \cap lapsed
      <3>1. claimed \in SUBSET Ids
        BY DEF TypeOK
      <3>2. Deliver(claimed) /\ offset' = offset
        BY <2>20 DEF LostReclaim
      <3> HIDE DEF claimed
      <3>3. \A m \in Ids : pel'[m] = 0 => pel[m] = 0
        BY <3>1, <3>2, DeliverEffect DEF TypeOK
      <3>4. AckedIsDurable'
        BY <2>1, <3>2, <3>3 DEF AckedIsDurable
      <3>5. Progress'
        BY <2>20 DEF LostReclaim, Forget, Progress, Doc, Durable, TypeOK
      <3> QED
        BY <2>20, <3>4, <3>5 DEF LostReclaim, ProcessedHasOutput
    <2>21. ASSUME NEW w \in Workers, LostMark(w) PROVE IInv'
      <3>1. ProcessedHasOutput'
        BY <2>21 DEF LostMark, MarkStatus, ProcessedHasOutput, Progress, Doc, TypeOK
      <3>2. Progress'
        BY <2>21 DEF LostMark, Return, Progress, Doc, Durable, TypeOK
      <3> QED
        BY <2>3, <2>21, <3>1, <3>2 DEF LostMark
    <2>19. CASE UNCHANGED vars
      BY <2>3, <2>19 DEF vars, ProcessedHasOutput, Progress, Doc, Durable
    <2> QED
      BY <2>4, <2>5, <2>6, <2>7, <2>8, <2>9, <2>10, <2>11, <2>12, <2>13, <2>14, <2>15,
         <2>16, <2>17, <2>18, <2>19, <2>20, <2>21 DEF Next, Pass, Handle, Fault, Abandon
  <1> QED
    BY <1>1, <1>2, ControlInvariant, PTL DEF Spec

\* Durable persistence precedes acknowledgement.
THEOREM AckSafety == Spec => []AckedIsDurable
  BY AckInvariant, PTL

\* What is shown as processed is searchable.
THEOREM OutputSafety == Spec => []ProcessedHasOutput
  BY AckInvariant, PTL

-----------------------------------------------------------------------------
(* A lease that covers the work. No two workers hold one entry, and what a   *)
(* worker holds is pending and not idle.                                     *)

Lease ==
    \A w \in Workers :
        /\ \A m \in Holds(w) : pel[m] > 0 /\ m \notin lapsed
        /\ msg[w] \notin batch[w]
        /\ \A v \in Workers : v # w => Holds(v) \cap Holds(w) = {}

\* Idle time works as a lease when it exceeds the time a batch takes.
THEOREM LeaseInvariant ==
    ASSUME LeaseCoversWork PROVE Spec => []Lease
  <1> USE WorkerAssumption
  <1>1. Init => Lease
    BY DEF Init, Lease, Holds, NoMsg
  <1>2. TypeOK /\ Control /\ Lease /\ [Next]_vars => Lease'
    <2> SUFFICES ASSUME TypeOK, Control, Lease, [Next]_vars PROVE Lease'
      OBVIOUS
    <2> USE DEF Goto, Lease, Holds, NoMsg
    <2>1. ASSUME NEW t \in Targets, Publish(t) PROVE Lease'
      BY <2>1 DEF Publish
    <2>2. ASSUME NEW m \in Ids, Lapse(m) PROVE Lease'
      BY <2>2, LeaseCoversWork DEF Lapse
    <2>3. ASSUME NEW w \in Workers, Reclaim(w) PROVE Lease'
      <3> DEFINE claimed == Scanned(cursor[w]) \cap lapsed
      <3>1. claimed \in SUBSET Ids /\ claimed \subseteq lapsed
        BY DEF TypeOK
      <3>2. /\ Deliver(claimed)
            /\ batch' = [batch EXCEPT ![w] = claimed]
            /\ msg' = msg
            /\ msg[w] = 0
        BY <2>3 DEF Reclaim, Control, Handling, DatabaseCalls
      <3> HIDE DEF claimed
      <3>3. /\ \A m \in Ids : pel'[m] > 0 <=> (m \in claimed \/ pel[m] > 0)
            /\ lapsed' = lapsed \ claimed
        BY <3>1, <3>2, DeliverEffect DEF Deliver
      <3>4. 0 \notin claimed
        BY <3>1 DEF Ids
      <3>5. \A v \in Workers : \A m \in Holds(v) : m \in Ids
        BY DEF TypeOK, Ids
      <3> QED
        BY <3>1, <3>2, <3>3, <3>4, <3>5 DEF TypeOK
    <2>4. ASSUME NEW w \in Workers, Read(w) PROVE Lease'
      <3>1. offset \in 0..MaxEvents /\ offset <= added
        <4>1. offset # NoGroup
          BY <2>4 DEF Read, Control
        <4> QED
          BY <4>1 DEF NoGroup, TypeOK, Control
      <3>2. NewEntries \in SUBSET Ids /\ \A m \in NewEntries : ~ (m <= offset)
        BY <3>1 DEF NewEntries, LastNew, TypeOK, Ids
      <3>3. /\ Deliver(NewEntries)
            /\ batch' = [batch EXCEPT ![w] = NewEntries]
            /\ msg' = msg
            /\ msg[w] = 0
        BY <2>4 DEF Read, Control, Handling, DatabaseCalls
      <3>4. /\ \A m \in Ids : pel'[m] > 0 <=> (m \in NewEntries \/ pel[m] > 0)
            /\ lapsed' = lapsed \ NewEntries
        BY <3>2, <3>3, DeliverEffect DEF Deliver
      <3>5. 0 \notin NewEntries
        BY <3>2 DEF Ids
      <3>6. \A v \in Workers : \A m \in Holds(v) : m \in Ids /\ m <= offset
        BY DEF TypeOK, Ids, Control
      <3> QED
        BY <3>2, <3>3, <3>4, <3>5, <3>6 DEF TypeOK
    <2>5. ASSUME NEW w \in Workers, Check(w) PROVE Lease'
      <3>1. PICK m \in batch[w] :
               \/ /\ batch' = [batch EXCEPT ![w] = batch[w] \ {m}]
                  /\ msg' = [msg EXCEPT ![w] = NoMsg]
               \/ /\ batch' = [batch EXCEPT ![w] = @ \ {m}]
                  /\ msg' = [msg EXCEPT ![w] = m]
        BY <2>5 DEF Check, Return
      <3>2. UNCHANGED groupVars /\ 0 \notin batch[w]
        BY <2>5 DEF Check, TypeOK, Ids
      <3> QED
        BY <3>1, <3>2 DEF TypeOK
    <2>6. ASSUME NEW w \in Workers, Ack(w) PROVE Lease'
      <3>1. /\ pel' = [pel EXCEPT ![msg[w]] = 0]
            /\ lapsed' = lapsed \ {msg[w]}
            /\ batch' = [batch EXCEPT ![w] = batch[w]]
            /\ msg' = [msg EXCEPT ![w] = NoMsg]
            /\ msg[w] # NoMsg
        BY <2>6 DEF Ack, Return, Control, Handling
      <3>2. \A v \in Workers : 0 \notin batch[v]
        BY DEF TypeOK, Ids
      <3> QED
        BY <3>1, <3>2 DEF TypeOK
    <2>7. ASSUME NEW w \in Workers,
                 Setup(w) \/ SkipReclaim(w) \/ Lookup(w) \/ Begin(w) \/ Index(w)
                   \/ Finish(w) \/ Reject(w) \/ Fail(w) \/ DeadLetter(w) \/ Restart(w)
          PROVE  Lease'
      BY <2>7 DEF Setup, SkipReclaim, Lookup, Begin, Index, Finish, Reject, Fail, DeadLetter,
                  Restart
    <2>8. ASSUME NEW w \in Workers, Abandon(w) \/ LostMark(w) PROVE Lease'
      <3>1. /\ UNCHANGED groupVars
            /\ batch' \in {[batch EXCEPT ![w] = batch[w]], [batch EXCEPT ![w] = {}]}
            /\ msg' = [msg EXCEPT ![w] = NoMsg]
        BY <2>8 DEF Abandon, LostMark, Transient, RedisFault, Crash, Stop, Return, Forget
      <3>2. 0 \notin batch[w]
        BY DEF TypeOK, Ids
      <3> QED
        BY <3>1, <3>2 DEF TypeOK
    <2>10. ASSUME NEW w \in Workers, LostReclaim(w) PROVE Lease'
      <3> DEFINE claimed == Scanned(cursor[w]) \cap lapsed
      <3>1. claimed \in SUBSET Ids
        BY DEF TypeOK
      <3>2. /\ Deliver(claimed)
            /\ batch' = [batch EXCEPT ![w] = {}]
            /\ msg' = [msg EXCEPT ![w] = NoMsg]
        BY <2>10 DEF LostReclaim, Forget
      <3> HIDE DEF claimed
      <3>3. /\ \A m \in Ids : pel'[m] > 0 <=> (m \in claimed \/ pel[m] > 0)
            /\ lapsed' = lapsed \ claimed
        BY <3>1, <3>2, DeliverEffect DEF Deliver
      <3>4. \A v \in Workers : Holds(v)' \subseteq Holds(v)
        BY <3>2 DEF TypeOK
      <3>5. \A v \in Workers : \A m \in Holds(v) : m \in Ids
        BY DEF TypeOK, Ids
      <3> QED
        BY <3>2, <3>3, <3>4, <3>5 DEF TypeOK
    <2>9. CASE UNCHANGED vars
      BY <2>9 DEF vars
    <2> QED
      BY <2>1, <2>2, <2>3, <2>4, <2>5, <2>6, <2>7, <2>8, <2>9, <2>10
         DEF Next, Pass, Handle, Fault, Abandon
  <1> QED
    BY <1>1, <1>2, ControlInvariant, PTL DEF Spec

-----------------------------------------------------------------------------
(* With the lease no document is forgotten. Owed(d) is not inductive: the    *)
(* entry it speaks of could be the one about to be acknowledged. The witness *)
(* is an entry whose handler, if any, still has a status to write.           *)

Unsettled(m, d) == m <= added /\ event[m] = d /\ (m > offset \/ pel[m] > 0)

Tracked(d, past) ==
    \E m \in Ids : /\ Unsettled(m, d)
                   /\ \A w \in Workers : msg[w] = m => pc[w] \notin past

ProcessingTracked ==
    \A d \in Docs : status[d] = "processing" => Tracked(d, {"finish", "dead", "ack"})

FailedTracked ==
    \A d \in Docs : status[d] = "failed" =>
        Tracked(d, {"finish", "ack"}) \/ \E m \in dlq : event[m] = d

\* An unsettled entry stays unsettled until the worker that handles it is at
\* "ack", which it reaches only by completing d or through a dead letter.
LEMMA UnsettledStays ==
    ASSUME TypeOK, Control, Progress, Lease, [Next]_vars,
           NEW d \in Docs, status[d] \in {"processing", "failed"}, status'[d] = status[d],
           NEW m \in Ids, Unsettled(m, d),
           \A w \in Workers : msg[w] = m => pc[w] \notin {"finish", "ack"}
    PROVE  /\ Unsettled(m, d)'
           /\ \A w \in Workers : msg'[w] = m =>
                 /\ pc'[w] # "finish"
                 /\ pc'[w] = "ack" => m \in dlq' /\ pc[w] = "dead" /\ msg[w] = m
                 /\ pc'[w] = "dead" => msg[w] = m /\ pc[w] \in {"dead", "fail"}
                                       /\ (pc[w] = "fail" => status'[d] = "failed")
  <1> USE WorkerAssumption DEF Goto, NoMsg
  <1>1. m # added + 1 /\ event[m] = d /\ m # 0 /\ m <= added /\ m <= added + 1
    BY DEF Unsettled, TypeOK, Ids
  <1>2. \A w \in Workers : msg[w] = m => Doc(w) = d
    BY <1>1 DEF Doc
  <1>3. Malformed # d /\ Dangling # d
    OBVIOUS
  <1> DEFINE Goal == /\ Unsettled(m, d)'
                     /\ \A w \in Workers : msg'[w] = m =>
                           /\ pc'[w] # "finish"
                           /\ pc'[w] = "ack" => m \in dlq' /\ pc[w] = "dead" /\ msg[w] = m
                           /\ pc'[w] = "dead" => msg[w] = m /\ pc[w] \in {"dead", "fail"}
                                                 /\ (pc[w] = "fail" => status'[d] = "failed")
  <1> SUFFICES Goal
    OBVIOUS
  <1>4. ASSUME NEW t \in Targets, Publish(t) PROVE Goal
    BY <1>1, <1>4 DEF Publish, Unsettled, TypeOK
  <1>5. ASSUME NEW k \in Ids, Lapse(k) PROVE Goal
    BY <1>5 DEF Lapse, Unsettled
  <1>6. ASSUME NEW w \in Workers, Setup(w) PROVE Goal
    <2>1. m > GroupOffset \/ pel[m] > 0
      BY DEF Unsettled, GroupOffset, NoGroup, Ids, TypeOK
    <2> QED
      BY <1>6, <2>1 DEF Setup, Unsettled, TypeOK
  <1>7. ASSUME NEW w \in Workers, Reclaim(w) PROVE Goal
    <2> DEFINE claimed == Scanned(cursor[w]) \cap lapsed
    <2>1. claimed \in SUBSET Ids /\ Deliver(claimed)
      BY <1>7 DEF Reclaim, TypeOK
    <2>2. pel'[m] > 0 <=> (m \in claimed \/ pel[m] > 0)
      BY <2>1, DeliverEffect
    <2> QED
      BY <1>7, <2>2 DEF Reclaim, Unsettled, TypeOK
  <1>8. ASSUME NEW w \in Workers, Read(w) PROVE Goal
    <2>1. offset \in 0..MaxEvents /\ offset <= added
      <3>1. offset # NoGroup
        BY <1>8 DEF Read, Control
      <3> QED
        BY <3>1 DEF NoGroup, TypeOK, Control
    <2>2. NewEntries \in SUBSET Ids /\ (m > offset => m \in NewEntries \/ m > LastNew)
      BY <2>1 DEF NewEntries, LastNew, TypeOK, Ids
    <2>3. pel'[m] > 0 <=> (m \in NewEntries \/ pel[m] > 0)
      BY <1>8, <2>2, DeliverEffect DEF Read
    <2> QED
      BY <1>8, <2>2, <2>3 DEF Read, Unsettled, TypeOK
  <1>9. ASSUME NEW w \in Workers, Check(w) PROVE Goal
    <2>1. PICK k \in batch[w] :
               \/ /\ pc' = [pc EXCEPT ![w] = IF batch[w] \ {k} = {} THEN "pass" ELSE "next"]
                  /\ msg' = [msg EXCEPT ![w] = NoMsg]
               \/ /\ pc' = [pc EXCEPT ![w] = IF event[k] = Malformed THEN "dead" ELSE "lookup"]
                  /\ msg' = [msg EXCEPT ![w] = k]
      BY <1>9 DEF Check, Return
    <2>2. UNCHANGED <<streamVars, groupVars, dlq, docVars>>
      BY <1>9 DEF Check
    <2> QED
      BY <1>1, <1>3, <2>1, <2>2 DEF Unsettled, TypeOK
  <1>10. ASSUME NEW w \in Workers, Lookup(w) PROVE Goal
    <2>1. msg[w] = m => Decision(w) \in {"begin", "fail"}
      BY <1>2, <1>3 DEF Decision, Completed
    <2> QED
      BY <1>10, <2>1 DEF Lookup, Unsettled, TypeOK
  <1>11. ASSUME NEW w \in Workers, Index(w) PROVE Goal
    <2>1. Doc(w) # d
      BY <1>11 DEF Index, MarkStatus, TypeOK
    <2> QED
      BY <1>2, <1>11, <2>1 DEF Index, Unsettled, TypeOK
  <1>12. ASSUME NEW w \in Workers, Fail(w) PROVE Goal
    <2>1. msg[w] = m => status'[d] = "failed"
      BY <1>2, <1>12 DEF Fail, MarkStatus, TypeOK
    <2> QED
      BY <1>12, <2>1 DEF Fail, Unsettled, TypeOK
  <1>13. ASSUME NEW w \in Workers, DeadLetter(w) PROVE Goal
    BY <1>13 DEF DeadLetter, Unsettled, TypeOK
  <1>14. ASSUME NEW w \in Workers, Begin(w) \/ Reject(w) \/ Finish(w) PROVE Goal
    BY <1>14 DEF Begin, Reject, Finish, Unsettled, TypeOK
  <1>15. ASSUME NEW w \in Workers, Ack(w) PROVE Goal
    <2>1. msg[w] # m
      BY <1>15 DEF Ack
    <2> QED
      BY <1>1, <1>15, <2>1 DEF Ack, Return, Unsettled, TypeOK
  <1>16. ASSUME NEW w \in Workers, SkipReclaim(w) \/ Restart(w) PROVE Goal
    BY <1>16 DEF SkipReclaim, Restart, Unsettled, TypeOK
  <1>17. ASSUME NEW w \in Workers, Abandon(w) \/ LostMark(w) PROVE Goal
    BY <1>1, <1>17 DEF Abandon, LostMark, Transient, RedisFault, Crash, Stop, Return, Forget,
                       Unsettled, TypeOK
  <1>19. ASSUME NEW w \in Workers, LostReclaim(w) PROVE Goal
    <2> DEFINE claimed == Scanned(cursor[w]) \cap lapsed
    <2>1. claimed \in SUBSET Ids /\ Deliver(claimed)
      BY <1>19 DEF LostReclaim, TypeOK
    <2>2. pel'[m] > 0 <=> (m \in claimed \/ pel[m] > 0)
      BY <2>1, DeliverEffect
    <2> QED
      BY <1>1, <1>19, <2>2 DEF LostReclaim, Forget, Unsettled, TypeOK
  <1>18. CASE UNCHANGED vars
    BY <1>18 DEF vars, Unsettled
  <1> QED
    BY <1>4, <1>5, <1>6, <1>7, <1>8, <1>9, <1>10, <1>11, <1>12, <1>13, <1>14, <1>15, <1>16,
       <1>17, <1>18, <1>19 DEF Next, Pass, Handle, Fault, Abandon

\* Only Begin, and only the failing worker, moves a document into "processing"
\* and "failed".
LEMMA StatusSource ==
    ASSUME TypeOK, Progress, [Next]_vars, NEW d \in Docs, status'[d] # status[d]
    PROVE  /\ status'[d] = "processing" =>
                 \E w \in Workers : Begin(w) /\ Doc(w) = d
           /\ status'[d] = "failed" =>
                 \E w \in Workers : (Fail(w) \/ LostMark(w)) /\ Doc(w) = d
  BY DEF TypeOK, Next, vars, Publish, Lapse, Pass, Handle, Fault, Restart, Setup,
         Reclaim, SkipReclaim, Read, Check, Lookup, Begin, Index, Finish, Reject, Fail,
         DeadLetter, Ack, Transient, RedisFault, LostReclaim, LostMark, Crash, Stop, MarkStatus

\* The entry a worker is handling is unsettled and no other worker handles it.
LEMMA HandledIsUnsettled ==
    ASSUME TypeOK, Control, Progress, Lease, NEW w \in Workers, pc[w] \in Handling
    PROVE  /\ msg[w] \in Ids
           /\ Unsettled(msg[w], Doc(w))
           /\ \A v \in Workers : msg[v] = msg[w] => v = w
  <1>1. msg[w] \in Ids /\ msg[w] # NoMsg /\ msg[w] <= added
    BY DEF TypeOK, Control, Ids, NoMsg, NoGroup
  <1> QED
    BY <1>1 DEF Lease, Holds, Unsettled, Doc

\* With a lease that covers the work, a document in "processing" is owed an
\* entry and a failed one is recorded, whatever crashes.
THEOREM NothingForgotten ==
    ASSUME LeaseCoversWork PROVE Spec => [](ProcessingIsOwed /\ FailedIsRecorded)
  <1> USE WorkerAssumption
  <1>1. Init => ProcessingTracked /\ FailedTracked
    BY DEF Init, ProcessingTracked, FailedTracked
  <1>2. /\ TypeOK /\ Control /\ Progress /\ Lease
        /\ ProcessingTracked /\ FailedTracked /\ [Next]_vars
        => ProcessingTracked' /\ FailedTracked'
    <2> SUFFICES ASSUME TypeOK, Control, Progress, Lease, ProcessingTracked, FailedTracked,
                        [Next]_vars
                 PROVE  ProcessingTracked' /\ FailedTracked'
      OBVIOUS
    <2>1. ASSUME NEW d \in Docs, status'[d] = "processing"
          PROVE  Tracked(d, {"finish", "dead", "ack"})'
      <3>1. CASE status[d] = "processing"
        <4>1. PICK m \in Ids :
                 /\ Unsettled(m, d)
                 /\ \A w \in Workers : msg[w] = m => pc[w] \notin {"finish", "dead", "ack"}
          BY <3>1 DEF ProcessingTracked, Tracked
        <4>2. /\ Unsettled(m, d)'
              /\ \A w \in Workers : msg'[w] = m => pc'[w] \notin {"finish", "dead", "ack"}
          BY <2>1, <3>1, <4>1, UnsettledStays
        <4> QED
          BY <4>2 DEF Tracked
      <3>2. CASE status[d] # "processing"
        <4>1. PICK w \in Workers : Begin(w) /\ Doc(w) = d
          BY <2>1, <3>2, StatusSource
        <4>2. /\ msg[w] \in Ids
              /\ Unsettled(msg[w], d)
              /\ \A v \in Workers : msg[v] = msg[w] => v = w
          BY <4>1, HandledIsUnsettled DEF Begin, Handling, DatabaseCalls
        <4>3. Unsettled(msg[w], d)' /\ pc'[w] = "index" /\ msg' = msg
          BY <4>1, <4>2 DEF Begin, Goto, Unsettled, TypeOK
        <4> QED
          BY <4>2, <4>3 DEF Tracked
      <3> QED
        BY <3>1, <3>2
    <2>2. ASSUME NEW d \in Docs, status'[d] = "failed"
          PROVE  Tracked(d, {"finish", "ack"})' \/ \E m \in dlq' : event'[m] = d
      <3>1. CASE status[d] = "failed" /\ \E m \in dlq : event[m] = d
        <4>1. PICK m \in dlq : event[m] = d
          BY <3>1
        <4>2. m \in Ids /\ m <= offset
          BY DEF TypeOK, Control
        <4> QED
          BY <4>1, <4>2, DurableIsStable
      <3>2. CASE status[d] = "failed" /\ Tracked(d, {"finish", "ack"})
        <4>1. PICK m \in Ids :
                 /\ Unsettled(m, d)
                 /\ \A w \in Workers : msg[w] = m => pc[w] \notin {"finish", "ack"}
          BY <3>2 DEF Tracked
        <4>2. /\ Unsettled(m, d)'
              /\ \A w \in Workers : msg'[w] = m =>
                    pc'[w] # "finish" /\ (pc'[w] = "ack" => m \in dlq')
          BY <2>2, <3>2, <4>1, UnsettledStays
        <4> QED
          BY <4>2 DEF Tracked, Unsettled
      <3>3. CASE status[d] # "failed"
        <4>1. PICK w \in Workers : (Fail(w) \/ LostMark(w)) /\ Doc(w) = d
          BY <2>2, <3>3, StatusSource
        <4>2. /\ msg[w] \in Ids
              /\ Unsettled(msg[w], d)
              /\ \A v \in Workers : msg[v] = msg[w] => v = w
          BY <4>1, HandledIsUnsettled DEF Fail, LostMark, Handling, DatabaseCalls
        <4>3. \E m \in Ids : m = msg[w]
          BY <4>2
        <4>4. PICK m \in Ids : m = msg[w]
          BY <4>3
        <4>5. Unsettled(m, d)'
          BY <4>1, <4>2, <4>4 DEF Fail, LostMark, Unsettled, TypeOK
        <4>6. \A v \in Workers : msg'[v] = m => pc'[v] \notin {"finish", "ack"}
          <5>1. CASE Fail(w)
            BY <4>2, <4>4, <5>1 DEF Fail, Goto, TypeOK
          <5>2. CASE LostMark(w)
            BY <4>2, <4>4, <5>2 DEF LostMark, Return, Goto, NoMsg, Ids, TypeOK
          <5> QED  BY <4>1, <5>1, <5>2
        <4> QED
          BY <4>5, <4>6 DEF Tracked
      <3> QED
        BY <3>1, <3>2, <3>3 DEF FailedTracked
    <2> QED
      BY <2>1, <2>2 DEF ProcessingTracked, FailedTracked
  <1>3. ProcessingTracked /\ FailedTracked => ProcessingIsOwed /\ FailedIsRecorded
    BY DEF ProcessingTracked, FailedTracked, Tracked, Unsettled, ProcessingIsOwed,
           FailedIsRecorded, Owed
  <1> QED
    BY <1>1, <1>2, <1>3, ControlInvariant, AckInvariant, LeaseInvariant, PTL DEF Spec

-----------------------------------------------------------------------------
(* One worker process. *)

\* What one worker is about to overwrite is not committed.
Uncommitted ==
    \A w \in Workers : pc[w] \in {"begin", "index", "fail"} => ~Completed(Doc(w))

\* With a single worker process, and no error between commit and return of
\* process, the replay check protects committed output: no redelivery, crash
\* or duplicate event moves it out of "processed".
THEOREM SingleWorkerReplay ==
    ASSUME \A v, w \in Workers : v = w, ~LateErrors
    PROVE  Spec => CommittedStaysProcessed
  <1> USE WorkerAssumption
  <1>1. Init => Uncommitted
    BY DEF Init, Uncommitted
  <1>2. TypeOK /\ Control /\ Progress /\ Uncommitted /\ [Next]_vars =>
           Uncommitted' /\ [\A d \in Docs : Completed(d) => Completed(d)']_vars
    <2> SUFFICES ASSUME TypeOK, Control, Progress, Uncommitted, [Next]_vars
                 PROVE  Uncommitted' /\ [\A d \in Docs : Completed(d) => Completed(d)']_vars
      OBVIOUS
    <2> DEFINE Kept == \A d \in Docs : Completed(d) => Completed(d)'
    <2> USE DEF Goto
    <2>1. \A w \in Workers : pc[w] \in Handling => event'[msg[w]] = event[msg[w]]
      <3>1. \A w \in Workers : pc[w] \in Handling => msg[w] \in Ids /\ msg[w] <= offset
        BY DEF TypeOK, Control, Ids, NoMsg
      <3> QED
        BY <3>1, DurableIsStable
    <2>2. ASSUME UNCHANGED docVars PROVE Kept
      BY <2>2 DEF Completed
    <2>3. ASSUME UNCHANGED <<docVars, pc, msg>> PROVE Uncommitted'
      BY <2>1, <2>3 DEF Uncommitted, Doc, Completed, Handling, DatabaseCalls
    <2>4. ASSUME NEW t \in Targets, Publish(t) PROVE Uncommitted' /\ Kept
      BY <2>2, <2>3, <2>4 DEF Publish
    <2>5. ASSUME NEW m \in Ids, Lapse(m) PROVE Uncommitted' /\ Kept
      BY <2>2, <2>3, <2>5 DEF Lapse
    <2>6. ASSUME NEW w \in Workers, Pass(w) \/ Restart(w) \/ Abandon(w) \/ LostReclaim(w)
          PROVE  Uncommitted' /\ Kept
      <3>1. UNCHANGED docVars /\ pc'[w] \notin {"begin", "index", "fail"}
        BY <2>6 DEF Pass, Restart, Abandon, LostReclaim, Setup, Reclaim, SkipReclaim, Read, Check,
                    Transient, RedisFault, Crash, Stop, Return, TypeOK
      <3> QED
        BY <2>2, <3>1 DEF Uncommitted
    <2>7. ASSUME NEW w \in Workers, Lookup(w) PROVE Uncommitted' /\ Kept
      <3>1. UNCHANGED <<streamVars, docVars, msg>> /\ pc'[w] = Decision(w)
        BY <2>7 DEF Lookup, TypeOK
      <3>2. Decision(w) \in {"begin", "fail"} => ~Completed(Doc(w))
        BY DEF Decision
      <3>3. Decision(w) # "index"
        BY DEF Decision
      <3> QED
        BY <2>2, <3>1, <3>2, <3>3 DEF Uncommitted, Completed, Doc
    <2>8. ASSUME NEW w \in Workers, Begin(w) PROVE Uncommitted' /\ Kept
      <3>1. Doc(w) \in Docs /\ ~Completed(Doc(w))
        BY <2>8 DEF Begin, Progress, Uncommitted
      <3>2. UNCHANGED <<streamVars, msg, output>> /\ MarkStatus(Doc(w), "processing")
        BY <2>8 DEF Begin
      <3> QED
        BY <3>1, <3>2 DEF MarkStatus, Uncommitted, Completed, Doc, TypeOK
    <2>9. ASSUME NEW w \in Workers, Index(w) \/ Finish(w) PROVE Uncommitted' /\ Kept
      BY <2>9 DEF Index, Finish, MarkStatus, Uncommitted, Completed, TypeOK
    <2>10. ASSUME NEW w \in Workers, Fail(w) PROVE Uncommitted' /\ Kept
      <3>1. ~Completed(Doc(w))
        BY <2>10 DEF Fail, Uncommitted
      <3> QED
        BY <2>10, <3>1 DEF Fail, MarkStatus, Uncommitted, Completed, TypeOK
    <2>11. ASSUME NEW w \in Workers, Reject(w) PROVE Uncommitted' /\ Kept
      BY <2>2, <2>11 DEF Reject, Uncommitted, Completed, Doc, TypeOK
    <2>12. ASSUME NEW w \in Workers, DeadLetter(w) \/ Ack(w) PROVE Uncommitted' /\ Kept
      BY <2>2, <2>12 DEF DeadLetter, Ack, Return, Uncommitted, TypeOK
    <2>14. ASSUME NEW w \in Workers, LostMark(w) PROVE Uncommitted' /\ Kept
      <3>1. pc[w] = "fail" => ~Completed(Doc(w))
        BY DEF Uncommitted
      <3> QED
        BY <2>14, <3>1 DEF LostMark, Return, MarkStatus, Uncommitted, Completed, TypeOK
    <2>13. CASE UNCHANGED vars
      BY <2>2, <2>3, <2>13 DEF vars
    <2> QED
      BY <2>4, <2>5, <2>6, <2>7, <2>8, <2>9, <2>10, <2>11, <2>12, <2>13,
         <2>14 DEF Next, Handle, Fault, Abandon
  <1> QED
    BY <1>1, <1>2, ControlInvariant, AckInvariant, PTL DEF Spec, CommittedStaysProcessed

-----------------------------------------------------------------------------
(* The delivery limit. That runs[m] never exceeds it is not inductive: while *)
(* a reclaim races the delivery it takes over, several workers may be past   *)
(* the limit test for the same entry. Each of them was admitted by a         *)
(* delivery of its own, so starts, workers admitted and batches that still   *)
(* hold the entry never outnumber the deliveries counted.                    *)

Queued(m)   == {w \in Workers : m \in batch[w]}
Admitted(m) ==
    {w \in Workers : msg[w] = m /\ pc[w] \in {"lookup", "begin"} /\ attempts[w] <= MaxAttempts}

Starts(m) == runs[m] + Cardinality(Admitted(m))

Budget(m) ==
    /\ IsFiniteSet(Queued(m)) /\ IsFiniteSet(Admitted(m))
    /\ Starts(m) <= MaxAttempts
    /\ pel[m] \in 1..MaxAttempts => Starts(m) + Cardinality(Queued(m)) <= pel[m]
    /\ m > offset => runs[m] = 0

InBudget    == \A m \in Ids : Budget(m)
LimitTested == \A w \in Workers : pc[w] = "begin" => attempts[w] <= MaxAttempts

\* A subset is finite and no larger; one more element adds at most one; a
\* subset that lacks an element is smaller.
LEMMA SubsetSizes ==
    ASSUME NEW S, IsFiniteSet(S), NEW x
    PROVE  /\ Cardinality(S) \in Nat
           /\ \A T \in SUBSET (S \cup {x}) :
                 IsFiniteSet(T) /\ Cardinality(T) \in Nat /\ Cardinality(T) <= Cardinality(S) + 1
           /\ \A T \in SUBSET S :
                 /\ IsFiniteSet(T) /\ Cardinality(T) \in Nat /\ Cardinality(T) <= Cardinality(S)
                 /\ x \in S \ T => Cardinality(T) < Cardinality(S)
  <1>1. Cardinality(S) \in Nat
    BY FS_CardinalityType
  <1>2. IsFiniteSet(S \cup {x}) /\ Cardinality(S \cup {x}) <= Cardinality(S) + 1
    BY <1>1, FS_AddElement
  <1>3. IsFiniteSet(S \cup {x}) /\ Cardinality(S \cup {x}) \in Nat
    BY <1>2, FS_CardinalityType
  <1>4. ASSUME NEW T \in SUBSET (S \cup {x})
        PROVE  IsFiniteSet(T) /\ Cardinality(T) \in Nat /\ Cardinality(T) <= Cardinality(S) + 1
    <2>1. IsFiniteSet(T) /\ Cardinality(T) <= Cardinality(S \cup {x})
      BY <1>2, FS_Subset
    <2>2. Cardinality(T) \in Nat
      BY <2>1, FS_CardinalityType
    <2> QED
      BY <1>1, <1>2, <1>3, <2>1, <2>2
  <1>5. ASSUME NEW T \in SUBSET S
        PROVE  /\ IsFiniteSet(T) /\ Cardinality(T) \in Nat /\ Cardinality(T) <= Cardinality(S)
               /\ x \in S \ T => Cardinality(T) < Cardinality(S)
    <2>1. /\ IsFiniteSet(T) /\ Cardinality(T) <= Cardinality(S)
          /\ Cardinality(S) = Cardinality(T) => S = T
      BY FS_Subset
    <2>2. Cardinality(T) \in Nat
      BY <2>1, FS_CardinalityType
    <2>3. x \in S \ T => Cardinality(S) # Cardinality(T)
      BY <2>1
    <2> QED
      BY <1>1, <2>1, <2>2, <2>3
  <1> QED
    BY <1>1, <1>4, <1>5

\* A step that starts nothing, admits nobody and queues the entry for nobody
\* keeps its budget; the entry may be acknowledged.
LEMMA BudgetKept ==
    ASSUME TypeOK, NEW m \in Ids, Budget(m), offset' \in Int, offset' >= offset,
           Queued(m)' \subseteq Queued(m), Admitted(m)' \subseteq Admitted(m),
           runs'[m] = runs[m], pel'[m] \in {pel[m], 0}
    PROVE  Budget(m)'
  <1>1. /\ IsFiniteSet(Queued(m)') /\ Cardinality(Queued(m)') \in Nat
        /\ Cardinality(Queued(m)) \in Nat /\ Cardinality(Queued(m)') <= Cardinality(Queued(m))
    BY SubsetSizes DEF Budget
  <1>2. /\ IsFiniteSet(Admitted(m)') /\ Cardinality(Admitted(m)') \in Nat
        /\ Cardinality(Admitted(m)) \in Nat /\ Cardinality(Admitted(m)') <= Cardinality(Admitted(m))
    BY SubsetSizes DEF Budget
  <1>3. runs[m] \in Nat /\ pel[m] \in Nat /\ offset \in Int /\ MaxAttempts \in Nat /\ m \in Nat
    BY WorkerAssumption DEF TypeOK, Ids, NoGroup
  <1> QED
    BY <1>1, <1>2, <1>3 DEF Budget, Starts

\* XREADGROUP and XAUTOCLAIM give the entry to one worker and count that.
LEMMA BudgetDelivered ==
    ASSUME TypeOK, Control, NEW m \in Ids, Budget(m), NEW w \in Workers,
           pel[m] > 0 \/ m > offset, pel'[m] = Redelivered(pel[m]), m <= offset',
           Queued(m)' \subseteq Queued(m) \cup {w}, Admitted(m)' \subseteq Admitted(m),
           runs'[m] = runs[m], offset' \in Int
    PROVE  Budget(m)'
  <1>1. /\ IsFiniteSet(Queued(m)') /\ Cardinality(Queued(m)') \in Nat
        /\ Cardinality(Queued(m)) \in Nat /\ Cardinality(Queued(m)') <= Cardinality(Queued(m)) + 1
    BY SubsetSizes DEF Budget
  <1>2. /\ IsFiniteSet(Admitted(m)') /\ Cardinality(Admitted(m)') \in Nat
        /\ Cardinality(Admitted(m)) \in Nat /\ Cardinality(Admitted(m)') <= Cardinality(Admitted(m))
    BY SubsetSizes DEF Budget
  <1>3. /\ runs[m] \in Nat /\ pel[m] \in 0..(MaxAttempts + 1) /\ offset \in Int
        /\ MaxAttempts \in Nat \ {0} /\ m \in Nat \ {0}
    BY WorkerAssumption DEF TypeOK, Ids, NoGroup
  <1>4. Starts(m)' <= MaxAttempts
    BY <1>2, <1>3 DEF Budget, Starts
  <1>5. CASE pel[m] > 0
    <2>1. pel'[m] \in 1..MaxAttempts => pel[m] \in 1..MaxAttempts /\ pel'[m] = pel[m] + 1
      BY <1>3, <1>5 DEF Redelivered
    <2>2. pel'[m] \in 1..MaxAttempts => Starts(m)' + Cardinality(Queued(m)') <= pel'[m]
      BY <1>1, <1>2, <1>3, <2>1 DEF Budget, Starts
    <2> QED
      BY <1>1, <1>2, <1>3, <1>4, <2>2 DEF Budget
  <1>6. CASE pel[m] = 0
    <2>1. m > offset /\ runs[m] = 0 /\ pel'[m] = 1
      BY <1>3, <1>6 DEF Redelivered, Budget
    <2>2. Queued(m) = {} /\ Admitted(m) = {}
      BY <1>3, <2>1 DEF Queued, Admitted, Control, NoMsg
    <2>3. Cardinality(Queued(m)') <= 1 /\ Cardinality(Admitted(m)') = 0
      BY <1>1, <1>2, <2>2, FS_EmptySet
    <2>4. Starts(m)' + Cardinality(Queued(m)') <= pel'[m]
      BY <1>1, <1>3, <2>1, <2>3 DEF Starts
    <2> QED
      BY <1>1, <1>2, <1>3, <1>4, <2>4 DEF Budget
  <1> QED
    BY <1>3, <1>5, <1>6

\* handle() takes the delivery out of the batch and reads its count.
LEMMA BudgetAdmitted ==
    ASSUME TypeOK, NEW m \in Ids, Budget(m), NEW w \in Workers, w \in Queued(m),
           pel[m] \in 1..MaxAttempts, Queued(m)' \subseteq Queued(m) \ {w},
           Admitted(m)' \subseteq Admitted(m) \cup {w},
           runs'[m] = runs[m], pel'[m] = pel[m], offset' = offset
    PROVE  Budget(m)'
  <1>1. /\ IsFiniteSet(Queued(m)') /\ Cardinality(Queued(m)') \in Nat
        /\ Cardinality(Queued(m)) \in Nat /\ Cardinality(Queued(m)') < Cardinality(Queued(m))
    BY SubsetSizes DEF Budget
  <1>2. /\ IsFiniteSet(Admitted(m)') /\ Cardinality(Admitted(m)') \in Nat
        /\ Cardinality(Admitted(m)) \in Nat
        /\ Cardinality(Admitted(m)') <= Cardinality(Admitted(m)) + 1
    BY SubsetSizes DEF Budget
  <1>3. runs[m] \in Nat /\ MaxAttempts \in Nat
    BY WorkerAssumption DEF TypeOK
  <1> QED
    BY <1>1, <1>2, <1>3 DEF Budget, Starts

\* mark_status("processing") spends the admission it had.
LEMMA BudgetSpent ==
    ASSUME TypeOK, NEW m \in Ids, Budget(m), NEW w \in Workers, w \in Admitted(m), m <= offset,
           Queued(m)' \subseteq Queued(m), Admitted(m)' \subseteq Admitted(m) \ {w},
           runs'[m] \in {runs[m], runs[m] + 1}, pel'[m] = pel[m], offset' = offset
    PROVE  Budget(m)'
  <1>1. /\ IsFiniteSet(Queued(m)') /\ Cardinality(Queued(m)') \in Nat
        /\ Cardinality(Queued(m)) \in Nat /\ Cardinality(Queued(m)') <= Cardinality(Queued(m))
    BY SubsetSizes DEF Budget
  <1>2. /\ IsFiniteSet(Admitted(m)') /\ Cardinality(Admitted(m)') \in Nat
        /\ Cardinality(Admitted(m)) \in Nat /\ Cardinality(Admitted(m)') < Cardinality(Admitted(m))
    BY SubsetSizes DEF Budget
  <1>3. runs[m] \in Nat /\ MaxAttempts \in Nat /\ offset \in Int /\ m \in Nat
    BY WorkerAssumption DEF TypeOK, Ids, NoGroup
  <1> QED
    BY <1>1, <1>2, <1>3 DEF Budget, Starts

\* Every step is, for every entry, one of these four kinds.
LEMMA BudgetStep ==
    ASSUME TypeOK, Control, InBudget, LimitTested, [Next]_vars
    PROVE  InBudget' /\ LimitTested'
  <1> USE DEF Goto, NoMsg, InBudget
  <1> DEFINE Goal == (\A m \in Ids : Budget(m)') /\ LimitTested'
             Same == \A m \in Ids : Queued(m)' \subseteq Queued(m) /\ Admitted(m)' \subseteq Admitted(m)
  <1>0. /\ offset \in Int /\ MaxAttempts \in Nat
        /\ \A m \in Ids : m \in Nat \ {0} /\ pel[m] \in Nat /\ runs[m] \in Nat
    BY WorkerAssumption DEF TypeOK, Ids, NoGroup
  <1>1. ASSUME UNCHANGED <<offset, runs>>, Same, LimitTested',
               \A m \in Ids : pel'[m] \in {pel[m], 0}
        PROVE  Goal
    BY <1>0, <1>1, BudgetKept
  <1>2. ASSUME \/ UNCHANGED <<pc, localVars, runs, groupVars>>
               \/ UNCHANGED <<pc, localVars, runs, offset, pel>>
        PROVE  Goal
    <2>1. Same
      BY <1>2 DEF Queued, Admitted
    <2>2. LimitTested' /\ UNCHANGED <<offset, runs, pel>>
      BY <1>2 DEF LimitTested
    <2> QED
      BY <1>1, <2>1, <2>2
  <1>3. ASSUME NEW t \in Targets, Publish(t) PROVE Goal
    BY <1>2, <1>3 DEF Publish
  <1>4. ASSUME NEW m \in Ids, Lapse(m) PROVE Goal
    BY <1>2, <1>4 DEF Lapse
  <1>5. ASSUME NEW w \in Workers, Setup(w) PROVE Goal
    <2>1. GroupOffset \in Int /\ GroupOffset >= offset
      BY DEF GroupOffset, TypeOK, NoGroup
    <2>2. Same
      BY <1>5 DEF Setup, Queued, Admitted, TypeOK
    <2>3. LimitTested'
      BY <1>5 DEF Setup, LimitTested, TypeOK
    <2> QED
      BY <1>5, <2>1, <2>2, <2>3, BudgetKept DEF Setup
  <1>6. ASSUME NEW w \in Workers, Reclaim(w) PROVE Goal
    <2> DEFINE claimed == Scanned(cursor[w]) \cap lapsed
    <2>1. claimed \in SUBSET Ids /\ Deliver(claimed) /\ \A m \in claimed : pel[m] > 0 /\ m <= offset
      BY <1>6, ScanRange DEF Reclaim, TypeOK, Control, Pending
    <2>2. /\ batch' = [batch EXCEPT ![w] = claimed] /\ UNCHANGED <<msg, attempts, runs, offset>>
          /\ pc' = [pc EXCEPT ![w] = IF claimed = {} THEN "read" ELSE "next"]
      BY <1>6 DEF Reclaim
    <2> HIDE DEF claimed
    <2>3. LimitTested'
      BY <2>2 DEF LimitTested, TypeOK
    <2>4. ASSUME NEW m \in Ids PROVE Budget(m)'
      <3>1. Admitted(m)' \subseteq Admitted(m)
        BY <2>2 DEF Admitted, TypeOK
      <3>2. CASE m \in claimed
        <4>1. Queued(m)' \subseteq Queued(m) \cup {w}
          BY <2>2 DEF Queued, TypeOK
        <4>2. pel'[m] = Redelivered(pel[m]) /\ pel[m] > 0 /\ m <= offset
          BY <2>1, <3>2 DEF Deliver
        <4> QED
          BY <1>0, <2>2, <3>1, <4>1, <4>2, BudgetDelivered
      <3>3. CASE m \notin claimed
        <4>1. Queued(m)' \subseteq Queued(m)
          BY <2>2, <3>3 DEF Queued, TypeOK
        <4>2. pel'[m] = pel[m]
          BY <2>1, <3>3 DEF Deliver
        <4> QED
          BY <1>0, <2>2, <3>1, <4>1, <4>2, BudgetKept
      <3> QED
        BY <3>2, <3>3
    <2> QED
      BY <2>3, <2>4
  <1>7. ASSUME NEW w \in Workers, Read(w) PROVE Goal
    <2>1. LastNew \in Int /\ LastNew >= offset
          /\ \A m \in NewEntries : m > offset /\ m <= LastNew
      BY WorkerAssumption DEF NewEntries, LastNew, TypeOK, Control, NoGroup
    <2>2. /\ batch' = [batch EXCEPT ![w] = NewEntries] /\ UNCHANGED <<msg, attempts, runs>>
          /\ pc' = [pc EXCEPT ![w] = IF NewEntries = {} THEN "pass" ELSE "next"]
          /\ offset' = LastNew /\ Deliver(NewEntries)
      BY <1>7 DEF Read
    <2>3. LimitTested'
      BY <2>2 DEF LimitTested, TypeOK
    <2>4. ASSUME NEW m \in Ids PROVE Budget(m)'
      <3>1. Admitted(m)' \subseteq Admitted(m)
        BY <2>2 DEF Admitted, TypeOK
      <3>2. CASE m \in NewEntries
        <4>1. Queued(m)' \subseteq Queued(m) \cup {w}
          BY <2>2 DEF Queued, TypeOK
        <4>2. pel'[m] = Redelivered(pel[m]) /\ m > offset /\ m <= offset' /\ offset' \in Int
          BY <2>1, <2>2, <3>2 DEF Deliver
        <4> QED
          BY <1>0, <2>2, <3>1, <4>1, <4>2, BudgetDelivered
      <3>3. CASE m \notin NewEntries
        <4>1. Queued(m)' \subseteq Queued(m)
          BY <2>2, <3>3 DEF Queued, TypeOK
        <4>2. pel'[m] = pel[m]
          BY <2>2, <3>3 DEF Deliver
        <4> QED
          BY <1>0, <2>1, <2>2, <3>1, <4>1, <4>2, BudgetKept
      <3> QED
        BY <3>2, <3>3
    <2> QED
      BY <2>3, <2>4
  <1>8. ASSUME NEW w \in Workers, Check(w) PROVE Goal
    <2>1. PICK k \in batch[w] :
             \/ /\ pc' = [pc EXCEPT ![w] = IF batch[w] \ {k} = {} THEN "pass" ELSE "next"]
                /\ msg' = [msg EXCEPT ![w] = NoMsg] /\ attempts' = [attempts EXCEPT ![w] = 0]
                /\ batch' = [batch EXCEPT ![w] = batch[w] \ {k}]
             \/ /\ pel[k] > 0
                /\ pc' = [pc EXCEPT ![w] = IF event[k] = Malformed THEN "dead" ELSE "lookup"]
                /\ msg' = [msg EXCEPT ![w] = k] /\ attempts' = [attempts EXCEPT ![w] = pel[k]]
                /\ batch' = [batch EXCEPT ![w] = batch[w] \ {k}]
      BY <1>8 DEF Check, Return, TypeOK
    <2>2. UNCHANGED <<groupVars, runs>> /\ k \in Ids
      BY <1>8 DEF Check, TypeOK
    <2>3. LimitTested'
      BY <2>1 DEF LimitTested, TypeOK
    <2>4. ASSUME NEW m \in Ids PROVE Budget(m)'
      <3>1. Queued(m)' \subseteq Queued(m)
        BY <2>1 DEF Queued, TypeOK
      <3>2. CASE Admitted(m)' \subseteq Admitted(m)
        BY <1>0, <2>2, <3>1, <3>2, BudgetKept
      <3>3. CASE ~ (Admitted(m)' \subseteq Admitted(m))
        <4>1. PICK v \in Admitted(m)' : v \notin Admitted(m)
          BY <3>3
        <4>2. v = w /\ msg'[w] = m /\ attempts'[w] <= MaxAttempts
          BY <2>1, <4>1 DEF Admitted, TypeOK
        <4>3. m = k /\ pel[m] > 0 /\ pel[m] <= MaxAttempts
          BY <1>0, <2>1, <4>2 DEF TypeOK
        <4>4. w \in Queued(m) /\ Queued(m)' \subseteq Queued(m) \ {w}
          BY <2>1, <4>3 DEF Queued, TypeOK
        <4>5. Admitted(m)' \subseteq Admitted(m) \cup {w}
          BY <2>1 DEF Admitted, TypeOK
        <4>6. pel[m] \in 1..MaxAttempts
          BY <1>0, <4>3
        <4> QED
          BY <2>2, <4>4, <4>5, <4>6, BudgetAdmitted
      <3> QED
        BY <3>2, <3>3
    <2> QED
      BY <2>3, <2>4
  <1>9. ASSUME NEW w \in Workers, Lookup(w) PROVE Goal
    <2>1. pc[w] = "lookup" /\ pc' = [pc EXCEPT ![w] = Decision(w)]
          /\ UNCHANGED <<groupVars, batch, msg, attempts, runs>>
      BY <1>9 DEF Lookup
    <2>2. Decision(w) = "begin" => attempts[w] <= MaxAttempts
      BY <1>0 DEF Decision, BudgetExhausted, TypeOK
    <2>3. LimitTested'
      BY <2>1, <2>2 DEF LimitTested, TypeOK
    <2>4. Same
      BY <2>1 DEF Queued, Admitted, TypeOK
    <2> QED
      BY <1>1, <2>1, <2>3, <2>4
  <1>10. ASSUME NEW w \in Workers, Begin(w) PROVE Goal
    <2>1. /\ pc[w] = "begin" /\ pc' = [pc EXCEPT ![w] = "index"]
          /\ UNCHANGED <<groupVars, batch, msg, attempts>>
          /\ runs' = [runs EXCEPT ![msg[w]] = IF @ > MaxAttempts THEN @ ELSE @ + 1]
      BY <1>10 DEF Begin
    <2>2. LimitTested'
      BY <2>1 DEF LimitTested, TypeOK
    <2>3. Same
      BY <2>1 DEF Queued, Admitted, TypeOK
    <2>4. msg[w] \in Ids /\ msg[w] <= offset /\ w \in Admitted(msg[w])
      BY <2>1 DEF Control, TypeOK, Handling, DatabaseCalls, Ids, Admitted, LimitTested
    <2>5. ASSUME NEW m \in Ids PROVE Budget(m)'
      <3>1. CASE m = msg[w]
        <4>1. Admitted(m)' \subseteq Admitted(m) \ {w}
          BY <2>1 DEF Admitted, TypeOK
        <4>2. runs'[m] \in {runs[m], runs[m] + 1}
          BY <2>1, <3>1 DEF TypeOK
        <4> QED
          BY <2>1, <2>3, <2>4, <3>1, <4>1, <4>2, BudgetSpent
      <3>2. CASE m # msg[w]
        <4>1. runs'[m] = runs[m]
          BY <2>1, <3>2 DEF TypeOK
        <4> QED
          BY <1>0, <2>1, <2>3, <4>1, BudgetKept
      <3> QED
        BY <3>1, <3>2
    <2> QED
      BY <2>2, <2>5
  <1>11. ASSUME NEW w \in Workers,
                \/ Index(w) \/ Finish(w) \/ Reject(w) \/ Fail(w) \/ DeadLetter(w)
                \/ SkipReclaim(w) \/ Restart(w)
         PROVE  Goal
    <2>1. /\ UNCHANGED <<groupVars, batch, msg, attempts, runs>>
          /\ pc' = [pc EXCEPT ![w] = pc'[w]] /\ pc'[w] \notin {"lookup", "begin"}
      BY <1>11 DEF Index, Finish, Reject, Fail, DeadLetter, SkipReclaim, Restart, TypeOK
    <2>2. LimitTested'
      BY <2>1 DEF LimitTested, TypeOK
    <2>3. Same
      BY <2>1 DEF Queued, Admitted, TypeOK
    <2> QED
      BY <1>1, <2>1, <2>2, <2>3
  <1>12. ASSUME NEW w \in Workers, Ack(w) \/ Abandon(w) \/ LostMark(w) PROVE Goal
    <2>1. /\ UNCHANGED <<offset, runs>>
          /\ pc' = [pc EXCEPT ![w] = pc'[w]] /\ pc'[w] \notin {"lookup", "begin"}
          /\ msg' = [msg EXCEPT ![w] = NoMsg]
          /\ attempts' = [attempts EXCEPT ![w] = 0]
          /\ \E rest \in SUBSET batch[w] : batch' = [batch EXCEPT ![w] = rest]
          /\ \A m \in Ids : pel'[m] \in {pel[m], 0}
      BY <1>12 DEF Ack, Abandon, LostMark, Transient, RedisFault, Crash, Stop, Return, Forget, TypeOK
    <2>2. LimitTested'
      BY <2>1 DEF LimitTested, TypeOK
    <2>3. Same
      BY <2>1 DEF Queued, Admitted, TypeOK
    <2> QED
      BY <1>1, <2>1, <2>2, <2>3
  <1>14. ASSUME NEW w \in Workers, LostReclaim(w) PROVE Goal
    <2> DEFINE claimed == Scanned(cursor[w]) \cap lapsed
    <2>1. claimed \in SUBSET Ids /\ Deliver(claimed) /\ \A m \in claimed : pel[m] > 0 /\ m <= offset
      BY <1>14, ScanRange DEF LostReclaim, TypeOK, Control, Pending
    <2>2. /\ batch' = [batch EXCEPT ![w] = {}] /\ msg' = [msg EXCEPT ![w] = NoMsg]
          /\ attempts' = [attempts EXCEPT ![w] = 0] /\ pc' = [pc EXCEPT ![w] = "setup"]
          /\ UNCHANGED <<runs, offset>>
      BY <1>14 DEF LostReclaim, Forget
    <2> HIDE DEF claimed
    <2>3. LimitTested'
      BY <2>2 DEF LimitTested, TypeOK
    <2>4. ASSUME NEW m \in Ids PROVE Budget(m)'
      <3>1. Admitted(m)' \subseteq Admitted(m) /\ Queued(m)' \subseteq Queued(m)
        BY <2>2 DEF Admitted, Queued, TypeOK
      <3>2. CASE m \in claimed
        <4>1. pel'[m] = Redelivered(pel[m]) /\ pel[m] > 0 /\ m <= offset
          BY <2>1, <3>2 DEF Deliver
        <4> QED
          BY <1>0, <2>2, <3>1, <4>1, BudgetDelivered
      <3>3. CASE m \notin claimed
        <4>1. pel'[m] = pel[m]
          BY <2>1, <3>3 DEF Deliver
        <4> QED
          BY <1>0, <2>2, <3>1, <4>1, BudgetKept
      <3> QED
        BY <3>2, <3>3
    <2> QED
      BY <2>3, <2>4
  <1>13. CASE UNCHANGED vars
    BY <1>2, <1>13 DEF vars
  <1> QED
    BY <1>3, <1>4, <1>5, <1>6, <1>7, <1>8, <1>9, <1>10, <1>11, <1>12, <1>13, <1>14
     DEF Next, Pass, Handle, Fault, Abandon

\* worker_max_attempts bounds the starts of the pipeline for one entry, for
\* any number of workers and with or without a lease that covers the work.
THEOREM LimitSafety == Spec => []PipelineRunsBounded
  <1>1. Init => InBudget
    <2> SUFFICES ASSUME Init, NEW m \in Ids PROVE Budget(m)
      BY DEF InBudget
    <2>1. Queued(m) = {} /\ Admitted(m) = {} /\ runs[m] = 0 /\ pel[m] = 0
      BY DEF Init, Queued, Admitted, NoMsg, Ids
    <2> QED
      BY <2>1, FS_EmptySet, WorkerAssumption DEF Budget, Starts
  <1>2. Init => LimitTested
    BY DEF Init, LimitTested
  <1>3. TypeOK /\ Control /\ InBudget /\ LimitTested /\ [Next]_vars => InBudget' /\ LimitTested'
    BY BudgetStep
  <1>4. TypeOK /\ InBudget => PipelineRunsBounded
    <2> SUFFICES ASSUME TypeOK, NEW m \in Ids, Budget(m) PROVE runs[m] <= MaxAttempts
      BY DEF PipelineRunsBounded, InBudget
    <2>1. Cardinality(Admitted(m)) \in Nat
      BY FS_CardinalityType DEF Budget
    <2> QED
      BY <2>1, WorkerAssumption DEF Budget, Starts, TypeOK
  <1> QED
    BY <1>1, <1>2, <1>3, <1>4, ControlInvariant, PTL DEF Spec

\* With a lease that covers the work, a document shown as failed has a dead
\* letter or an entry that will still be handled.
THEOREM FailureSafety ==
    ASSUME LeaseCoversWork PROVE Spec => []FailedIsRecorded
  BY NothingForgotten, PTL
=============================================================================
