------------------------------- MODULE Worker -------------------------------
(***************************************************************************)
(* The stream consumer of apps/worker: several worker processes share one  *)
(* Redis consumer group on di:documents, look the document of each event   *)
(* up in PostgreSQL, run the indexing pipeline and acknowledge the event.  *)
(*                                                                         *)
(* A worker's calls to Redis and PostgreSQL are the atomic steps; between  *)
(* any two of them every other worker may run, and the worker may crash.   *)
(* A call whose effect was applied but whose answer was lost is the call   *)
(* followed by a fault at the next one, or, where the worker then goes on  *)
(* otherwise, an action of its own (LostReclaim, LostMark).                *)
(***************************************************************************)
EXTENDS Integers, FiniteSets

CONSTANTS Workers,          \* the worker processes
          Docs,             \* registered documents
          Malformed,        \* an event that WorkerEvent does not validate
          Dangling,         \* an event that names no (matching) document row
          MaxEvents,        \* bound: entries ever added to the stream
          MaxAttempts,      \* settings.worker_max_attempts
          Batch,            \* settings.worker_batch
          ScanLimit,        \* entries one XAUTOCLAIM visits (Redis: 10 * COUNT)
          LeaseCoversWork,  \* worker_claim_min_idle_ms exceeds a batch's duration
          LateErrors        \* mark_status, or removing the temporary directory,
                            \* may raise an error that is not transient

ASSUME WorkerAssumption ==
    /\ MaxEvents \in Nat
    /\ MaxAttempts \in Nat \ {0}
    /\ Batch \in Nat \ {0}
    /\ ScanLimit \in Nat \ {0}
    /\ LeaseCoversWork \in BOOLEAN
    /\ LateErrors \in BOOLEAN
    /\ Malformed \notin Docs
    /\ Dangling \notin Docs
    /\ Malformed # Dangling

VARIABLES added,      \* number of entries of the stream
          event,      \* event[m]: what entry m refers to
          offset,     \* last entry the group delivered; NoGroup before XGROUP CREATE
          pel,        \* pending entries list: delivery count, 0 when not pending
          lapsed,     \* pending entries idle for longer than min-idle
          dlq,        \* entries with a dead letter
          status,     \* documents.status
          output,     \* pipeline version of the stored chunks and entities
          pc,         \* the call each worker makes next
          cursor,     \* Worker.cursor, 0 for "0-0"
          batch,      \* the deliveries run_once still has to handle
          msg,        \* the delivery in handle(), NoMsg outside it
          attempts,   \* the delivery count handle() read
          runs        \* history: times the pipeline was started for an entry

streamVars == <<added, event>>
groupVars  == <<offset, pel, lapsed>>
docVars    == <<status, output>>
localVars  == <<cursor, batch, msg, attempts>>
vars == <<streamVars, groupVars, dlq, docVars, pc, localVars, runs>>

Ids      == 1..MaxEvents
NoMsg    == 0
NoGroup  == -1
Targets  == Docs \cup {Malformed, Dangling}
Statuses == {"uploaded", "processing", "processed", "failed"}
Outputs  == {"none", "old", "current"}

RedisCalls    == {"setup", "pass", "read", "next", "dead", "ack"}
DatabaseCalls == {"lookup", "begin", "index", "finish", "fail"}
Handling      == DatabaseCalls \cup {"dead", "ack"}
Calls         == RedisCalls \cup DatabaseCalls \cup {"down"}

Pending   == {m \in Ids : pel[m] > 0}
Doc(w)    == event[msg[w]]
Holds(w)  == batch[w] \cup ({msg[w]} \ {NoMsg})

Init ==
    /\ added = 0
    /\ event = [m \in Ids |-> Malformed]
    /\ offset = NoGroup
    /\ pel = [m \in Ids |-> 0]
    /\ lapsed = {}
    /\ dlq = {}
    /\ \E replayed \in SUBSET Docs :      \* documents indexed by an older pipeline
          /\ status = [d \in Docs |-> IF d \in replayed THEN "processed" ELSE "uploaded"]
          /\ output = [d \in Docs |-> IF d \in replayed THEN "old" ELSE "none"]
    /\ pc = [w \in Workers |-> "down"]
    /\ cursor = [w \in Workers |-> 0]
    /\ batch = [w \in Workers |-> {}]
    /\ msg = [w \in Workers |-> NoMsg]
    /\ attempts = [w \in Workers |-> 0]
    /\ runs = [m \in Ids |-> 0]

-----------------------------------------------------------------------------
(* The stream and its group, as Redis keeps them. *)

\* A producer adds an entry: the outbox relay, possibly for the second time,
\* or an operator replaying a document.
Publish(t) ==
    /\ added < MaxEvents
    /\ added' = added + 1
    /\ event' = [event EXCEPT ![added + 1] = t]
    /\ UNCHANGED <<groupVars, dlq, docVars, pc, localVars, runs>>

\* A pending entry has been idle for min-idle. When the lease covers the
\* work, that never happens to an entry a live worker still holds.
Lapse(m) ==
    /\ m \in Pending \ lapsed
    /\ LeaseCoversWork => \A w \in Workers : m \notin Holds(w)
    /\ lapsed' = lapsed \cup {m}
    /\ UNCHANGED <<streamVars, offset, pel, dlq, docVars, pc, localVars, runs>>

\* Mutant: a redelivery is not counted.
MutantUncounted(n) == IF n = 0 THEN 1 ELSE n

\* Only attempts > MaxAttempts is ever asked of a delivery count, so counting
\* stops there without losing behaviours.
Redelivered(n) == IF n > MaxAttempts THEN n ELSE n + 1

\* Deliver the entries S once more (or for the first time).
Deliver(S) ==
    /\ pel' = [m \in Ids |-> IF m \in S THEN Redelivered(pel[m]) ELSE pel[m]]
    /\ lapsed' = lapsed \ S

\* XREADGROUP ">": the next entries the group has not delivered, at most Batch.
LastNew    == IF offset + Batch <= added THEN offset + Batch ELSE added
NewEntries == (offset + 1)..LastNew

\* XAUTOCLAIM from cursor c: visit pending entries in order until Batch of
\* them are claimed or ScanLimit are visited.
Scanned(c) ==
    LET from == {m \in Pending : m >= c}
    IN  {m \in from :
            /\ Cardinality({k \in from : k <= m}) <= ScanLimit
            /\ Cardinality({k \in from \cap lapsed : k < m}) < Batch}

\* Mutant: the scan is continued by counting, not at the cursor Redis returns.
MutantCursor(c) == c + 1

\* Where the scan continues: the first pending entry not visited, or 0.
NextCursor(c) ==
    LET rest == {m \in Pending : m >= c} \ Scanned(c)
    IN  IF rest = {} THEN 0 ELSE CHOOSE m \in rest : \A k \in rest : m <= k

\* XGROUP CREATE at 0-0; an existing group (BUSYGROUP) is kept.
GroupOffset == IF offset = NoGroup THEN 0 ELSE offset

-----------------------------------------------------------------------------
(* run_once: one pass over the stream. *)

Goto(w, call) == pc' = [pc EXCEPT ![w] = call]

\* Not ready yet: create the group.
Setup(w) ==
    /\ pc[w] = "setup"
    /\ offset' = GroupOffset
    /\ Goto(w, "pass")
    /\ UNCHANGED <<streamVars, pel, lapsed, dlq, docVars, localVars, runs>>

\* _reclaim, when a scan is unfinished or the clock has reached next_reclaim.
Reclaim(w) ==
    LET claimed == Scanned(cursor[w]) \cap lapsed
    IN  /\ pc[w] = "pass"
        /\ Deliver(claimed)
        /\ cursor' = [cursor EXCEPT ![w] = NextCursor(cursor[w])]
        /\ batch' = [batch EXCEPT ![w] = claimed]
        /\ Goto(w, IF claimed = {} THEN "read" ELSE "next")
        /\ UNCHANGED <<streamVars, offset, dlq, docVars, msg, attempts, runs>>

\* next_reclaim lies in the future and no scan is unfinished.
SkipReclaim(w) ==
    /\ pc[w] = "pass"
    /\ cursor[w] = 0
    /\ Goto(w, "read")
    /\ UNCHANGED <<streamVars, groupVars, dlq, docVars, localVars, runs>>

\* Read new deliveries; an empty answer (block timeout) ends the pass.
Read(w) ==
    /\ pc[w] = "read"
    /\ Deliver(NewEntries)
    /\ offset' = LastNew
    /\ batch' = [batch EXCEPT ![w] = NewEntries]
    /\ Goto(w, IF NewEntries = {} THEN "pass" ELSE "next")
    /\ UNCHANGED <<streamVars, dlq, docVars, cursor, msg, attempts, runs>>

\* handle() returns: go on with the batch, or end the pass.
Return(w, rest) ==
    /\ Goto(w, IF rest = {} THEN "pass" ELSE "next")
    /\ batch' = [batch EXCEPT ![w] = rest]
    /\ msg' = [msg EXCEPT ![w] = NoMsg]
    /\ attempts' = [attempts EXCEPT ![w] = 0]
    /\ UNCHANGED cursor

\* handle: XPENDING for the oldest delivery of the batch. An entry settled in
\* the meantime is skipped; an invalid one goes to the dead letters.
Check(w) ==
    /\ pc[w] = "next"
    /\ \E m \in batch[w] :
          /\ \A k \in batch[w] : m <= k
          /\ \/ /\ pel[m] = 0
                /\ Return(w, batch[w] \ {m})
             \/ /\ pel[m] > 0
                /\ Goto(w, IF event[m] = Malformed THEN "dead" ELSE "lookup")
                /\ batch' = [batch EXCEPT ![w] = @ \ {m}]
                /\ msg' = [msg EXCEPT ![w] = m]
                /\ attempts' = [attempts EXCEPT ![w] = pel[m]]
                /\ UNCHANGED cursor
    /\ UNCHANGED <<streamVars, groupVars, dlq, docVars, runs>>

-----------------------------------------------------------------------------
(* _handle_valid, process, _fail and dead_letter. *)

\* Mutants: the replay check forgets the pipeline version; the delivery limit
\* is off by one.
MutantAnyVersion(d) == status[d] = "processed"
MutantOneMore(n) == n > MaxAttempts + 1

Completed(d) == status[d] = "processed" /\ output[d] = "current"

BudgetExhausted(n) == n > MaxAttempts

\* Mutant: the delivery limit is tested before the replay check.
MutantLimitFirst(w) ==
    IF Doc(w) = Dangling THEN "dead"
    ELSE IF BudgetExhausted(attempts[w]) THEN "fail"
    ELSE IF Completed(Doc(w)) THEN "ack"
    ELSE "begin"

\* lookup, completed and the delivery limit: what to do with the document.
Decision(w) ==
    IF Doc(w) = Dangling THEN "dead"
    ELSE IF Completed(Doc(w)) THEN "ack"
    ELSE IF BudgetExhausted(attempts[w]) THEN "fail"
    ELSE "begin"

Lookup(w) ==
    /\ pc[w] = "lookup"
    /\ Goto(w, Decision(w))
    /\ UNCHANGED <<streamVars, groupVars, dlq, docVars, localVars, runs>>

MarkStatus(d, s) == status' = [status EXCEPT ![d] = s]

\* process: mark_status("processing"). The history count stops past the limit.
Begin(w) ==
    /\ pc[w] = "begin"
    /\ MarkStatus(Doc(w), "processing")
    /\ runs' = [runs EXCEPT ![msg[w]] = IF @ > MaxAttempts THEN @ ELSE @ + 1]
    /\ Goto(w, "index")
    /\ UNCHANGED <<streamVars, groupVars, dlq, output, localVars>>

\* Mutant: the status is committed, the chunks are not.
MutantStatusOnly(w) ==
    /\ pc[w] = "index"
    /\ MarkStatus(Doc(w), "processed")
    /\ Goto(w, "finish")
    /\ UNCHANGED <<streamVars, groupVars, dlq, output, localVars, runs>>

\* download, extract, analyze and embed, then upsert_document: one transaction
\* replaces chunks and entities and writes version and status together.
Index(w) ==
    /\ pc[w] = "index"
    /\ output' = [output EXCEPT ![Doc(w)] = "current"]
    /\ MarkStatus(Doc(w), "processed")
    /\ Goto(w, "finish")
    /\ UNCHANGED <<streamVars, groupVars, dlq, localVars, runs>>

\* process: mark_status("processed").
Finish(w) ==
    /\ pc[w] = "finish"
    /\ MarkStatus(Doc(w), "processed")
    /\ Goto(w, "ack")
    /\ UNCHANGED <<streamVars, groupVars, dlq, output, localVars, runs>>

\* process raised something not transient: missing or altered object,
\* unreadable document, provider failure; or, outside download and pipeline,
\* before or even after the output was committed.
Reject(w) ==
    /\ pc[w] = "index" \/ (LateErrors /\ pc[w] \in {"begin", "finish"})
    /\ Goto(w, "fail")
    /\ UNCHANGED <<streamVars, groupVars, dlq, docVars, localVars, runs>>

\* Mutant: the failed document is acknowledged without a dead letter.
MutantNoDeadLetter(w) ==
    /\ pc[w] = "fail"
    /\ MarkStatus(Doc(w), "failed")
    /\ Goto(w, "ack")
    /\ UNCHANGED <<streamVars, groupVars, dlq, output, localVars, runs>>

\* _fail: mark_status("failed") before the dead letter.
Fail(w) ==
    /\ pc[w] = "fail"
    /\ MarkStatus(Doc(w), "failed")
    /\ Goto(w, "dead")
    /\ UNCHANGED <<streamVars, groupVars, dlq, output, localVars, runs>>

\* dead_letter: XADD to the dead-letter stream before XACK.
DeadLetter(w) ==
    /\ pc[w] = "dead"
    /\ dlq' = dlq \cup {msg[w]}
    /\ Goto(w, "ack")
    /\ UNCHANGED <<streamVars, groupVars, docVars, localVars, runs>>

\* XACK: whoever the entry is assigned to now, it leaves the pending list.
Ack(w) ==
    /\ pc[w] = "ack"
    /\ pel' = [pel EXCEPT ![msg[w]] = 0]
    /\ lapsed' = lapsed \ {msg[w]}
    /\ Return(w, batch[w])
    /\ UNCHANGED <<streamVars, offset, dlq, docVars, runs>>

-----------------------------------------------------------------------------
(* Faults. *)

\* Mutant: handle() acknowledges after a transient failure.
MutantAckTransient(w) ==
    /\ pc[w] \in DatabaseCalls
    /\ pel' = [pel EXCEPT ![msg[w]] = 0]
    /\ lapsed' = lapsed \ {msg[w]}
    /\ Return(w, batch[w])
    /\ UNCHANGED <<streamVars, offset, dlq, docVars, runs>>

\* A TRANSIENT exception: handle() swallows it, the entry stays pending.
Transient(w) ==
    /\ pc[w] \in DatabaseCalls
    /\ Return(w, batch[w])
    /\ UNCHANGED <<streamVars, groupVars, dlq, docVars, runs>>

Forget(w) ==
    /\ batch' = [batch EXCEPT ![w] = {}]
    /\ msg' = [msg EXCEPT ![w] = NoMsg]
    /\ attempts' = [attempts EXCEPT ![w] = 0]

\* A RedisError unwinds to run(): the rest of the batch is abandoned, still
\* pending, and the worker is not ready.
RedisFault(w) ==
    /\ pc[w] \in RedisCalls \ {"setup"}
    /\ Goto(w, "setup")
    /\ Forget(w)
    /\ UNCHANGED <<streamVars, groupVars, dlq, docVars, cursor, runs>>

\* XAUTOCLAIM was applied and its answer is lost: the entries are claimed,
\* and the scan goes on from the old cursor.
LostReclaim(w) ==
    /\ pc[w] = "pass"
    /\ Deliver(Scanned(cursor[w]) \cap lapsed)
    /\ Goto(w, "setup")
    /\ Forget(w)
    /\ UNCHANGED <<streamVars, offset, dlq, docVars, cursor, runs>>

\* mark_status was committed and its answer is lost: a TRANSIENT exception,
\* after which the worker goes on with its batch.
LostMark(w) ==
    /\ \/ pc[w] = "finish" /\ MarkStatus(Doc(w), "processed")
       \/ pc[w] = "fail" /\ MarkStatus(Doc(w), "failed")
    /\ Return(w, batch[w])
    /\ UNCHANGED <<streamVars, groupVars, dlq, output, runs>>

\* The process dies (or a second signal makes it exit) anywhere.
Crash(w) ==
    /\ pc[w] # "down"
    /\ Goto(w, "down")
    /\ Forget(w)
    /\ cursor' = [cursor EXCEPT ![w] = 0]
    /\ UNCHANGED <<streamVars, groupVars, dlq, docVars, runs>>

\* stopping is looked at between passes and between deliveries only.
Stop(w) ==
    /\ pc[w] \in {"setup", "pass", "next"}
    /\ Crash(w)

Restart(w) ==
    /\ pc[w] = "down"
    /\ Goto(w, "setup")
    /\ UNCHANGED <<streamVars, groupVars, dlq, docVars, localVars, runs>>

-----------------------------------------------------------------------------

Handle(w) ==
    \/ Lookup(w) \/ Begin(w) \/ Index(w) \/ Finish(w)
    \/ Reject(w) \/ Fail(w) \/ DeadLetter(w) \/ Ack(w)

Pass(w) == Setup(w) \/ Reclaim(w) \/ SkipReclaim(w) \/ Read(w) \/ Check(w)

Fault(w) ==
    \/ Transient(w) \/ RedisFault(w) \/ LostReclaim(w) \/ LostMark(w)
    \/ Crash(w) \/ Stop(w)

Next ==
    \/ \E t \in Targets : Publish(t)
    \/ \E m \in Ids : Lapse(m)
    \/ \E w \in Workers : Pass(w) \/ Handle(w) \/ Fault(w) \/ Restart(w)

Spec == Init /\ [][Next]_vars

(* A running worker keeps calling; block and backoff are finite and a dead  *)
(* process is restarted by its supervisor. The clock reaches next_reclaim   *)
(* again and again, hence strong fairness of Reclaim, and an entry nobody   *)
(* works on grows older than min-idle.                                      *)
Fairness ==
    /\ \A w \in Workers :
          /\ WF_vars(Pass(w) \/ Handle(w))
          /\ SF_vars(Reclaim(w))
          /\ WF_vars(Restart(w))
    /\ \A m \in Ids : WF_vars(Lapse(m))

FairSpec == Spec /\ Fairness

-----------------------------------------------------------------------------
(* Properties. *)

TypeOK ==
    /\ added \in 0..MaxEvents
    /\ event \in [Ids -> Targets]
    /\ offset \in NoGroup..MaxEvents
    /\ pel \in [Ids -> 0..(MaxAttempts + 1)]
    /\ lapsed \in SUBSET Ids
    /\ dlq \in SUBSET Ids
    /\ status \in [Docs -> Statuses]
    /\ output \in [Docs -> Outputs]
    /\ pc \in [Workers -> Calls]
    /\ cursor \in [Workers -> 0..MaxEvents]
    /\ batch \in [Workers -> SUBSET Ids]
    /\ msg \in [Workers -> 0..MaxEvents]
    /\ attempts \in [Workers -> 0..(MaxAttempts + 1)]
    /\ runs \in [Ids -> Nat]

\* An entry whose work is durable: it is dead-lettered, or the output of the
\* current pipeline is stored for its document.
Durable(m) == m \in dlq \/ (event[m] \in Docs /\ output[event[m]] = "current")

\* Durable persistence precedes acknowledgement (worker/service.py): an entry
\* the group delivered and that is pending no longer left a durable outcome,
\* whatever crashed, was reclaimed or was handled twice on the way.
AckedIsDurable ==
    \A m \in Ids : m <= offset /\ pel[m] = 0 => Durable(m)

\* A document shown as processed has searchable output, also while a second
\* worker is replacing or failing it.
ProcessedHasOutput ==
    \A d \in Docs : status[d] = "processed" => output[d] # "none"

\* worker_max_attempts bounds how often the pipeline starts for one entry,
\* also when a reclaim races the delivery it takes over.
PipelineRunsBounded == \A m \in Ids : runs[m] <= MaxAttempts

\* Some entry that will still be delivered (again) refers to d.
Owed(d) == \E m \in Ids : m <= added /\ event[m] = d /\ (m > offset \/ pel[m] > 0)

\* With a lease that covers the work no document is left in "processing": an
\* entry that drives it to a terminal status is still in the stream.
ProcessingIsOwed == \A d \in Docs : status[d] = "processing" => Owed(d)

\* With a lease that covers the work a failed document has a dead letter, or
\* an entry that will still be handled.
FailedIsRecorded ==
    \A d \in Docs : status[d] = "failed" =>
        Owed(d) \/ \E m \in dlq : event[m] = d

\* Committed output of the current version stays processed: the replay check
\* of _handle_valid is what keeps a redelivery from touching it again.
CommittedStaysProcessed ==
    [][\A d \in Docs : Completed(d) => Completed(d)']_vars

\* worker/service.py: "current-version completed documents are replay-safe" -
\* no delivery, duplicate or late, turns such a document into a failed one.
CommittedNeverFails ==
    [][\A d \in Docs : Completed(d) => status'[d] # "failed"]_vars

\* docs/worker.md: "A crash during processing leaves `processing` and a pending
\* entry" - a document in processing has a worker on it or an entry to come.
ProcessingHasWorkerOrEntry ==
    \A d \in Docs : status[d] = "processing" =>
        Owed(d) \/ \E w \in Workers : pc[w] \in Handling /\ Doc(w) = d

\* A fault of the environment. A crash while the pipeline runs is not one: a
\* document may kill every worker that indexes it.
EnvironmentFault ==
    \E w \in Workers :
        \/ Transient(w) \/ RedisFault(w) \/ LostReclaim(w) \/ LostMark(w)
        \/ Stop(w) \/ (Crash(w) /\ pc[w] # "index")

\* Once the environment stops failing every entry is settled: new, abandoned
\* and redelivered ones, and those whose document kills the worker each time.
EntriesSettle ==
    <>[][~EnvironmentFault]_vars =>
        \A m \in Ids : (m <= added) ~> (m <= offset /\ pel[m] = 0)

=============================================================================
