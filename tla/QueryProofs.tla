---------------------------- MODULE QueryProofs -----------------------------
(***************************************************************************)
(* What the query application guarantees for all values of its constants.  *)
(* The usage ledger: the daily ceiling, totals that agree with the entries,*)
(* and that PostgreSQL's ledger implements the repository's in-memory      *)
(* reference, all about sums over a set of entries. The question: the order*)
(* of hits, what a snapshot shows of documents that are being replaced,    *)
(* fusion, and the answer's grounding.                                     *)
(***************************************************************************)
EXTENDS UsageLedger, QueryService, CountingTheorems, SequenceTheorems, TLAPS

-----------------------------------------------------------------------------
(* The state of the ledger and of its threads. A thread past reserve has an *)
(* entry, an open entry has a thread that is still to settle it or died,    *)
(* and every entry has a totals row for its day.                            *)

Steps == {"idle", "reserve", "call", "settle", "hosted", "fallback", "dead"}
Entry == [tenant: Tenants, day: Days, tokens: 1..Limit, usage: {Unknown} \cup Usages,
          outcome: {"reserved", "completed", "failed"}]

LedgerType ==
    /\ entries \in [DOMAIN entries -> Entry]
    /\ budgets \in [DOMAIN budgets -> [charged: Int, reserved: Int]]
    /\ today \in Days
    /\ pc \in [Requests -> Steps]
    /\ job \in [DOMAIN job -> [tenant: Tenants, tokens: Bounds, day: Days]]
    /\ found \in [Requests -> [usage: {Unknown} \cup Usages, outcome: {"completed", "failed"},
                               cost: Usages]]

Stages ==
    /\ IsFiniteSet(DOMAIN entries) /\ DOMAIN entries \subseteq Requests
    /\ \A r \in Requests :
          /\ pc[r] = "idle" <=> r \notin DOMAIN job
          /\ pc[r] = "reserve" => job[r].tokens \in 1..Limit
          /\ pc[r] \in {"idle", "reserve"} => r \notin DOMAIN entries
          /\ pc[r] \in {"call", "settle"} => r \in DOMAIN entries
          /\ pc[r] = "settle" => found[r].usage = Unknown \/ found[r].usage >= found[r].cost
    /\ \A r \in DOMAIN entries :
          /\ <<entries[r].tenant, entries[r].day>> \in DOMAIN budgets
          /\ entries[r].outcome = "reserved" =>
                pc[r] \in {"call", "settle", "dead"} /\ entries[r].usage = Unknown
          /\ pc[r] \in {"call", "settle"} => entries[r].outcome = "reserved"

Charges  == [r \in DOMAIN entries |-> Charge(entries[r])]
Holdings == [r \in DOMAIN entries |-> entries[r].tokens]

OpenOf(t, d)    == {r \in OfDay(t, d) : entries[r].outcome = "reserved"}
SettledOf(t, d) == {r \in OfDay(t, d) : entries[r].outcome # "reserved"}

\* The totals row of a day is the sum of its entries, and what exceeds the
\* limit is what calls used beyond their bounds.
DayTotals(t, d) ==
    /\ Row(t, d).charged = SumFunctionOnSet(Charges, SettledOf(t, d))
    /\ Row(t, d).reserved = SumFunctionOnSet(Holdings, OpenOf(t, d))
    /\ Row(t, d).charged + Row(t, d).reserved
          <= Limit + SumFunctionOnSet(Overruns, OfDay(t, d))

Totals == \A t \in Tenants, d \in Days : DayTotals(t, d)

LedgerInv == LedgerType /\ Stages /\ Totals

-----------------------------------------------------------------------------
(* Types and stages.                                                        *)

\* What reserve writes: the entry is new, the totals of its day hold its bound.
Reserved(r) ==
    /\ r \notin DOMAIN entries /\ DOMAIN entries' = DOMAIN entries \cup {r}
    /\ entries'[r] = [tenant |-> job[r].tenant, day |-> job[r].day, tokens |-> job[r].tokens,
                      usage |-> Unknown, outcome |-> "reserved"]
    /\ \A q \in DOMAIN entries : entries'[q] = entries[q]
    /\ DOMAIN budgets' = DOMAIN budgets \cup {Key(r)}
    /\ \A k \in DOMAIN budgets \ {Key(r)} : budgets'[k] = budgets[k]
    /\ budgets'[Key(r)] = [charged  |-> Row(job[r].tenant, job[r].day).charged,
                           reserved |-> Row(job[r].tenant, job[r].day).reserved + job[r].tokens]

\* What settle writes: the entry is closed with what the call revealed, its
\* bound moves from its own day's reserved total to the charged one.
Closed(r) ==
    /\ r \in DOMAIN entries /\ DOMAIN entries' = DOMAIN entries
    /\ entries[r].outcome = "reserved" /\ entries[r].usage = Unknown
    /\ entries'[r] = [tenant |-> entries[r].tenant, day |-> entries[r].day,
                      tokens |-> entries[r].tokens,
                      usage |-> found[r].usage, outcome |-> found[r].outcome]
    /\ found[r].outcome # "reserved"
    /\ \A q \in DOMAIN entries \ {r} : entries'[q] = entries[q]
    /\ LET key == <<entries[r].tenant, entries[r].day>>
       IN  /\ key \in DOMAIN budgets /\ DOMAIN budgets' = DOMAIN budgets
           /\ \A k \in DOMAIN budgets \ {key} : budgets'[k] = budgets[k]
           /\ budgets'[key] = [charged  |-> budgets[key].charged + Charge(entries'[r]),
                               reserved |-> budgets[key].reserved - entries[r].tokens]

RowsTyped ==
    /\ entries \in [DOMAIN entries -> Entry]
    /\ budgets \in [DOMAIN budgets -> [charged: Int, reserved: Int]]

LEMMA ReserveEffect ==
    ASSUME LedgerType, Stages, NEW r \in Requests, Reserve(r)
    PROVE  /\ Reserved(r) /\ RowsTyped'
           /\ job[r].tenant \in Tenants /\ job[r].day \in Days /\ job[r].tokens \in 1..Limit
  <1>1. /\ pc[r] = "reserve" /\ r \notin DOMAIN entries /\ r \in DOMAIN job
        /\ job[r].tokens \in 1..Limit
    BY DEF Reserve, Stages
  <1>2. job[r] \in [tenant: Tenants, tokens: Bounds, day: Days]
    BY <1>1 DEF LedgerType
  <1> DEFINE new == [tenant |-> job[r].tenant, day |-> job[r].day, tokens |-> job[r].tokens,
                     usage |-> Unknown, outcome |-> "reserved"]
  <1>3. entries' = [q \in DOMAIN entries \cup {r} |-> IF q = r THEN new ELSE entries[q]]
    BY DEF Reserve, With
  <1>4. new \in Entry
    BY <1>1, <1>2 DEF Entry
  <1> HIDE DEF new
  <1>5. /\ DOMAIN entries' = DOMAIN entries \cup {r} /\ entries'[r] = new
        /\ \A q \in DOMAIN entries : entries'[q] = entries[q]
    BY <1>1, <1>3
  <1>6. entries' \in [DOMAIN entries' -> Entry]
    <2>1. \A q \in DOMAIN entries' : entries'[q] \in Entry
      BY <1>4, <1>5 DEF LedgerType
    <2> QED
      BY <1>3, <1>5, <2>1
  <1>7. Key(r) = <<job[r].tenant, job[r].day>>
    BY DEF Key
  <1> DEFINE row == [charged  |-> Row(job[r].tenant, job[r].day).charged,
                     reserved |-> Row(job[r].tenant, job[r].day).reserved + job[r].tokens]
             Goal == /\ DOMAIN budgets' = DOMAIN budgets \cup {Key(r)}
                     /\ \A k \in DOMAIN budgets \ {Key(r)} : budgets'[k] = budgets[k]
                     /\ budgets'[Key(r)] = row
                     /\ budgets' \in [DOMAIN budgets' -> [charged: Int, reserved: Int]]
  <1>8. ASSUME RowExists(r) PROVE Goal
    <2>1. budgets' = [budgets EXCEPT ![Key(r)].reserved = @ + job[r].tokens]
      BY <1>8 DEF Reserve
    <2>2. Key(r) \in DOMAIN budgets /\ Row(job[r].tenant, job[r].day) = budgets[Key(r)]
      BY <1>7, <1>8 DEF RowExists, Row
    <2>3. budgets[Key(r)] \in [charged: Int, reserved: Int]
      BY <2>2 DEF LedgerType
    <2>4. DOMAIN budgets' = DOMAIN budgets
      BY <2>1
    <2>5. budgets'[Key(r)] = [budgets[Key(r)] EXCEPT !.reserved = @ + job[r].tokens]
      BY <2>1, <2>2
    <2>6. budgets'[Key(r)] = row
      BY <2>2, <2>3, <2>5
    <2>7. \A k \in DOMAIN budgets \ {Key(r)} : budgets'[k] = budgets[k]
      BY <2>1
    <2>8. row \in [charged: Int, reserved: Int]
      BY <1>1, <2>2, <2>3
    <2>9. budgets' = [k \in DOMAIN budgets |-> budgets'[k]]
      BY <2>1
    <2> HIDE DEF row
    <2>10. \A k \in DOMAIN budgets : budgets'[k] \in [charged: Int, reserved: Int]
      BY <2>6, <2>7, <2>8 DEF LedgerType
    <2>11. budgets' \in [DOMAIN budgets' -> [charged: Int, reserved: Int]]
      BY <2>4, <2>9, <2>10
    <2> QED
      BY <2>2, <2>4, <2>6, <2>7, <2>11
  <1>9. ASSUME ~RowExists(r) PROVE Goal
    <2>1. budgets' = [k \in DOMAIN budgets \cup {Key(r)} |->
                         IF k = Key(r) THEN [charged |-> 0, reserved |-> job[r].tokens]
                         ELSE budgets[k]]
      BY <1>9 DEF Reserve, With
    <2>2. row = [charged |-> 0, reserved |-> job[r].tokens]
      BY <1>1, <1>7, <1>9 DEF RowExists, Row
    <2>3. /\ DOMAIN budgets' = DOMAIN budgets \cup {Key(r)} /\ budgets'[Key(r)] = row
          /\ \A k \in DOMAIN budgets \ {Key(r)} : budgets'[k] = budgets[k]
      BY <2>1, <2>2
    <2>4. row \in [charged: Int, reserved: Int]
      BY <1>1, <2>2
    <2> HIDE DEF row
    <2>5. \A k \in DOMAIN budgets' : budgets'[k] \in [charged: Int, reserved: Int]
      BY <2>3, <2>4 DEF LedgerType
    <2>6. budgets' \in [DOMAIN budgets' -> [charged: Int, reserved: Int]]
      BY <2>1, <2>3, <2>5
    <2> QED
      BY <2>3, <2>6
  <1> QED
    BY <1>1, <1>2, <1>5, <1>6, <1>8, <1>9 DEF new, Reserved, RowsTyped

LEMMA SettleEffect ==
    ASSUME LedgerAssumption, LedgerType, Stages, NEW r \in Requests, Settle(r)
    PROVE  Closed(r) /\ RowsTyped' /\ Charge(entries'[r]) \in Nat
  <1> DEFINE row == [entries[r] EXCEPT !.usage = found[r].usage, !.outcome = found[r].outcome]
             key == <<entries[r].tenant, entries[r].day>>
  <1>1. /\ r \in DOMAIN entries /\ entries[r].outcome = "reserved" /\ entries[r].usage = Unknown
        /\ key \in DOMAIN budgets
    BY DEF Settle, Stages
  <1>2. entries[r] \in Entry /\ budgets[key] \in [charged: Int, reserved: Int]
    BY <1>1 DEF LedgerType
  <1>3. /\ row = [tenant |-> entries[r].tenant, day |-> entries[r].day,
                  tokens |-> entries[r].tokens,
                  usage |-> found[r].usage, outcome |-> found[r].outcome]
        /\ row \in Entry /\ found[r].outcome # "reserved"
    <2>1. /\ found[r].usage \in {Unknown} \cup Usages
          /\ found[r].outcome \in {"completed", "failed"}
      BY DEF LedgerType
    <2>2. row \in Entry
      BY <1>2, <2>1 DEF Entry
    <2>3. /\ row.tenant = entries[r].tenant /\ row.day = entries[r].day
          /\ row.tokens = entries[r].tokens
          /\ row.usage = found[r].usage /\ row.outcome = found[r].outcome
      BY <1>2 DEF Entry
    <2>4. row = [tenant |-> row.tenant, day |-> row.day, tokens |-> row.tokens,
                 usage |-> row.usage, outcome |-> row.outcome]
      <3> HIDE DEF row
      <3> QED
        BY <2>2 DEF Entry
    <2> HIDE DEF row
    <2> QED
      BY <2>1, <2>2, <2>3, <2>4
  <1> HIDE DEF row
  <1>4. Charge(row) \in Nat
    <2>1. row.usage \in {Unknown} \cup Usages /\ row.tokens \in 1..Limit
      BY <1>3 DEF Entry
    <2>2. row.usage = Unknown \/ row.usage \in Nat
      BY <2>1 DEF LedgerAssumption
    <2>3. row.tokens \in Nat
      BY <2>1 DEF LedgerAssumption
    <2> QED
      BY <2>2, <2>3 DEF Charge
  <1>5. /\ entries' = [entries EXCEPT ![r] = row]
        /\ budgets' = [budgets EXCEPT ![key] = [charged  |-> @.charged + Charge(row),
                                                reserved |-> @.reserved - row.tokens]]
    <2>1. row.tenant = entries[r].tenant /\ ChargedDay(r) = entries[r].day
      BY <1>3 DEF ChargedDay
    <2> QED
      BY <2>1 DEF Settle, row
  <1>6. /\ entries'[r] = row /\ DOMAIN entries' = DOMAIN entries
        /\ \A q \in DOMAIN entries \ {r} : entries'[q] = entries[q]
        /\ entries' \in [DOMAIN entries' -> Entry]
    BY <1>1, <1>3, <1>5 DEF LedgerType
  <1>7. row.tokens = entries[r].tokens /\ entries[r].tokens \in Int
    BY <1>2, <1>3 DEF Entry
  <1>8. budgets'[key] = [charged  |-> budgets[key].charged + Charge(row),
                         reserved |-> budgets[key].reserved - entries[r].tokens]
    BY <1>1, <1>5, <1>7
  <1>9. budgets'[key] \in [charged: Int, reserved: Int]
    BY <1>2, <1>4, <1>7, <1>8
  <1>10. /\ DOMAIN budgets' = DOMAIN budgets
         /\ \A k \in DOMAIN budgets \ {key} : budgets'[k] = budgets[k]
         /\ budgets' = [k \in DOMAIN budgets |-> budgets'[k]]
    BY <1>5
  <1>11. budgets' \in [DOMAIN budgets' -> [charged: Int, reserved: Int]]
    BY <1>9, <1>10 DEF LedgerType
  <1> QED
    BY <1>1, <1>3, <1>4, <1>6, <1>8, <1>10, <1>11 DEF Closed, RowsTyped

\* The threads keep to their stages, whichever of them die and whenever
\* midnight passes.
LEMMA StageStep ==
    ASSUME LedgerAssumption, LedgerType, Stages, [LedgerNext]_ledgerVars
    PROVE  LedgerType' /\ Stages'
  <1> DEFINE Goal == LedgerType' /\ Stages'
  <1>1. CASE Midnight
    BY <1>1 DEF Midnight, ledger, LedgerType, Stages
  <1>2. ASSUME NEW r \in Requests, NEW t \in Tenants, NEW tokens \in Bounds, Begin(r, t, tokens)
        PROVE  Goal
    <2> DEFINE new == [tenant |-> t, tokens |-> tokens, day |-> today]
    <2>1. /\ pc[r] = "idle" /\ UNCHANGED <<budgets, entries, today, found>>
          /\ pc' = [pc EXCEPT ![r] = IF tokens < 1 \/ tokens > Limit THEN "fallback" ELSE "reserve"]
          /\ job' = [q \in DOMAIN job \cup {r} |-> IF q = r THEN new ELSE job[q]]
      BY <1>2 DEF Begin, Goto, With, ledger
    <2>2. new \in [tenant: Tenants, tokens: Bounds, day: Days] /\ new.tokens = tokens
      BY DEF LedgerType
    <2> HIDE DEF new
    <2>3. LedgerType'
      <3>1. \A q \in DOMAIN job' : job'[q] \in [tenant: Tenants, tokens: Bounds, day: Days]
        BY <2>1, <2>2 DEF LedgerType
      <3>2. job' \in [DOMAIN job' -> [tenant: Tenants, tokens: Bounds, day: Days]]
        BY <2>1, <3>1
      <3> QED
        BY <2>1, <3>2 DEF LedgerType, Steps
    <2>4. tokens \in Int
      BY DEF LedgerAssumption
    <2>5. Stages'
      BY <2>1, <2>2, <2>4 DEF Stages, LedgerType, LedgerAssumption
    <2> QED
      BY <2>3, <2>5
  <1>3. ASSUME NEW r \in Requests, Reserve(r) PROVE Goal
    <2>1. /\ pc[r] = "reserve" /\ UNCHANGED <<today, job, found>>
          /\ pc' = [pc EXCEPT ![r] = "call"]
      BY <1>3 DEF Reserve, Goto
    <2>2. Reserved(r) /\ RowsTyped'
      BY <1>3, ReserveEffect
    <2>3. LedgerType'
      BY <2>1, <2>2 DEF LedgerType, RowsTyped, Steps
    <2>4. IsFiniteSet(DOMAIN entries')
      BY <2>2, FS_AddElement DEF Stages, Reserved
    <2>5. /\ entries'[r].outcome = "reserved" /\ entries'[r].usage = Unknown
          /\ <<entries'[r].tenant, entries'[r].day>> \in DOMAIN budgets'
      BY <2>2 DEF Key, Reserved
    <2>6. /\ \A q \in DOMAIN entries' : q # r => q \in DOMAIN entries /\ entries'[q] = entries[q]
          /\ r \in DOMAIN entries' /\ DOMAIN entries \subseteq DOMAIN entries'
          /\ DOMAIN budgets \subseteq DOMAIN budgets'
      BY <2>2 DEF Reserved
    <2>7. Stages'
      BY <2>1, <2>4, <2>5, <2>6 DEF Stages, LedgerType
    <2> QED
      BY <2>3, <2>7
  <1>4. ASSUME NEW r \in Requests, Refuse(r) \/ Die(r) PROVE Goal
    <2>1. /\ UNCHANGED <<budgets, entries, today, job>> /\ pc[r] # "idle"
          /\ \/ pc' = [pc EXCEPT ![r] = "dead"] /\ pc[r] \in {"reserve", "call", "settle"}
             \/ pc' = [pc EXCEPT ![r] = "fallback"] /\ pc[r] = "reserve"
          /\ found' = found \/ found' = [found EXCEPT ![r] = Nothing]
      BY <1>4 DEF Refuse, Die, Goto, ledger
    <2>2. Nothing \in [usage: {Unknown} \cup Usages, outcome: {"completed", "failed"},
                       cost: Usages]
      BY DEF Nothing, LedgerAssumption
    <2>3. LedgerType'
      BY <2>1, <2>2 DEF LedgerType, Steps
    <2>4. Stages'
      BY <2>1 DEF Stages, LedgerType
    <2> QED
      BY <2>3, <2>4
  <1>5. ASSUME NEW r \in Requests, NEW reply \in Replies, NEW cost \in Usages, Call(r, reply, cost)
        PROVE  Goal
    <2> DEFINE told == Revealed(reply, cost)
    <2>1. /\ pc[r] = "call" /\ UNCHANGED <<budgets, entries, today, job>>
          /\ pc' = [pc EXCEPT ![r] = "settle"]
          /\ found' = [found EXCEPT ![r] = told]
      BY <1>5 DEF Call, Goto, ledger
    <2>2. reply.kind \in {"none", "rejected"} => cost = 0
      BY <1>5 DEF Call, Costs
    <2>3. told \in [usage: {Unknown} \cup Usages, outcome: {"completed", "failed"}, cost: Usages]
      BY DEF Revealed, ResponseUsage, Outcome, LedgerAssumption
    <2>4. told.usage = Unknown \/ told.usage >= told.cost
      BY <2>2 DEF Revealed, ResponseUsage, LedgerAssumption
    <2> HIDE DEF told
    <2>5. LedgerType'
      BY <2>1, <2>3 DEF LedgerType, Steps
    <2>6. Stages'
      BY <2>1, <2>4 DEF Stages, LedgerType
    <2> QED
      BY <2>5, <2>6
  <1>6. ASSUME NEW r \in Requests, Settle(r) PROVE Goal
    <2>1. /\ pc[r] = "settle" /\ UNCHANGED <<today, job>>
          /\ pc' = [pc EXCEPT ![r] = pc'[r]] /\ pc'[r] \in {"hosted", "fallback"}
          /\ found' = [found EXCEPT ![r] = Nothing]
      BY <1>6 DEF Settle, Goto, LedgerType
    <2>2. Nothing \in [usage: {Unknown} \cup Usages, outcome: {"completed", "failed"},
                       cost: Usages]
      BY DEF Nothing, LedgerAssumption
    <2>3. Closed(r) /\ RowsTyped'
      BY <1>6, SettleEffect
    <2>4. LedgerType'
      BY <2>1, <2>2, <2>3 DEF LedgerType, RowsTyped, Steps
    <2>5. /\ DOMAIN entries' = DOMAIN entries /\ DOMAIN budgets' = DOMAIN budgets
          /\ \A q \in DOMAIN entries : q # r => entries'[q] = entries[q]
          /\ entries'[r].outcome # "reserved"
          /\ entries'[r].tenant = entries[r].tenant /\ entries'[r].day = entries[r].day
      BY <2>3 DEF Closed
    <2>6. Stages'
      BY <2>1, <2>5 DEF Stages, LedgerType
    <2> QED
      BY <2>4, <2>6
  <1>7. CASE UNCHANGED ledgerVars
    BY <1>7 DEF ledgerVars, LedgerType, Stages
  <1> QED
    BY <1>1, <1>2, <1>3, <1>4, <1>5, <1>6, <1>7 DEF LedgerNext, Step, Finished

-----------------------------------------------------------------------------
(* The totals.                                                              *)

\* What an entry contributes to the three sums.
LEMMA EntryValues ==
    ASSUME LedgerAssumption, NEW row \in Entry
    PROVE  /\ Charge(row) \in Nat /\ row.tokens \in Nat
           /\ (IF row.usage > row.tokens THEN row.usage - row.tokens ELSE 0) \in Nat
  <1>1. row.usage \in {Unknown} \cup Usages /\ row.tokens \in 1..Limit
    BY DEF Entry
  <1>2. /\ row.usage = Unknown \/ row.usage \in Nat
        /\ row.tokens \in Nat /\ Unknown \in Int
    <2>1. row.usage = Unknown \/ row.usage \in Nat
      BY <1>1 DEF LedgerAssumption
    <2>2. row.tokens \in Nat
      BY <1>1 DEF LedgerAssumption
    <2> QED
      BY <2>1, <2>2 DEF Unknown
  <1> QED
    BY <1>2 DEF Charge

\* The same as functions, before and after a step.
LEMMA EntrySums ==
    ASSUME LedgerAssumption, RowsTyped, RowsTyped'
    PROVE  /\ \A r \in DOMAIN entries :
                 Charges[r] \in Nat /\ Holdings[r] \in Nat /\ Overruns[r] \in Nat
           /\ \A r \in DOMAIN entries' :
                 Charges'[r] \in Nat /\ Holdings'[r] \in Nat /\ Overruns'[r] \in Nat
  <1>1. \A r \in DOMAIN entries : entries[r] \in Entry
    BY DEF RowsTyped
  <1>2. \A r \in DOMAIN entries' : entries'[r] \in Entry
    BY DEF RowsTyped
  <1>3. \A r \in DOMAIN entries :
           Charges[r] \in Nat /\ Holdings[r] \in Nat /\ Overruns[r] \in Nat
    BY <1>1, EntryValues DEF Charges, Holdings, Overruns
  <1>4. \A r \in DOMAIN entries' :
           Charges'[r] \in Nat /\ Holdings'[r] \in Nat /\ Overruns'[r] \in Nat
    BY <1>2, EntryValues DEF Charges, Holdings, Overruns
  <1> QED
    BY <1>3, <1>4

\* The entries of a day, open and settled, are finitely many.
LEMMA FiniteDays ==
    ASSUME Stages, NEW t, NEW d
    PROVE  /\ IsFiniteSet(OfDay(t, d)) /\ IsFiniteSet(OpenOf(t, d))
           /\ IsFiniteSet(SettledOf(t, d))
           /\ OpenOf(t, d) \subseteq OfDay(t, d) /\ SettledOf(t, d) \subseteq OfDay(t, d)
           /\ OfDay(t, d) \subseteq DOMAIN entries
  <1>1. /\ OpenOf(t, d) \subseteq OfDay(t, d) /\ SettledOf(t, d) \subseteq OfDay(t, d)
        /\ OfDay(t, d) \subseteq DOMAIN entries /\ IsFiniteSet(DOMAIN entries)
    BY DEF OpenOf, SettledOf, OfDay, Stages
  <1> QED
    BY <1>1, FS_Subset

\* Days whose entries and row are left alone keep their totals.
LEMMA DayKept ==
    ASSUME Stages, NEW t, NEW d, DayTotals(t, d),
           OfDay(t, d)' = OfDay(t, d), Row(t, d)' = Row(t, d),
           \A q \in OfDay(t, d) : q \in DOMAIN entries' /\ entries'[q] = entries[q]
    PROVE  DayTotals(t, d)'
  <1>1. OpenOf(t, d)' = OpenOf(t, d) /\ SettledOf(t, d)' = SettledOf(t, d)
    BY DEF OpenOf, SettledOf
  <1>2. \A q \in OfDay(t, d) : /\ Charges'[q] = Charges[q] /\ Holdings'[q] = Holdings[q]
                               /\ Overruns'[q] = Overruns[q]
    BY FiniteDays DEF Charges, Charge, Holdings, Overruns
  <1>3. SumFunctionOnSet(Charges', SettledOf(t, d)) = SumFunctionOnSet(Charges, SettledOf(t, d))
    BY <1>2, FiniteDays, SumSame
  <1>4. SumFunctionOnSet(Holdings', OpenOf(t, d)) = SumFunctionOnSet(Holdings, OpenOf(t, d))
    BY <1>2, FiniteDays, SumSame
  <1>5. SumFunctionOnSet(Overruns', OfDay(t, d)) = SumFunctionOnSet(Overruns, OfDay(t, d))
    BY <1>2, FiniteDays, SumSame
  <1> QED
    BY <1>1, <1>3, <1>4, <1>5 DEF DayTotals

\* A reservation adds its bound to the open ones of its day; it was admitted
\* because the day's total stays within the limit.
LEMMA DayReserved ==
    ASSUME LedgerAssumption, LedgerType, Stages, RowsTyped', Stages', NEW r \in Requests,
           Reserve(r), Reserved(r), NEW t, NEW d, t = job[r].tenant, d = job[r].day,
           job[r].tokens \in 1..Limit, DayTotals(t, d)
    PROVE  DayTotals(t, d)'
  <1>1. /\ r \notin OfDay(t, d) /\ OfDay(t, d)' = OfDay(t, d) \cup {r}
        /\ OpenOf(t, d)' = OpenOf(t, d) \cup {r} /\ SettledOf(t, d)' = SettledOf(t, d)
    BY DEF Reserved, OfDay, OpenOf, SettledOf
  <1>2. \A q \in OfDay(t, d) : q \in DOMAIN entries' /\ entries'[q] = entries[q]
    BY FiniteDays DEF Reserved
  <1>3. /\ \A q \in DOMAIN entries : Charges[q] \in Nat /\ Holdings[q] \in Nat /\ Overruns[q] \in Nat
        /\ \A q \in DOMAIN entries' :
              Charges'[q] \in Nat /\ Holdings'[q] \in Nat /\ Overruns'[q] \in Nat
    BY EntrySums DEF LedgerType, RowsTyped
  <1>4. \A q \in OfDay(t, d) : Charges'[q] = Charges[q] /\ Holdings'[q] = Holdings[q]
    BY <1>2, FiniteDays DEF Charges, Charge, Holdings
  <1>5. Holdings'[r] = job[r].tokens /\ r \in DOMAIN entries' /\ r \notin OpenOf(t, d)
    BY <1>1, FiniteDays DEF Reserved, Holdings
  <1>6. SumFunctionOnSet(Charges', SettledOf(t, d)) = SumFunctionOnSet(Charges, SettledOf(t, d))
    BY <1>4, FiniteDays, SumSame
  <1>7. SumFunctionOnSet(Holdings', OpenOf(t, d) \cup {r}) =
           SumFunctionOnSet(Holdings, OpenOf(t, d)) + job[r].tokens
    <2>1. \A q \in OpenOf(t, d) : Holdings'[q] = Holdings[q] /\ Holdings[q] \in Int
      BY <1>3, <1>4, FiniteDays
    <2>2. Holdings'[r] \in Int
      BY <1>5
    <2>3. SumFunctionOnSet(Holdings', OpenOf(t, d) \cup {r}) =
             SumFunctionOnSet(Holdings, OpenOf(t, d)) + Holdings'[r]
      BY <1>5, <2>1, <2>2, FiniteDays, SumGrows
    <2> QED
      BY <1>5, <2>3
  <1>8. SumFunctionOnSet(Overruns', OfDay(t, d) \cup {r}) \in Nat
    <2>1. IsFiniteSet(OfDay(t, d) \cup {r})
      BY FiniteDays, FS_AddElement
    <2>2. \A q \in OfDay(t, d) \cup {r} : Overruns'[q] \in Nat
      BY <1>2, <1>3, <1>5
    <2> QED
      BY <2>1, <2>2, SumNatural
  <1>9. Row(t, d)' = [charged  |-> Row(t, d).charged,
                      reserved |-> Row(t, d).reserved + job[r].tokens]
    BY DEF Reserved, Row, Key
  <1>10. Row(t, d).charged + Row(t, d).reserved + job[r].tokens <= Limit
    <2>1. CASE RowExists(r)
      BY <2>1 DEF Reserve, Fits, RowExists, Row, Key
    <2>2. CASE ~RowExists(r)
      <3>1. Row(t, d) = [charged |-> 0, reserved |-> 0]
        BY <2>2 DEF RowExists, Row, Key
      <3> QED
        BY <3>1 DEF LedgerAssumption
    <2> QED
      BY <2>1, <2>2
  <1>11. Row(t, d).charged \in Int /\ Row(t, d).reserved \in Int
    BY DEF Row, LedgerType
  <1>12. Limit \in Int /\ job[r].tokens \in Int
    BY DEF LedgerAssumption
  <1> QED
    BY <1>1, <1>6, <1>7, <1>8, <1>9, <1>10, <1>11, <1>12 DEF DayTotals

\* A settlement moves the entry from the open to the settled ones of its day;
\* what the total grows by is an overrun.
LEMMA DaySettled ==
    ASSUME LedgerAssumption, LedgerType, Stages, RowsTyped', Stages', NEW r \in Requests,
           Closed(r), NEW t, NEW d, t = entries[r].tenant, d = entries[r].day,
           DayTotals(t, d)
    PROVE  DayTotals(t, d)'
  <1>1. /\ r \in OpenOf(t, d) /\ r \in OfDay(t, d) /\ r \notin SettledOf(t, d)
        /\ OfDay(t, d)' = OfDay(t, d)
        /\ OpenOf(t, d)' = OpenOf(t, d) \ {r} /\ SettledOf(t, d)' = SettledOf(t, d) \cup {r}
    BY DEF Closed, OfDay, OpenOf, SettledOf
  <1>2. \A q \in OfDay(t, d) \ {r} : q \in DOMAIN entries' /\ entries'[q] = entries[q]
    BY FiniteDays DEF Closed
  <1>3. /\ \A q \in DOMAIN entries : Charges[q] \in Nat /\ Holdings[q] \in Nat /\ Overruns[q] \in Nat
        /\ \A q \in DOMAIN entries :
              Charges'[q] \in Nat /\ Holdings'[q] \in Nat /\ Overruns'[q] \in Nat
    BY EntrySums DEF LedgerType, RowsTyped, Closed
  <1>4. \A q \in OfDay(t, d) \ {r} : /\ Charges'[q] = Charges[q] /\ Holdings'[q] = Holdings[q]
                                     /\ Overruns'[q] = Overruns[q]
    BY <1>2, FiniteDays DEF Charges, Charge, Holdings, Overruns
  <1>5. SumFunctionOnSet(Charges', SettledOf(t, d) \cup {r}) =
           SumFunctionOnSet(Charges, SettledOf(t, d)) + Charges'[r]
    <2>1. \A q \in SettledOf(t, d) : Charges'[q] = Charges[q] /\ Charges[q] \in Int
      BY <1>1, <1>3, <1>4, FiniteDays
    <2>2. Charges'[r] \in Int /\ r \notin SettledOf(t, d)
      BY <1>1, <1>3, FiniteDays
    <2>3. IsFiniteSet(SettledOf(t, d))
      BY FiniteDays
    <2> DEFINE before == Charges
               after  == Charges'
               closed == SettledOf(t, d)
    <2>4. /\ \A q \in closed : after[q] = before[q] /\ before[q] \in Int
          /\ after[r] \in Int /\ r \notin closed /\ IsFiniteSet(closed)
      BY <2>1, <2>2, <2>3
    <2> HIDE DEF before, after, closed
    <2>5. SumFunctionOnSet(after, closed \cup {r}) = SumFunctionOnSet(before, closed) + after[r]
      BY <2>4, SumGrows
    <2> QED
      BY <2>5 DEF before, after, closed
  <1>6. SumFunctionOnSet(Holdings, OpenOf(t, d)) =
           Holdings[r] + SumFunctionOnSet(Holdings', OpenOf(t, d) \ {r})
    <2>1. \A q \in OpenOf(t, d) : Holdings[q] \in Int
      BY <1>3, FiniteDays
    <2>2. SumFunctionOnSet(Holdings, OpenOf(t, d)) =
             Holdings[r] + SumFunctionOnSet(Holdings, OpenOf(t, d) \ {r})
      BY <1>1, <2>1, FiniteDays, SumSplit
    <2>3. IsFiniteSet(OpenOf(t, d) \ {r})
      BY FiniteDays, FS_RemoveElement
    <2>4. \A q \in OpenOf(t, d) \ {r} : Holdings[q] = Holdings'[q]
      BY <1>4, FiniteDays
    <2>5. SumFunctionOnSet(Holdings, OpenOf(t, d) \ {r}) =
             SumFunctionOnSet(Holdings', OpenOf(t, d) \ {r})
      BY <2>3, <2>4, SumSame
    <2> QED
      BY <2>2, <2>5
  <1>7. SumFunctionOnSet(Overruns', OfDay(t, d)) =
           SumFunctionOnSet(Overruns, OfDay(t, d)) - Overruns[r] + Overruns'[r]
    <2>1. \A q \in OfDay(t, d) : Overruns[q] \in Int /\ Overruns'[q] \in Int
      BY <1>3, FiniteDays
    <2>2. \A q \in OfDay(t, d) \ {r} : Overruns'[q] = Overruns[q]
      BY <1>4
    <2> QED
      BY <1>1, <2>1, <2>2, FiniteDays, SumChanges
  <1>8. SumFunctionOnSet(Holdings', OpenOf(t, d) \ {r}) \in Int
    <2>1. IsFiniteSet(OpenOf(t, d) \ {r})
      BY FiniteDays, FS_RemoveElement
    <2>2. \A q \in OpenOf(t, d) \ {r} : Holdings'[q] \in Int
      BY <1>3, FiniteDays
    <2> QED
      BY <2>1, <2>2, SumType
  <1>9. SumFunctionOnSet(Overruns, OfDay(t, d)) \in Int
    <2>1. \A q \in OfDay(t, d) : Overruns[q] \in Int
      BY <1>3, FiniteDays
    <2> QED
      BY <2>1, FiniteDays, SumType
  <1>10. Row(t, d)' = [charged  |-> Row(t, d).charged + Charges'[r],
                       reserved |-> Row(t, d).reserved - Holdings[r]]
    BY DEF Closed, Row, Charges, Holdings
  <1>11. Row(t, d).charged \in Int /\ Row(t, d).reserved \in Int
    BY DEF Row, LedgerType
  <1>12. /\ Charges'[r] \in Int /\ Holdings[r] \in Int /\ Overruns'[r] \in Int
         /\ Overruns[r] = 0 /\ Charges'[r] - Holdings[r] <= Overruns'[r]
    <2>1. /\ Charges'[r] \in Nat /\ Holdings[r] \in Nat /\ Overruns'[r] \in Nat
      BY <1>1, <1>3, FiniteDays
    <2>2. /\ Charges'[r] = IF found[r].usage = Unknown THEN entries[r].tokens ELSE found[r].usage
          /\ Holdings[r] = entries[r].tokens
          /\ Overruns'[r] = IF found[r].usage > entries[r].tokens
                            THEN found[r].usage - entries[r].tokens ELSE 0
          /\ Overruns[r] = IF Unknown > entries[r].tokens
                           THEN Unknown - entries[r].tokens ELSE 0
      BY DEF Closed, Charges, Charge, Holdings, Overruns
    <2>3. found[r].usage = Unknown \/ found[r].usage \in Nat
      BY DEF LedgerType, LedgerAssumption
    <2>4. Unknown < 0 /\ Unknown \in Int
      BY DEF Unknown
    <2> QED
      BY <2>1, <2>2, <2>3, <2>4
  <1>13. Limit \in Int
    BY DEF LedgerAssumption
  <1> QED
    BY <1>1, <1>5, <1>6, <1>7, <1>8, <1>9, <1>10, <1>11, <1>12, <1>13 DEF DayTotals

\* Every step keeps every day's totals.
LEMMA TotalsStep ==
    ASSUME LedgerAssumption, LedgerType, Stages, Totals, LedgerType', Stages', [LedgerNext]_ledgerVars,
           NEW t \in Tenants, NEW d \in Days
    PROVE  DayTotals(t, d)'
  <1>1. DayTotals(t, d)
    BY DEF Totals
  <1>2. ASSUME UNCHANGED ledger PROVE DayTotals(t, d)'
    <2>1. budgets' = budgets /\ entries' = entries
      BY <1>2 DEF ledger
    <2>2. OfDay(t, d)' = OfDay(t, d) /\ Row(t, d)' = Row(t, d)
      BY <2>1 DEF OfDay, Row
    <2>3. \A q \in OfDay(t, d) : q \in DOMAIN entries' /\ entries'[q] = entries[q]
      BY <2>1 DEF OfDay
    <2> QED
      BY <1>1, <2>2, <2>3, DayKept
  <1>3. ASSUME NEW r \in Requests, Reserve(r) PROVE DayTotals(t, d)'
    <2>1. Reserved(r) /\ RowsTyped' /\ job[r].tokens \in 1..Limit
      BY <1>3, ReserveEffect
    <2>2. CASE t = job[r].tenant /\ d = job[r].day
      BY <1>1, <1>3, <2>1, <2>2, DayReserved
    <2>3. CASE ~ (t = job[r].tenant /\ d = job[r].day)
      <3>1. <<t, d>> # Key(r)
        BY <2>3 DEF Key
      <3>2. OfDay(t, d)' = OfDay(t, d)
        BY <2>1, <2>3 DEF Reserved, OfDay
      <3>3. Row(t, d)' = Row(t, d)
        BY <2>1, <3>1 DEF Reserved, Row
      <3>4. \A q \in OfDay(t, d) : q \in DOMAIN entries' /\ entries'[q] = entries[q]
        BY <2>1 DEF Reserved, OfDay
      <3> QED
        BY <1>1, <3>2, <3>3, <3>4, DayKept
    <2> QED
      BY <2>2, <2>3
  <1>4. ASSUME NEW r \in Requests, Settle(r) PROVE DayTotals(t, d)'
    <2>1. Closed(r) /\ RowsTyped'
      BY <1>4, SettleEffect
    <2>2. CASE t = entries[r].tenant /\ d = entries[r].day
      BY <1>1, <2>1, <2>2, DaySettled
    <2>3. CASE ~ (t = entries[r].tenant /\ d = entries[r].day)
      <3>1. <<t, d>> # <<entries[r].tenant, entries[r].day>>
        BY <2>3
      <3>2. OfDay(t, d)' = OfDay(t, d)
        BY <2>1 DEF Closed, OfDay
      <3>3. Row(t, d)' = Row(t, d)
        BY <2>1, <3>1 DEF Closed, Row
      <3>4. \A q \in OfDay(t, d) : q \in DOMAIN entries' /\ entries'[q] = entries[q]
        BY <2>1, <2>3 DEF Closed, OfDay
      <3> QED
        BY <1>1, <3>2, <3>3, <3>4, DayKept
    <2> QED
      BY <2>2, <2>3
  <1>5. \/ UNCHANGED ledger
        \/ \E r \in Requests : Reserve(r)
        \/ \E r \in Requests : Settle(r)
    BY DEF LedgerNext, Step, Midnight, Begin, Refuse, Call, Die, Finished, ledgerVars, ledger
  <1> QED
    BY <1>2, <1>3, <1>4, <1>5

\* The inductive invariant: reservations are admitted against totals that are
\* the sums of the day's entries, so what is true of the totals is true of them.
THEOREM LedgerInvariant ==
    ASSUME LedgerAssumption
    PROVE  LedgerSpec => []LedgerInv
  <1>1. LedgerInit => LedgerInv
    <2> SUFFICES ASSUME LedgerInit PROVE LedgerInv
      OBVIOUS
    <2>1. DOMAIN entries = {} /\ DOMAIN budgets = {} /\ DOMAIN job = {}
      BY DEF LedgerInit
    <2>2. Nothing \in [usage: {Unknown} \cup Usages, outcome: {"completed", "failed"},
                       cost: Usages]
      BY DEF Nothing, LedgerAssumption
    <2>3. LedgerType
      BY <2>1, <2>2 DEF LedgerInit, LedgerType, Steps, Days, LedgerAssumption
    <2>4. Stages
      BY <2>1, FS_EmptySet DEF LedgerInit, Stages
    <2>5. ASSUME NEW t \in Tenants, NEW d \in Days PROVE DayTotals(t, d)
      <3>1. OfDay(t, d) = {} /\ OpenOf(t, d) = {} /\ SettledOf(t, d) = {}
        BY <2>1 DEF OfDay, OpenOf, SettledOf
      <3>2. \A F : SumFunctionOnSet(F, {}) = 0
        BY FS_EmptySet, SumStep
      <3>3. Row(t, d).charged = 0 /\ Row(t, d).reserved = 0
        BY <2>1 DEF Row
      <3>4. 0 + 0 <= Limit + 0
        BY DEF LedgerAssumption
      <3> QED
        BY <3>1, <3>2, <3>3, <3>4 DEF DayTotals
    <2> QED
      BY <2>3, <2>4, <2>5 DEF LedgerInv, Totals
  <1>2. LedgerInv /\ [LedgerNext]_ledgerVars => LedgerInv'
    <2> SUFFICES ASSUME LedgerInv, [LedgerNext]_ledgerVars PROVE LedgerInv'
      OBVIOUS
    <2>1. LedgerType' /\ Stages'
      BY StageStep DEF LedgerInv
    <2>2. \A t \in Tenants, d \in Days : DayTotals(t, d)'
      BY <2>1, TotalsStep DEF LedgerInv
    <2>3. Totals'
      BY <2>2 DEF Totals, Days
    <2> QED
      BY <2>1, <2>3 DEF LedgerInv
  <1> QED
    BY <1>1, <1>2, PTL DEF LedgerSpec

(* The ceiling of docs/query.md: what a day has charged and still reserves  *)
(* exceeds the limit only by what its calls used beyond their own bounds,   *)
(* for any number of requests racing for the last tokens (usage.py).        *)
THEOREM CeilingSafety ==
    ASSUME LedgerAssumption
    PROVE  LedgerSpec => []Ceiling
  <1>1. LedgerInv => Ceiling
    BY DEF LedgerInv, Totals, DayTotals, Ceiling
  <1> QED
    BY <1>1, LedgerInvariant, PTL

(* No call's cost is lost: a settlement charges what the provider used, or  *)
(* the whole reservation when that was never learned (generation.py,        *)
(* _hosted; usage.py, settle).                                              *)
THEOREM ChargeSafety ==
    ASSUME LedgerAssumption
    PROVE  LedgerSpec => NeverUndercharged
  <1> DEFINE Covered ==
        \A r \in DOMAIN entries :
           entries'[r] # entries[r] =>
               \/ Charge(entries'[r]) >= found[r].cost
               \/ entries'[r].usage = Unknown /\ Charge(entries'[r]) = entries[r].tokens
  <1>1. LedgerInv /\ [LedgerNext]_ledgerVars => Covered
    <2> SUFFICES ASSUME LedgerInv, [LedgerNext]_ledgerVars, NEW q \in DOMAIN entries, entries'[q] # entries[q]
                 PROVE  \/ Charge(entries'[q]) >= found[q].cost
                        \/ entries'[q].usage = Unknown /\ Charge(entries'[q]) = entries[q].tokens
      OBVIOUS
    <2>1. \/ UNCHANGED ledger
          \/ \E r \in Requests : Reserve(r)
          \/ \E r \in Requests : Settle(r)
      BY DEF LedgerNext, Step, Midnight, Begin, Refuse, Call, Die, Finished, ledgerVars, ledger
    <2>2. ~ UNCHANGED ledger
      BY DEF ledger
    <2>3. \A r \in Requests : ~ Reserve(r)
      BY ReserveEffect DEF LedgerInv, Reserved
    <2>4. PICK r \in Requests : Settle(r)
      BY <2>1, <2>2, <2>3
    <2>5. Closed(r)
      BY <2>4, SettleEffect DEF LedgerInv
    <2>6. q = r
      BY <2>5 DEF Closed
    <2>7. /\ entries'[r].usage = found[r].usage /\ entries'[r].tokens = entries[r].tokens
      BY <2>5 DEF Closed
    <2>8. found[r].usage = Unknown \/ found[r].usage >= found[r].cost
      BY <2>4 DEF LedgerInv, Stages, Settle
    <2> QED
      BY <2>6, <2>7, <2>8 DEF Charge
  <1>2. Covered => [Covered]_ledgerVars
    OBVIOUS
  <1> QED
    BY <1>1, LedgerInvariant, PTL DEF LedgerSpec, NeverUndercharged

-----------------------------------------------------------------------------
(* The reference ledger of a day.                                           *)

\* The instance's sum is the same operator.
LEMMA SameSum ==
    ASSUME NEW d, NEW F, NEW S
    PROVE  Day(d)!SumFunctionOnSet(F, S) = SumFunctionOnSet(F, S)
  BY DEF Day!SumFunctionOnSet, SumFunctionOnSet, FoldFunctionOnSet, Day!FoldFunctionOnSet,
         MapThenFoldSet, Day!MapThenFoldSet

\* What the reference sees of the entries of a day.
LEMMA DayView ==
    ASSUME LedgerType, NEW t, NEW d
    PROVE  /\ Day(d)!Open(t) = OpenOf(t, d) /\ Day(d)!Settled(t) = SettledOf(t, d)
           /\ \A q \in OfDay(t, d) : /\ Day(d)!Charges[q] = Charges[q]
                                     /\ Day(d)!Holdings[q] = Holdings[q]
                                     /\ Day(d)!Reports[q] = Reports[q]
  <1>1. \A q \in DOMAIN entries : entries[q].outcome \in {"reserved", "completed", "failed"}
    BY DEF LedgerType, Entry
  <1>2. DOMAIN EntriesOf(d) = {q \in DOMAIN entries : entries[q].day = d}
    BY DEF EntriesOf
  <1>3. \A q \in DOMAIN EntriesOf(d) :
           EntriesOf(d)[q] = [tenant |-> entries[q].tenant, tokens |-> entries[q].tokens,
                              usage |-> entries[q].usage,
                              outcome |-> IF entries[q].outcome = "reserved" THEN "reserved"
                                          ELSE "settled"]
    BY DEF EntriesOf
  <1>4. Day(d)!Open(t) = OpenOf(t, d) /\ Day(d)!Settled(t) = SettledOf(t, d)
    <2>1. \A q \in DOMAIN EntriesOf(d) :
             /\ EntriesOf(d)[q].tenant = entries[q].tenant
             /\ EntriesOf(d)[q].outcome = "reserved" <=> entries[q].outcome = "reserved"
             /\ EntriesOf(d)[q].outcome = "settled" <=> entries[q].outcome # "reserved"
      BY <1>3
    <2>2. \A q : q \in OfDay(t, d) <=> q \in DOMAIN EntriesOf(d) /\ EntriesOf(d)[q].tenant = t
      BY <1>2, <2>1 DEF OfDay
    <2>3. \A q : q \in Day(d)!Open(t) <=>
                    q \in DOMAIN EntriesOf(d) /\ EntriesOf(d)[q].tenant = t
                    /\ EntriesOf(d)[q].outcome = "reserved"
      BY DEF Day!Open
    <2>4. \A q : q \in Day(d)!Settled(t) <=>
                    q \in DOMAIN EntriesOf(d) /\ EntriesOf(d)[q].tenant = t
                    /\ EntriesOf(d)[q].outcome = "settled"
      BY DEF Day!Settled
    <2>5. Day(d)!Open(t) = OpenOf(t, d)
      BY <2>1, <2>2, <2>3 DEF OpenOf
    <2>6. Day(d)!Settled(t) = SettledOf(t, d)
      BY <2>1, <2>2, <2>4 DEF SettledOf
    <2> QED
      BY <2>5, <2>6
  <1>5. ASSUME NEW q \in OfDay(t, d)
        PROVE  /\ Day(d)!Charges[q] = Charges[q]
               /\ Day(d)!Holdings[q] = Holdings[q]
               /\ Day(d)!Reports[q] = Reports[q]
    <2>1. q \in DOMAIN EntriesOf(d) /\ q \in DOMAIN entries
      BY <1>2 DEF OfDay
    <2>2. /\ EntriesOf(d)[q].tokens = entries[q].tokens
          /\ EntriesOf(d)[q].usage = entries[q].usage
      BY <1>3, <2>1
    <2> QED
      BY <2>1, <2>2 DEF Day!Charges, Day!Holdings, Day!Reports, Day!Unknown, Unknown,
                        Charges, Charge, Holdings, Reports
  <1> QED
    BY <1>4, <1>5

\* The reference's totals are those of the day's row and the day's entries.
LEMMA DaySummary ==
    ASSUME LedgerAssumption, LedgerInv, NEW t \in Tenants, NEW d \in Days
    PROVE  /\ Row(t, d).charged = Day(d)!Summary(t).charged
           /\ Row(t, d).reserved = Day(d)!Summary(t).reserved
           /\ UsageSums(t, d).requests = Day(d)!Summary(t).requests
           /\ UsageSums(t, d).reported = Day(d)!Summary(t).reported
  <1>1. /\ Row(t, d).charged = SumFunctionOnSet(Charges, SettledOf(t, d))
        /\ Row(t, d).reserved = SumFunctionOnSet(Holdings, OpenOf(t, d))
    BY DEF LedgerInv, Totals, DayTotals
  <1>2. LedgerType /\ Stages
    BY DEF LedgerInv
  <1>3. SumFunctionOnSet(Charges, SettledOf(t, d)) =
           SumFunctionOnSet(Day(d)!Charges, SettledOf(t, d))
    BY <1>2, DayView, FiniteDays, SumSame
  <1>4. SumFunctionOnSet(Holdings, OpenOf(t, d)) =
           SumFunctionOnSet(Day(d)!Holdings, OpenOf(t, d))
    BY <1>2, DayView, FiniteDays, SumSame
  <1>5. SumFunctionOnSet(Reports, OfDay(t, d)) = SumFunctionOnSet(Day(d)!Reports, OfDay(t, d))
    BY <1>2, DayView, FiniteDays, SumSame
  <1>6. Day(d)!Open(t) \cup Day(d)!Settled(t) = OfDay(t, d)
    BY <1>2, DayView DEF OpenOf, SettledOf
  <1>7. Cardinality(OfDay(t, d)) = Day(d)!Cardinality(Day(d)!Open(t) \cup Day(d)!Settled(t))
    BY <1>6 DEF Cardinality, Day!Cardinality
  <1> QED
    BY <1>1, <1>2, <1>3, <1>4, <1>5, <1>6, <1>7, DayView, SameSum DEF UsageSums, Day!Summary

(* Either statement of a summary answers what the reference computes from   *)
(* the entries of the day, whatever reservations were made before midnight and settled     *)
(* after it, and only a thread on its way to settle, or dead, leaves one    *)
(* open (usage.py, settle and summary; generation.py, finally).             *)
THEOREM SummarySafety ==
    ASSUME LedgerAssumption
    PROVE  LedgerSpec => []SummaryAgrees
  <1>1. LedgerInv => SummaryAgrees
    <2> SUFFICES ASSUME LedgerInv PROVE SummaryAgrees
      OBVIOUS
    <2>1. \A t \in Tenants, d \in Days :
             /\ Row(t, d).charged = Day(d)!Summary(t).charged
             /\ Row(t, d).reserved = Day(d)!Summary(t).reserved
             /\ UsageSums(t, d).requests = Day(d)!Summary(t).requests
             /\ UsageSums(t, d).reported = Day(d)!Summary(t).reported
      BY DaySummary
    <2>2. \A r \in DOMAIN entries :
             entries[r].outcome = "reserved" => pc[r] \in {"call", "settle", "dead"}
      BY DEF LedgerInv, Stages
    <2> QED
      BY <2>1, <2>2 DEF SummaryAgrees
  <1> QED
    BY <1>1, LedgerInvariant, PTL

\* A reservation is one of the reference's on its day, and none on another.
LEMMA ReserveRefines ==
    ASSUME LedgerAssumption, LedgerInv, NEW r \in Requests, Reserve(r), NEW d \in Days
    PROVE  Day(d)!Next \/ UNCHANGED EntriesOf(d)
  <1> DEFINE mine == {q \in DOMAIN entries : entries[q].day = d}
             row(q) == [tenant |-> entries[q].tenant, tokens |-> entries[q].tokens,
                        usage |-> entries[q].usage,
                        outcome |-> IF entries[q].outcome = "reserved" THEN "reserved"
                                    ELSE "settled"]
             t == job[r].tenant
             new == [tenant |-> t, tokens |-> job[r].tokens,
                     usage |-> Unknown, outcome |-> "reserved"]
             mine2 == {q \in DOMAIN entries' : entries'[q].day = d}
             row2(q) == [tenant |-> entries'[q].tenant, tokens |-> entries'[q].tokens,
                         usage |-> entries'[q].usage,
                         outcome |-> IF entries'[q].outcome = "reserved" THEN "reserved"
                                     ELSE "settled"]
  <1>1. LedgerType /\ Stages
    BY DEF LedgerInv
  <1>2. /\ Reserved(r) /\ t \in Tenants /\ job[r].day \in Days /\ job[r].tokens \in 1..Limit
    BY <1>1, ReserveEffect
  <1>3. EntriesOf(d) = [q \in mine |-> row(q)] /\ EntriesOf(d)' = [q \in mine2 |-> row2(q)]
    BY DEF EntriesOf
  <1>4. \A q \in mine : row2(q) = row(q)
    BY <1>2 DEF Reserved
  <1>5. CASE d # job[r].day
    <2>1. mine2 = mine
      BY <1>2, <1>5 DEF Reserved
    <2> HIDE DEF mine, mine2, row, row2
    <2> QED
      BY <1>3, <1>4, <2>1
  <1>6. CASE d = job[r].day
    <2>1. r \notin mine /\ mine2 = mine \cup {r}
      BY <1>2, <1>6 DEF Reserved
    <2>2. row2(r) = new
      BY <1>2 DEF Reserved
    <2>3. r \notin DOMAIN EntriesOf(d)
      BY <1>3, <2>1
    <2>4. EntriesOf(d)' = Day(d)!With(EntriesOf(d), r, new)
      <3> HIDE DEF mine, mine2, row, row2, new
      <3>1. EntriesOf(d)' = [q \in mine \cup {r} |-> IF q = r THEN new ELSE row(q)]
        BY <1>3, <1>4, <2>1, <2>2
      <3>2. DOMAIN EntriesOf(d) = mine /\ \A q \in mine : EntriesOf(d)[q] = row(q)
        BY <1>3
      <3> QED
        BY <3>1, <3>2 DEF Day!With
    <2>5. /\ Row(t, d).charged = Day(d)!Summary(t).charged
          /\ Row(t, d).reserved = Day(d)!Summary(t).reserved
      BY <1>2, DaySummary
    <2>6. Row(t, d).charged + Row(t, d).reserved + job[r].tokens <= Limit
      <3>1. CASE RowExists(r)
        BY <1>6, <3>1 DEF Reserve, Fits, RowExists, Row, Key
      <3>2. CASE ~RowExists(r)
        <4>1. Row(t, d) = [charged |-> 0, reserved |-> 0]
          BY <1>6, <3>2 DEF RowExists, Row, Key
        <4> QED
          BY <1>2, <4>1 DEF LedgerAssumption
      <3> QED
        BY <3>1, <3>2
    <2>7. Day(d)!Summary(t).charged + Day(d)!Summary(t).reserved + job[r].tokens <= Limit
      BY <2>5, <2>6
    <2>8. Day(d)!Reserve(r, t, job[r].tokens)
      <3>1. job[r].tokens >= 1
        BY <1>2 DEF LedgerAssumption
      <3>2. new = [tenant |-> t, tokens |-> job[r].tokens,
                   usage |-> Day(d)!Unknown, outcome |-> "reserved"]
        BY DEF Day!Unknown, Unknown
      <3> HIDE DEF new
      <3> QED
        BY <2>3, <2>4, <2>7, <3>1, <3>2 DEF Day!Reserve
    <2> QED
      BY <1>2, <2>8 DEF Day!Next
  <1> QED
    BY <1>5, <1>6

\* A settlement is one of the reference's on the day of its reservation.
LEMMA SettleRefines ==
    ASSUME LedgerAssumption, LedgerInv, NEW r \in Requests, Settle(r), NEW d \in Days
    PROVE  Day(d)!Next \/ UNCHANGED EntriesOf(d)
  <1> DEFINE mine == {q \in DOMAIN entries : entries[q].day = d}
             row(q) == [tenant |-> entries[q].tenant, tokens |-> entries[q].tokens,
                        usage |-> entries[q].usage,
                        outcome |-> IF entries[q].outcome = "reserved" THEN "reserved"
                                    ELSE "settled"]
             mine2 == {q \in DOMAIN entries' : entries'[q].day = d}
             row2(q) == [tenant |-> entries'[q].tenant, tokens |-> entries'[q].tokens,
                         usage |-> entries'[q].usage,
                         outcome |-> IF entries'[q].outcome = "reserved" THEN "reserved"
                                     ELSE "settled"]
  <1>1. LedgerType /\ Stages
    BY DEF LedgerInv
  <1>2. Closed(r)
    BY <1>1, SettleEffect
  <1>3. EntriesOf(d) = [q \in mine |-> row(q)] /\ EntriesOf(d)' = [q \in mine2 |-> row2(q)]
    BY DEF EntriesOf
  <1>4. mine2 = mine
    BY <1>2 DEF Closed
  <1>5. \A q \in mine \ {r} : row2(q) = row(q)
    BY <1>2 DEF Closed
  <1>6. CASE r \notin mine
    <2> HIDE DEF mine, mine2, row, row2
    <2> QED
      BY <1>3, <1>4, <1>5, <1>6
  <1>7. CASE r \in mine
    <2> DEFINE usage == found[r].usage
    <2>1. /\ row(r) = [tenant |-> entries[r].tenant, tokens |-> entries[r].tokens,
                       usage |-> Unknown, outcome |-> "reserved"]
          /\ row2(r) = [tenant |-> entries[r].tenant, tokens |-> entries[r].tokens,
                        usage |-> usage, outcome |-> "settled"]
      BY <1>2 DEF Closed
    <2>2. r \in DOMAIN EntriesOf(d) /\ EntriesOf(d)[r].outcome = "reserved"
      BY <1>3, <1>7, <2>1
    <2>3. [row(r) EXCEPT !.usage = usage, !.outcome = "settled"] = row2(r)
      <3> DEFINE R == [tenant: {entries[r].tenant}, tokens: {entries[r].tokens},
                       usage: {Unknown, usage}, outcome: {"reserved", "settled"}]
                 told == [row(r) EXCEPT !.usage = usage, !.outcome = "settled"]
      <3> HIDE DEF row, row2, usage
      <3>1. row(r) \in R /\ row2(r) \in R
        BY <2>1
      <3>2. told \in R
        BY <3>1
      <3>3. /\ told.usage = row2(r).usage /\ told.outcome = row2(r).outcome
            /\ told.tenant = row2(r).tenant /\ told.tokens = row2(r).tokens
        BY <2>1, <3>1
      <3> HIDE DEF told
      <3> QED
        BY <3>1, <3>2, <3>3 DEF told
    <2>4. EntriesOf(d)' = [EntriesOf(d) EXCEPT ![r].usage = usage, ![r].outcome = "settled"]
      <3> DEFINE E == EntriesOf(d)
                 F == [E EXCEPT ![r].usage = usage, ![r].outcome = "settled"]
      <3>1. DOMAIN E = mine /\ E[r] = row(r) /\ \A q \in mine : E[q] = row(q)
        BY <1>3, <1>7
      <3>2. EntriesOf(d)' = [q \in mine |-> IF q = r THEN row2(r) ELSE E[q]]
        <4> HIDE DEF mine, mine2, row, row2, usage, E
        <4> QED
          BY <1>3, <1>4, <1>5, <3>1
      <3> HIDE DEF mine, mine2, row, row2, usage, E
      <3>3. F = [q \in mine |-> F[q]]
        BY <3>1
      <3>4. \A q \in mine \ {r} : F[q] = E[q]
        BY <3>1
      <3>5. F[r] = [E[r] EXCEPT !.usage = usage, !.outcome = "settled"]
        BY <1>7, <3>1
      <3>6. F[r] = row2(r)
        BY <2>3, <3>1, <3>5
      <3> HIDE DEF F
      <3>7. F = EntriesOf(d)'
        BY <3>2, <3>3, <3>4, <3>6
      <3> QED
        BY <3>7 DEF E, F
    <2>5. usage \in {Day(d)!Unknown} \cup Usages
      BY <1>1 DEF LedgerType, Day!Unknown, Unknown
    <2> HIDE DEF usage
    <2>6. Day(d)!Settle(r, usage)
      BY <2>2, <2>4 DEF Day!Settle
    <2> QED
      BY <2>5, <2>6 DEF Day!Next
  <1> QED
    BY <1>6, <1>7

(* Day by day, PostgreSQL's ledger does what InMemoryUsageLedger does: every *)
(* step that changes entries is a step of the reference on one day and no    *)
(* step on the others (usage.py, reserve and settle).                        *)
THEOREM LedgerRefinement ==
    ASSUME LedgerAssumption
    PROVE  LedgerSpec => ImplementsMemoryLedger
  <1> DEFINE DayByDay == entries' # entries => \A d \in Days : Day(d)!Next \/ UNCHANGED EntriesOf(d)
             DaysStart == \A d \in Days : Day(d)!Init
  <1>1. LedgerInit => DaysStart
    BY DEF LedgerInit, EntriesOf, Day!Init
  <1>2. LedgerInv /\ [LedgerNext]_ledgerVars => DayByDay
    <2> SUFFICES ASSUME LedgerInv, [LedgerNext]_ledgerVars, entries' # entries, NEW d \in Days
                 PROVE  Day(d)!Next \/ UNCHANGED EntriesOf(d)
      OBVIOUS
    <2>1. \/ UNCHANGED ledger
          \/ \E r \in Requests : Reserve(r)
          \/ \E r \in Requests : Settle(r)
      BY DEF LedgerNext, Step, Midnight, Begin, Refuse, Call, Die, Finished, ledgerVars, ledger
    <2>2. ~ UNCHANGED ledger
      BY DEF ledger
    <2> QED
      BY <2>1, <2>2, ReserveRefines, SettleRefines
  <1> QED
    BY <1>1, <1>2, LedgerInvariant, PTL DEF LedgerSpec, ImplementsMemoryLedger

-----------------------------------------------------------------------------
(* Hits are ordered by a rank, then by document and ordinal: a strict total *)
(* order when no two of them are the same passage.                          *)

Before(rank, g, h) == Precedes(<<rank[g], g.doc, g.ord>>, <<rank[h], h.doc, h.ord>>)

Rankable(rank) ==
    /\ IsFiniteSet(DOMAIN rank)
    /\ \A h \in DOMAIN rank : rank[h] \in Int /\ h.doc \in Nat /\ h.ord \in Nat
    /\ \A g, h \in DOMAIN rank : g.doc = h.doc /\ g.ord = h.ord => g = h

Below(rank, h) == {g \in DOMAIN rank : Before(rank, g, h)}
Place(rank, h) == Cardinality(Below(rank, h)) + 1

LEMMA BeforeIsOrder ==
    ASSUME NEW rank, Rankable(rank),
           NEW g \in DOMAIN rank, NEW h \in DOMAIN rank, NEW m \in DOMAIN rank
    PROVE  /\ ~Before(rank, g, g)
           /\ Before(rank, g, h) /\ Before(rank, h, m) => Before(rank, g, m)
           /\ g = h \/ Before(rank, g, h) \/ Before(rank, h, g)
<1>1. /\ rank[g] \in Int /\ rank[h] \in Int /\ rank[m] \in Int
      /\ g.doc \in Nat /\ h.doc \in Nat /\ m.doc \in Nat
      /\ g.ord \in Nat /\ h.ord \in Nat /\ m.ord \in Nat
      /\ g.doc = h.doc /\ g.ord = h.ord => g = h
  BY DEF Rankable
<1>2. ASSUME NEW u \in DOMAIN rank, NEW v \in DOMAIN rank
      PROVE  Before(rank, u, v) <=>
                 \/ rank[u] < rank[v]
                 \/ rank[u] = rank[v] /\ (u.doc < v.doc \/ (u.doc = v.doc /\ u.ord < v.ord))
  BY DEF Before, Precedes
<1>3. PICK a, b, c, d, e, f, x, y, z :
          /\ a = rank[g] /\ b = rank[h] /\ c = rank[m]
          /\ d = g.doc /\ e = h.doc /\ f = m.doc /\ x = g.ord /\ y = h.ord /\ z = m.ord
  OBVIOUS
<1>4. /\ a \in Int /\ b \in Int /\ c \in Int /\ d \in Nat /\ e \in Nat /\ f \in Nat
      /\ x \in Nat /\ y \in Nat /\ z \in Nat
  BY <1>1, <1>3
<1>5. ~Before(rank, g, g)
  <2>1. Before(rank, g, g) <=> a < a \/ (a = a /\ (d < d \/ (d = d /\ x < x)))
    BY <1>2, <1>3
  <2> QED  BY <2>1, <1>4
<1>6. Before(rank, g, h) <=> a < b \/ (a = b /\ (d < e \/ (d = e /\ x < y)))
  BY <1>2, <1>3
<1>7. Before(rank, h, g) <=> b < a \/ (b = a /\ (e < d \/ (e = d /\ y < x)))
  BY <1>2, <1>3
<1>8. Before(rank, h, m) <=> b < c \/ (b = c /\ (e < f \/ (e = f /\ y < z)))
  BY <1>2, <1>3
<1>9. Before(rank, g, m) <=> a < c \/ (a = c /\ (d < f \/ (d = f /\ x < z)))
  BY <1>2, <1>3
<1>10. Before(rank, g, h) /\ Before(rank, h, m) => Before(rank, g, m)
  BY <1>4, <1>6, <1>8, <1>9
<1>11. Before(rank, g, h) \/ Before(rank, h, g) \/ (d = e /\ x = y)
  BY <1>4, <1>6, <1>7
<1> QED  BY <1>1, <1>3, <1>5, <1>10, <1>11

(* A hit that is before another one has fewer before it. *)
LEMMA PlaceRises ==
    ASSUME NEW rank, Rankable(rank)
    PROVE  /\ \A h \in DOMAIN rank : Place(rank, h) \in 1..Cardinality(DOMAIN rank)
           /\ \A g, h \in DOMAIN rank : Before(rank, g, h) => Place(rank, g) < Place(rank, h)
<1>1. IsFiniteSet(DOMAIN rank) /\ Cardinality(DOMAIN rank) \in Nat
  BY FS_CardinalityType DEF Rankable
<1>2. ASSUME NEW h \in DOMAIN rank
      PROVE  /\ IsFiniteSet(Below(rank, h)) /\ Cardinality(Below(rank, h)) \in Nat
             /\ h \notin Below(rank, h)
             /\ Cardinality(Below(rank, h)) < Cardinality(DOMAIN rank)
  <2>1. Below(rank, h) \in SUBSET (DOMAIN rank) /\ h \notin Below(rank, h)
    BY BeforeIsOrder DEF Below
  <2>2. /\ IsFiniteSet(Below(rank, h))
        /\ Cardinality(Below(rank, h)) <= Cardinality(DOMAIN rank)
        /\ Cardinality(DOMAIN rank) = Cardinality(Below(rank, h)) => DOMAIN rank = Below(rank, h)
    BY <1>1, <2>1, FS_Subset
  <2>3. Cardinality(Below(rank, h)) \in Nat
    BY <2>2, FS_CardinalityType
  <2> QED  BY <1>1, <2>1, <2>2, <2>3
<1>3. ASSUME NEW h \in DOMAIN rank
      PROVE  Place(rank, h) \in 1..Cardinality(DOMAIN rank)
  BY <1>1, <1>2 DEF Place
<1>4. ASSUME NEW g \in DOMAIN rank, NEW h \in DOMAIN rank, Before(rank, g, h)
      PROVE  Place(rank, g) < Place(rank, h)
  <2>1. Below(rank, g) \in SUBSET Below(rank, h)
    BY <1>4, BeforeIsOrder DEF Below
  <2>2. g \in Below(rank, h) /\ g \notin Below(rank, g)
    BY <1>2, <1>4 DEF Below
  <2>3. /\ Cardinality(Below(rank, g)) <= Cardinality(Below(rank, h))
        /\ Cardinality(Below(rank, h)) = Cardinality(Below(rank, g)) =>
               Below(rank, h) = Below(rank, g)
    BY <1>2, <2>1, FS_Subset
  <2>4. Cardinality(Below(rank, g)) < Cardinality(Below(rank, h))
    BY <1>2, <2>2, <2>3
  <2> QED  BY <1>2, <2>4 DEF Place
<1> QED  BY <1>3, <1>4

(* Every place is taken by exactly one hit. *)
LEMMA PlacesAreTaken ==
    ASSUME NEW rank, Rankable(rank)
    PROVE  /\ \A g, h \in DOMAIN rank : Place(rank, g) < Place(rank, h) => Before(rank, g, h)
           /\ \A g, h \in DOMAIN rank : Place(rank, g) = Place(rank, h) => g = h
           /\ \A i \in 1..Cardinality(DOMAIN rank) : \E h \in DOMAIN rank : Place(rank, h) = i
<1>1. \A h \in DOMAIN rank : Place(rank, h) \in Nat
  BY PlaceRises, FS_CardinalityType DEF Rankable
<1>2. ASSUME NEW g \in DOMAIN rank, NEW h \in DOMAIN rank
      PROVE  /\ Place(rank, g) = Place(rank, h) => g = h
             /\ Place(rank, g) < Place(rank, h) => Before(rank, g, h)
  <2>1. g = h \/ Before(rank, g, h) \/ Before(rank, h, g)
    BY BeforeIsOrder
  <2>2. Before(rank, g, h) => Place(rank, g) < Place(rank, h)
    BY PlaceRises
  <2>3. Before(rank, h, g) => Place(rank, h) < Place(rank, g)
    BY PlaceRises
  <2> QED  BY <1>1, <2>1, <2>2, <2>3
<1>3. PICK n, taken : n = Cardinality(DOMAIN rank) /\ taken = {Place(rank, h) : h \in DOMAIN rank}
  OBVIOUS
<1>4. Cardinality(taken) = n
  <2>1. PICK S, f : S = DOMAIN rank /\ f = [h \in S |-> Place(rank, h)]
    OBVIOUS
  <2>2. IsFiniteSet(S) /\ f \in [S -> taken]
    BY <1>3, <2>1 DEF Rankable
  <2>3. \A t \in taken : \E s \in S : f[s] = t
    BY <1>3, <2>1
  <2>4. \A r, s \in S : f[r] = f[s] => r = s
    BY <1>2, <2>1
  <2>5. Cardinality(taken) = Cardinality(S)
    BY <2>2, <2>3, <2>4, SameCount
  <2> QED  BY <1>3, <2>1, <2>5
<1>5. taken = 1..n
  <2>1. n \in Nat
    BY <1>3, FS_CardinalityType DEF Rankable
  <2>2. IsFiniteSet(1..n) /\ Cardinality(1..n) = n
    <3>1. /\ IsFiniteSet(1..n)
          /\ Cardinality(1..n) = IF 1 > n THEN 0 ELSE n - 1 + 1
      BY <2>1, FS_Interval
    <3> QED  BY <2>1, <3>1
  <2>3. taken \in SUBSET (1..n)
    BY <1>3, PlaceRises
  <2> QED  BY <1>4, <2>2, <2>3, FS_Subset
<1> QED  BY <1>2, <1>3, <1>5

(* What Ordered returns: the first hits in their order, and nothing before *)
(* one of them is left out.                                                *)
LEMMA OrderedIs ==
    ASSUME NEW rank, Rankable(rank), NEW k \in Nat, NEW seq, seq = Ordered(rank, k)
    PROVE  /\ seq \in Seq(DOMAIN rank) /\ Len(seq) <= k
           /\ \A i, j \in 1..Len(seq) : i < j => Before(rank, seq[i], seq[j])
           /\ \A j \in 1..Len(seq), g \in DOMAIN rank :
                  Before(rank, g, seq[j]) => \E i \in 1..Len(seq) : i < j /\ seq[i] = g
<1>1. PICK n \in Nat : /\ n <= k /\ n <= Cardinality(DOMAIN rank)
                       /\ seq = [i \in 1..n |-> CHOOSE h \in DOMAIN rank : Place(rank, h) = i]
  <2>1. Cardinality(DOMAIN rank) \in Nat
    BY FS_CardinalityType DEF Rankable
  <2>2. PICK n : n = IF Cardinality(DOMAIN rank) < k THEN Cardinality(DOMAIN rank) ELSE k
    OBVIOUS
  <2>3. n \in Nat /\ n <= k /\ n <= Cardinality(DOMAIN rank)
    BY <2>1, <2>2
  <2>4. seq = [i \in 1..n |-> CHOOSE h \in DOMAIN rank : Place(rank, h) = i]
    BY <2>2, Zenon DEF Ordered, Place, Below, Before
  <2> QED  BY <2>3, <2>4
<1>2. Cardinality(DOMAIN rank) \in Nat
  BY FS_CardinalityType DEF Rankable
<1>3. \A i \in 1..n : seq[i] \in DOMAIN rank /\ Place(rank, seq[i]) = i
  <2> SUFFICES ASSUME NEW i \in 1..n
               PROVE  seq[i] \in DOMAIN rank /\ Place(rank, seq[i]) = i
    OBVIOUS
  <2>1. i \in 1..Cardinality(DOMAIN rank)
    BY <1>1, <1>2
  <2>2. \E h \in DOMAIN rank : Place(rank, h) = i
    BY <2>1, PlacesAreTaken
  <2>3. seq[i] = CHOOSE h \in DOMAIN rank : Place(rank, h) = i
    BY <1>1
  <2> QED  BY <2>2, <2>3
<1>4. seq \in Seq(DOMAIN rank) /\ Len(seq) = n
  <2>1. seq \in [1..n -> DOMAIN rank]
    BY <1>1, <1>3
  <2> QED  BY <2>1
<1>5. ASSUME NEW i \in 1..n, NEW j \in 1..n, i < j
      PROVE  Before(rank, seq[i], seq[j])
  BY <1>3, <1>5, PlacesAreTaken
<1>6. ASSUME NEW j \in 1..n, NEW g \in DOMAIN rank, Before(rank, g, seq[j])
      PROVE  \E i \in 1..n : i < j /\ seq[i] = g
  <2>1. Place(rank, g) < j /\ Place(rank, g) \in 1..n
    <3>1. Place(rank, g) < j
      BY <1>3, <1>6, PlaceRises
    <3>2. Place(rank, g) \in 1..Cardinality(DOMAIN rank)
      BY PlaceRises
    <3> QED  BY <1>2, <3>1, <3>2
  <2>2. seq[Place(rank, g)] = g
    BY <1>3, <2>1, PlacesAreTaken
  <2> QED  BY <2>1, <2>2
<1> QED  BY <1>1, <1>4, <1>5, <1>6

-----------------------------------------------------------------------------
(* Reciprocal ranks: a hit in a ranking scores, and more than a later one.  *)

(* The unit fractions of a common denominator fall. *)
LEMMA SharesFall ==
    ASSUME NEW D \in Nat \ {0}, NEW a \in Nat \ {0}, NEW b \in Nat \ {0},
           D % a = 0, D % b = 0, a < b
    PROVE  D \div b < D \div a
<1>1. PICK x, y : x = D \div a /\ y = D \div b
  OBVIOUS
<1>2. x \in Int /\ D = a * x
  BY <1>1
<1>3. y \in Int /\ D = b * y
  BY <1>1
<1>4. y > 0
  BY <1>3
<1>5. a * y < b * y
  BY <1>3, <1>4
<1>6. a * y < a * x
  BY <1>2, <1>3, <1>5
<1>7. y < x
  BY <1>2, <1>3, <1>6
<1> QED  BY <1>1, <1>7

LEMMA SharePositive ==
    ASSUME NEW D \in Nat \ {0}, NEW a \in Nat \ {0}, D % a = 0
    PROVE  D \div a \in Nat /\ D \div a > 0
<1>1. PICK x : x = D \div a
  OBVIOUS
<1>2. x \in Int /\ D = a * x
  BY <1>1
<1>3. x > 0
  BY <1>2
<1> QED  BY <1>1, <1>2, <1>3

(* A ranking names no passage twice and is no longer than the limit. *)
Ranking(ranking, scope) ==
    /\ ranking \in Seq(scope) /\ Len(ranking) <= TopKMax
    /\ \A i, j \in 1..Len(ranking) : ranking[i] = ranking[j] => i = j

LEMMA RangeIs ==
    ASSUME NEW S, NEW seq \in Seq(S)
    PROVE  /\ \A h : h \in Range(seq) <=> \E i \in 1..Len(seq) : seq[i] = h
           /\ DOMAIN seq = 1..Len(seq) /\ Len(seq) \in Nat /\ Range(seq) \subseteq S
           /\ IsFiniteSet(Range(seq))
<1>1. DOMAIN seq = 1..Len(seq) /\ Len(seq) \in Nat
  OBVIOUS
<1>2. \A h : h \in Range(seq) <=> \E i \in 1..Len(seq) : seq[i] = h
  BY <1>1 DEF Range
<1>3. Range(seq) \subseteq S
  BY <1>2, ElementOfSeq
<1>4. IsFiniteSet(Range(seq))
  <2>1. IsFiniteSet(1..Len(seq))
    BY <1>1, FS_Interval
  <2>2. seq \in Surjection(1..Len(seq), Range(seq))
    BY <1>1, <1>2 DEF Surjection
  <2> QED  BY <2>1, <2>2, FS_Surjection
<1> QED  BY <1>1, <1>2, <1>3, <1>4

LEMMA ReciprocalIs ==
    ASSUME QueryAssumption, NEW S, NEW r, Ranking(r, S)
    PROVE  /\ \A h : h \notin Range(r) => Reciprocal(r, h) = 0
           /\ \A i \in 1..Len(r) : /\ Reciprocal(r, r[i]) = Denominator \div (RrfK + i)
                                   /\ Reciprocal(r, r[i]) \in Nat /\ Reciprocal(r, r[i]) > 0
           /\ \A i, j \in 1..Len(r) : i < j => Reciprocal(r, r[j]) < Reciprocal(r, r[i])
<1>1. /\ r \in Seq(S) /\ Len(r) \in Nat /\ Len(r) <= TopKMax
      /\ DOMAIN r = 1..Len(r)
      /\ \A h : h \in Range(r) <=> \E i \in 1..Len(r) : r[i] = h
  BY RangeIs DEF Ranking
<1>2. /\ RrfK \in Nat \ {0} /\ TopKMax \in Nat \ {0} /\ Denominator \in Nat \ {0}
      /\ \A i \in 1..TopKMax : Denominator % (RrfK + i) = 0
  BY DEF QueryAssumption
<1>3. \A h : h \notin Range(r) => Reciprocal(r, h) = 0
  BY DEF Reciprocal
<1>4. ASSUME NEW i \in 1..Len(r)
      PROVE  /\ Reciprocal(r, r[i]) = Denominator \div (RrfK + i)
             /\ RrfK + i \in Nat \ {0} /\ Denominator % (RrfK + i) = 0
  <2>1. (CHOOSE j \in DOMAIN r : r[j] = r[i]) = i
    BY <1>1 DEF Ranking
  <2>2. r[i] \in Range(r)
    BY <1>1
  <2>3. i \in 1..TopKMax
    BY <1>1, <1>2
  <2>4. Reciprocal(r, r[i]) = Denominator \div (RrfK + CHOOSE j \in DOMAIN r : r[j] = r[i])
    BY <2>2, Zenon DEF Reciprocal
  <2>5. Reciprocal(r, r[i]) = Denominator \div (RrfK + i)
    BY <2>1, <2>4
  <2>6. RrfK + i \in Nat \ {0}
    BY <1>1, <1>2
  <2>7. Denominator % (RrfK + i) = 0
    BY <1>2, <2>3
  <2> QED  BY <2>5, <2>6, <2>7
<1>5. ASSUME NEW i \in 1..Len(r)
      PROVE  Reciprocal(r, r[i]) \in Nat /\ Reciprocal(r, r[i]) > 0
  <2>1. PICK D, a : D = Denominator /\ a = RrfK + i
    OBVIOUS
  <2>2. D \div a \in Nat /\ D \div a > 0
    BY <1>2, <1>4, <2>1, SharePositive
  <2> QED  BY <1>4, <2>1, <2>2
<1>6. ASSUME NEW i \in 1..Len(r), NEW j \in 1..Len(r), i < j
      PROVE  Reciprocal(r, r[j]) < Reciprocal(r, r[i])
  <2>1. PICK D, a, b : D = Denominator /\ a = RrfK + i /\ b = RrfK + j
    OBVIOUS
  <2>2. /\ D \in Nat \ {0} /\ a \in Nat \ {0} /\ b \in Nat \ {0}
        /\ D % a = 0 /\ D % b = 0 /\ a < b
    BY <1>2, <1>4, <1>6, <2>1
  <2>3. D \div b < D \div a
    BY <2>2, SharesFall
  <2> QED  BY <1>4, <2>1, <2>3
<1> QED  BY <1>3, <1>4, <1>5, <1>6

(* In one ranking: who is not below scores at least as much. *)
LEMMA RankingIsFair ==
    ASSUME QueryAssumption, NEW S, NEW r, Ranking(r, S), NEW g, NEW h, g # h, AtLeast(r, g, h)
    PROVE  /\ Reciprocal(r, g) \in Nat /\ Reciprocal(r, h) \in Nat
           /\ Reciprocal(r, h) <= Reciprocal(r, g)
           /\ h \in Range(r) => Reciprocal(r, h) < Reciprocal(r, g)
<1>1. /\ \A x : x \in Range(r) <=> \E i \in 1..Len(r) : r[i] = x
      /\ DOMAIN r = 1..Len(r) /\ Len(r) \in Nat
  BY RangeIs DEF Ranking
<1>2. ASSUME NEW x PROVE Reciprocal(r, x) \in Nat
  <2>1. CASE x \in Range(r)
    BY <1>1, <2>1, ReciprocalIs
  <2>2. CASE x \notin Range(r)
    BY <2>2, ReciprocalIs
  <2> QED  BY <2>1, <2>2
<1>3. CASE h \notin Range(r)
  <2>1. Reciprocal(r, h) = 0
    BY <1>3, ReciprocalIs
  <2> QED  BY <1>2, <1>3, <2>1
<1>4. CASE h \in Range(r)
  <2>. PICK i \in 1..Len(r) : \E j \in 1..Len(r) : r[i] = g /\ r[j] = h /\ i <= j
    BY <1>1, <1>4 DEF AtLeast
  <2>. PICK j \in 1..Len(r) : r[i] = g /\ r[j] = h /\ i <= j
    OBVIOUS
  <2>1. i < j
    OBVIOUS
  <2>2. Reciprocal(r, h) < Reciprocal(r, g)
    BY <2>1, ReciprocalIs
  <2> QED  BY <1>2, <2>2
<1> QED  BY <1>3, <1>4

-----------------------------------------------------------------------------
(* What a question has read so far belongs to one version of every document. *)

QuerySteps ==
    {"idle", "embed", "open", "names", "nearest", "lexical", "fuse", "documents", "generate",
     "answered"}

VersionRows == [row: Nat, chunks: Nat, entities: Nat]
Passages == [sentences: Seq(SUBSET Words), distance: Nat]
HitRows == [doc: Docs, ord: Nat, version: Nat]

(* The rows of a document are those of one version, or there are none. *)
Whole(rows, d) ==
    /\ rows \in VersionRows /\ rows.row <= Len(Corpus[d])
    /\ rows.chunks = rows.row /\ rows.entities = rows.row

(* What a replacing transaction has written already is of the new version. *)
Written(step, rows, d) ==
    /\ step \in {"idle", "chunks", "entities", "commit"}
    /\ step # "idle" => rows \in VersionRows /\ rows.row <= Len(Corpus[d])
    /\ step \in {"entities", "commit"} => rows.chunks = rows.row
    /\ step = "commit" => rows.entities = rows.row

Replacing(d) == Written(tx[d].step, tx[d].rows, d)

Committed ==
    /\ db = [d \in Docs |-> db[d]] /\ \A d \in Docs : Whole(db[d], d)
    /\ tx = [d \in Docs |-> tx[d]] /\ \A d \in Docs : Replacing(d)

SnapshotWhole == \A d \in Docs : Whole(ask.snapshot[d], d)

FusedHits ==
    LET candidates == Range(ask.rankings[1]) \cup Range(ask.rankings[2])
        depth == IF ask.topK < TopKMax THEN ask.topK ELSE TopKMax
    IN  Ordered([h \in candidates |-> -Score(h)], depth)

(* The fields of the question, and what each step has read. *)
Question ==
    /\ ask = [step |-> ask.step, tenant |-> ask.tenant, question |-> ask.question,
              topK |-> ask.topK, filter |-> ask.filter, snapshot |-> ask.snapshot,
              near |-> ask.near, rankings |-> ask.rankings, hits |-> ask.hits,
              documents |-> ask.documents, reply |-> ask.reply]
    /\ ask.step \in QuerySteps /\ ask.question \subseteq Words /\ ask.topK \in Nat

HasRead ==
    /\ ask.step \in {"idle", "embed", "open", "names", "nearest", "lexical", "fuse"} =>
           ask.hits = <<>>
    /\ ask.step \notin {"generate", "answered"} => ask.documents = <<>>
    /\ ask.step \in {"names", "nearest", "lexical", "fuse", "documents", "generate"} =>
           SnapshotWhole
    /\ ask.step = "lexical" => Ranking(ask.near, InScope)
    /\ ask.step \in {"fuse", "documents", "generate"} =>
           Ranking(ask.rankings[1], InScope) /\ Ranking(ask.rankings[2], InScope)
    /\ ask.hits # <<>> => SnapshotWhole
    /\ ask.hits \in Seq(InScope)
    /\ ask.step \in {"documents", "generate"} => ask.hits = FusedHits
    /\ \A d \in DOMAIN ask.documents : ask.documents[d] = ask.snapshot[d].entities
    /\ ask.step = "generate" => DOMAIN ask.documents = {h.doc : h \in Range(ask.hits)}

QueryInv ==
    /\ Committed
    /\ Question
    /\ HasRead
    /\ AnswersAreGrounded

-----------------------------------------------------------------------------

(* The passages in scope: of the tenant's documents, each of the version the *)
(* snapshot shows, and finitely many.                                        *)
LEMMA ScopeIs ==
    ASSUME QueryAssumption, SnapshotWhole
    PROVE  /\ IsFiniteSet(InScope)
           /\ \A h \in InScope :
                  /\ h \in HitRows /\ h.version = ask.snapshot[h.doc].row
                  /\ h.version \in 1..Len(Corpus[h.doc])
                  /\ Chunk(h) \in Passages
                  /\ Owner[h.doc] = ask.tenant
                  /\ ask.filter.any \/ h.doc \in ask.filter.ids
           /\ \A g, h \in InScope : g.doc = h.doc /\ g.ord = h.ord => g = h
<1> DEFINE Wanted == {d \in Mine : Visible[d].chunks > 0 /\ (ask.filter.any \/ d \in ask.filter.ids)}
           Found(d) == {[doc |-> d, ord |-> o, version |-> Visible[d].chunks] :
                            o \in DOMAIN Corpus[d][Visible[d].chunks].chunks}
<1>1. \A h : h \in InScope <=> \E d \in Wanted : h \in Found(d)
  BY DEF InScope
<1>2. ASSUME NEW d \in Wanted
      PROVE  /\ d \in Docs /\ Owner[d] = ask.tenant
             /\ ask.filter.any \/ d \in ask.filter.ids
             /\ Visible[d].chunks = ask.snapshot[d].row
             /\ Visible[d].chunks \in 1..Len(Corpus[d])
             /\ Corpus[d][Visible[d].chunks].chunks \in Seq(Passages)
  <2>1. d \in Docs /\ Owner[d] = ask.tenant /\ (ask.filter.any \/ d \in ask.filter.ids)
        /\ Visible[d].chunks > 0
    BY DEF Mine
  <2>2. Whole(ask.snapshot[d], d)
    BY <2>1 DEF SnapshotWhole
  <2>3. Visible[d].chunks = ask.snapshot[d].row /\ Visible[d].chunks \in Nat
        /\ Visible[d].chunks <= Len(Corpus[d])
    BY <2>2 DEF Whole, Visible, VersionRows
  <2>4. Corpus[d] \in Seq(Versions)
    BY <2>1 DEF QueryAssumption
  <2>5. Visible[d].chunks \in 1..Len(Corpus[d])
    BY <2>1, <2>3, <2>4
  <2>6. Corpus[d][Visible[d].chunks] \in Versions
    BY <2>4, <2>5, ElementOfSeq
  <2> QED  BY <2>1, <2>3, <2>5, <2>6 DEF Versions, Passages
<1>3. ASSUME NEW d \in Wanted, NEW h \in Found(d)
      PROVE  /\ h \in HitRows /\ h.doc = d /\ h.version = Visible[d].chunks
             /\ h.ord \in 1..Len(Corpus[d][Visible[d].chunks].chunks)
             /\ h = [doc |-> d, ord |-> h.ord, version |-> Visible[d].chunks]
             /\ Chunk(h) \in Passages
  <2>1. PICK s \in Seq(Passages) : s = Corpus[d][Visible[d].chunks].chunks
    BY <1>2
  <2>2. PICK o \in DOMAIN s : h = [doc |-> d, ord |-> o, version |-> Visible[d].chunks]
    BY <2>1
  <2>3. o \in 1..Len(s) /\ s[o] \in Passages /\ o \in Nat
    BY ElementOfSeq
  <2>4. h.doc = d /\ h.ord = o /\ h.version = Visible[d].chunks
    BY <2>2
  <2>5. d \in Docs /\ Visible[d].chunks \in Nat
    BY <1>2
  <2>6. h \in HitRows
    BY <2>2, <2>3, <2>5 DEF HitRows
  <2> QED  BY <2>1, <2>2, <2>3, <2>4, <2>6 DEF Chunk
<1>4. ASSUME NEW h \in InScope
      PROVE  /\ h \in HitRows /\ h.version = ask.snapshot[h.doc].row
             /\ h.version \in 1..Len(Corpus[h.doc]) /\ Chunk(h) \in Passages
             /\ Owner[h.doc] = ask.tenant /\ (ask.filter.any \/ h.doc \in ask.filter.ids)
             /\ h.doc \in Wanted /\ h.version = Visible[h.doc].chunks
             /\ h = [doc |-> h.doc, ord |-> h.ord, version |-> h.version]
  <2>1. PICK d \in Wanted : h \in Found(d)
    BY <1>1
  <2>2. /\ h \in HitRows /\ h.doc = d /\ h.version = Visible[d].chunks
        /\ h = [doc |-> d, ord |-> h.ord, version |-> Visible[d].chunks]
        /\ Chunk(h) \in Passages
    BY <2>1, <1>3
  <2> HIDE DEF Wanted, Found
  <2> QED  BY <2>1, <2>2, <1>2
<1>5. \A g, h \in InScope : g.doc = h.doc /\ g.ord = h.ord => g = h
  <2> HIDE DEF Wanted
  <2> QED  BY <1>4
<1>6. IsFiniteSet(InScope)
  <2>1. IsFiniteSet(Wanted)
    <3>1. Wanted \in SUBSET Docs
      BY DEF Mine
    <3> QED  BY <3>1, FS_Subset DEF QueryAssumption
  <2>2. ASSUME NEW d \in Wanted PROVE IsFiniteSet(Found(d))
    <3>0. PICK n \in Nat : DOMAIN Corpus[d][Visible[d].chunks].chunks = 1..n
      BY <1>2
    <3>1. PICK v : v = Visible[d].chunks
      OBVIOUS
    <3>2. PICK f, I, T : /\ I = 1..n /\ T = Found(d)
                         /\ f = [o \in I |-> [doc |-> d, ord |-> o, version |-> v]]
      OBVIOUS
    <3>3. f \in Surjection(I, T)
      BY <3>0, <3>1, <3>2 DEF Surjection
    <3>4. IsFiniteSet(I)
      BY <3>2, FS_Interval
    <3>5. IsFiniteSet(T)
      BY <3>3, <3>4, FS_Surjection
    <3> QED  BY <3>2, <3>5
  <2>3. PICK g, W, U : W = Wanted /\ U = {Found(d) : d \in Wanted} /\ g = [d \in W |-> Found(d)]
    OBVIOUS
  <2>4. g \in Surjection(W, U)
    BY <2>3 DEF Surjection
  <2>5. IsFiniteSet(U)
    BY <2>1, <2>3, <2>4, FS_Surjection
  <2>6. \A s \in U : IsFiniteSet(s)
    BY <2>2, <2>3
  <2>7. InScope = UNION U
    BY <1>1, <2>3
  <2> QED  BY <2>5, <2>6, <2>7, FS_UNION
<1> QED  BY <1>4, <1>5, <1>6

(* The two searches rank passages of the scope. *)
LEMMA SearchRanks ==
    ASSUME QueryAssumption, SnapshotWhole, NEW S, S \subseteq InScope,
           NEW rank, DOMAIN rank = S, \A h \in S : rank[h] \in Int
    PROVE  Rankable(rank)
<1>1. IsFiniteSet(S)
  BY ScopeIs, FS_Subset
<1>2. \A h \in S : h.doc \in Nat /\ h.ord \in Nat
  <2>1. \A h \in HitRows : h.doc \in Nat /\ h.ord \in Nat
    BY DEF HitRows, QueryAssumption
  <2> QED  BY <2>1, ScopeIs
<1>3. \A g, h \in S : g.doc = h.doc /\ g.ord = h.ord => g = h
  BY ScopeIs
<1> QED  BY <1>1, <1>2, <1>3 DEF Rankable

LEMMA OrderedRanking ==
    ASSUME QueryAssumption, SnapshotWhole, NEW S, S \subseteq InScope,
           NEW rank, DOMAIN rank = S, \A h \in S : rank[h] \in Int
    PROVE  Ranking(Ordered(rank, TopKMax), InScope)
<1>1. PICK seq : seq = Ordered(rank, TopKMax)
  OBVIOUS
<1>2. Rankable(rank) /\ TopKMax \in Nat
  BY SearchRanks DEF QueryAssumption
<1>3. /\ seq \in Seq(S) /\ Len(seq) <= TopKMax
      /\ \A i, j \in 1..Len(seq) : i < j => Before(rank, seq[i], seq[j])
  BY <1>1, <1>2, OrderedIs
<1>4. \A i \in 1..Len(seq) : seq[i] \in S
  BY <1>3, ElementOfSeq
<1>5. ASSUME NEW i \in 1..Len(seq), NEW j \in 1..Len(seq), seq[i] = seq[j]
      PROVE  i = j
  <2>1. ~Before(rank, seq[i], seq[j])
    BY <1>2, <1>4, <1>5, BeforeIsOrder
  <2>2. ~(i < j) /\ ~(j < i)
    BY <1>3, <1>5, <2>1
  <2> QED  BY <2>2
<1>6. seq \in Seq(InScope)
  <2>1. seq \in [1..Len(seq) -> InScope] /\ Len(seq) \in Nat
    BY <1>3, <1>4
  <2> QED  BY <2>1
<1> QED  BY <1>1, <1>3, <1>5, <1>6 DEF Ranking

(* Every passage found scores: its ranks add up. *)
LEMMA ScoreIs ==
    ASSUME QueryAssumption, Ranking(ask.rankings[1], InScope), Ranking(ask.rankings[2], InScope)
    PROVE  \A h : /\ Score(h) \in Nat
                  /\ h \in Range(ask.rankings[1]) \cup Range(ask.rankings[2]) => Score(h) > 0
<1>1. PICK r1, r2, S : r1 = ask.rankings[1] /\ r2 = ask.rankings[2] /\ S = InScope
  OBVIOUS
<1>2. ASSUME NEW r, Ranking(r, S), NEW h
      PROVE  Reciprocal(r, h) \in Nat /\ (h \in Range(r) => Reciprocal(r, h) > 0)
  <2>1. CASE h \notin Range(r)
    BY <1>2, <2>1, ReciprocalIs
  <2>2. CASE h \in Range(r)
    <3>1. PICK i \in 1..Len(r) : r[i] = h
      BY <1>2, <2>2, RangeIs DEF Ranking
    <3> QED  BY <1>2, <3>1, ReciprocalIs
  <2> QED  BY <2>1, <2>2
<1>3. ASSUME NEW h
      PROVE  Score(h) \in Nat /\ (h \in Range(r1) \cup Range(r2) => Score(h) > 0)
  <2>1. PICK x, y : x = Reciprocal(r1, h) /\ y = Reciprocal(r2, h)
    OBVIOUS
  <2>2. Ranking(r1, S) /\ Ranking(r2, S)
    BY <1>1
  <2>3. /\ x \in Nat /\ (h \in Range(r1) => x > 0)
        /\ y \in Nat /\ (h \in Range(r2) => y > 0)
    BY <1>2, <2>1, <2>2
  <2>4. Score(h) = x + y
    BY <1>1, <2>1 DEF Score
  <2> QED  BY <2>3, <2>4
<1> QED  BY <1>1, <1>3

(* The fused hits: passages that were found, in the order of their scores. *)
LEMMA FusedAre ==
    ASSUME QueryAssumption, SnapshotWhole, ask.topK \in Nat,
           Ranking(ask.rankings[1], InScope), Ranking(ask.rankings[2], InScope)
    PROVE  LET candidates == Range(ask.rankings[1]) \cup Range(ask.rankings[2])
           IN  /\ candidates \subseteq InScope
               /\ FusedHits \in Seq(candidates)
               /\ \A i, j \in 1..Len(FusedHits) :
                      i < j => Score(FusedHits[j]) <= Score(FusedHits[i])
               /\ \A j \in 1..Len(FusedHits), g \in candidates :
                      Score(FusedHits[j]) < Score(g) =>
                          \E i \in 1..Len(FusedHits) : i < j /\ FusedHits[i] = g
<1> DEFINE candidates == Range(ask.rankings[1]) \cup Range(ask.rankings[2])
           depth == IF ask.topK < TopKMax THEN ask.topK ELSE TopKMax
           rank == [h \in candidates |-> -Score(h)]
<1>1. candidates \subseteq InScope
  BY RangeIs DEF Ranking
<1>2. depth \in Nat
  BY DEF QueryAssumption
<1>3. \A h \in candidates : Score(h) \in Nat /\ -Score(h) \in Int /\ rank[h] = -Score(h)
  BY ScoreIs
<1>4. DOMAIN rank = candidates
  OBVIOUS
<1>5. FusedHits = Ordered(rank, depth)
  BY DEF FusedHits
<1> HIDE DEF candidates, depth, rank
<1>6. PICK S, R, k, seq : S = candidates /\ R = rank /\ k = depth /\ seq = FusedHits
  OBVIOUS
<1>7. Rankable(R)
  BY <1>1, <1>3, <1>4, <1>6, SearchRanks
<1>8. /\ seq \in Seq(S)
      /\ \A i, j \in 1..Len(seq) : i < j => Before(R, seq[i], seq[j])
      /\ \A j \in 1..Len(seq), g \in S :
             Before(R, g, seq[j]) => \E i \in 1..Len(seq) : i < j /\ seq[i] = g
  BY <1>2, <1>4, <1>5, <1>6, <1>7, OrderedIs
<1>9. \A i \in 1..Len(seq) : seq[i] \in S
  BY <1>8, ElementOfSeq
<1>10. ASSUME NEW g \in S, NEW h \in S
       PROVE  /\ Before(R, g, h) => Score(h) <= Score(g)
              /\ Score(h) < Score(g) => Before(R, g, h)
  <2>1. Score(g) \in Nat /\ Score(h) \in Nat /\ R[g] = -Score(g) /\ R[h] = -Score(h)
    BY <1>3, <1>6
  <2> QED  BY <2>1 DEF Before, Precedes
<1>11. /\ \A i, j \in 1..Len(seq) : i < j => Score(seq[j]) <= Score(seq[i])
       /\ \A j \in 1..Len(seq), g \in S :
              Score(seq[j]) < Score(g) => \E i \in 1..Len(seq) : i < j /\ seq[i] = g
  BY <1>8, <1>9, <1>10
<1> QED  BY <1>1, <1>6, <1>8, <1>11 DEF candidates

(* A passage that both searches put first scores more, so it stays first. *)
LEMMA FusedFairly ==
    ASSUME QueryAssumption, SnapshotWhole, ask.topK \in Nat, ask.hits = FusedHits,
           Ranking(ask.rankings[1], InScope), Ranking(ask.rankings[2], InScope)
    PROVE  FusionIsFair
<1>1. PICK r1, r2, S, hits : /\ r1 = ask.rankings[1] /\ r2 = ask.rankings[2] /\ S = InScope
                             /\ hits = FusedHits
  OBVIOUS
<1>2. Ranking(r1, S) /\ Ranking(r2, S)
  BY <1>1
<1> DEFINE candidates == Range(r1) \cup Range(r2)
<1>3. /\ hits \in Seq(candidates)
      /\ \A j \in 1..Len(hits), g \in candidates :
             Score(hits[j]) < Score(g) => \E i \in 1..Len(hits) : i < j /\ hits[i] = g
  BY <1>1, FusedAre
<1>4. ASSUME NEW g \in candidates, NEW h \in candidates, g # h, h \in Range(hits),
             AtLeast(r1, g, h), AtLeast(r2, g, h)
      PROVE  \E i, j \in DOMAIN hits : hits[i] = g /\ hits[j] = h /\ i < j
  <2>1. /\ Reciprocal(r1, g) \in Nat /\ Reciprocal(r1, h) \in Nat
        /\ Reciprocal(r1, h) <= Reciprocal(r1, g)
        /\ h \in Range(r1) => Reciprocal(r1, h) < Reciprocal(r1, g)
    BY <1>2, <1>4, RankingIsFair
  <2>2. /\ Reciprocal(r2, g) \in Nat /\ Reciprocal(r2, h) \in Nat
        /\ Reciprocal(r2, h) <= Reciprocal(r2, g)
        /\ h \in Range(r2) => Reciprocal(r2, h) < Reciprocal(r2, g)
    BY <1>2, <1>4, RankingIsFair
  <2>3. Reciprocal(r1, h) + Reciprocal(r2, h) < Reciprocal(r1, g) + Reciprocal(r2, g)
    <3>1. h \in Range(r1) \/ h \in Range(r2)
      OBVIOUS
    <3> QED  BY <2>1, <2>2, <3>1
  <2>4. Score(h) < Score(g)
    BY <1>1, <2>3 DEF Score
  <2> HIDE DEF candidates
  <2>5. PICK j \in 1..Len(hits) : hits[j] = h
    BY <1>3, <1>4, RangeIs
  <2>6. PICK i \in 1..Len(hits) : i < j /\ hits[i] = g
    BY <1>3, <2>4, <2>5
  <2>7. DOMAIN hits = 1..Len(hits)
    BY <1>3, RangeIs
  <2> QED  BY <2>5, <2>6, <2>7
<1> QED  BY <1>1, <1>4 DEF FusionIsFair

-----------------------------------------------------------------------------

(* What is in scope depends on the question's tenant, filter and snapshot. *)
LEMMA ScopeStays ==
    ASSUME ask'.tenant = ask.tenant, ask'.filter = ask.filter, ask'.snapshot = ask.snapshot
    PROVE  InScope' = InScope /\ SnapshotWhole' = SnapshotWhole
BY DEF InScope, Mine, Visible, SnapshotWhole

(* The fused hits depend on the rankings and the depth. *)
LEMMA FusedStay ==
    ASSUME ask'.rankings = ask.rankings, ask'.topK = ask.topK
    PROVE  FusedHits' = FusedHits
<1>1. \A h : Score(h)' = Score(h)
  BY DEF Score
<1>2. PICK candidates, depth, R, Q :
          /\ candidates = Range(ask.rankings[1]) \cup Range(ask.rankings[2])
          /\ depth = (IF ask.topK < TopKMax THEN ask.topK ELSE TopKMax)
          /\ R = [h \in candidates |-> -Score(h)] /\ Q = [h \in candidates |-> -(Score(h)')]
  OBVIOUS
<1>3. R = Q
  BY <1>1, <1>2
<1>4. FusedHits = Ordered(R, depth)
  BY <1>2, Zenon DEF FusedHits
<1>5. FusedHits' = Ordered(Q, depth)
  BY <1>2 DEF FusedHits
<1> QED  BY <1>3, <1>4, <1>5

(* A step of a worker does not touch the question. *)
LEMMA AskRests ==
    ASSUME Question, HasRead, AnswersAreGrounded, ask' = ask
    PROVE  Question' /\ HasRead' /\ AnswersAreGrounded'
<1>1. Question'
  BY DEF Question
<1>2. InScope' = InScope /\ SnapshotWhole' = SnapshotWhole /\ FusedHits' = FusedHits
  BY ScopeStays, FusedStay
<1>3. HasRead'
  BY <1>2 DEF HasRead
<1>4. AnswersAreGrounded'
  BY DEF AnswersAreGrounded, Answered, At
<1> QED  BY <1>1, <1>3, <1>4

(* A transaction writes the rows of the next version; the others see all of *)
(* them or none.                                                            *)
LEMMA RowsKeep ==
    ASSUME QueryAssumption, Committed, NEW d \in Docs,
           Upsert(d) \/ Replace(d) \/ Commit(d) \/ Rollback(d)
    PROVE  Committed' /\ ask' = ask
<1>1. /\ db = [e \in Docs |-> db[e]] /\ \A e \in Docs : Whole(db[e], e)
      /\ tx = [e \in Docs |-> tx[e]] /\ \A e \in Docs : Replacing(e)
  BY DEF Committed
<1>2. Corpus[d] \in Seq(Versions) /\ Len(Corpus[d]) \in Nat
  BY DEF QueryAssumption
<1>3. ask' = ask
  BY DEF Upsert, Replace, Commit, Rollback
<1>4. Written(tx[d].step, tx[d].rows, d)
  BY <1>1 DEF Replacing
<1>5. /\ db[d] \in VersionRows /\ db[d].row <= Len(Corpus[d])
      /\ db[d].chunks = db[d].row /\ db[d].entities = db[d].row
  BY <1>1 DEF Whole
<1>6. PICK step, rows :
          /\ tx' = [tx EXCEPT ![d] = [step |-> step, rows |-> rows]]
          /\ Written(step, rows, d)
  <2>1. CASE Upsert(d)
    <3>1. PICK old, rows : old = db[d] /\ rows = [old EXCEPT !.row = old.row + 1]
      OBVIOUS
    <3>2. tx' = [tx EXCEPT ![d] = [step |-> "chunks", rows |-> rows]]
      BY <2>1, <3>1 DEF Upsert
    <3>3. old \in VersionRows /\ old.row < Len(Corpus[d])
      BY <1>5, <2>1, <3>1 DEF Upsert
    <3>4. rows \in VersionRows /\ rows.row <= Len(Corpus[d])
      BY <1>2, <3>1, <3>3 DEF VersionRows
    <3>5. Written("chunks", rows, d)
      BY <3>4 DEF Written
    <3> QED  BY <3>2, <3>5, Zenon
  <2>2. CASE Replace(d) /\ tx[d].step = "chunks"
    <3>1. PICK old, rows : old = tx[d].rows /\ rows = [old EXCEPT !.chunks = old.row]
      OBVIOUS
    <3>2. tx' = [tx EXCEPT ![d] = [step |-> "entities", rows |-> rows]]
      BY <2>2, <3>1 DEF Replace
    <3>3. old \in VersionRows /\ old.row <= Len(Corpus[d])
      BY <1>4, <2>2, <3>1 DEF Written
    <3>4. rows \in VersionRows /\ rows.row <= Len(Corpus[d]) /\ rows.chunks = rows.row
      BY <3>1, <3>3 DEF VersionRows
    <3>5. Written("entities", rows, d)
      BY <3>4 DEF Written
    <3> QED  BY <3>2, <3>5, Zenon
  <2>3. CASE Replace(d) /\ tx[d].step = "entities"
    <3>1. PICK old, rows : old = tx[d].rows /\ rows = [old EXCEPT !.entities = old.row]
      OBVIOUS
    <3>2. tx' = [tx EXCEPT ![d] = [step |-> "commit", rows |-> rows]]
      BY <2>3, <3>1 DEF Replace
    <3>3. old \in VersionRows /\ old.row <= Len(Corpus[d]) /\ old.chunks = old.row
      BY <1>4, <2>3, <3>1 DEF Written
    <3>4. /\ rows \in VersionRows /\ rows.row <= Len(Corpus[d]) /\ rows.chunks = rows.row
          /\ rows.entities = rows.row
      BY <3>1, <3>3 DEF VersionRows
    <3>5. Written("commit", rows, d)
      BY <3>4 DEF Written
    <3> QED  BY <3>2, <3>5, Zenon
  <2>4. CASE Commit(d) \/ Rollback(d)
    <3>1. tx' = [tx EXCEPT ![d] = [step |-> "idle", rows |-> None]]
      BY <2>4 DEF Commit, Rollback
    <3>2. Written("idle", None, d)
      BY DEF Written
    <3> QED  BY <3>1, <3>2, Zenon
  <2> QED  BY <2>1, <2>2, <2>3, <2>4 DEF Replace
<1>7. tx' = [e \in Docs |-> tx'[e]] /\ \A e \in Docs : Replacing(e)'
  <2>1. /\ tx' = [e \in Docs |-> tx'[e]] /\ tx'[d] = [step |-> step, rows |-> rows]
        /\ \A e \in Docs : e # d => tx'[e] = tx[e]
    BY <1>1, <1>6
  <2>2. Replacing(d)'
    BY <1>6, <2>1 DEF Replacing
  <2>3. \A e \in Docs : e # d => Replacing(e)'
    BY <1>1, <2>1 DEF Replacing
  <2> QED  BY <2>1, <2>2, <2>3
<1>8. db' = [e \in Docs |-> db'[e]] /\ \A e \in Docs : Whole(db'[e], e)
  <2>1. CASE Commit(d)
    <3>1. tx[d].step = "commit" /\ db' = [db EXCEPT ![d] = tx[d].rows]
      BY <2>1 DEF Commit
    <3>2. Whole(tx[d].rows, d)
      BY <1>4, <3>1 DEF Whole, Written
    <3> QED  BY <1>1, <3>1, <3>2
  <2>2. CASE ~Commit(d)
    <3>1. db' = db
      BY <2>2 DEF Upsert, Replace, Rollback
    <3> QED  BY <1>1, <3>1
  <2> QED  BY <2>1, <2>2
<1> QED  BY <1>3, <1>7, <1>8 DEF Committed, Whole

LEMMA QueryStarts ==
    ASSUME QueryAssumption, QueryInit
    PROVE  QueryInv
<1>1. Committed
  <2>1. \A d \in Docs : Len(Corpus[d]) \in Nat
    BY DEF QueryAssumption
  <2>2. \A d \in Docs : Whole(None, d)
    BY <2>1 DEF Whole, None, VersionRows
  <2>3. \A d \in Docs : Replacing(d)
    BY DEF QueryInit, Replacing, Written
  <2> QED  BY <2>2, <2>3 DEF QueryInit, Committed
<1>2. Question
  BY DEF QueryInit, Idle, Question, QuerySteps
<1>3. HasRead
  <2>1. ask.step = "idle" /\ ask.hits = <<>> /\ ask.documents = <<>>
    BY DEF QueryInit, Idle
  <2> QED  BY <2>1 DEF HasRead
<1>4. AnswersAreGrounded
  BY DEF QueryInit, Idle, AnswersAreGrounded, Answered, At
<1> QED  BY <1>1, <1>2, <1>3, <1>4 DEF QueryInv

(* Ending the question with a reply: what was read stays. *)
LEMMA ReplyKeeps ==
    ASSUME QueryInv, NEW reply, Reply(reply), UNCHANGED <<db, tx>>
    PROVE  /\ Committed' /\ Question' /\ HasRead'
           /\ ask'.reply = reply /\ ask'.hits = ask.hits /\ ask'.filter = ask.filter
           /\ ask'.tenant = ask.tenant
           /\ reply.status # 200 => AnswersAreGrounded'
<1>1. Question /\ HasRead /\ Committed
  BY DEF QueryInv
<1>2. PICK new : new = ask'
  OBVIOUS
<1>3. /\ new.step = "answered" /\ new.tenant = ask.tenant /\ new.question = ask.question
      /\ new.topK = ask.topK /\ new.filter = ask.filter /\ new.snapshot = ask.snapshot
      /\ new.near = ask.near /\ new.rankings = ask.rankings /\ new.hits = ask.hits
      /\ new.documents = ask.documents /\ new.reply = reply
      /\ new = [step |-> new.step, tenant |-> new.tenant, question |-> new.question,
                topK |-> new.topK, filter |-> new.filter, snapshot |-> new.snapshot,
                near |-> new.near, rankings |-> new.rankings, hits |-> new.hits,
                documents |-> new.documents, reply |-> new.reply]
  BY <1>1, <1>2 DEF Question, Reply
<1>4. InScope' = InScope /\ SnapshotWhole' = SnapshotWhole
  BY <1>2, <1>3, ScopeStays
<1>5. Question'
  BY <1>1, <1>2, <1>3 DEF Question, QuerySteps
<1>6. HasRead'
  BY <1>1, <1>2, <1>3, <1>4 DEF HasRead
<1>7. Committed'
  BY <1>1 DEF Committed, Replacing
<1>8. reply.status # 200 => AnswersAreGrounded'
  BY <1>2, <1>3 DEF AnswersAreGrounded, Answered
<1> QED  BY <1>2, <1>3, <1>5, <1>6, <1>7, <1>8

LEMMA ErrorsAreErrors ==
    ASSUME NEW status \in {400, 422, 503}
    PROVE  Error(status).status # 200
BY DEF Error

(* The beginning and the end of a question. *)
LEMMA AskKeeps ==
    ASSUME QueryAssumption, QueryInv, NEW t \in Askers, NEW q \in Questions,
           NEW k \in 1..(TopKMax + 1), NEW f \in Filters, Ask(t, q, k, f) \/ Return
    PROVE  QueryInv'
<1>1. Committed' 
  BY DEF QueryInv, Committed, Replacing, Ask, Return
<1>2. PICK new : new = ask'
  OBVIOUS
<1>3. /\ new.hits = <<>> /\ new.documents = <<>> /\ new.step \in {"idle", "embed", "answered"}
      /\ new.step = "answered" => new.reply.status = 422
      /\ new.question \subseteq Words /\ new.topK \in Nat
      /\ new = [step |-> new.step, tenant |-> new.tenant, question |-> new.question,
                topK |-> new.topK, filter |-> new.filter, snapshot |-> new.snapshot,
                near |-> new.near, rankings |-> new.rankings, hits |-> new.hits,
                documents |-> new.documents, reply |-> new.reply]
  <2>1. CASE Return
    BY <1>2, <2>1 DEF Return, Idle
  <2>2. CASE Ask(t, q, k, f)
    <3>1. q \subseteq Words /\ k \in Nat
      BY DEF QueryAssumption
    <3>2. PICK refusal : refusal = Error(422)
      OBVIOUS
    <3>3. refusal.status = 422
      BY <3>2 DEF Error
    <3>4. PICK step, reply : /\ step = (IF k > TopKMax THEN "answered" ELSE "embed")
                             /\ reply = (IF k > TopKMax THEN refusal ELSE <<>>)
      OBVIOUS
    <3>5. new = [Idle EXCEPT !.step = step, !.tenant = t, !.question = q, !.topK = k,
                             !.filter = f, !.reply = reply]
      BY <1>2, <2>2, <3>2, <3>4 DEF Ask
    <3>6. step \in {"embed", "answered"} /\ (step = "answered" => reply.status = 422)
      BY <3>3, <3>4
    <3> QED  BY <3>1, <3>5, <3>6 DEF Idle
  <2> QED  BY <2>1, <2>2
<1>4. Question'
  BY <1>2, <1>3 DEF Question, QuerySteps
<1>5. HasRead'
  BY <1>2, <1>3 DEF HasRead
<1>6. AnswersAreGrounded'
  BY <1>2, <1>3 DEF AnswersAreGrounded, Answered, At
<1> QED  BY <1>1, <1>4, <1>5, <1>6 DEF QueryInv

(* The first statement sees what has been committed. *)
LEMMA OpenKeeps ==
    ASSUME QueryInv, Open \/ (Embed /\ At("embed") /\ ask' = [ask EXCEPT !.step = "open"])
    PROVE  QueryInv'
<1>1. Committed /\ Question /\ HasRead
  BY DEF QueryInv
<1>2. PICK new : new = ask'
  OBVIOUS
<1>3. /\ ask.step \in {"embed", "open"} /\ new.step \in {"open", "names"}
      /\ new.question = ask.question /\ new.topK = ask.topK
      /\ new.hits = ask.hits /\ new.documents = ask.documents
      /\ new.step = "names" => new.snapshot = db
      /\ new = [step |-> new.step, tenant |-> new.tenant, question |-> new.question,
                topK |-> new.topK, filter |-> new.filter, snapshot |-> new.snapshot,
                near |-> new.near, rankings |-> new.rankings, hits |-> new.hits,
                documents |-> new.documents, reply |-> new.reply]
  <2>1. CASE Open
    BY <1>1, <1>2, <2>1 DEF Question, Open, At
  <2>2. CASE Embed /\ At("embed") /\ ask' = [ask EXCEPT !.step = "open"]
    BY <1>1, <1>2, <2>2 DEF Question, At
  <2> QED  BY <2>1, <2>2
<1>4. new.hits = <<>> /\ new.documents = <<>>
  BY <1>1, <1>3 DEF HasRead
<1>5. Question'
  BY <1>1, <1>2, <1>3 DEF Question, QuerySteps
<1>6. new.step = "names" => SnapshotWhole'
  BY <1>1, <1>2, <1>3 DEF SnapshotWhole, Committed
<1>7. HasRead'
  BY <1>2, <1>3, <1>4, <1>6 DEF HasRead
<1>8. Committed'
  BY <1>1 DEF Open, Embed, Committed, Replacing
<1>9. AnswersAreGrounded'
  BY <1>2, <1>3 DEF AnswersAreGrounded, Answered, At
<1> QED  BY <1>5, <1>7, <1>8, <1>9 DEF QueryInv

(* The names may narrow the scope before anything of it has been read. *)
LEMMA NamesKeep ==
    ASSUME QueryInv, NEW named \in SUBSET Docs, Names(named)
    PROVE  QueryInv'
<1>1. Committed /\ Question /\ HasRead
  BY DEF QueryInv
<1>2. PICK new, filter : /\ new = ask'
                         /\ new = [ask EXCEPT !.step = "nearest", !.filter = filter]
  BY DEF Names
<1>3. /\ ask.step = "names" /\ new.step = "nearest"
      /\ new.question = ask.question /\ new.topK = ask.topK /\ new.snapshot = ask.snapshot
      /\ new.hits = ask.hits /\ new.documents = ask.documents
      /\ new = [step |-> new.step, tenant |-> new.tenant, question |-> new.question,
                topK |-> new.topK, filter |-> new.filter, snapshot |-> new.snapshot,
                near |-> new.near, rankings |-> new.rankings, hits |-> new.hits,
                documents |-> new.documents, reply |-> new.reply]
  BY <1>1, <1>2 DEF Question, Names, At
<1>4. new.hits = <<>> /\ new.documents = <<>> /\ SnapshotWhole
  BY <1>1, <1>3 DEF HasRead
<1>5. Question'
  BY <1>1, <1>2, <1>3 DEF Question, QuerySteps
<1>6. SnapshotWhole'
  BY <1>2, <1>3, <1>4 DEF SnapshotWhole
<1>7. HasRead'
  <2>1. ask'.step = "nearest" /\ ask'.hits = <<>> /\ ask'.documents = <<>>
    BY <1>2, <1>3, <1>4
  <2> QED  BY <1>6, <2>1 DEF HasRead
<1>8. Committed'
  BY <1>1 DEF Names, Committed, Replacing
<1>9. AnswersAreGrounded'
  BY <1>2, <1>3 DEF AnswersAreGrounded, Answered, At
<1> QED  BY <1>5, <1>7, <1>8, <1>9 DEF QueryInv

(* Passages are compared by numbers. *)
LEMMA PassageIs ==
    ASSUME QueryAssumption, SnapshotWhole, NEW h \in InScope
    PROVE  /\ Chunk(h).distance \in Nat /\ Chunk(h).sentences \in Seq(SUBSET Words)
           /\ Text(h) \subseteq Words
           /\ Matches(h) \in Nat
<1>1. Chunk(h) \in Passages
  BY ScopeIs
<1>2. Chunk(h).distance \in Nat /\ Chunk(h).sentences \in Seq(SUBSET Words)
  BY <1>1 DEF Passages
<1>3. Range(Chunk(h).sentences) \subseteq SUBSET Words
  BY <1>2, RangeIs
<1>4. Text(h) \subseteq Words
  BY <1>3 DEF Text
<1>5. IsFiniteSet(Text(h) \cap ask.question)
  <2>1. Text(h) \cap ask.question \in SUBSET Words
    BY <1>4
  <2> QED  BY <2>1, FS_Subset DEF QueryAssumption
<1>6. Matches(h) \in Nat
  BY <1>5, FS_CardinalityType DEF Matches
<1> QED  BY <1>2, <1>4, <1>6

(* The two searches. *)
LEMMA SearchKeeps ==
    ASSUME QueryAssumption, QueryInv, Nearest \/ Lexical
    PROVE  QueryInv'
<1>1. Committed /\ Question /\ HasRead
  BY DEF QueryInv
<1>2. PICK new : new = ask'
  OBVIOUS
<1>3. SnapshotWhole /\ ask.hits = <<>> /\ ask.documents = <<>>
      /\ (Lexical => Ranking(ask.near, InScope))
  BY <1>1 DEF HasRead, Nearest, Lexical, At
<1>4. /\ new.step \in {"lexical", "fuse"}
      /\ new.tenant = ask.tenant /\ new.question = ask.question /\ new.topK = ask.topK
      /\ new.filter = ask.filter /\ new.snapshot = ask.snapshot
      /\ new.hits = ask.hits /\ new.documents = ask.documents
      /\ new.step = "lexical" => Ranking(new.near, InScope)
      /\ new.step = "fuse" =>
             Ranking(new.rankings[1], InScope) /\ Ranking(new.rankings[2], InScope)
      /\ new = [step |-> new.step, tenant |-> new.tenant, question |-> new.question,
                topK |-> new.topK, filter |-> new.filter, snapshot |-> new.snapshot,
                near |-> new.near, rankings |-> new.rankings, hits |-> new.hits,
                documents |-> new.documents, reply |-> new.reply]
  <2>1. CASE Nearest
    <3>1. PICK rank, near : /\ rank = [h \in InScope |-> Chunk(h).distance]
                            /\ near = Ordered(rank, TopKMax)
      OBVIOUS
    <3>2. new = [ask EXCEPT !.near = near, !.step = "lexical"]
      BY <1>2, <2>1, <3>1 DEF Nearest
    <3>3. \A h \in InScope : rank[h] \in Int
      <4>1. \A h \in InScope : Chunk(h).distance \in Nat
        BY <1>3, PassageIs
      <4> QED  BY <3>1, <4>1
    <3>4. Ranking(near, InScope)
      <4>1. PICK S : S = InScope
        OBVIOUS
      <4>2. S \subseteq InScope /\ DOMAIN rank = S /\ \A h \in S : rank[h] \in Int
        BY <3>1, <3>3, <4>1
      <4> QED  BY <1>3, <3>1, <4>2, OrderedRanking
    <3> QED  BY <1>1, <3>2, <3>4 DEF Question
  <2>2. CASE Lexical
    <3>1. PICK S, rank, candidates : /\ S = {g \in InScope : Matches(g) > 0}
                                /\ rank = [h \in S |-> -Matches(h)]
                                /\ candidates = Ordered(rank, TopKMax)
      OBVIOUS
    <3>2. new = [ask EXCEPT !.rankings = <<ask.near, candidates>>, !.near = <<>>, !.step = "fuse"]
      BY <1>2, <2>2, <3>1 DEF Lexical
    <3>3. S \subseteq InScope /\ DOMAIN rank = S
      BY <3>1
    <3>4. \A h \in S : rank[h] \in Int
      <4>1. \A h \in S : Matches(h) \in Nat /\ rank[h] = -Matches(h)
        BY <1>3, <3>1, <3>3, PassageIs
      <4>2. \A n \in Nat : -n \in Int
        OBVIOUS
      <4> QED  BY <4>1, <4>2
    <3>5. Ranking(candidates, InScope)
      BY <1>3, <3>1, <3>3, <3>4, OrderedRanking
    <3> QED  BY <1>1, <1>3, <2>2, <3>2, <3>5 DEF Question
  <2> QED  BY <2>1, <2>2
<1>5. InScope' = InScope /\ SnapshotWhole' = SnapshotWhole
  BY <1>2, <1>4, ScopeStays
<1>6. Question'
  BY <1>1, <1>2, <1>4 DEF Question, QuerySteps
<1>7. HasRead'
  <2>1. /\ ask'.step \in {"lexical", "fuse"} /\ ask'.hits = <<>> /\ ask'.documents = <<>>
        /\ ask'.step = "lexical" => Ranking(ask'.near, InScope')
        /\ ask'.step = "fuse" =>
               Ranking(ask'.rankings[1], InScope') /\ Ranking(ask'.rankings[2], InScope')
    BY <1>2, <1>3, <1>4, <1>5
  <2> QED  BY <1>3, <1>5, <2>1 DEF HasRead, Ranking
<1>8. Committed'
  BY <1>1 DEF Nearest, Lexical, Committed, Replacing
<1>9. AnswersAreGrounded'
  BY <1>2, <1>4 DEF AnswersAreGrounded, Answered, At
<1> QED  BY <1>6, <1>7, <1>8, <1>9 DEF QueryInv

(* The end of retrieval: fused hits, and their documents. *)
LEMMA RetrieveKeeps ==
    ASSUME QueryAssumption, QueryInv, Fuse \/ Documents
    PROVE  QueryInv'
<1>1. Committed /\ Question /\ HasRead
  BY DEF QueryInv
<1>2. PICK new : new = ask'
  OBVIOUS
<1>3. /\ SnapshotWhole /\ ask.topK \in Nat
      /\ Ranking(ask.rankings[1], InScope) /\ Ranking(ask.rankings[2], InScope)
      /\ ask.documents = <<>>
      /\ Documents => ask.hits = FusedHits /\ ask.hits \in Seq(InScope)
  BY <1>1 DEF HasRead, Fuse, Documents, At, Question
<1>4. FusedHits \in Seq(InScope)
  <2>1. PICK candidates, seq : /\ candidates = Range(ask.rankings[1]) \cup Range(ask.rankings[2])
                          /\ seq = FusedHits
    OBVIOUS
  <2>2. seq \in Seq(candidates) /\ candidates \subseteq InScope
    BY <1>3, <2>1, FusedAre
  <2>3. \A i \in 1..Len(seq) : seq[i] \in InScope
    BY <2>2, ElementOfSeq
  <2>4. Len(seq) \in Nat /\ seq \in [1..Len(seq) -> InScope]
    BY <2>2, <2>3
  <2> QED  BY <2>1, <2>4
<1>5. /\ new.step \in {"documents", "generate"}
      /\ new.tenant = ask.tenant /\ new.question = ask.question /\ new.topK = ask.topK
      /\ new.filter = ask.filter /\ new.snapshot = ask.snapshot
      /\ new.rankings = ask.rankings /\ new.hits = FusedHits
      /\ new.step = "documents" => new.documents = <<>>
      /\ new.step = "generate" =>
             /\ DOMAIN new.documents = {h.doc : h \in Range(new.hits)}
             /\ \A d \in DOMAIN new.documents : new.documents[d] = new.snapshot[d].entities
      /\ new = [step |-> new.step, tenant |-> new.tenant, question |-> new.question,
                topK |-> new.topK, filter |-> new.filter, snapshot |-> new.snapshot,
                near |-> new.near, rankings |-> new.rankings, hits |-> new.hits,
                documents |-> new.documents, reply |-> new.reply]
  <2>1. CASE Fuse
    <3>1. PICK hits : hits = FusedHits
      OBVIOUS
    <3>2. new = [ask EXCEPT !.hits = hits, !.step = "documents"]
      BY <1>2, <2>1, <3>1 DEF Fuse, FusedHits
    <3> QED  BY <1>1, <1>3, <3>1, <3>2 DEF Question
  <2>2. CASE Documents
    <3>1. PICK docs, documents : /\ docs = {h.doc : h \in Range(ask.hits)}
                                 /\ documents = [d \in docs |-> ask.snapshot[d].entities]
      OBVIOUS
    <3>2. new = [ask EXCEPT !.documents = documents, !.step = "generate"]
      BY <1>2, <2>2, <3>1 DEF Documents, Visible
    <3>3. /\ new.documents = documents /\ new.hits = ask.hits /\ new.snapshot = ask.snapshot
          /\ new.step = "generate"
      BY <1>1, <3>2 DEF Question
    <3>4. /\ DOMAIN new.documents = {h.doc : h \in Range(new.hits)}
          /\ \A d \in DOMAIN new.documents : new.documents[d] = new.snapshot[d].entities
      BY <3>1, <3>3
    <3> QED  BY <1>1, <1>3, <2>2, <3>2, <3>4 DEF Question
  <2> QED  BY <2>1, <2>2
<1>6. InScope' = InScope /\ SnapshotWhole' = SnapshotWhole /\ FusedHits' = FusedHits
  BY <1>2, <1>5, ScopeStays, FusedStay
<1>7. Question'
  BY <1>1, <1>2, <1>5 DEF Question, QuerySteps
<1>8. HasRead'
  <2>1. /\ ask'.step \in {"documents", "generate"} /\ SnapshotWhole'
        /\ ask'.hits = FusedHits' /\ ask'.hits \in Seq(InScope')
        /\ Ranking(ask'.rankings[1], InScope') /\ Ranking(ask'.rankings[2], InScope')
        /\ ask'.step = "documents" => ask'.documents = <<>>
        /\ \A d \in DOMAIN ask'.documents : ask'.documents[d] = ask'.snapshot[d].entities
        /\ ask'.step = "generate" => DOMAIN ask'.documents = {h.doc : h \in Range(ask'.hits)}
    BY <1>2, <1>3, <1>4, <1>5, <1>6
  <2> QED  BY <2>1 DEF HasRead, Ranking, Range
<1>9. Committed'
  BY <1>1 DEF Fuse, Documents, Committed, Replacing
<1>10. AnswersAreGrounded'
  BY <1>2, <1>5 DEF AnswersAreGrounded, Answered, At
<1> QED  BY <1>7, <1>8, <1>9, <1>10 DEF QueryInv

-----------------------------------------------------------------------------
(* The extract: two sentences of the first passage.                         *)

WindowAt(sentences, i) ==
    sentences[i] \cup (IF i < Len(sentences) THEN sentences[i + 1] ELSE {})

BestAt(q, sentences) ==
    CHOOSE i \in 1..Len(sentences) : \A j \in 1..Len(sentences) :
        \/ Overlap(q, WindowAt(sentences, i))[1] > Overlap(q, WindowAt(sentences, j))[1]
        \/ Overlap(q, WindowAt(sentences, i))[1] = Overlap(q, WindowAt(sentences, j))[1] /\ i <= j

(* Some window shares most, and the first such is taken. *)
LEMMA BestExists ==
    ASSUME QueryAssumption, NEW q, q \subseteq Words,
           NEW sentences \in Seq(SUBSET Words), Len(sentences) # 0
    PROVE  BestAt(q, sentences) \in 1..Len(sentences)
<1> DEFINE Common(i) == Overlap(q, WindowAt(sentences, i))[1]
<1>1. PICK n \in Nat : n = Len(sentences) /\ n # 0
  OBVIOUS
<1>2. IsFiniteSet(q)
  BY FS_Subset DEF QueryAssumption
<1>3. ASSUME NEW i \in 1..n
      PROVE  Common(i) \in Nat /\ Common(i) <= Cardinality(q)
  <2>1. Common(i) = Cardinality(q \cap WindowAt(sentences, i))
    BY DEF Overlap
  <2>2. q \cap WindowAt(sentences, i) \in SUBSET q
    OBVIOUS
  <2>3. /\ IsFiniteSet(q \cap WindowAt(sentences, i))
        /\ Cardinality(q \cap WindowAt(sentences, i)) <= Cardinality(q)
    BY <1>2, <2>2, FS_Subset
  <2> QED  BY <2>1, <2>3, FS_CardinalityType
<1>4. Cardinality(q) \in Nat
  BY <1>2, FS_CardinalityType
<1> HIDE DEF Common
<1>5. PICK c : c = Cardinality(q)
  OBVIOUS
<1>6. PICK least \in {c - Common(i) : i \in 1..n} : \A x \in {c - Common(i) : i \in 1..n} : least <= x
  <2>1. {c - Common(i) : i \in 1..n} \subseteq Nat
    BY <1>3, <1>4, <1>5
  <2>2. c - Common(1) \in {c - Common(i) : i \in 1..n}
    BY <1>1
  <2> QED  BY <2>1, <2>2, LeastNatural
<1>7. \A i \in 1..n : least <= c - Common(i)
  BY <1>6
<1>8. PICK first \in {i \in 1..n : c - Common(i) = least} :
          \A j \in {i \in 1..n : c - Common(i) = least} : first <= j
  <2>1. {i \in 1..n : c - Common(i) = least} \subseteq Nat
    BY <1>1
  <2>2. {i \in 1..n : c - Common(i) = least} # {}
    BY <1>6
  <2> QED  BY <2>1, <2>2, LeastNatural
<1>9. ASSUME NEW j \in 1..n
      PROVE  Common(first) > Common(j) \/ (Common(first) = Common(j) /\ first <= j)
  <2>1. /\ Common(first) \in Nat /\ Common(j) \in Nat /\ c \in Nat
        /\ c - Common(first) = least /\ least <= c - Common(j)
        /\ c - Common(j) = least => first <= j
    BY <1>3, <1>4, <1>5, <1>7, <1>8
  <2> QED  BY <2>1
<1>10. \E i \in 1..Len(sentences) : \A j \in 1..Len(sentences) :
           Common(i) > Common(j) \/ (Common(i) = Common(j) /\ i <= j)
  BY <1>1, <1>8, <1>9
<1> QED  BY <1>10 DEF BestAt, Common

LEMMA ExtractiveIs ==
    ASSUME NEW q, NEW hits
    PROVE  LET sentences == Chunk(hits[1]).sentences
               window == WindowAt(sentences, BestAt(q, sentences))
           IN  Extractive(q, hits) =
                   IF hits = <<>> \/ Len(sentences) = 0
                   THEN [answer |-> Blank, supported |-> FALSE, cited |-> <<>>]
                   ELSE [answer |-> <<window>>, cited |-> <<0>>,
                         supported |-> 10 * Overlap(q, window)[1] >= 3 * Overlap(q, window)[2]]
BY Zenon DEF Extractive, WindowAt, BestAt

(* A supported extract quotes words of the first passage. *)
LEMMA ExtractQuotes ==
    ASSUME QueryAssumption, SnapshotWhole, NEW q, q \subseteq Words,
           NEW hits \in Seq(InScope), NEW output, output = Extractive(q, hits)
    PROVE  /\ output.cited \in {<<>>, <<0>>}
           /\ output.supported =>
                  /\ hits # <<>> /\ output.cited = <<0>>
                  /\ \E window : /\ output.answer = <<window>> /\ window # {}
                                 /\ window \subseteq Text(hits[1])
<1>1. PICK sentences : sentences = Chunk(hits[1]).sentences
  OBVIOUS
<1>2. CASE hits = <<>> \/ Len(sentences) = 0
  <2>1. output = [answer |-> Blank, supported |-> FALSE, cited |-> <<>>]
    BY <1>1, <1>2, ExtractiveIs
  <2> QED  BY <2>1
<1>3. CASE ~(hits = <<>> \/ Len(sentences) = 0)
  <2>1. PICK window, share : /\ window = WindowAt(sentences, BestAt(q, sentences))
                             /\ share = Overlap(q, window)
    OBVIOUS
  <2>2. output = [answer |-> <<window>>, supported |-> 10 * share[1] >= 3 * share[2],
                  cited |-> <<0>>]
    <3>1. PICK extract : extract = Extractive(q, hits)
      OBVIOUS
    <3>2. extract = [answer |-> <<window>>, cited |-> <<0>>,
                     supported |-> 10 * share[1] >= 3 * share[2]]
      BY <1>1, <1>3, <2>1, <3>1, ExtractiveIs
    <3> QED  BY <3>1, <3>2
  <2>3. hits[1] \in InScope
    <3>1. Len(hits) \in Nat /\ Len(hits) # 0
      BY <1>3
    <3>2. 1 \in 1..Len(hits)
      BY <3>1
    <3> QED  BY <3>2, ElementOfSeq
  <2>4. sentences \in Seq(SUBSET Words) /\ Len(sentences) \in Nat /\ Len(sentences) # 0
    BY <1>1, <1>3, <2>3, PassageIs
  <2>5. PICK best \in 1..Len(sentences) : best = BestAt(q, sentences)
    BY <2>4, BestExists
  <2>6. window \subseteq Text(hits[1])
    <3>1. sentences[best] \subseteq Text(hits[1])
      BY <1>1, <2>4, <2>5, RangeIs DEF Text
    <3>2. best < Len(sentences) => sentences[best + 1] \subseteq Text(hits[1])
      <4>1. best < Len(sentences) => best + 1 \in 1..Len(sentences)
        BY <2>4
      <4> QED  BY <1>1, <2>4, <4>1, RangeIs DEF Text
    <3> QED  BY <2>1, <2>5, <3>1, <3>2 DEF WindowAt
  <2>7. output.supported => window # {}
    <3> SUFFICES ASSUME window = {}, output.supported
                 PROVE  FALSE
      OBVIOUS
    <3>1. share[1] = 0
      <4>1. q \cap window = {}
        OBVIOUS
      <4> QED  BY <2>1, <4>1, FS_EmptySet DEF Overlap
    <3>2. share[2] \in Nat /\ share[2] > 0
      <4>1. IsFiniteSet(q)
        BY FS_Subset DEF QueryAssumption
      <4>2. Cardinality(q) \in Nat /\ (Cardinality(q) = 0 <=> q = {})
        BY <4>1, FS_CardinalityType, FS_EmptySet
      <4>3. share[2] = IF q = {} THEN 1 ELSE Cardinality(q)
        BY <2>1 DEF Overlap
      <4> QED  BY <4>2, <4>3
    <3>3. (10 * share[1] >= 3 * share[2]) = FALSE
      BY <3>1, <3>2
    <3>4. output = [answer |-> <<window>>, supported |-> FALSE, cited |-> <<0>>]
      BY <2>2, <3>3
    <3> QED  BY <3>4
  <2> QED  BY <1>3, <2>2, <2>6, <2>7
<1> QED  BY <1>2, <1>3

-----------------------------------------------------------------------------
(* The reply, put together from an output of a generator. *)

Cited(output, hits) ==
    LET indexes == Unique(output.cited)
    IN  IF ValidCitations(output, Len(hits))
        THEN [i \in DOMAIN indexes |-> hits[indexes[i] + 1]] ELSE <<>>

Supported(output, hits) == output.supported /\ ValidCitations(output, Len(hits))

Low(output, hits) ==
    LET value == IF Supported(output, hits)
                 THEN Confidence(output, hits, UNION {Text(h) : h \in Range(Cited(output, hits))})
                 ELSE <<0, 1>>
    IN  value[1] = 0 \/ 100 * value[1] < Threshold * value[2]

Abstained(output, hits, hosted) == Abstains(Supported(output, hits), hosted, Low(output, hits))

Answer(output, hits, hosted) ==
    [status |-> 200,
     answer |-> IF Abstained(output, hits, hosted) THEN Blank ELSE output.answer,
     abstained |-> Abstained(output, hits, hosted),
     sources |-> IF Abstained(output, hits, hosted) THEN hits ELSE Cited(output, hits),
     entities |-> IF Abstained(output, hits, hosted) THEN {}
                  ELSE CitedEntities(Cited(output, hits)),
     provider |-> IF hosted THEN "openai" ELSE "extractive",
     supported |-> output.supported]

LEMMA RespondIs ==
    ASSUME NEW output, NEW hosted, Respond(output, hosted)
    PROVE  Reply(Answer(output, ask.hits, hosted))
BY Zenon DEF Respond, Answer, Abstained, Low, Supported, Cited

(* Citations name hits. *)
LEMMA CitedAreHits ==
    ASSUME NEW S, NEW hits \in Seq(S), NEW output, output.cited \in Seq(Int),
           ValidCitations(output, Len(hits))
    PROVE  /\ Range(Cited(output, hits)) \subseteq Range(hits)
           /\ Cited(output, hits) # <<>>
<1>1. PICK cited, indexes, sources :
          cited = output.cited /\ indexes = Unique(cited) /\ sources = Cited(output, hits)
  OBVIOUS
<1>2. cited \in Seq(Int) /\ cited # <<>> /\ Range(cited) \subseteq 0..(Len(hits) - 1)
  BY <1>1 DEF ValidCitations
<1>3. Len(cited) \in Nat /\ DOMAIN cited = 1..Len(cited) /\ Len(cited) # 0
  BY <1>2
<1>4. /\ indexes \in Seq(Int) /\ indexes # <<>>
      /\ \A i \in DOMAIN indexes : indexes[i] \in Range(cited)
  <2>1. CASE Len(cited) = 2 /\ cited[1] = cited[2]
    <3>1. 1 \in 1..Len(cited) /\ cited[1] \in Int
      BY <1>2, <2>1, ElementOfSeq
    <3>2. indexes = <<cited[1]>>
      BY <1>1, <2>1 DEF Unique
    <3>3. cited[1] \in Range(cited)
      BY <1>2, <3>1, RangeIs
    <3> QED  BY <3>1, <3>2, <3>3
  <2>2. CASE ~(Len(cited) = 2 /\ cited[1] = cited[2])
    <3>1. indexes = cited
      BY <1>1, <2>2 DEF Unique
    <3> QED  BY <1>2, <3>1 DEF Range
  <2> QED  BY <2>1, <2>2
<1>5. sources = [i \in DOMAIN indexes |-> hits[indexes[i] + 1]]
  BY <1>1 DEF Cited
<1>6. \A i \in DOMAIN indexes : sources[i] \in Range(hits)
  <2> SUFFICES ASSUME NEW i \in DOMAIN indexes
               PROVE  sources[i] \in Range(hits)
    OBVIOUS
  <2>1. indexes[i] \in 0..(Len(hits) - 1) /\ Len(hits) \in Nat
    BY <1>2, <1>4
  <2>2. indexes[i] + 1 \in 1..Len(hits)
    BY <2>1
  <2> QED  BY <1>5, <2>2, RangeIs
<1>7. Range(sources) \subseteq Range(hits)
  BY <1>5, <1>6 DEF Range
<1>8. sources # <<>>
  <2>1. DOMAIN indexes # {}
    BY <1>4
  <2> QED  BY <1>5, <2>1
<1> QED  BY <1>1, <1>7, <1>8

(* A confidence of 0.7 and more. *)
LEMMA ConfidentEnough ==
    ASSUME NEW top \in Nat, top > 0, NEW margin \in Nat, NEW g \in Nat, g > 0,
           NEW limit \in 0..70
    PROVE  /\ (7 * top + 3 * margin) * g # 0
           /\ ~(100 * ((7 * top + 3 * margin) * g) < limit * (10 * top * g))
<1>1. PICK a, b : a = top * g /\ b = margin * g
  OBVIOUS
<1>2. a \in Nat /\ a > 0 /\ b \in Nat
  BY <1>1
<1>3. (7 * top + 3 * margin) * g = 7 * a + 3 * b
  BY <1>1
<1>4. limit * (10 * top * g) = 10 * (limit * a)
  BY <1>1
<1>5. limit * a <= 70 * a
  BY <1>2
<1>6. limit * a \in Nat
  BY <1>2
<1> QED  BY <1>2, <1>3, <1>4, <1>5, <1>6

(* A supported extract of fused hits is confident enough to be shown. *)
LEMMA ExtractIsShown ==
    ASSUME QueryAssumption, SnapshotWhole, ask.topK \in Nat, ask.question \subseteq Words,
           Ranking(ask.rankings[1], InScope), Ranking(ask.rankings[2], InScope),
           ask.hits = FusedHits, ask.hits \in Seq(InScope),
           NEW output, output = Extractive(ask.question, ask.hits), output.supported,
           Threshold <= 70
    PROVE  /\ ~Abstained(output, ask.hits, FALSE)
           /\ Len(Cited(output, ask.hits)) = 1
           /\ output.answer[1] \subseteq Text(Cited(output, ask.hits)[1])
<1>1. PICK hits, first, sources :
          hits = ask.hits /\ first = hits[1] /\ sources = Cited(output, hits)
  OBVIOUS
<1>2. PICK window : /\ hits # <<>> /\ output.cited = <<0>> /\ output.answer = <<window>>
                    /\ window # {} /\ window \subseteq Text(first)
  BY <1>1, ExtractQuotes
<1>3. hits \in Seq(InScope) /\ Len(hits) \in Nat /\ Len(hits) # 0 /\ 1 \in 1..Len(hits)
      /\ Len(hits) \in 1..Len(hits)
  BY <1>1, <1>2
<1>4. ValidCitations(output, Len(hits))
  <2>1. Range(<<0>>) = {0}
    BY DEF Range
  <2>2. 0 \in 0..(Len(hits) - 1) /\ <<window>> # Blank
    BY <1>3 DEF Blank
  <2> QED  BY <1>2, <2>1, <2>2 DEF ValidCitations
<1>5. sources = <<first>>
  <2>1. Unique(<<0>>) = <<0>>
    BY DEF Unique
  <2>2. sources = [i \in DOMAIN <<0>> |-> hits[<<0>>[i] + 1]]
    BY <1>1, <1>2, <1>4, <2>1 DEF Cited
  <2> QED  BY <1>1, <2>2
<1>6. UNION {Text(h) : h \in Range(sources)} = Text(first)
  <2>1. Range(sources) = {first}
    BY <1>5 DEF Range
  <2> QED  BY <2>1
<1>7. PICK g : g = Cardinality(window)
  OBVIOUS
<1>8. Grounding(window, Text(first)) = <<g, g>> /\ g \in Nat /\ g > 0
  <2>1. window \cap Text(first) = window
    BY <1>2
  <2>2. IsFiniteSet(window)
    <3>1. first \in InScope
      BY <1>1, <1>3, ElementOfSeq
    <3>2. window \in SUBSET Words
      BY <1>2, <3>1, PassageIs
    <3> QED  BY <3>2, FS_Subset DEF QueryAssumption
  <2>3. g \in Nat /\ g # 0
    BY <1>2, <1>7, <2>2, FS_CardinalityType, FS_EmptySet
  <2>4. g > 0
    BY <2>3
  <2>5. Grounding(window, Text(first)) =
            <<Cardinality(window \cap Text(first)), IF window = {} THEN 1 ELSE Cardinality(window)>>
    BY DEF Grounding, Overlap
  <2>6. Grounding(window, Text(first)) = <<g, g>>
    BY <1>2, <1>7, <2>1, <2>5
  <2> QED  BY <2>3, <2>4, <2>6
<1>9. PICK top, last, margin :
          /\ top = Score(first) /\ last = Score(hits[Len(hits)])
          /\ margin = IF Len(hits) > 1 THEN top - last ELSE 0
  OBVIOUS
<1>10. top \in Nat /\ top > 0 /\ margin \in Nat
  <2>1. PICK candidates : candidates = Range(ask.rankings[1]) \cup Range(ask.rankings[2])
    OBVIOUS
  <2>2. /\ hits \in Seq(candidates)
        /\ \A i, j \in 1..Len(hits) : i < j => Score(hits[j]) <= Score(hits[i])
    BY <1>1, <2>1, FusedAre
  <2>3. first \in candidates
    BY <1>1, <1>3, <2>2, ElementOfSeq
  <2>4. top \in Nat /\ top > 0 /\ last \in Nat
    BY <1>9, <2>1, <2>3, ScoreIs
  <2>5. Len(hits) > 1 => last <= top
    BY <1>1, <1>3, <1>9, <2>2
  <2> QED  BY <1>9, <2>4, <2>5
<1>11. Confidence(output, hits, Text(first)) = <<(7 * top + 3 * margin) * g, 10 * top * g>>
  BY <1>1, <1>2, <1>8, <1>9 DEF Confidence
<1>12. ~Low(output, hits)
  <2>1. PICK x, y : x = (7 * top + 3 * margin) * g /\ y = 10 * top * g
    OBVIOUS
  <2>2. Supported(output, hits)
    BY <1>4 DEF Supported
  <2>3. Confidence(output, hits, UNION {Text(h) : h \in Range(Cited(output, hits))}) = <<x, y>>
    BY <1>1, <1>6, <1>11, <2>1
  <2>4. Threshold \in 0..70
    <3>1. Threshold \in 0..100
      BY DEF QueryAssumption
    <3> QED  BY <3>1
  <2>5. x # 0 /\ ~(100 * x < Threshold * y)
    BY <1>8, <1>10, <2>1, <2>4, ConfidentEnough
  <2> QED  BY <2>2, <2>3, <2>5 DEF Low
<1>13. ~Abstained(output, hits, FALSE)
  BY <1>4, <1>12 DEF Abstained, Abstains, Supported
<1>14. Len(sources) = 1 /\ sources[1] = first
  BY <1>5
<1>15. output.answer[1] = window
  BY <1>2
<1>16. output.answer[1] \subseteq Text(sources[1])
  BY <1>2, <1>14, <1>15
<1> QED  BY <1>1, <1>13, <1>14, <1>16

(* What may be said of an answer to the tenant's question within the filter. *)
Grounded(r, tenant, filter) ==
    /\ \A h \in Range(r.sources) :
           /\ Owner[h.doc] = tenant
           /\ ~filter.any => h.doc \in filter.ids
    /\ IF r.abstained THEN r.answer = Blank /\ r.entities = {}
       ELSE /\ r.answer # Blank /\ r.supported /\ r.sources # <<>>
            /\ r.entities \subseteq UNION {Text(h) : h \in Range(r.sources)}
    /\ r.provider = "extractive" /\ r.supported /\ Threshold <= 70 =>
           /\ ~r.abstained
           /\ Len(r.sources) = 1 /\ r.answer[1] \subseteq Text(r.sources[1])

LEMMA AnswerIsGrounded ==
    ASSUME QueryAssumption, QueryInv, At("generate"), NEW output, NEW hosted \in BOOLEAN,
           output.cited \in Seq(Int),
           ~hosted => output = Extractive(ask.question, ask.hits)
    PROVE  Grounded(Answer(output, ask.hits, hosted), ask.tenant, ask.filter)
<1>1. /\ SnapshotWhole /\ ask.topK \in Nat /\ ask.question \subseteq Words
      /\ Ranking(ask.rankings[1], InScope) /\ Ranking(ask.rankings[2], InScope)
      /\ ask.hits = FusedHits /\ ask.hits \in Seq(InScope)
  BY DEF QueryInv, Question, HasRead, At
<1>2. PICK hits, r, abstained, cited :
          /\ hits = ask.hits /\ r = Answer(output, hits, hosted)
          /\ abstained = Abstained(output, hits, hosted) /\ cited = Cited(output, hits)
  OBVIOUS
<1>3. /\ r.answer = IF abstained THEN Blank ELSE output.answer
      /\ r.abstained = abstained
      /\ r.sources = IF abstained THEN hits ELSE cited
      /\ r.entities = IF abstained THEN {} ELSE CitedEntities(cited)
      /\ r.provider = IF hosted THEN "openai" ELSE "extractive"
      /\ r.supported = output.supported
  BY <1>2, Zenon DEF Answer
<1>4. ~abstained => output.supported /\ ValidCitations(output, Len(hits))
  BY <1>2 DEF Abstained, Abstains, Supported
<1>5. ~abstained => Range(cited) \subseteq Range(hits) /\ cited # <<>>
  BY <1>1, <1>2, <1>4, CitedAreHits
<1>6. ASSUME NEW h \in Range(r.sources)
      PROVE  Owner[h.doc] = ask.tenant /\ (~ask.filter.any => h.doc \in ask.filter.ids)
  <2>1. h \in Range(hits)
    BY <1>3, <1>5
  <2>2. h \in InScope
    BY <1>1, <1>2, <2>1, RangeIs
  <2> QED  BY <1>1, <2>2, ScopeIs
<1>7. CASE abstained
  <2>1. r.answer = Blank /\ r.entities = {} /\ r.abstained
    BY <1>3, <1>7
  <2>2. ASSUME r.provider = "extractive", r.supported, Threshold <= 70
        PROVE  FALSE
    <3>1. ~hosted /\ output.supported
      BY <1>3, <2>2
    <3>2. ~Abstained(output, hits, FALSE)
      BY <1>1, <1>2, <2>2, <3>1, ExtractIsShown
    <3>3. hosted = FALSE
      BY <3>1
    <3> QED  BY <1>2, <1>7, <3>2, <3>3
  <2> QED  BY <1>2, <1>6, <2>1, <2>2 DEF Grounded
<1>8. CASE ~abstained
  <2>1. r.answer # Blank /\ r.supported /\ r.sources = cited /\ r.sources # <<>> /\ ~r.abstained
    BY <1>3, <1>4, <1>5, <1>8 DEF ValidCitations
  <2>2. r.entities \subseteq UNION {Text(h) : h \in Range(r.sources)}
    <3>1. r.entities = CitedEntities(cited)
      BY <1>3, <1>8
    <3> QED  BY <2>1, <3>1 DEF CitedEntities
  <2>3. ASSUME r.provider = "extractive", r.supported, Threshold <= 70
        PROVE  Len(r.sources) = 1 /\ r.answer[1] \subseteq Text(r.sources[1])
    <3>1. ~hosted /\ output.supported
      BY <1>3, <2>3
    <3>2. Len(cited) = 1 /\ output.answer[1] \subseteq Text(cited[1])
      BY <1>1, <1>2, <2>3, <3>1, ExtractIsShown
    <3> QED  BY <1>3, <1>8, <2>1, <3>2
  <2> QED  BY <1>2, <1>6, <2>1, <2>2, <2>3 DEF Grounded
<1> QED  BY <1>7, <1>8

LEMMA GenerateKeeps ==
    ASSUME QueryAssumption, QueryInv, Generate
    PROVE  QueryInv'
<1>1. UNCHANGED <<db, tx>> /\ At("generate")
  BY DEF Generate
<1>2. PICK hosted \in BOOLEAN : \E output :
          /\ Respond(output, hosted) /\ output.cited \in Seq(Int)
          /\ ~hosted => output = Extractive(ask.question, ask.hits)
  <2>1. CASE \E output \in Outputs(Len(ask.hits)) : Respond(output, TRUE)
    <3>1. PICK output \in Outputs(Len(ask.hits)) : Respond(output, TRUE)
      BY <2>1
    <3>2. output.cited \in Seq(Int)
      <4>1. /\ Len(ask.hits) \in Nat
            /\ output.cited \in {<<>>} \cup [1..1 -> (-1)..Len(ask.hits)]
                                       \cup [1..2 -> (-1)..Len(ask.hits)]
        BY <3>1 DEF Outputs, QueryInv, HasRead
      <4>2. \E n \in Nat : output.cited \in [1..n -> Int]
        <5>1. (-1)..Len(ask.hits) \subseteq Int /\ 1 \in Nat /\ 2 \in Nat
          OBVIOUS
        <5>2. CASE output.cited = <<>>
          <6>1. <<>> \in [1..0 -> Int] /\ 0 \in Nat
            OBVIOUS
          <6> QED  BY <5>2, <6>1
        <5> QED  BY <4>1, <5>1, <5>2
      <4> QED  BY <4>2
    <3>3. \E o : /\ Respond(o, TRUE) /\ o.cited \in Seq(Int)
                 /\ ~TRUE => o = Extractive(ask.question, ask.hits)
      BY <3>1, <3>2, Zenon
    <3> QED  BY <3>3, Zenon
  <2>2. CASE Respond(Extractive(ask.question, ask.hits), FALSE)
    <3>1. PICK output : output = Extractive(ask.question, ask.hits)
      OBVIOUS
    <3>2. output.cited \in {<<>>, <<0>>}
      <4>1. /\ SnapshotWhole /\ ask.question \subseteq Words /\ ask.hits \in Seq(InScope)
        BY <1>1 DEF QueryInv, HasRead, Question, At
      <4> QED  BY <3>1, <4>1, ExtractQuotes
    <3>3. output.cited \in Seq(Int)
      <4>1. <<0>> \in Seq(Int) /\ <<>> \in Seq(Int)
        OBVIOUS
      <4> QED  BY <3>2, <4>1
    <3>4. \E o : /\ Respond(o, FALSE) /\ o.cited \in Seq(Int)
                 /\ ~FALSE => o = Extractive(ask.question, ask.hits)
      BY <2>2, <3>1, <3>3, Zenon
    <3> QED  BY <3>4, Zenon
  <2> QED  BY <2>1, <2>2 DEF Generate
<1>a. PICK output :
          /\ Respond(output, hosted) /\ output.cited \in Seq(Int)
          /\ ~hosted => output = Extractive(ask.question, ask.hits)
  BY <1>2, Zenon
<1>3. PICK r : r = Answer(output, ask.hits, hosted) /\ Reply(r)
  BY <1>a, RespondIs
<1>4. Grounded(r, ask.tenant, ask.filter)
  BY <1>1, <1>2, <1>a, <1>3, AnswerIsGrounded
<1>5. /\ Committed' /\ Question' /\ HasRead'
      /\ ask'.reply = r /\ ask'.tenant = ask.tenant /\ ask'.filter = ask.filter
  BY <1>1, <1>3, ReplyKeeps
<1>6. AnswersAreGrounded'
  BY <1>4, <1>5 DEF AnswersAreGrounded, Grounded
<1> QED  BY <1>5, <1>6 DEF QueryInv

-----------------------------------------------------------------------------

(* The question's inductive invariant: committed rows are of one version, so *)
(* is the snapshot, and what was read is of it.                              *)
THEOREM QueryInvariant ==
    ASSUME QueryAssumption
    PROVE  QuerySpec => []QueryInv
<1>1. QueryInit => QueryInv
  BY QueryStarts
<1>2. QueryInv /\ [QueryNext]_queryVars => QueryInv'
  <2> SUFFICES ASSUME QueryInv, [QueryNext]_queryVars
               PROVE  QueryInv'
    OBVIOUS
  <2>1. CASE UNCHANGED queryVars
    <3>1. Committed' /\ ask' = ask
      BY <2>1 DEF queryVars, QueryInv, Committed, Replacing
    <3> QED  BY <3>1, AskRests DEF QueryInv
  <2>2. ASSUME NEW d \in Docs, Upsert(d) \/ Replace(d) \/ Commit(d) \/ Rollback(d)
        PROVE  QueryInv'
    <3>1. Committed' /\ ask' = ask
      BY <2>2, RowsKeep DEF QueryInv
    <3> QED  BY <3>1, AskRests DEF QueryInv
  <2>3. ASSUME NEW t \in Askers, NEW q \in Questions, NEW k \in 1..(TopKMax + 1),
               NEW f \in Filters, Ask(t, q, k, f)
        PROVE  QueryInv'
    BY <2>3, AskKeeps
  <2>4. CASE Embed
    <3>1. CASE Reply(Error(400))
      <4>1. PICK r : r = Error(400)
        OBVIOUS
      <4>2. Reply(r) /\ r.status # 200 /\ UNCHANGED <<db, tx>>
        BY <2>4, <3>1, <4>1, ErrorsAreErrors DEF Embed
      <4> QED  BY <4>2, ReplyKeeps DEF QueryInv
    <3>2. CASE ask' = [ask EXCEPT !.step = "open"]
      BY <2>4, <3>2, OpenKeeps DEF Embed
    <3> QED  BY <2>4, <3>1, <3>2 DEF Embed
  <2>5. CASE Open
    BY <2>5, OpenKeeps
  <2>6. ASSUME NEW named \in SUBSET Docs, Names(named)
        PROVE  QueryInv'
    BY <2>6, NamesKeep
  <2>7. CASE Nearest \/ Lexical
    BY <2>7, SearchKeeps
  <2>8. CASE Fuse \/ Documents
    BY <2>8, RetrieveKeeps
  <2>9. CASE Unavailable
    <3>1. PICK r : r = Error(503)
      OBVIOUS
    <3>2. Reply(r) /\ r.status # 200 /\ UNCHANGED <<db, tx>>
      BY <2>9, <3>1, ErrorsAreErrors DEF Unavailable
    <3> QED  BY <3>2, ReplyKeeps DEF QueryInv
  <2>10. CASE Generate
    BY <2>10, GenerateKeeps
  <2>11. CASE Return
    <3>1. Committed'
      BY <2>11 DEF Return, QueryInv, Committed, Replacing
    <3>2. ask' = Idle
      BY <2>11 DEF Return
    <3>3. ask'.step = "idle" /\ ask'.hits = <<>> /\ ask'.documents = <<>>
      BY <3>2 DEF Idle
    <3>4. Question'
      BY <3>2 DEF Question, Idle, QuerySteps
    <3>5. HasRead' /\ AnswersAreGrounded'
      BY <3>3 DEF HasRead, AnswersAreGrounded, Answered, At
    <3> QED  BY <3>1, <3>4, <3>5 DEF QueryInv
  <2> QED  BY <2>1, <2>2, <2>3, <2>4, <2>5, <2>6, <2>7, <2>8, <2>9, <2>10, <2>11 DEF QueryNext
<1> QED  BY <1>1, <1>2, PTL DEF QuerySpec

(* An answer is of one moment: however many replacements commit while it is  *)
(* read, its passages and its entities have the version that its snapshot    *)
(* shows (service.py, query; repository.py, snapshot and _replace).          *)
THEOREM SnapshotSafety ==
    ASSUME QueryAssumption
    PROVE  QuerySpec => []OneSnapshot
<1>1. QueryInv => OneSnapshot
  <2> SUFFICES ASSUME QueryInv, NEW h \in Range(ask.hits)
               PROVE  /\ h.version = ask.snapshot[h.doc].row
                      /\ h.doc \in DOMAIN ask.documents => ask.documents[h.doc] = h.version
    BY DEF OneSnapshot
  <2>1. ask.hits \in Seq(InScope) /\ HasRead
    BY DEF QueryInv, HasRead
  <2>2. SnapshotWhole
    <3>1. ask.hits # <<>>
      BY DEF Range
    <3> QED  BY <2>1, <3>1 DEF HasRead
  <2>3. h \in InScope
    BY <2>1, RangeIs
  <2>4. h.doc \in Docs /\ h.version = ask.snapshot[h.doc].row
    BY <2>2, <2>3, ScopeIs DEF HitRows
  <2>5. h.doc \in DOMAIN ask.documents => ask.documents[h.doc] = ask.snapshot[h.doc].entities
    BY <2>1 DEF HasRead
  <2>6. ask.snapshot[h.doc].entities = ask.snapshot[h.doc].row
    BY <2>2, <2>4 DEF SnapshotWhole, Whole
  <2> QED  BY <2>4, <2>5, <2>6
<1> QED  BY <1>1, QueryInvariant, PTL

(* A shown answer rests on passages of the asking tenant within the filter,  *)
(* and a supported extract is shown with its quotation (ranking.py,          *)
(* assess_generation; extractive.py; service.py, _response), for every       *)
(* corpus, question and output of a hosted model.                            *)
THEOREM GroundedSafety ==
    ASSUME QueryAssumption
    PROVE  QuerySpec => []AnswersAreGrounded
<1>1. QueryInv => AnswersAreGrounded
  BY DEF QueryInv
<1> QED  BY <1>1, QueryInvariant, PTL

(* Fusion keeps what both searches agree on (ranking.py, fuse; retrieval.py, *)
(* retrieve), for every rrf_k and every depth.                               *)
THEOREM FusionSafety ==
    ASSUME QueryAssumption
    PROVE  QuerySpec => []FusionIsFair
<1>1. QueryInv => FusionIsFair
  <2> SUFFICES ASSUME QueryInv
               PROVE  FusionIsFair
    OBVIOUS
  <2>1. CASE ask.step \in {"documents", "generate"}
    <3>1. /\ SnapshotWhole /\ ask.topK \in Nat /\ ask.hits = FusedHits
          /\ Ranking(ask.rankings[1], InScope) /\ Ranking(ask.rankings[2], InScope)
      BY <2>1 DEF QueryInv, Question, HasRead
    <3> QED  BY <3>1, FusedFairly
  <2>2. CASE ask.step \notin {"documents", "generate"}
    BY <2>2 DEF FusionIsFair
  <2> QED  BY <2>1, <2>2
<1> QED  BY <1>1, QueryInvariant, PTL

=============================================================================
