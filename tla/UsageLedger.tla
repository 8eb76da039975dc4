---------------------------- MODULE UsageLedger -----------------------------
(***************************************************************************)
(* Token accounting of hosted generation. Request threads of several query *)
(* processes run FallbackGenerator.generate: _hosted reserves a worst-case *)
(* bound in PostgresUsageLedger, makes one provider call and settles with  *)
(* what the call revealed about its cost. Any thread may die in between.   *)
(*                                                                         *)
(* The ledger keeps running totals per tenant and UTC day (llm_budgets)    *)
(* beside its entries (llm_usage). reserve and settle are one transaction  *)
(* each; reserve reads the clock when its statement starts and may then    *)
(* wait for the row's lock, so midnight can pass before it writes.         *)
(***************************************************************************)
EXTENDS Integers, FiniteSetsExt

CONSTANTS Requests,   \* generate calls; a call's reservation bears its name
          Tenants,
          Limit,      \* llm_daily_tokens
          Bounds,     \* bounds _hosted may compute from question and passages
          LastDay,    \* bound: the days the clock goes through are 1..LastDay
          Usages      \* bound: the token counts a call may use

LedgerAssumption ==
    /\ Limit \in Nat /\ LastDay \in Nat \ {0}
    /\ Bounds \subseteq Nat /\ Usages \subseteq Nat /\ 0 \in Usages

Days == 1..LastDay

Unknown == -1         \* usage None

VARIABLES budgets,    \* llm_budgets: <<tenant, day>> -> [charged, reserved]
          entries,    \* llm_usage: request -> row
          today,      \* the database's UTC date
          pc, job,    \* each thread's step, and its tenant, bound and date read
          found       \* after the call: what settle will be given, and its cost

ledgerVars == <<budgets, entries, today, pc, job, found>>
ledger == <<budgets, entries>>

Nothing == [usage |-> Unknown, outcome |-> "failed", cost |-> 0]

LedgerInit ==
    /\ budgets = <<>> /\ entries = <<>>
    /\ today = 1
    /\ pc = [r \in Requests |-> "idle"]
    /\ job = <<>>
    /\ found = [r \in Requests |-> Nothing]

\* Mapping one more key.
With(f, key, value) == [k \in DOMAIN f \cup {key} |-> IF k = key THEN value ELSE f[k]]

Goto(r, step) == pc' = [pc EXCEPT ![r] = step]

Midnight ==
    /\ today + 1 \in Days
    /\ today' = today + 1
    /\ UNCHANGED <<ledger, pc, job, found>>

\* Mutant: every bound goes to the database, whose first INSERT of a day
\* compares nothing.
MutantNoPrecheck(r, t, tokens) ==
    /\ pc[r] = "idle"
    /\ job' = With(job, r, [tenant |-> t, tokens |-> tokens, day |-> today])
    /\ Goto(r, "reserve")
    /\ UNCHANGED <<ledger, today, found>>

\* generate with a primary and passages: compute the bound, start reserve.
\* A bound below one or over the limit never reaches the database.
Begin(r, t, tokens) ==
    /\ pc[r] = "idle"
    /\ job' = With(job, r, [tenant |-> t, tokens |-> tokens, day |-> today])
    /\ Goto(r, IF tokens < 1 \/ tokens > Limit THEN "fallback" ELSE "reserve")
    /\ UNCHANGED <<ledger, today, found>>

Key(r) == <<job[r].tenant, job[r].day>>
RowExists(r) == Key(r) \in DOMAIN budgets

\* Mutant: what is already charged is not compared.
MutantFits(r) == RowExists(r) => budgets[Key(r)].reserved + job[r].tokens <= Limit

\* The upsert's WHERE, which an INSERT without conflict does not evaluate.
Fits(r) ==
    RowExists(r) =>
        budgets[Key(r)].charged + budgets[Key(r)].reserved + job[r].tokens <= Limit

Reserve(r) ==
    /\ pc[r] = "reserve"
    /\ Fits(r)
    /\ budgets' = IF RowExists(r)
                  THEN [budgets EXCEPT ![Key(r)].reserved = @ + job[r].tokens]
                  ELSE With(budgets, Key(r), [charged |-> 0, reserved |-> job[r].tokens])
    /\ entries' = With(entries, r, [tenant |-> job[r].tenant, day |-> job[r].day,
                                    tokens |-> job[r].tokens, usage |-> Unknown,
                                    outcome |-> "reserved"])
    /\ Goto(r, "call")
    /\ UNCHANGED <<today, job, found>>

\* BudgetExceeded: generate answers with the extractive fallback.
Refuse(r) ==
    /\ pc[r] = "reserve"
    /\ ~Fits(r)
    /\ Goto(r, "fallback")
    /\ UNCHANGED <<ledger, today, job, found>>

-----------------------------------------------------------------------------

(* What the provider's answer reveals. A reply is "none" when nothing left  *)
(* this process (no key, no slot, circuit open), "rejected" for a 4xx,      *)
(* "lost" for timeouts, transport errors, other statuses and bodies that    *)
(* are no JSON object, and otherwise a body with its billing block.         *)
Billings == {"absent", "malformed", "known"}
Replies == [kind: {"none", "rejected", "lost"}, billing: {"absent"}, valid: {FALSE}]
           \cup [kind: {"body"}, billing: Billings, valid: BOOLEAN]

\* Nothing is used by a call that was refused, and a provider uses what it
\* bills; otherwise the cost is anything.
Costs(reply) == IF reply.kind \in {"none", "rejected"} THEN {0} ELSE Usages

\* response_usage: billing that is absent or malformed is unknown, not zero.
ResponseUsage(reply, cost) == IF reply.billing = "known" THEN cost ELSE Unknown

\* parse_response within generate: a body whose billing and answer can be
\* read completes the call. The names of the failures are labels.
Outcome(reply) ==
    IF reply.kind = "body" /\ reply.billing # "malformed" /\ reply.valid
    THEN "completed" ELSE "failed"

\* Mutant: every failure without a body releases the budget.
MutantRevealed(reply, cost) ==
    [usage   |-> IF reply.kind # "body" THEN 0 ELSE ResponseUsage(reply, cost),
     outcome |-> Outcome(reply), cost |-> cost]

\* _hosted: what settle is told. Calls that sent nothing and client
\* rejections used nothing; everything else that failed is unknown.
Revealed(reply, cost) ==
    [usage   |-> IF reply.kind \in {"none", "rejected"} THEN 0 ELSE ResponseUsage(reply, cost),
     outcome |-> Outcome(reply), cost |-> cost]

Call(r, reply, cost) ==
    /\ pc[r] = "call"
    /\ cost \in Costs(reply)
    /\ found' = [found EXCEPT ![r] = Revealed(reply, cost)]
    /\ Goto(r, "settle")
    /\ UNCHANGED <<ledger, today, job>>

\* Mutant: the settlement goes to the current day, as summary reads it.
MutantChargedDay(r) ==
    IF <<entries[r].tenant, today>> \in DOMAIN budgets THEN today ELSE entries[r].day

\* The day whose totals settle updates: the entry's own.
ChargedDay(r) == entries[r].day

Charge(entry) == IF entry.usage = Unknown THEN entry.tokens ELSE entry.usage

\* settle, in generate's finally: update the entry once, then the totals. A
\* completed call is then answered by the provider, any other falls back.
Settle(r) ==
    LET row == [entries[r] EXCEPT !.usage = found[r].usage, !.outcome = found[r].outcome]
        key == <<row.tenant, ChargedDay(r)>>
    IN  /\ pc[r] = "settle"
        /\ entries[r].outcome = "reserved"
        /\ entries' = [entries EXCEPT ![r] = row]
        /\ budgets' = [budgets EXCEPT ![key] = [charged  |-> @.charged + Charge(row),
                                                reserved |-> @.reserved - row.tokens]]
        /\ found' = [found EXCEPT ![r] = Nothing]
        /\ Goto(r, IF row.outcome = "completed" THEN "hosted" ELSE "fallback")
        /\ UNCHANGED <<today, job>>

\* The thread ends early: its process is killed, or the database fails during
\* reserve or settle and the request with it. A reservation stays as it is.
Die(r) ==
    /\ pc[r] \in {"reserve", "call", "settle"}
    /\ found' = [found EXCEPT ![r] = Nothing]
    /\ Goto(r, "dead")
    /\ UNCHANGED <<ledger, today, job>>

\* All calls are over and the clock has stopped.
Finished ==
    /\ \A r \in Requests : pc[r] \in {"hosted", "fallback", "dead"}
    /\ today + 1 \notin Days
    /\ UNCHANGED ledgerVars

Step(r) ==
    \/ Reserve(r) \/ Refuse(r) \/ Settle(r)
    \/ \E reply \in Replies, cost \in Usages : Call(r, reply, cost)

LedgerNext ==
    \/ Midnight
    \/ \E r \in Requests :
           \/ \E t \in Tenants, tokens \in Bounds : Begin(r, t, tokens)
           \/ Step(r)
           \/ Die(r)
    \/ Finished

LedgerSpec == LedgerInit /\ [][LedgerNext]_ledgerVars

-----------------------------------------------------------------------------

\* summary runs two statements, each over the rows and the clock of its own
\* moment (READ COMMITTED, clock_timestamp): the totals row of the day, Row,
\* and the sums over its entries, UsageSums.
OfDay(t, d) == {r \in DOMAIN entries : entries[r].tenant = t /\ entries[r].day = d}

Reports == [r \in DOMAIN entries |->
               IF entries[r].usage = Unknown THEN 0 ELSE entries[r].usage]

Row(t, d) ==
    IF <<t, d>> \in DOMAIN budgets THEN budgets[<<t, d>>] ELSE [charged |-> 0, reserved |-> 0]

UsageSums(t, d) ==
    [requests |-> Cardinality(OfDay(t, d)),
     reported |-> SumFunctionOnSet(Reports, OfDay(t, d))]

-----------------------------------------------------------------------------

Overruns == [r \in DOMAIN entries |->
                IF entries[r].usage > entries[r].tokens
                THEN entries[r].usage - entries[r].tokens ELSE 0]

(* The ceiling of docs/query.md: what a day has charged and still reserves  *)
(* exceeds the tenant's limit by no more than its calls used beyond their   *)
(* own bounds, whichever requests race for the last tokens and whatever the *)
(* hour (usage.py, reserve).                                                *)
Ceiling ==
    \A t \in Tenants, d \in Days :
        Row(t, d).charged + Row(t, d).reserved
            <= Limit + SumFunctionOnSet(Overruns, OfDay(t, d))

(* The accounting never loses a call's cost: a settled reservation charges  *)
(* what the provider used, up to the reservation when it never learned the  *)
(* usage, so timeouts and unreadable bills cannot free budget               *)
(* (generation.py, _hosted; openai_provider.py, response_usage).            *)
NeverUndercharged ==
    [][\A r \in DOMAIN entries :
           entries'[r] # entries[r] =>
               \/ Charge(entries'[r]) >= found[r].cost
               \/ entries'[r].usage = Unknown /\ Charge(entries'[r]) = entries[r].tokens]_ledgerVars

\* The reference ledger of one day: that day's entries.
EntriesOf(d) ==
    [r \in {q \in DOMAIN entries : entries[q].day = d} |->
        [tenant |-> entries[r].tenant, tokens |-> entries[r].tokens, usage |-> entries[r].usage,
         outcome |-> IF entries[r].outcome = "reserved" THEN "reserved" ELSE "settled"]]

Day(d) == INSTANCE MemoryLedger WITH Ids <- Requests, entries <- EntriesOf(d)

(* At the moment of either statement of a summary its answer is what the    *)
(* reference computes from the entries of the day: a reservation made before midnight and settled after it, or     *)
(* left open, counts for its own day and for no other; and one is left open *)
(* only by a thread that is still on its way to settle, or died there       *)
(* (usage.py, settle and summary; generation.py, finally).                  *)
SummaryAgrees ==
    /\ \A t \in Tenants, d \in Days :
           /\ Row(t, d).charged = Day(d)!Summary(t).charged
           /\ Row(t, d).reserved = Day(d)!Summary(t).reserved
           /\ UsageSums(t, d).requests = Day(d)!Summary(t).requests
           /\ UsageSums(t, d).reported = Day(d)!Summary(t).reported
    /\ \A r \in DOMAIN entries :
           entries[r].outcome = "reserved" => pc[r] \in {"call", "settle", "dead"}

(* Day by day the PostgreSQL ledger does what InMemoryUsageLedger does:     *)
(* admits what fits its own sums and settles each reservation once.         *)
ImplementsMemoryLedger ==
    /\ \A d \in Days : Day(d)!Init
    /\ [][entries' # entries =>
              \A d \in Days : Day(d)!Next \/ UNCHANGED EntriesOf(d)]_ledgerVars

=============================================================================
