---------------------------- MODULE MemoryLedger ----------------------------
(***************************************************************************)
(* What the usage ledger promises, for one UTC day: InMemoryUsageLedger,   *)
(* the repository's own reference for the UsageLedger protocol. It keeps   *)
(* nothing but its entries and computes every total from them.             *)
(***************************************************************************)
EXTENDS Integers, FiniteSetsExt

CONSTANTS Ids,       \* reservation identifiers
          Tenants,
          Limit,     \* daily_limit
          Usages     \* bound: the token counts a provider reports

VARIABLE entries     \* reservations made so far: id -> entry

Unknown == -1        \* usage None

Entry == [tenant: Tenants, tokens: 1..Limit, usage: {Unknown} \cup Usages,
          outcome: {"reserved", "settled"}]

Open(t) == {i \in DOMAIN entries : entries[i].tenant = t /\ entries[i].outcome = "reserved"}
Settled(t) == {i \in DOMAIN entries : entries[i].tenant = t /\ entries[i].outcome = "settled"}

\* Unknown usage is charged as the whole reservation.
Charges == [i \in DOMAIN entries |->
               IF entries[i].usage = Unknown THEN entries[i].tokens ELSE entries[i].usage]
Reports == [i \in DOMAIN entries |->
               IF entries[i].usage = Unknown THEN 0 ELSE entries[i].usage]
Holdings == [i \in DOMAIN entries |-> entries[i].tokens]

\* _summary; input and output tokens are kept as their total.
Summary(t) ==
    [charged  |-> SumFunctionOnSet(Charges, Settled(t)),
     reserved |-> SumFunctionOnSet(Holdings, Open(t)),
     requests |-> Cardinality(Open(t) \cup Settled(t)),
     reported |-> SumFunctionOnSet(Reports, Open(t) \cup Settled(t))]

Init == entries = <<>>

\* Mapping one more key.
With(f, key, value) == [k \in DOMAIN f \cup {key} |-> IF k = key THEN value ELSE f[k]]

Reserve(i, t, tokens) ==
    /\ i \notin DOMAIN entries
    /\ tokens >= 1
    /\ Summary(t).charged + Summary(t).reserved + tokens <= Limit
    /\ entries' = With(entries, i, [tenant |-> t, tokens |-> tokens,
                                    usage |-> Unknown, outcome |-> "reserved"])

Settle(i, usage) ==
    /\ i \in DOMAIN entries
    /\ entries[i].outcome = "reserved"
    /\ entries' = [entries EXCEPT ![i].usage = usage, ![i].outcome = "settled"]

Next == \E i \in Ids :
    \/ \E t \in Tenants, tokens \in 1..Limit : Reserve(i, t, tokens)
    \/ \E usage \in {Unknown} \cup Usages : Settle(i, usage)

Spec == Init /\ [][Next]_entries

=============================================================================
