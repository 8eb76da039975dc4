------------------------------- MODULE Outbox -------------------------------
(***************************************************************************)
(* From upload to stream: concurrent ingest requests (apps/ingest:         *)
(* receive, register) store the original, register the document and its    *)
(* outbox event in one transaction; relays (OutboxRelay) publish outbox    *)
(* rows to the stream while they hold row locks and mark them published    *)
(* when their transaction commits.                                         *)
(*                                                                         *)
(* A document is a (tenant, sha256) pair. The id of its row and of its     *)
(* event is the request whose INSERT won. Rows are locked and published in *)
(* an order no property depends on (created_at is not commit order), so    *)
(* the order is left open.                                                 *)
(***************************************************************************)
EXTENDS Integers, FiniteSets

CONSTANTS Tenants,
          Docs,        \* (tenant, sha256) pairs
          TenantOf,    \* the tenant of each document
          Requests,    \* upload requests, retries of a client included
          Relays,      \* relay processes
          Batch,       \* settings.relay_batch
          None

ASSUME OutboxAssumption ==
    /\ TenantOf \in [Docs -> Tenants]
    /\ Batch \in Nat \ {0}
    /\ None \notin Requests \cup Docs

VARIABLES upload,     \* the document a request uploads, None before it arrives
          at,         \* the call a request makes next
          answer,     \* the document id of a 202 answer, None otherwise
          objects,    \* documents whose original is in object storage
          row,        \* documents table: the row's id
          outbox,     \* outbox table: the committed events
          published,  \* events with a committed published_at
          locked,     \* rows a relay's transaction has locked
          sent,       \* rows it has published and marked in its transaction
          stream,     \* events added to di:documents at least once
          copies      \* history: XADDs whose mark no rollback has lost

requestVars == <<upload, at, answer>>
storeVars   == <<objects, row, outbox>>
relayVars   == <<published, locked, sent, stream, copies>>
vars == <<requestVars, storeVars, relayVars>>

\* Rows locked by some relay's open transaction.
Held == UNION {locked[p] : p \in Relays}

Init ==
    /\ upload = [r \in Requests |-> None]
    /\ at = [r \in Requests |-> "receive"]
    /\ answer = [r \in Requests |-> None]
    /\ objects = {}
    /\ row = [d \in Docs |-> None]
    /\ outbox = {}
    /\ published = {}
    /\ locked = [p \in Relays |-> {}]
    /\ sent = [p \in Relays |-> {}]
    /\ stream = {}
    /\ copies = [r \in Requests |-> 0]

-----------------------------------------------------------------------------
(* Ingest. *)

Continue(r, call) == at' = [at EXCEPT ![r] = call]

\* UploadBody accepted the body and media_type its first bytes.
Receive(r, d) ==
    /\ at[r] = "receive"
    /\ upload' = [upload EXCEPT ![r] = d]
    /\ Continue(r, "find")
    /\ UNCHANGED <<answer, storeVars, relayVars>>

\* 400, 413 or 415: nothing is written.
Refuse(r) ==
    /\ at[r] = "receive"
    /\ Continue(r, "refused")
    /\ UNCHANGED <<upload, answer, storeVars, relayVars>>

\* find_by_sha256: a registered document answers "duplicate" at once.
Find(r) ==
    /\ at[r] = "find"
    /\ \/ /\ row[upload[r]] # None
          /\ answer' = [answer EXCEPT ![r] = row[upload[r]]]
          /\ Continue(r, "answered")
       \/ /\ row[upload[r]] = None
          /\ Continue(r, "put")
          /\ UNCHANGED answer
    /\ UNCHANGED <<upload, storeVars, relayVars>>

\* Mutant: a failed put is swallowed.
MutantLostObject(r) ==
    /\ at[r] = "put"
    /\ objects' \in {objects, objects \cup {upload[r]}}
    /\ Continue(r, "register")
    /\ UNCHANGED <<upload, answer, row, outbox, relayVars>>

\* objects.put, outside SQL: same key, same bytes.
Put(r) ==
    /\ at[r] = "put"
    /\ objects' = objects \cup {upload[r]}
    /\ Continue(r, "register")
    /\ UNCHANGED <<upload, answer, row, outbox, relayVars>>

\* Mutant of _register: the event is inserted whoever won.
MutantAlwaysEnqueue(r) ==
    /\ at[r] = "register"
    /\ row' = [row EXCEPT ![upload[r]] = IF @ = None THEN r ELSE @]
    /\ outbox' = outbox \cup {r}
    /\ Continue(r, "respond")
    /\ UNCHANGED <<upload, answer, objects, relayVars>>

\* _register: the unique constraint picks one winner, whose transaction also
\* inserts the event; a loser reads the winner's row.
Register(r) ==
    /\ at[r] = "register"
    /\ \/ /\ row[upload[r]] = None
          /\ row' = [row EXCEPT ![upload[r]] = r]
          /\ outbox' = outbox \cup {r}
       \/ /\ row[upload[r]] # None
          /\ UNCHANGED <<row, outbox>>
    /\ Continue(r, "respond")
    /\ UNCHANGED <<upload, answer, objects, relayVars>>

\* Mutant: the answer carries the storage key.
MutantAnswerKey(r) ==
    /\ at[r] = "respond"
    /\ answer' = [answer EXCEPT ![r] = upload[r]]
    /\ Continue(r, "answered")
    /\ UNCHANGED <<upload, storeVars, relayVars>>

\* register returns the id and status of the row it found or inserted.
Respond(r) ==
    /\ at[r] = "respond"
    /\ answer' = [answer EXCEPT ![r] = row[upload[r]]]
    /\ Continue(r, "answered")
    /\ UNCHANGED <<upload, storeVars, relayVars>>

\* Storage or database fails (503), or the ingest process dies.
FailRequest(r) ==
    /\ at[r] \in {"find", "put", "register", "respond"}
    /\ Continue(r, "failed")
    /\ UNCHANGED <<upload, answer, storeVars, relayVars>>

-----------------------------------------------------------------------------
(* Relay: run_once for one tenant, one transaction. *)

\* Mutants: FOR UPDATE SKIP LOCKED is dropped; every pass of the loop over the
\* tenants asks for the first one.
MutantNoLock(t) == {r \in outbox \ published : TenantOf[upload[r]] = t}

MutantFirstTenant(t) ==
    LET first == CHOOSE x \in Tenants : TRUE
    IN  {r \in outbox \ (published \cup Held) : TenantOf[upload[r]] = first}

\* SELECT ... FOR UPDATE SKIP LOCKED: the tenant's unpublished, unlocked rows.
Eligible(t) == {r \in outbox \ (published \cup Held) : TenantOf[upload[r]] = t}

\* LIMIT batch.
Lock(p, t) ==
    /\ locked[p] = {}
    /\ \E S \in SUBSET Eligible(t) :
          /\ S # {}
          /\ Cardinality(S) <= Batch
          /\ Cardinality(S) < Batch => S = Eligible(t)
          /\ locked' = [locked EXCEPT ![p] = S]
    /\ UNCHANGED <<requestVars, storeVars, published, sent, stream, copies>>

\* XADD, then UPDATE published_at inside the open transaction.
Send(p) ==
    /\ \E r \in locked[p] \ sent[p] :
          /\ stream' = stream \cup {r}
          /\ copies' = [copies EXCEPT ![r] = @ + 1]
          /\ sent' = [sent EXCEPT ![p] = @ \cup {r}]
    /\ UNCHANGED <<requestVars, storeVars, published, locked>>

Release(p) ==
    /\ locked' = [locked EXCEPT ![p] = {}]
    /\ sent' = [sent EXCEPT ![p] = {}]
    /\ UNCHANGED <<requestVars, storeVars, stream>>

\* The relay's transaction commits once every row it locked is published.
Commit(p) ==
    /\ locked[p] # {}
    /\ sent[p] = locked[p]
    /\ published' = published \cup sent[p]
    /\ Release(p)
    /\ UNCHANGED copies

\* Redis or PostgreSQL fails or the relay dies: the transaction rolls back,
\* the entries already added stay in the stream.
Abort(p) ==
    /\ locked[p] # {}
    /\ copies' = [r \in Requests |-> IF r \in sent[p] THEN copies[r] - 1 ELSE copies[r]]
    /\ Release(p)
    /\ UNCHANGED published

-----------------------------------------------------------------------------

Request(r) == Find(r) \/ Put(r) \/ Register(r) \/ Respond(r)

Relay(p) == (\E t \in Tenants : Lock(p, t)) \/ Send(p) \/ Commit(p)

Next ==
    \/ \E r \in Requests : (\E d \in Docs : Receive(r, d)) \/ Refuse(r)
    \/ \E r \in Requests : Request(r) \/ FailRequest(r)
    \/ \E p \in Relays : Relay(p) \/ Abort(p)

Spec == Init /\ [][Next]_vars

(* A relay keeps polling every tenant in turn and is restarted when it       *)
(* exits; requests need no fairness, a client may always give up.            *)
Fairness ==
    /\ \A p \in Relays : WF_vars(Send(p)) /\ WF_vars(Commit(p))
    /\ \A p \in Relays, t \in Tenants : SF_vars(Lock(p, t))

FairSpec == Spec /\ Fairness

-----------------------------------------------------------------------------
(* Properties. *)

Calls == {"receive", "find", "put", "register", "respond",
          "answered", "refused", "failed"}

TypeOK ==
    /\ upload \in [Requests -> Docs \cup {None}]
    /\ at \in [Requests -> Calls]
    /\ answer \in [Requests -> Requests \cup {None}]
    /\ objects \in SUBSET Docs
    /\ row \in [Docs -> Requests \cup {None}]
    /\ outbox \in SUBSET Requests
    /\ published \in SUBSET Requests
    /\ locked \in [Relays -> SUBSET Requests]
    /\ sent \in [Relays -> SUBSET Requests]
    /\ stream \in SUBSET Requests
    /\ copies \in [Requests -> Nat]

\* The original of every registered document is stored before anyone can see
\* the document, however its uploads raced and failed: a worker that gets the
\* event finds the object.
EventHasObject == \A d \in Docs : row[d] # None => d \in objects

\* One document, one event: racing uploads of the same bytes leave exactly
\* one row and one outbox event with the same id, and every client, first,
\* duplicate or racing, was answered with it.
OneEventPerDocument ==
    /\ \A d \in Docs : {r \in outbox : upload[r] = d} = {row[d]} \ {None}
    /\ \A r \in Requests : answer[r] # None => row[upload[r]] = answer[r]

\* An event marked published is in the stream, so no crash of a relay loses
\* one, and is added again only after a rollback lost its mark: relays that
\* skip locked rows never publish one row twice.
PublishedOnce ==
    /\ published \subseteq stream
    /\ \A r \in Requests : copies[r] <= 1

\* Once transactions stop failing every registered document's event is in the
\* stream and marked, whatever the relays did before.
EventsArePublished ==
    <>[][\A p \in Relays : ~Abort(p)]_vars =>
        \A d \in Docs : (row[d] # None) ~> (row[d] \in published)

=============================================================================
