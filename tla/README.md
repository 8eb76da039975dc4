# doc-insight: TLA+ models, checks and proofs

doc-insight ingests documents for several tenants, indexes them asynchronously and
answers questions about them. This directory models the parts of it whose
correctness depends on interleavings, failures and order, checks them with TLC on
small instances and proves the main results with TLAPS for every instance.

Paths below are relative to the repository; `ingest/`, `worker/`, `query/` and
`gateway/` stand for `apps/<name>/src/doc_insight/<name>/`.

## The system

```
client -> gateway -> ingest -> S3 (original), PostgreSQL (documents + outbox row)
                                   |
                      relay: outbox row -> Redis stream di:documents
                                   |
                      workers (consumer group) -> PostgreSQL (chunks, entities, status)
                                   |                       \-> di:documents:dlq
client -> gateway -> query -> PostgreSQL snapshot -> OpenAI or local extraction
```

| Component | State | Operations | Interacts through | Hard behaviour | What makes it correct |
| --- | --- | --- | --- | --- | --- |
| Ingest (`ingest/main.py`, `service.py`, `upload.py`, `worker/uploads.py`) | object store, documents, outbox | receive, find, put, register | row and event in one transaction, object outside it | racing and repeated uploads, failure between the object and the row | one row, one event, one id per (tenant, digest); the object precedes the row |
| Relay (`ingest/relay.py`) | row locks, published_at | run_once per tenant | outbox table, XADD | several relays, crash between XADD and commit, one tenant's failure ends the process | no event is lost, none is sent twice without a rollback, all are sent in the end |
| Worker (`worker/service.py`, `processing.py`, `streams.py`) | consumer group, cursor, batch, document status | reclaim, read, handle, process, fail, dead-letter, acknowledge | Redis group, PostgreSQL, S3 | reclaim of live work, crash between any two calls, poison documents, duplicate events | acknowledge only durable outcomes, bounded attempts, no document forgotten, committed results stay |
| Circuit breaker and slots (`query/breaker.py`, `openai_provider.py`) | opened, failures, epoch, probing, semaphore | acquire, finish, generate | threads of the query service | calls that outlive a change of mode, a single probe, exceptions | only results of the current mode count, one probe, slots conserved, recovery |
| Usage ledger (`query/usage.py`, `generation.py`) | daily totals, reservations | reserve, settle, summary | PostgreSQL, provider | crash between reserve and settle, midnight, concurrent reservations, answers that hide their cost | the day's charge and reservations stay within the limit, each reservation settles once and never below its cost |
| Retrieval, ranking, answers (`query/retrieval.py`, `ranking.py`, `extractive.py`, `service.py`, `worker/query_repository.py`) | none (one read snapshot) | named scope, two searches, fuse, generate, assess | PostgreSQL snapshot, generator | documents replaced while a question runs, a model that cites wrongly | answers of one snapshot, fair ranking, nothing shown without its sources |
| Gateway authentication (`gateway/auth.py`) | signing keys, expiry, back-off, lock | authenticate, key | identity provider | rotation during a fetch, failing and hanging fetches, unknown key ids | withdrawn keys expire, published keys work, bounded refresh traffic |
| Gateway rate limiter (`gateway/rate_limit.py`) | one bucket per identity | consume | Redis script | fractions, key expiry, clock stepped back | never above the rate, a refusal costs nothing, Retry-After exact |
| Gateway proxy (`gateway/proxy.py`, `http.py`, `middleware.py`, `responses.py`, `main.py`) | streamed exchanges, shared HTTP client | route, quota, dispatch, forward, respond | upstream services | disconnect, deadline, limit or exception at any await | no truncated request or reply passes for a whole one, exactly one response |
| Browser page (`frontend/app.js`, `upload.js`) | token, generation, page shown, handlers waiting | sign in and out, refresh, page, poll, ask, upload | gateway | answers that come after sign-out | nothing of an earlier session is painted, documents and answers leave with it |
| Upload body (`ingest/upload.py`, `main.py`) | parser state, spooled file, digest, prefix | read and its callbacks | multipart parser | arbitrary blocks, cut connections, limits | accepted only whole, refused only for a reason |
| Indexing (`worker/processing.py`, `pipeline.py`, `extraction.py`, `structure.py`, `embedding.py`) | one attempt, document rows | download, verify, extract, analyze, embed, store | object store, providers, PostgreSQL | wrong objects, budgets that run across pages | the rows are those of the uploaded bytes |
| Chunking (`worker/structure.py`, `_chunk_reference.py`) | none | chunk_page | indexing | overlap and splitting at limits, tokens across words | same chunks as the reference chunker, coverage but for known losses, progress |

`PROJECT.json` lists every component with its status, and the hazards with the
properties aimed at them.

## Modules

| Module | Models |
| --- | --- |
| `Worker` | worker processes, the consumer group they share, document status and output |
| `WorkerProofs` | theorems about `Worker` |
| `Outbox` | concurrent uploads and the relays |
| `OutboxProofs` | theorems about `Outbox` |
| `Breaker` | abstract promise of a circuit breaker |
| `CircuitBreaker` | `breaker.py` with `generate` as its concurrent caller; implements `Breaker` |
| `CircuitBreakerProofs` | theorems about `CircuitBreaker`, the refinement among them |
| `UsageLedger` | reserve, provider call, settle and summary of concurrent hosted calls |
| `MemoryLedger` | the repository's in-memory reference ledger; `UsageLedger` implements it day by day |
| `QueryService` | a question, statement by statement, against replacements of documents |
| `QueryProofs` | theorems about `UsageLedger`, the refinement among them, and `QueryService` |
| `KeyCache` | the gateway's signing key cache |
| `RateLimiter` | the token bucket script |
| `GatewayProxy` | admission, exchange and response of requests through the gateway |
| `Workspace` | the browser page |
| `GatewayProofs` | theorems about `KeyCache`, `RateLimiter`, `GatewayProxy` and `Workspace` |
| `UploadBody` | the multipart body of an upload |
| `Indexing` | one attempt to index a document |
| `DocumentProofs` | theorems about `UploadBody` and `Indexing` |
| `Chunker` | `chunk_page` and the reference chunker |
| `ChunkerProofs` | theorems about `Chunker` |
| `CountingTheorems` | least elements, cardinalities and finite sums, used by the proofs |
| `MCWorker`, `MCOutbox`, `MCCircuitBreaker` | instances of one module |
| `MCGateway`, `MCQuery`, `MCDocuments` | instances of several modules that share no state |

`MCGateway` extends `KeyCache`, `RateLimiter`, `GatewayProxy` and `Workspace`, `MCQuery`
the ledger and `QueryService`, `MCDocuments` `Chunker`, `UploadBody` and `Indexing`; the
specifications of these modules are therefore called `KeySpec`, `BucketSpec`,
`ProxySpec` and so on. Each module takes the answers of its neighbours freely (the proxy
any decision of the limiter, a question any generation), so that what is shown of it
does not depend on them. The initial state picks the part to run and the others rest.

Operators named `Mutant...` are deliberate faults. No specification uses them; each
is a changed form of the definition after it, and replacing that definition by it must
make TLC report the property it is listed with in `PROJECT.json`.

### Worker

A worker is a program counter over the calls it makes to Redis and PostgreSQL; each
call is one atomic step and anything may happen between two of them.

- `pc = "setup"` creates the group; `"pass"` reclaims or skips the reclaim; `"read"`
  is XREADGROUP; `"next"` is the start of `handle` (XPENDING); `"lookup"`, `"begin"`,
  `"index"`, `"finish"` and `"fail"` are the database steps of `_handle_valid`,
  `process` and `_fail`; `"dead"` and `"ack"` are XADD to the dead letters and XACK.
- The stream is a number of entries and what each refers to: a document, a
  malformed event, or a well-formed event that matches no row. Publishing the same
  document again models the relay's at-least-once delivery and operator replays.
- The group is its offset, the delivery count of each pending entry (0 when it is
  not pending) and the set of entries idle for longer than min-idle. `Scanned` and
  `NextCursor` are XAUTOCLAIM's visit limit and cursor, as `streams.py` and the
  in-memory stream of the test package have them.
- `status` and `output` are the document row and its derived rows. `output` is the
  pipeline version they were stored under: the replay check compares version and
  status.
- Faults: `Transient` (swallowed by `handle`, entry stays pending), `RedisFault`
  (unwinds to `run`, the batch is abandoned), `Crash` anywhere, `Stop` where `stopping`
  is looked at, `Reject` for any other exception of `process`. A call whose effect was
  applied and whose answer was lost is the call followed by a fault, except where the
  answer matters: `LostReclaim` (the entries are delivered again, `self.cursor` stays and
  the batch is never seen) and `LostMark` (the status is committed, the delivery ends as
  a transient fault).

Two constants are environment assumptions a deployment may or may not meet.
`LeaseCoversWork`: min-idle exceeds the time a live worker holds an entry, which
`docs/worker.md` asks operators to configure. `LateErrors`: a non-transient error may come
from a status write or from removing the temporary directory, even after
the output was committed.

Left out: heartbeats (nobody in this component reads them), telemetry and log
lines, the error text of a failed document. Stream trimming and loss of Redis data
are excluded by `docs/worker.md`.

### Outbox

A request goes receive, find, put, register, respond, and may fail before each call. A
document is a (tenant, digest) pair; the id of its row and event is the request whose
INSERT won. A relay locks the unpublished rows of a tenant that nobody holds, at most
`Batch`, publishes and marks them one by one inside its transaction, and commits or
rolls back. XADD and the UPDATE of the same row are one step, because a failure between
them and a failure after them both leave the entry in the stream and the row unmarked.
Row order is left open: `created_at` is not commit order and no property needs it.
`copies` is a history variable: XADDs whose mark no rollback has lost.

### Breaker and CircuitBreaker

`Breaker` has a mode and the set of calls whose results count. `CircuitBreaker` has the
fields of `breaker.py`, the semaphore, and request threads that take a slot, acquire a
ticket, make the call and finish. The age of `opened` is `"hot"` until the cooldown has
passed and `"cooled"` afterwards. A thread that gets no slot or no ticket falls back at
once. `Uncaught` says whether the call may raise an exception outside the tuple that
`generate` catches.

The mapping to `Breaker`: a call is live while its ticket equals the epoch; the mode
is half open while `probing`.

### UsageLedger and MemoryLedger

`entries` is `llm_usage`, `budgets` the running totals of `llm_budgets`. A thread
computes its bound, reserves (one upsert whose WHERE is not evaluated by an INSERT
without conflict, `Fits`), calls the provider and settles. `Replies`, `ResponseUsage`
and `Outcome` give, for every kind of answer, what the call really cost and what the
code learns of it; `cost` is kept only for `NeverUndercharged`. The date is read when
`reserve` starts, so `Midnight` may pass before the row is written and again before it
is settled. `Die` ends a thread anywhere. `summary` runs two statements, each with a date
and a snapshot of its own: `Row` and `UsageSums`. `SummaryAgrees` is about what each of them
reads, not about an answer composed of two.

`MemoryLedger` has only entries and computes its totals from them.
`ImplementsMemoryLedger` maps the entries of each day to one such ledger, for every day.

### QueryService

A worker's transaction replaces row, chunks and entities in three statements and commits
or rolls back. A question embeds, opens its snapshot, reads names, both rankings and the
documents of its hits as separate statements, then generates and assesses. `Visible` is
what a statement of the repeatable-read transaction sees. Texts are sets of content
words, distances are part of the corpus, scores are integers over any common denominator
(`Denominator`), confidence is a fraction. The hosted model answers anything, with any
citations.

### KeyCache, RateLimiter, GatewayProxy, Workspace

`KeyCache`: a request queues for the lock, uses the cache or fetches. The issuer reads
its key set at some moment of the fetch and may rotate before and after. A fetch
fails, is cancelled with its request, or ends at `Deadline`. `changed`, `started` and
`failed` are history for the properties.

`RateLimiter`: tokens in parts and time in ticks make the script's fractions integers.
Times are relative to the clock (`age`, `left`), so stepping the clock back is a change
of `age`. `ideal` is the same bucket kept in true time, without expiry.

`GatewayProxy`: one record per exchange holds what the client offered, what the
upstream received, what was read of the reply and what the server took. Every stage
may end by disconnect, deadline, broken connection or an unexpected exception; the
response passes two nested error policies with CORS between them. `jar` is the
cookie store of the shared client.

`Workspace`: a handler is what a suspended `async` function will do when its answers
come, with the token and generation it captured. `entered` is history: the tokens
entered since the last sign-out. The page has three parts, each known by the token
it was fetched with: the documents and the answer, which `disconnect` clears, and the
library (options of "Search in", counters, usage), which it does not. The upload button is
not modelled as a guard, since choosing a file enables it again during an upload.

### UploadBody, Indexing, Chunker

`UploadBody`: the client moves through the multipart grammar, cutting blocks
anywhere; a block causes a sequence of parser callbacks, each of which may raise.
File bytes are numbered, so a lost, doubled or reordered byte is seen. A body may be
its closing boundary only: it ends complete and without a part. `Flawed` says which items
of a body must be refused, from the client's side, so that an unfounded 400 is seen.

`Indexing`: the stored object may differ from the uploaded one in every way that
`download` tests. Pages have a text layer or are scanned; the entity budget and the
ordinals run through the pages; the embedder may have the wrong dimension.

`Chunker`: every page over two letters, the blank, `&`, which the tokenizer expands to
two tokens with one span, and two characters that it erases: `|`, which Python counts as
whitespace (U+000B), and `~`, which `\S+` keeps (U+0002, U+200B, private use). The
tokenizer merges a pair of letters at the start of a word, across erased characters, so
counts of a window depend on where it is cut. `ordered` says whether it lists the page's
tokens in order; out of order, binary search may find none, which is what `OffsetCount`
then counts. `Guarded` holds both reasons to hand a page to the reference. Both chunkers
run on the same page, window by window.

Two simplifications. The tokens of a single word come in order (`_split_word` indexes
them without asking). And tokens with equal spans are not cut apart in `Cuts`: with the
first of them in a piece the next adds no text, so the code separates them only when one
of them alone is over the cap, and then fails on either.

## Runs

| Run | Instance | Shows |
| --- | --- | --- |
| `worker_lease` | 2 workers, 1 document, 2 events, 2 attempts, batch 2, scan limit 1, lease holds, late errors | `TypeOK`; `ProcessingIsOwed`: a document in processing still has an entry to come; `FailedIsRecorded`: a failed one has a dead letter or an entry to come |
| `worker_overlap` | the same with batch 1, no lease and no late errors | `AckedIsDurable`, `ProcessedHasOutput`, `PipelineRunsBounded` while workers take entries from each other |
| `worker_live` | 1 worker, 1 document, 2 events, fairness | `CommittedStaysProcessed`: redelivery and duplicates leave committed results alone; `EntriesSettle`: once the environment stops failing every entry is settled, also one whose document kills the worker each time |
| `worker_replay` | 2 workers, lease holds, duplicate event | `CommittedNeverFails` is violated, see Findings |
| `worker_stuck` | 2 workers, no lease, 1 event | `ProcessingHasWorkerOrEntry` is violated, see Findings |
| `outbox` | 3 requests, 3 documents of 2 tenants, 2 relays, batch 2, fairness | `EventHasObject`; `OneEventPerDocument`: one row, one event, and every answer has its id; `PublishedOnce`: nothing is marked unsent, nothing resent but after a rollback; `EventsArePublished`: in the end every registered event is |
| `breaker` | 5 threads, 4 slots, limit 3, 7 epochs, uncaught exceptions | `SlotsAccounted`, `ClosedBelowLimit`, `ImplementsBreaker` |
| `breaker_live` | 3 threads, 2 slots, limit 2, 6 epochs, fairness | `ProbeHasReporter`, `CircuitRecovers` |
| `query` | 3 calls, 2 tenants, limit 4, bounds 2 and 5, usages 0 and 4, 2 days; 3 documents in up to 2 versions, 2 questions, every depth and filter | `Ceiling`, `SummaryAgrees`, `NeverUndercharged`, `ImplementsMemoryLedger`; `OneSnapshot`, `FusionIsFair`, `AnswersAreGrounded` |
| `gateway` | 2 requests, 3 key ids of which one is too weak, clock to 5, 1 rotation; burst 3, 7 parts to a token, 3 clock steps; successive requests of 2 users on 1 connection, limits of 3 and 2 blocks; 2 handlers, 2 logins, 2 sign-outs; 1.2 million states | `WithdrawnKeysExpire`, `FetchesSpaced`, `PublishedKeysWork`; `NeverAboveRate`, `RefusalIsFree`; `UpstreamGetsTheRequest`, `SuccessIsComplete`, `OneResponse`; `DocumentsEndWithSession`: documents and answer shown were fetched since the last sign-out |
| `signout` | the same | `NothingOutlivesSignOut` is violated, see Findings |
| `documents` | pages to 5 characters of 6 kinds (to 4 where the tokens are out of order), caps 1 to 3 and every overlap below; files to 3 bytes and their excess, blocks of up to 3 callbacks; 2 originals, 6 objects, PDFs of 2 pages; 0.5 million states | `ChunksCoverPage`, `ChunksWithinLimits`, `MatchesReference`; `AnswerFitsUpload`; `StoredIsTheDocument` |

Bounds. `MaxEvents` caps publishing; two events are enough for a duplicate, for a batch
with a rest, and for a scan that ends before the last entry. Delivery counts stop one
above `MaxAttempts`, since the code only asks whether the limit is exceeded. The history
`runs` stops there too. `MaxEpoch` caps the breaker: no call fails from that epoch on;
seven epochs let a call outlive three openings. Requests of `Outbox` are finite and each
runs once, so it ends when all work is done, and deadlock checking is off for `Outbox`
for that reason only. Its requests, and the documents of a tenant, differ by name only;
`MCOutbox` therefore lets documents come in one order (`InOrder`), as a symmetry set
would but cannot beside liveness. Only one worker runs in the liveness run; safety is
checked with two and proved for any number.

In `query`, two calls of bound 2 exhaust the limit of 4, a third races them, a bound of
5 is refused before it reaches the database, and a usage of 4 overruns its reservation;
two days let midnight fall between any two steps of a call. Ranks are cut at 3 of up to
5 passages, so that passages fall out of one ranking and not the other; with `rrf_k` 2,
reciprocal ranks are thirds, quarters and fifths, whence the denominator 60. In
`gateway`, the clock's 5 ticks cover a fetch at its deadline, expiry (3) after a
rotation, and the back-off (2) after a failure; 7 parts per token and 2 per tick make
every refill a fraction; the clock is set back up to three times, by up to 5 of the 11
ticks a key lives; blocks of 2 against limits of 3 and 2 make a body end at, jump over
or stay below each. In `documents`, 5 characters hold three words with overlap, a word
that must be split at an erased character, a character of two tokens at either side of a
cut, and an erased character inside a merged pair; 3 bytes hold a
signature of 2 and one more; an entity budget of 3 ends inside the second page.

Fairness. A running worker keeps calling and a dead one is restarted by its
supervisor (weak fairness). The clock passes `next_reclaim` again and again, hence
strong fairness of `Reclaim`; an entry nobody holds grows older than min-idle. A
relay polls its tenants in turn, hence strong fairness of `Lock` per tenant. Calls
to the provider end by their timeout and the cooldown passes. Faults are never fair:
the liveness properties assume that faults end, and `CircuitRecovers` also assumes
that questions keep coming, because only a question can probe. A crash inside the
pipeline counts as the document's fault, not the environment's, so `EntriesSettle`
must hold although such crashes recur for ever.

## Findings

- `worker_replay`. `_handle_valid` decides on a row it read earlier, and `_fail`
  overwrites whatever is there by then. With two deliveries of one document (a
  relay's resend, an operator's replay) one may commit while the other fails or
  runs out of attempts: the committed document ends as `failed` with a dead letter, although
  `service.py` calls such documents replay-safe. Its output stays stored.
- `worker_stuck`. Without a sufficient lease another worker may settle and
  acknowledge an entry before its first worker marks the document `processing`. If
  that worker then crashes, the document stays in `processing` and no entry is left
  to repair it; `docs/worker.md` says a crash leaves a pending entry.

- `signout`. `disconnect` hides the workspace and clears the list of documents and the
  answer, but leaves the options of "Search in" (file names and ids), the counters and
  the usage text, although its comment says that page-held content is cleared. A connect
  of the signed-out session (the form can be submitted twice) that completes after the
  next user has entered a token finds a token, and shows the panel with them until the
  next refresh.

Three more places do less than a reader may expect; no run refutes a sentence about them.

`_units` keeps a word whole when it has no more characters than the cap, because "every
token covers at least one character" (`worker/structure.py:52`). Tokens may share a
character, in the tests' `DoubledTokenizer` as wherever normalization expands one; a
short word may then be over the cap and the page fails with "chunk_tokens too small",
which `test_degenerate_budget_equivalence` expects. `ChunksCoverPage` shows that a page
fails for no other reason.

The pieces of a word over the cap run from token to token, and a character that the
tokenizer erases between two pieces is in no chunk (`LostAtCut`).

And a committed document may still be failed by a late error (hazard of
`worker/processing.py:95`), or the breaker's probe be lost to an exception that
`generate` does not catch (`query/openai_provider.py:164`): the code reaches both
and no property forbids either. `FailedIsRecorded` and `SlotsAccounted` say what is kept.

## Proofs

Each theorem holds for every value of the constants that satisfies the module's
assumption (`WorkerAssumption`, `OutboxAssumption`, ..., evaluated by TLC in every run
of the module) and the hypotheses it states. The bounds that keep runs finite
(`MaxEvents`, `MaxEpoch`, `MaxTime`, `MaxSteps`, `MaxItems`, ...) are constants as well, so
the theorems hold however large they are.

An invariant the runs check is seldom inductive. Every proof below states what has to
be added, proves the sum by one step per action, and concludes.

`WorkerProofs` (for every set of workers and documents):

- `TypeCorrect`: `TypeOK`. It needs `Control` (what a worker holds at each call: a
  message of the stream below the group offset while handling, a batch of delivered
  entries) in the same induction, because an acknowledgement indexes the pending
  list by the message held.
- `AckSafety`, `OutputSafety`: `AckedIsDurable` and `ProcessedHasOutput`, without any
  lease. The strengthening `Progress` says what has been stored when a worker has
  reached a call: current output before `"finish"`, a durable outcome before `"ack"`.
  `DurableIsStable` shows that no step of any worker takes a durable outcome back.
- `LimitSafety`: `PipelineRunsBounded`, also without a lease. Starts of the pipeline cannot
  be bounded by themselves, since several workers may have passed the limit test
  for one entry. `Budget` counts, per entry, the starts, the workers admitted to one
  and the batches that still hold it, and says that deliveries cover them all.
- `NothingForgotten`, `FailureSafety`: `ProcessingIsOwed` and `FailedIsRecorded`, assuming
  `LeaseCoversWork`. The strengthening `Lease` says that entries held by live workers are
  pending, not lapsed and held by one worker only.
- `SingleWorkerReplay`: `CommittedStaysProcessed`, assuming one worker and no late
  errors. The strengthening is that a worker about to overwrite a document has not
  committed it.

`OutboxProofs` (every set of requests, documents, tenants and relays, every batch):

- `ObjectSafety` and `EventSafety` from `RegisterInv`: a request past `put` has its original
  stored, rows and events determine each other, and answers carry the id of the row.
- `PublishSafety` and `TypeCorrect` from `RelayInv`: row locks exclude each other, only
  unpublished rows are locked, and every stream entry but those of rolled back
  transactions belongs to one mark, committed or not.

`CircuitBreakerProofs` (every set of threads, limit and number of slots):

- `BreakerInvariant`: no ticket is ahead of the epoch, an open breaker that is not
  probing has no live call, a probing one at most one, a closed one is below its
  limit. From it `LimitSafety`.
- `SlotSafety`: the threads inside `generate` are a finite set whose size and the
  free slots make up the semaphore. With it `BreakerTypeCorrect`.
- `ProbeSafety`: `ProbeHasReporter`, assuming that `generate` catches whatever its
  call raises (`~Uncaught`). Without that it is false.
- `Refinement`: every step of `CircuitBreaker` is a step of `Breaker` or leaves its
  variables alone.

`QueryProofs`, the ledger (every set of requests and tenants, limit, bounds, usages and
days):

- `LedgerInvariant`: the totals row of a day is the sum of the day's settled charges and
  open reservations, and exceeds the limit by at most what its calls used beyond
  their bounds; entries and threads correspond. The totals must be known to be
  sums, because `reserve` tests totals while `Ceiling` speaks of entries.
- `CeilingSafety`, `SummarySafety`, `ChargeSafety` follow.
- `LedgerRefinement`: a step that changes entries is a step of `MemoryLedger` on one day
  and none on the others, so each day implements the reference.

`GatewayProofs`:

- `KeyCache`, for every interval, lifetime (`Refresh <= Cache`, as `Settings` demands)
  and deadline. `CacheInvariant` says that at most one request fetches, the next fetch
  is held back from the start of the last one, a document in flight is no older than its
  fetch, a cached key that is no longer published expires in time, and the cache is
  complete after a success. It gives `SpacingSafety`, `WithdrawalSafety` and
  `RotationSafety`.
- `RateLimiter`, for every burst, rate, resolution and backward step. `LifeCoversDeficit`
  says that in the life left to the Redis key the bucket fills, so forgetting it grants
  nothing: with it `RateSafety`. `RefusalSafety` is arithmetic on `Ceil`.
- `GatewayProxy`, for every set of exchanges and limits. `ProxyInv` says of each stage what
  was offered, forwarded, produced and buffered when it is reached, and that the
  policies' flags know of every start. It gives `ForwardSafety`, `SuccessSafety` and
  `ResponseSafety`.
- `Workspace`, for every set of handlers and logins. `WorkspaceInv`: no handler is ahead of
  the generation, and one of the current generation carries a token of this session.
  It gives `PageSafety` (`DocumentsEndWithSession`).

`DocumentProofs`:

- `UploadSafety`: `AnswerFitsUpload` for every limit and every way to cut a body into
  blocks and blocks into callbacks, a body without a part included. The client is ahead
  of the parser, so `UploadInv` connects the two: there is a trace of stages of the
  grammar, one per queued callback, from where the parser is to where the client is.
- `StoredSafety`: `StoredIsTheDocument` for every set of originals, objects and texts,
  every number of pages and every budget. `IndexingInv` says that after `n` pages the
  budget left, the mentions found and the chunks numbered are those of the first `n`
  pages, where the property speaks of characters counted from the document's beginning.
  `EntitiesFollow` shows that deduplication keeps the first of each key.

`QueryProofs`, the question (every finite set of documents and words, every corpus,
`rrf_k`, depth and threshold):

- `QueryInvariant`: committed rows are of one version per document, a replacing
  transaction's writes are of the new one, the snapshot is committed, both rankings list
  passages in scope of the snapshot without repetition, the hits are the fused rankings,
  and an answer that was given is grounded.
- `SnapshotSafety`, `GroundedSafety`, `FusionSafety` follow. The lemmas show that `Ordered`
  enumerates what it orders, that a better rank in one ranking and no worse one in the
  other make a better score, that citations are hits, and that every word of a supported
  extract is in its passage, which puts its confidence at 0.7 at least.

`ChunkerProofs` (pages of every length, every cap and overlap):

- `OffsetIsIsolated`: on a page that is not `Guarded`, the offsets of the page's
  tokenization count the tokens of every cut as tokenizing the cut would. A token ends
  behind a cut only if a pair of letters spans it, and then the cut is `InsideWord`; the
  tokens inside are those of the cut, shifted. So `Count` is `Isolated` for both
  chunkers, and both have the same units, windows and overlaps.
- `ChunkerInvariant`. Units are in order and leave out only whitespace and what is
  erased at a cut: a word's tokens follow one another and cover it but for erased
  characters, `Cuts` goes through them from the first, each piece starting behind the
  one before. A token cut out alone makes one token or is one character long: hence a
  unit that is over the cap is no longer than it (`FitsOrShort`), and the loop fails
  only at such a unit. Of the loop, `Reached` says how many units the chunks cover, that
  the next window starts behind the last chunk's start and no later than its end, and
  that what it repeats is within the budget. A longer cut from the same start has no
  fewer tokens (`IsolatedGrows`) and the budget is below the cap, so a window always
  reaches the end of the last chunk again; one that gets no further is dropped and loses
  nothing.
- `CoverSafety`, `LimitsSafety`: `ChunksCoverPage` and `ChunksWithinLimits` follow.
- `MatchSafety`: `MatchesReference`. The reference's loop runs after the fast one, so the
  invariant must remember how the fast loop came to its end without a history: `Leads`
  says that a state is in every set that has another one and is closed under a round.
  What the reference has still to do leads to where the fast loop is, and when nothing is
  left to do the two are equal. (`Leads` quantifies over all sets, hence TLC cannot
  evaluate it; it checks the property itself.)

`CountingTheorems` supplies what several proofs need: least elements of sets of
naturals, equal counts of sets related one to one, and that a finite sum may be taken in
any order (`SumSplit`). Induction there, and over the cuts of a word, is by least
counterexample, because the library's induction theorems take an operator as parameter,
which the provers cannot instantiate.

What the proofs found in the models:

- `SuccessIsComplete` bounds a reply by the limit its status selects. The bound by
  `max_upstream_response_bytes` alone, as it was first stated, is false when that is
  configured below the fixed limit of error replies.
- The key cache's lock must have a value that is no request, the upload's sniffed length
  and the indexing run's texts needed types, and the common denominator of scores may be
  any, not one product. Each became part of an assumption that TLC evaluates.
- `Cuts` names the tokens at which `_split_word` starts a piece. It follows a function from
  each start to the next, so that the recursion can be shown to have a value without
  knowing what a word's tokens are.
- Budgets and places of `Indexing` and sums of the ledger are functions over what is
  there, not over a bounded range, so that the statements mean the same for every size.

Every invariant and action property of the passing runs is stated by a theorem. Only
model-checked is liveness (`EntriesSettle`, `EventsArePublished`, `CircuitRecovers`):
fairness and `ENABLED` are out of the prover's reach. That a chunker ends is no liveness
property here: it takes at most one round per unit, which is part of `ChunksCoverPage`.

The theorems are about each part's own specification (`KeySpec`, `LedgerSpec`, ...). A
combined run checks the same formulas, because its `Next` lets one part step while the
others rest.

## Not modelled

- Embedding, entity, language and OCR providers: numeric models and native
  libraries. `Indexing` takes their answers freely; `Chunker` models the
  tokenizer only as far as the chunkers depend on it.
- Row level security and migrations: declarations, with no step of their own. The
  unique key and the tables they create appear in `Outbox` and `UsageLedger`.
- Observability, development identity, command line tools, fixtures and
  evaluation scripts: nothing they keep is read by the parts above.
- `replace_chunks_and_entities`, which no application calls; reads that change nothing
  (`GET /documents`, health); the language filter of a question, which narrows
  the scope as the document filter does.
- Rendering in the browser. Two weaknesses of `app.js` are reachable in `Workspace` and
  contradict nothing the repository says, so no property is stated about them:
  answers for two library pages may be painted in the other order (line 82), and a
  form submitted twice starts two polling intervals of which one is never cleared
  (line 102).

## What could follow

Everything whose state and order matter is modelled, and what can be proved of it is.
When the code changes, the modules to revisit are named in `PROJECT.json` by line. Two
extensions would say more:

1. A tokenizer with merges anywhere in a word. The proofs about chunks use only what the
   lemmas `IsolatedGrows`, `CutStarts` and `SpansAre` say of it: a longer cut has no
   fewer tokens, a cut between words has the page's tokens, and a word's tokens follow
   one another and cover it but for what is erased. A real vocabulary may break the
   first, and with it the claim that a dropped window loses nothing; a model of it would
   show under which condition.
2. Liveness beside faults that recur, which needs a bound on how often they do.
