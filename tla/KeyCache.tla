------------------------------ MODULE KeyCache ------------------------------
(***************************************************************************)
(* The gateway's signing key cache. Concurrent requests resolve the key id *)
(* of their token in Authenticator.key, which refreshes the key set from   *)
(* the issuer under an asyncio lock: single flight, with a back-off that   *)
(* starts before the fetch so that failures and unknown ids are spaced     *)
(* too. The issuer rotates its keys at any time, also between reading a    *)
(* fetch and its answer's arrival; fetches fail, hang until their deadline *)
(* and are cancelled with their request.                                   *)
(***************************************************************************)
EXTENDS Integers

CONSTANTS Requests,
          Usable, Foreign, Weak,  \* key ids by what signing_keys makes of them
          Cache, Refresh,         \* jwks_cache_seconds, jwks_refresh_seconds
          Deadline,               \* of HttpJwksSource.fetch
          MaxTime,                \* bound on the clock
          MaxRotations            \* bound on the issuer's changes

Unlocked == "unlocked"

KeyCacheAssumption ==
    /\ Unlocked \notin Requests
    /\ Refresh \in Nat \ {0} /\ Cache \in Nat \ {0} /\ Deadline \in Nat
    /\ Refresh <= Cache           \* Settings.cache_covers_refresh_cooldown
    /\ MaxTime \in Nat /\ MaxRotations \in Nat

Kids == Usable \cup Foreign \cup Weak
Never == -Refresh    \* a start so early that nothing waits for it

VARIABLES now,
          published, changed, rotations,  \* the issuer: its keys, when each one's
                                          \* presence last changed, changes so far
          keys, expires, nextRefresh,     \* the cache
          lock,                           \* the request holding the lock
          pc, kid,                        \* each request's step and its token's key id
          document,                       \* what the issuer read for the fetch
          started, failed                 \* history: the last fetch's start, and
                                          \* whether it failed

issuer == <<published, changed, rotations>>
cache == <<keys, expires, nextRefresh>>
fetch == <<document, started, failed>>
keyVars == <<now, issuer, cache, lock, pc, kid, fetch>>

KeyInit ==
    /\ now = 0
    /\ published \in SUBSET Kids
    /\ changed = [k \in Kids |-> 0]
    /\ rotations = 0
    /\ keys = {} /\ expires = Never /\ nextRefresh = Never
    /\ lock = Unlocked
    /\ pc = [r \in Requests |-> "idle"]
    /\ kid = [r \in Requests |-> CHOOSE k \in Kids : TRUE]
    /\ document = {} /\ started = Never /\ failed = FALSE

Goto(r, step) == pc' = [pc EXCEPT ![r] = step]
Waiting(r) == pc[r] \in {"fetching", "answered"}

\* asyncio.timeout ends a fetch at its deadline.
Clock ==
    /\ now < MaxTime
    /\ \A r \in Requests : Waiting(r) => now < started + Deadline
    /\ now' = now + 1
    /\ UNCHANGED <<issuer, cache, lock, pc, kid, fetch>>

Rotate(P) ==
    /\ rotations < MaxRotations
    /\ P # published
    /\ published' = P
    /\ changed' = [k \in Kids |-> IF (k \in P) # (k \in published) THEN now ELSE changed[k]]
    /\ rotations' = rotations + 1
    /\ UNCHANGED <<now, cache, lock, pc, kid, fetch>>

\* authenticate, up to the lock, for a token whose header names a key; others
\* are refused before they reach the cache. A decided request is replaced by
\* the next one.
RequestKey(r, k) ==
    /\ ~Waiting(r) /\ pc[r] # "queued"
    /\ kid' = [kid EXCEPT ![r] = k]
    /\ Goto(r, "queued")
    /\ UNCHANGED <<now, issuer, cache, lock, fetch>>

\* The client leaves while its request waits for the lock.
Cancel(r) ==
    /\ pc[r] = "queued"
    /\ Goto(r, "idle")
    /\ UNCHANGED <<now, issuer, cache, lock, kid, fetch>>

\* signing_keys: other key types are skipped, a weak or malformed key or an
\* empty result rejects the whole document.
Valid(doc) == doc \cap Weak = {} /\ doc \cap Usable # {}
SigningKeys(doc) == doc \cap Usable

\* Mutant: an id missing from a fresh cache is refused without a refresh.
MutantNeedsRefresh(r) == now >= expires

NeedsRefresh(r) == kid[r] \notin keys \/ now >= expires

\* The last test of key. A resolved key is what jwt.decode verifies with, in
\* the same event loop step.
Decide(r, ks, expiry) ==
    Goto(r, IF now < expiry /\ kid[r] \in ks THEN "resolved" ELSE "refused")

\* Mutant: the last test of key looks only for the id, so a set that could
\* not be refreshed is used forever.
MutantUseCache(r) ==
    /\ pc[r] = "queued" /\ lock = Unlocked
    /\ ~(NeedsRefresh(r) /\ now >= nextRefresh)
    /\ Decide(r, keys, now + 1)
    /\ UNCHANGED <<now, issuer, cache, lock, kid, fetch>>

\* key, without a refresh: lock, test and unlock in one event loop step.
UseCache(r) ==
    /\ pc[r] = "queued" /\ lock = Unlocked
    /\ ~(NeedsRefresh(r) /\ now >= nextRefresh)
    /\ Decide(r, keys, expires)
    /\ UNCHANGED <<now, issuer, cache, lock, kid, fetch>>

\* Mutant: the back-off starts with the answer, so failures are not spaced.
MutantStartFetch(r) ==
    /\ pc[r] = "queued" /\ lock = Unlocked
    /\ NeedsRefresh(r) /\ now >= nextRefresh
    /\ started' = now
    /\ lock' = r
    /\ Goto(r, "fetching")
    /\ UNCHANGED <<now, issuer, cache, kid, document, failed>>

\* key, up to the await: the back-off starts and the lock stays held.
StartFetch(r) ==
    /\ pc[r] = "queued" /\ lock = Unlocked
    /\ NeedsRefresh(r) /\ now >= nextRefresh
    /\ nextRefresh' = now + Refresh
    /\ started' = now
    /\ lock' = r
    /\ Goto(r, "fetching")
    /\ UNCHANGED <<now, issuer, keys, expires, kid, document, failed>>

\* The issuer reads its key set for the request.
IssuerReads(r) ==
    /\ pc[r] = "fetching"
    /\ document' = published
    /\ Goto(r, "answered")
    /\ UNCHANGED <<now, issuer, cache, lock, kid, started, failed>>

\* The answer arrives in time and holds usable keys.
Refreshed(r) ==
    /\ pc[r] = "answered"
    /\ Valid(document)
    /\ keys' = SigningKeys(document)
    /\ expires' = now + Cache
    /\ document' = {} /\ failed' = FALSE
    /\ lock' = Unlocked
    /\ Decide(r, keys', expires')
    /\ UNCHANGED <<now, issuer, nextRefresh, kid, started>>

\* The fetch fails, times out, is unusable, or its request is cancelled: the
\* error refuses the token and leaves the cached keys as they were.
FetchFails(r) ==
    /\ Waiting(r)
    /\ document' = {} /\ failed' = TRUE
    /\ lock' = Unlocked
    /\ Goto(r, "refused")
    /\ UNCHANGED <<now, issuer, cache, kid, started>>

Step(r) == UseCache(r) \/ StartFetch(r)
           \/ IssuerReads(r) \/ Refreshed(r) \/ FetchFails(r)

KeyNext ==
    \/ Clock
    \/ \E P \in SUBSET Kids : Rotate(P)
    \/ \E r \in Requests :
           \/ \E k \in Kids : RequestKey(r, k)
           \/ Step(r)
           \/ Cancel(r)

KeySpec == KeyInit /\ [][KeyNext]_keyVars

-----------------------------------------------------------------------------

Becomes(r, step) == pc[r] # step /\ pc'[r] = step
LongerOf(a, b) == IF a > b THEN a ELSE b

(* A withdrawn key stops being accepted: a token is verified only with a    *)
(* key the issuer publishes or withdrew less than the cache lifetime and    *)
(* one fetch ago, however the refreshes fail (auth.py, key).                *)
WithdrawnKeysExpire ==
    [][\A r \in Requests : Becomes(r, "resolved") =>
           LET k == kid[r]
           IN  k \in published \/ now < changed[k] + Deadline + Cache]_keyVars

(* Issuer traffic is bounded: two fetches start at least the back-off       *)
(* apart, whatever ids are asked for and whether or not the earlier fetch   *)
(* succeeded (auth.py: "arbitrary kids must not amplify IdP traffic").      *)
FetchesSpaced ==
    [][\A r \in Requests : Becomes(r, "fetching") => now >= started + Refresh]_keyVars

(* A rotation takes effect: while refreshes succeed, a token naming a      *)
(* usable key is refused only within the back-off or one fetch of the key's *)
(* publication. It rests on the cache outliving the back-off, which the     *)
(* settings validate (settings.py, cache_covers_refresh_cooldown).          *)
PublishedKeysWork ==
    [][\A r \in Requests :
           LET k == kid[r]
           IN  Becomes(r, "refused") /\ k \in published \cap Usable /\ ~failed'
                   => now <= changed[k] + LongerOf(Refresh, Deadline)]_keyVars

=============================================================================
