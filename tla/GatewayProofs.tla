---------------------------- MODULE GatewayProofs ----------------------------
(***************************************************************************)
(* What the gateway's parts and its browser page guarantee for any number  *)
(* of requests, handlers and sessions, and every setting. The key cache    *)
(* spaces its fetches, drops withdrawn keys and finds published ones. The  *)
(* rate limiter never admits more than a bucket kept in true time, however *)
(* often and far the clock is stepped back and whenever the bucket's key   *)
(* expires, and refuses for free. The proxy forwards whole requests,       *)
(* passes on whole successes and answers once, in every way an exchange    *)
(* can fail. The page lists and paints nothing of an earlier session, in   *)
(* whatever order requests are answered.                                   *)
(***************************************************************************)
EXTENDS KeyCache, RateLimiter, GatewayProxy, Workspace, TLAPS

-----------------------------------------------------------------------------
(* The key cache.                                                           *)

CacheType ==
    /\ now \in Nat
    /\ published \in SUBSET Kids
    /\ changed \in [Kids -> 0..now]
    /\ keys \in SUBSET Kids
    /\ expires \in Int /\ expires <= now + Cache
    /\ nextRefresh \in Int
    /\ started \in Int /\ started <= now
    /\ pc \in [Requests -> {"idle", "queued", "fetching", "answered", "resolved", "refused"}]
    /\ document \in SUBSET Kids

(* The asyncio lock makes refreshes single flight, and its deadline ends one. *)
SingleFlight ==
    \A r \in Requests : Waiting(r) => lock = r /\ now <= started + Deadline

(* The back-off runs from the start of the latest fetch. *)
BackOff == nextRefresh = started + Refresh \/ (started = Never /\ nextRefresh = Never)

(* What the issuer read differs from what it publishes now only in keys that *)
(* changed since the fetch started.                                          *)
DocumentIsRecent ==
    \A r \in Requests : pc[r] = "answered" =>
        \A k \in Kids : (k \in document) # (k \in published) => started <= changed[k]

(* A cached key is published, or was withdrawn during or after the fetch     *)
(* that brought it, and the whole set expires together.                      *)
CachedKeysExpire ==
    \A k \in keys \ published : expires <= changed[k] + Deadline + Cache

(* After a successful refresh the cache holds every usable key, unless it    *)
(* was published since the fetch started, for a lifetime from that start.    *)
RefreshIsComplete ==
    lock = Unlocked /\ ~failed /\ started # Never =>
        /\ started + Cache <= expires
        /\ \A k \in published \cap Usable : k \in keys \/ started <= changed[k]

KeyInv ==
    /\ CacheType
    /\ SingleFlight
    /\ BackOff
    /\ DocumentIsRecent
    /\ CachedKeysExpire
    /\ RefreshIsComplete

-----------------------------------------------------------------------------

(* Every disjunct of Next, for a case analysis. *)
LEMMA KeyNextCases ==
    ASSUME KeyNext
    PROVE  \/ Clock
           \/ \E P \in SUBSET Kids : Rotate(P)
           \/ \E r \in Requests, k \in Kids : RequestKey(r, k)
           \/ \E r \in Requests : Cancel(r)
           \/ \E r \in Requests : UseCache(r)
           \/ \E r \in Requests : StartFetch(r)
           \/ \E r \in Requests : IssuerReads(r)
           \/ \E r \in Requests : Refreshed(r)
           \/ \E r \in Requests : FetchFails(r)
BY DEF KeyNext, Step

(* The cache's inductive invariant. *)
THEOREM CacheInvariant ==
    ASSUME KeyCacheAssumption
    PROVE  KeySpec => []KeyInv
<1> USE DEF KeyCacheAssumption
<1>1. KeyInit => KeyInv
  <2> SUFFICES ASSUME KeyInit PROVE KeyInv
    OBVIOUS
  <2>1. CacheType
    <3>1. -Refresh \in Int /\ -Refresh <= 0 /\ Cache \in Nat
      OBVIOUS
    <3> QED  BY <3>1 DEF KeyInit, CacheType, Never
  <2>2. SingleFlight /\ BackOff /\ DocumentIsRecent
    BY DEF KeyInit, SingleFlight, BackOff, DocumentIsRecent, Waiting
  <2>3. CachedKeysExpire /\ RefreshIsComplete
    BY DEF KeyInit, CachedKeysExpire, RefreshIsComplete
  <2> QED  BY <2>1, <2>2, <2>3 DEF KeyInv
<1>2. KeyInv /\ [KeyNext]_keyVars => KeyInv'
  <2> SUFFICES ASSUME KeyInv, [KeyNext]_keyVars PROVE KeyInv'
    OBVIOUS
  <2> USE DEF KeyInv, CacheType, SingleFlight, BackOff, DocumentIsRecent, CachedKeysExpire,
              RefreshIsComplete, Waiting, Goto, issuer, cache, fetch
  <2>1. CASE UNCHANGED keyVars
    BY <2>1 DEF keyVars
  <2>2. CASE Clock
    BY <2>2 DEF Clock
  <2>3. ASSUME NEW P \in SUBSET Kids, Rotate(P) PROVE KeyInv'
    BY <2>3 DEF Rotate
  <2>4. ASSUME NEW r \in Requests, NEW k \in Kids, RequestKey(r, k) PROVE KeyInv'
    BY <2>4 DEF RequestKey
  <2>5. ASSUME NEW r \in Requests, Cancel(r) PROVE KeyInv'
    BY <2>5 DEF Cancel
  <2>6. ASSUME NEW r \in Requests, UseCache(r) PROVE KeyInv'
    BY <2>6 DEF UseCache, Decide
  <2>7. ASSUME NEW r \in Requests, StartFetch(r) PROVE KeyInv'
    BY <2>7 DEF StartFetch
  <2>8. ASSUME NEW r \in Requests, IssuerReads(r) PROVE KeyInv'
    BY <2>8 DEF IssuerReads
  <2>9. ASSUME NEW r \in Requests, Refreshed(r) PROVE KeyInv'
    <3>1. /\ pc[r] = "answered"
          /\ keys' = document \cap Usable
          /\ expires' = now + Cache
          /\ document' = {} /\ failed' = FALSE /\ lock' = Unlocked
          /\ UNCHANGED <<now, issuer, nextRefresh, kid, started>>
          /\ \E step \in {"resolved", "refused"} : pc' = [pc EXCEPT ![r] = step]
      BY <2>9 DEF Refreshed, Decide, SigningKeys
    <3>2. lock = r /\ now <= started + Deadline
      BY <3>1
    <3>3. CacheType' /\ BackOff'
      BY <3>1
    <3>4. SingleFlight' /\ DocumentIsRecent'
      BY <3>1, <3>2
    <3>5. CachedKeysExpire'
      BY <3>1, <3>2
    <3>6. RefreshIsComplete'
      BY <3>1, <3>2
    <3> QED  BY <3>3, <3>4, <3>5, <3>6
  <2>10. ASSUME NEW r \in Requests, FetchFails(r) PROVE KeyInv'
    BY <2>10 DEF FetchFails
  <2> QED  BY <2>1, <2>2, <2>3, <2>4, <2>5, <2>6, <2>7, <2>8, <2>9, <2>10, KeyNextCases
<1> QED  BY <1>1, <1>2, PTL DEF KeySpec

-----------------------------------------------------------------------------

(* The steps that decide a request or start a fetch. *)
LEMMA PcSteps ==
    ASSUME KeyInv, [KeyNext]_keyVars, NEW r \in Requests
    PROVE  /\ Becomes(r, "fetching") => StartFetch(r)
           /\ Becomes(r, "resolved") => UseCache(r) \/ Refreshed(r)
           /\ Becomes(r, "refused") => UseCache(r) \/ Refreshed(r) \/ FetchFails(r)
<1> USE DEF Becomes, Goto, KeyInv, CacheType
<1>1. CASE UNCHANGED keyVars \/ Clock \/ \E P \in SUBSET Kids : Rotate(P)
  BY <1>1 DEF keyVars, Clock, Rotate
<1>2. ASSUME NEW s \in Requests, Cancel(s) \/ \E k \in Kids : RequestKey(s, k)
      PROVE  pc'[r] \in {pc[r], "queued", "idle"}
  BY <1>2 DEF RequestKey, Cancel
<1>3. ASSUME NEW s \in Requests, Step(s), s # r PROVE pc'[r] = pc[r]
  BY <1>3 DEF Step, UseCache, StartFetch, IssuerReads, Refreshed, FetchFails, Decide
<1>4. /\ UseCache(r) => pc'[r] \in {"resolved", "refused"}
      /\ StartFetch(r) => pc'[r] = "fetching"
      /\ IssuerReads(r) => pc'[r] = "answered"
      /\ Refreshed(r) => pc'[r] \in {"resolved", "refused"}
      /\ FetchFails(r) => pc'[r] = "refused"
  BY DEF UseCache, StartFetch, IssuerReads, Refreshed, FetchFails, Decide
<1>5. CASE \E s \in Requests : \/ \E k \in Kids : RequestKey(s, k)
                               \/ Step(s) \/ Cancel(s)
  <2>1. CASE Step(r)
    BY <1>4, <2>1 DEF Step
  <2> QED  BY <1>2, <1>3, <1>5, <2>1
<1> QED  BY <1>1, <1>5 DEF KeyNext

(* Issuer traffic is bounded for every sequence of key ids, failures and     *)
(* cancellations.                                                            *)
THEOREM SpacingSafety ==
    ASSUME KeyCacheAssumption
    PROVE  KeySpec => FetchesSpaced
<1>1. KeyInv /\ [KeyNext]_keyVars =>
          [\A r \in Requests : Becomes(r, "fetching") => now >= started + Refresh]_keyVars
  <2> SUFFICES ASSUME KeyInv, [KeyNext]_keyVars, NEW r \in Requests, Becomes(r, "fetching")
               PROVE  now >= started + Refresh
    OBVIOUS
  <2>1. now >= nextRefresh
    BY PcSteps DEF StartFetch
  <2> QED  BY <2>1 DEF KeyInv, CacheType, BackOff, Never, KeyCacheAssumption
<1> QED  BY <1>1, CacheInvariant, PTL DEF KeySpec, FetchesSpaced

(* No token is verified with a key withdrawn longer ago than one fetch and   *)
(* one cache lifetime, even if every refresh since has failed.               *)
THEOREM WithdrawalSafety ==
    ASSUME KeyCacheAssumption
    PROVE  KeySpec => WithdrawnKeysExpire
<1>1. KeyInv /\ [KeyNext]_keyVars =>
          [\A r \in Requests : Becomes(r, "resolved") =>
               LET k == kid[r]
               IN  k \in published \/ now < changed[k] + Deadline + Cache]_keyVars
  <2> SUFFICES ASSUME KeyInv, [KeyNext]_keyVars, NEW r \in Requests, Becomes(r, "resolved"),
                      kid[r] \notin published
               PROVE  now < changed[kid[r]] + Deadline + Cache
    OBVIOUS
  <2> USE DEF KeyCacheAssumption, KeyInv, CacheType, Goto, Becomes
  <2>1. CASE UseCache(r)
    <3>1. now < expires /\ kid[r] \in keys
      BY <2>1 DEF UseCache, Decide
    <3> QED  BY <3>1 DEF CachedKeysExpire
  <2>2. CASE Refreshed(r)
    <3>1. pc[r] = "answered" /\ kid[r] \in document
      BY <2>2 DEF Refreshed, Decide, SigningKeys
    <3>2. started <= changed[kid[r]] /\ now <= started + Deadline
      BY <3>1 DEF DocumentIsRecent, SingleFlight, Waiting
    <3> QED  BY <3>1, <3>2
  <2> QED  BY <2>1, <2>2, PcSteps
<1> QED  BY <1>1, CacheInvariant, PTL DEF KeySpec, WithdrawnKeysExpire

(* While refreshes succeed a published key is found once the back-off or the *)
(* fetch under way is over, because the cache outlives the back-off.         *)
THEOREM RotationSafety ==
    ASSUME KeyCacheAssumption
    PROVE  KeySpec => PublishedKeysWork
<1>1. KeyInv /\ [KeyNext]_keyVars =>
          [\A r \in Requests :
               LET k == kid[r]
               IN  Becomes(r, "refused") /\ k \in published \cap Usable /\ ~failed'
                       => now <= changed[k] + LongerOf(Refresh, Deadline)]_keyVars
  <2> SUFFICES ASSUME KeyInv, [KeyNext]_keyVars, NEW r \in Requests, Becomes(r, "refused"),
                      kid[r] \in published \cap Usable, ~failed'
               PROVE  now <= changed[kid[r]] + LongerOf(Refresh, Deadline)
    OBVIOUS
  <2> USE DEF KeyCacheAssumption, KeyInv, CacheType, Goto, Becomes
  <2>0. LongerOf(Refresh, Deadline) >= Refresh /\ LongerOf(Refresh, Deadline) >= Deadline
        /\ LongerOf(Refresh, Deadline) \in Nat
    BY DEF LongerOf
  <2>1. CASE UseCache(r)
    <3>1. /\ lock = Unlocked /\ ~failed
          /\ kid[r] \notin keys \/ now >= expires
          /\ now < nextRefresh
      BY <2>1 DEF UseCache, Decide, NeedsRefresh, fetch
    <3>2. started # Never /\ now < started + Refresh
      BY <3>1 DEF BackOff, Never
    <3>3. now < expires
      BY <3>1, <3>2 DEF RefreshIsComplete
    <3>4. started <= changed[kid[r]]
      BY <3>1, <3>2, <3>3 DEF RefreshIsComplete
    <3> QED  BY <2>0, <3>2, <3>4
  <2>2. CASE Refreshed(r)
    <3>1. pc[r] = "answered" /\ kid[r] \notin document
      BY <2>2 DEF Refreshed, Decide, SigningKeys
    <3>2. started <= changed[kid[r]] /\ now <= started + Deadline
      BY <3>1 DEF DocumentIsRecent, SingleFlight, Waiting
    <3> QED  BY <2>0, <3>1, <3>2
  <2>3. ~FetchFails(r)
    BY DEF FetchFails
  <2> QED  BY <2>1, <2>2, <2>3, PcSteps
<1> QED  BY <1>1, CacheInvariant, PTL DEF KeySpec, PublishedKeysWork

-----------------------------------------------------------------------------
(* The rate limiter.                                                        *)

(* The bucket's values; age may be negative, ideal is bounded from below by  *)
(* NeverAboveRate.                                                           *)
BucketType ==
    /\ tokens \in 0..Full
    /\ age \in Int
    /\ left \in Nat
    /\ ideal \in Int /\ ideal <= Full
    /\ steps \in Nat

(* The key outlives its deficit: in the life left to it the bucket kept in   *)
(* true time fills, so forgetting the key grants nothing. Stepping the clock *)
(* back only lengthens that life.                                            *)
LifeCoversDeficit == ideal + left * Rate >= Full

BucketInv ==
    /\ BucketType
    /\ LifeCoversDeficit
    /\ NeverAboveRate

-----------------------------------------------------------------------------
(* Arithmetic. *)

(* Ceil rounds up, and by less than one step. *)
LEMMA CeilBounds ==
    ASSUME NEW a \in Int, NEW b \in Nat \ {0}
    PROVE  /\ Ceil(a, b) \in Int
           /\ Ceil(a, b) * b >= a
           /\ (Ceil(a, b) - 1) * b < a
<1> DEFINE q == (a + b - 1) \div b
<1>1. q \in Int /\ b * q <= a + b - 1 /\ a + b - 1 < b * q + b
  OBVIOUS
<1>2. q * b = b * q /\ (q - 1) * b = b * q - b
  BY <1>1
<1> QED  BY <1>1, <1>2 DEF Ceil

(* Products of naturals. *)
LEMMA Products ==
    ASSUME NEW a \in Nat, NEW b \in Nat
    PROVE  a * b \in Nat /\ (a + 1) * b = a * b + b
OBVIOUS

LEMMA ProductMonotone ==
    ASSUME NEW a \in Int, NEW c \in Int, a <= c, NEW b \in Nat
    PROVE  a * b \in Int /\ c * b \in Int /\ a * b <= c * b
OBVIOUS

-----------------------------------------------------------------------------

(* The bucket's capacity and life are positive, and the life covers a fill. *)
LEMMA FullAndLife ==
    ASSUME RateAssumption
    PROVE  /\ Full \in Nat \ {0} /\ Scale <= Full
           /\ Life \in Nat \ {0} /\ Life * Rate >= Full
<1> USE DEF RateAssumption
<1>1. Full \in Nat \ {0} /\ Scale <= Full
  <2>1. Burst \in Nat \ {0} /\ Scale \in Nat \ {0}
    OBVIOUS
  <2>2. 1 * Scale <= Burst * Scale /\ Burst * Scale \in Int
    BY <2>1, ProductMonotone
  <2> QED  BY <2>1, <2>2 DEF Full
<1>2. Ceil(Full, Rate) \in Int /\ Ceil(Full, Rate) * Rate >= Full
  <2>1. Full \in Int /\ Rate \in Nat \ {0}
    BY <1>1
  <2> QED  BY <2>1, CeilBounds
<1>3. Life \in Nat \ {0} /\ Ceil(Full, Rate) <= Life
  BY <1>2 DEF Life, Larger
<1>4. Ceil(Full, Rate) * Rate <= Life * Rate /\ Life * Rate \in Int
  BY <1>2, <1>3, ProductMonotone
<1>5. Life * Rate >= Full
  BY <1>1, <1>2, <1>4
<1> QED  BY <1>1, <1>3, <1>5

(* What the script finds is a legal content of the bucket. *)
LEMMA RefilledRange ==
    ASSUME RateAssumption, BucketType
    PROVE  Refilled \in 0..Full
<1>1. Full \in Nat \ {0} /\ Rate \in Nat
  BY FullAndLife DEF RateAssumption
<1>2. Larger(0, age) * Rate \in Nat
  BY <1>1, Products DEF BucketType, Larger
<1> QED  BY <1>1, <1>2 DEF Refilled, Least, BucketType

(* The limit holds in true time for every configuration. *)
THEOREM RateInvariant ==
    ASSUME RateAssumption
    PROVE  BucketSpec => []BucketInv
<1> USE DEF RateAssumption
<1>0. Full \in Nat \ {0} /\ Scale \in Nat \ {0} /\ Rate \in Nat \ {0}
  BY FullAndLife
<1>1. BucketInit => BucketInv
  BY <1>0 DEF BucketInit, BucketInv, BucketType, LifeCoversDeficit, NeverAboveRate, Refilled
<1>2. BucketInv /\ [BucketNext]_bucketVars => BucketInv'
  <2> SUFFICES ASSUME BucketInv, [BucketNext]_bucketVars PROVE BucketInv'
    OBVIOUS
  <2>0. /\ tokens \in 0..Full /\ age \in Int /\ left \in Nat /\ steps \in Nat
        /\ ideal \in 0..Full
        /\ Refilled \in 0..Full /\ Refilled <= ideal
        /\ left * Rate \in Nat /\ ideal + left * Rate >= Full
    <3>1. Refilled \in 0..Full /\ left * Rate \in Nat
      BY <1>0, RefilledRange, Products DEF BucketInv, BucketType
    <3> QED  BY <1>0, <3>1 DEF BucketInv, BucketType, LifeCoversDeficit, NeverAboveRate
  <2>1. CASE UNCHANGED bucketVars
    BY <2>1 DEF bucketVars, BucketInv, BucketType, LifeCoversDeficit, NeverAboveRate, Refilled
  <2>2. CASE Consume
    <3> DEFINE allowed == Refilled >= Scale
    <3>1. /\ tokens' = IF allowed THEN Refilled - Scale ELSE Refilled
          /\ age' \in Int /\ age' <= 0
          /\ left' = Life /\ steps' = steps
          /\ ideal' = IF allowed THEN ideal - Scale ELSE ideal
      BY <2>0, <2>2 DEF Consume, Stored, Least
    <3>2. BucketType'
      BY <1>0, <2>0, <3>1, FullAndLife DEF BucketType, Full
    <3>3. LifeCoversDeficit'
      <4>1. Life * Rate >= Full /\ Life * Rate \in Int /\ ideal' >= 0 /\ ideal' \in Int
        BY <1>0, <2>0, <3>1, FullAndLife, ProductMonotone
      <4> QED  BY <1>0, <3>1, <4>1 DEF LifeCoversDeficit, Full
    <3>4. NeverAboveRate'
      <4>1. Refilled' = tokens'
        BY <1>0, <2>0, <3>1, FullAndLife DEF Refilled, Least, Larger, Full
      <4> QED  BY <1>0, <2>0, <3>1, <4>1 DEF NeverAboveRate
    <3> QED  BY <3>2, <3>3, <3>4 DEF BucketInv
  <2>3. CASE Tick
    <3>1. /\ left' = Larger(0, left - 1)
          /\ tokens' = IF left' = 0 THEN Full ELSE tokens
          /\ age' = IF left' = 0 THEN 0 ELSE age + 1
          /\ ideal' = Least(Full, ideal + Rate) /\ steps' = steps
      BY <2>3 DEF Tick
    <3>2. BucketType'
      BY <1>0, <2>0, <3>1 DEF BucketType, Larger, Least, Full
    <3>3. CASE left <= 1
      <4>1. left * Rate <= 1 * Rate
        BY <1>0, <2>0, <3>3, ProductMonotone
      <4>2. left' = 0 /\ ideal' = Full
        BY <1>0, <2>0, <3>1, <3>3, <4>1 DEF Larger, Least
      <4> QED  BY <1>0, <3>1, <3>2, <4>2
               DEF BucketInv, LifeCoversDeficit, NeverAboveRate, Refilled, Full
    <3>4. CASE left > 1
      <4>1. left' = left - 1 /\ left' # 0 /\ tokens' = tokens /\ age' = age + 1
        BY <2>0, <3>1, <3>4 DEF Larger
      <4>2. left' * Rate = left * Rate - Rate /\ left' * Rate \in Nat
        BY <1>0, <2>0, <4>1, <3>4, Products
      <4>3. LifeCoversDeficit'
        BY <1>0, <2>0, <3>1, <4>1, <4>2 DEF LifeCoversDeficit, Least, Full
      <4> DEFINE gap == Larger(0, age)
                 gap2 == Larger(0, age + 1)
      <4>4. gap \in Nat /\ gap2 \in Nat /\ gap2 <= gap + 1
        BY <2>0 DEF Larger
      <4>5. /\ gap * Rate \in Nat /\ (gap + 1) * Rate = gap * Rate + Rate
            /\ gap2 * Rate \in Nat /\ gap2 * Rate <= (gap + 1) * Rate
        BY <1>0, <4>4, Products, ProductMonotone
      <4>6. Refilled = Least(Full, tokens + gap * Rate)
        BY <2>0, <3>4 DEF Refilled
      <4>7. Refilled' = Least(Full, tokens + gap2 * Rate)
        BY <4>1 DEF Refilled, Full
      <4> HIDE DEF gap, gap2
      <4>8. Refilled' <= ideal'
        BY <1>0, <2>0, <3>1, <4>5, <4>6, <4>7 DEF Least
      <4> QED  BY <2>0, <3>2, <4>1, <4>3, <4>8 DEF BucketInv, NeverAboveRate
    <3> QED  BY <2>0, <3>3, <3>4
  <2>4. ASSUME NEW n \in 1..MaxBack, StepBack(n) PROVE BucketInv'
    <3>1. /\ age' = age - n /\ left' = left + n /\ steps' = steps + 1
          /\ left > 0 /\ n \in Nat
          /\ UNCHANGED <<tokens, last, ideal>>
      BY <2>4 DEF StepBack
    <3>2. BucketType'
      BY <1>0, <2>0, <3>1 DEF BucketType, Full
    <3>3. LifeCoversDeficit'
      <4>1. left * Rate <= left' * Rate /\ left' * Rate \in Int
        BY <1>0, <2>0, <3>1, ProductMonotone
      <4> QED  BY <1>0, <2>0, <3>1, <4>1 DEF LifeCoversDeficit, Full
    <3>4. NeverAboveRate'
      <4> DEFINE gap == Larger(0, age)
                 gap2 == Larger(0, age - n)
      <4>1. gap \in Nat /\ gap2 \in Nat /\ gap2 <= gap
        BY <2>0, <3>1 DEF Larger
      <4>2. gap * Rate \in Int /\ gap2 * Rate \in Int /\ gap2 * Rate <= gap * Rate
        BY <1>0, <4>1, ProductMonotone
      <4>3. /\ Refilled = Least(Full, tokens + gap * Rate)
            /\ Refilled' = Least(Full, tokens + gap2 * Rate)
        BY <2>0, <3>1 DEF Refilled, Full
      <4> HIDE DEF gap, gap2
      <4> QED  BY <1>0, <2>0, <3>1, <4>2, <4>3 DEF NeverAboveRate, Least
    <3> QED  BY <3>2, <3>3, <3>4 DEF BucketInv
  <2> QED  BY <2>1, <2>2, <2>3, <2>4 DEF BucketNext
<1> QED  BY <1>1, <1>2, PTL DEF BucketSpec

(* No interleaving of requests, expiry and backward clock steps grants more  *)
(* than the configured rate and burst.                                       *)
THEOREM RateSafety ==
    ASSUME RateAssumption
    PROVE  BucketSpec => []NeverAboveRate
<1>1. BucketInv => NeverAboveRate
  BY DEF BucketInv
<1> QED  BY <1>1, RateInvariant, PTL

(* A refused request leaves the bucket as it was, to the last fraction, and  *)
(* Retry-After is the least number of seconds that suffices.                 *)
THEOREM RefusalSafety ==
    ASSUME RateAssumption
    PROVE  BucketSpec => RefusalIsFree
<1> USE DEF RateAssumption
<1>1. ASSUME BucketInv, Consume, ~last'.allowed
      PROVE  /\ Refilled' = Refilled
             /\ tokens' + last'.retry * Second * Rate >= Scale
             /\ tokens' + (last'.retry - 1) * Second * Rate < Scale
  <2>1. Full \in Nat \ {0} /\ Rate \in Nat \ {0} /\ Second \in Nat \ {0} /\ Scale \in Nat
    BY FullAndLife
  <2>2. Refilled \in 0..Full
    BY <1>1, RefilledRange DEF BucketInv
  <2>3. /\ tokens' = Refilled /\ left' = Life
        /\ age' = IF left = 0 THEN 0 ELSE Least(0, age)
        /\ last'.retry = Retry(Refilled)
    BY <1>1 DEF Consume, Stored
  <2>4. Refilled' = Refilled
    <3>1. Larger(0, age') = 0 /\ left' # 0
      BY <1>1, <2>3, FullAndLife DEF BucketInv, BucketType, Larger, Least
    <3> QED  BY <2>1, <2>2, <2>3, <3>1 DEF Refilled, Least, Full
  <2> DEFINE step == Rate * Second
             retry == Retry(Refilled)
  <2>5. step \in Nat \ {0}
    BY <2>1
  <2>6. /\ retry \in Int /\ retry * step >= Scale - Refilled
        /\ (retry - 1) * step < Scale - Refilled
    <3>1. Scale - Refilled \in Int
      BY <2>1, <2>2
    <3> HIDE DEF step
    <3> QED  BY <2>5, <3>1, CeilBounds DEF Retry, step
  <2>7. \A x \in Int : x * Second * Rate = x * step
    BY <2>1
  <2>8. /\ retry * Second * Rate = retry * step /\ retry * step \in Int
        /\ (retry - 1) * Second * Rate = (retry - 1) * step /\ (retry - 1) * step \in Int
    BY <2>5, <2>6, <2>7
  <2> HIDE DEF step, retry
  <2> QED  BY <2>1, <2>2, <2>3, <2>4, <2>6, <2>8 DEF retry
<1>2. BucketInv /\ [BucketNext]_bucketVars =>
          [Consume /\ ~last'.allowed =>
               /\ Refilled' = Refilled
               /\ last'.prompt =>
                      /\ tokens' + last'.retry * Second * Rate >= Scale
                      /\ tokens' + (last'.retry - 1) * Second * Rate < Scale]_bucketVars
  BY <1>1
<1> QED  BY <1>2, RateInvariant, PTL DEF BucketSpec, RefusalIsFree

-----------------------------------------------------------------------------
(* The proxy.                                                               *)

Before == {"route", "auth", "quota", "dispatch", "send", "await", "read"}
After == {"respond", "body", "raised", "reraised", "done", "aborted"}
Statuses == {Ok, "4xx", "504", "5xx", "none"}
Answers == Statuses \cup {"400", "401", "403", "413", "429", "500", "502", "503"}

(* The properties of one exchange, as far as typing matters to them. *)
Entries ==
    [user : Users, pc : Before \cup After, offered : Nat, ended : BOOLEAN, received : Nat,
     complete : BOOLEAN, cookie : {Nobody}, status : Statuses, produced : Nat, buffer : Nat,
     answer : Answers, by : {"route", "inner", "outer"}, inner : BOOLEAN, outer : BOOLEAN,
     starts : Nat, lost : BOOLEAN]

(* The body: nothing is offered before it is sent, all of it is forwarded    *)
(* while it is, and the upstream takes it for complete only afterwards.      *)
Forwarded(e) ==
    /\ e.pc \in {"route", "auth", "quota", "dispatch"} => e.offered = 0 /\ e.received = 0
    /\ e.pc = "send" => e.received = e.offered /\ e.offered <= MaxUpload
    /\ e.pc \in {"route", "auth", "quota", "dispatch", "send"} => ~e.complete
    /\ e.complete => e.ended /\ e.received = e.offered /\ e.offered <= MaxUpload

Limit(e) == IF e.status = Ok THEN MaxReply ELSE MaxErrorReply

(* The reply: what is buffered is what the upstream produced, until an       *)
(* answer is chosen.                                                         *)
Buffered(e) ==
    /\ e.buffer <= Limit(e)
    /\ e.pc \in Before => e.answer = "none" /\ e.buffer = e.produced
    /\ e.pc \in Before \ {"read"} => e.buffer = 0
    /\ e.answer = Ok => e.status = Ok /\ e.buffer = e.produced

(* The response: the flags of the policies know of every start, and once the *)
(* outer one is set only a client that is gone makes a sender raise.         *)
Answered(e) ==
    /\ e.starts <= 1
    /\ e.starts = 1 => e.outer
    /\ e.pc \in Before => e.by = "route" /\ ~e.inner
    /\ e.pc \in Before \cup {"respond"} => ~e.outer
    /\ e.pc \in {"body", "done"} => e.starts = 1
    /\ e.pc = "body" /\ e.by = "route" => e.inner
    /\ e.pc = "raised" => e.by = "route" /\ (e.outer => e.inner)
    /\ e.pc = "reraised" => e.by # "outer"
    /\ e.pc \in {"raised", "reraised"} /\ e.outer => e.lost
    /\ e.pc = "aborted" => e.lost

Good(e) == Forwarded(e) /\ Buffered(e) /\ Answered(e)

ProxyInv ==
    /\ req \in [Exchanges -> Entries]
    /\ \A r \in Exchanges : Good(req[r])

-----------------------------------------------------------------------------

(* A step of one exchange leaves the others as they are. *)
LEMMA OneExchange ==
    ASSUME ProxyInv, NEW r \in Exchanges, NEW e \in Entries, Good(e),
           req' = [req EXCEPT ![r] = e]
    PROVE  ProxyInv'
<1>1. req' \in [Exchanges -> Entries]
  BY DEF ProxyInv
<1>2. ASSUME NEW x \in Exchanges PROVE Good(req'[x])
  <2>1. CASE x = r
    BY <2>1 DEF ProxyInv
  <2>2. CASE x # r
    BY <2>2 DEF ProxyInv
  <2> QED  BY <2>1, <2>2
<1> QED  BY <1>1, <1>2 DEF ProxyInv, Good, Forwarded, Buffered, Answered, Limit

(* Choosing an answer, at any point of the exchange. *)
LEMMA AnswerStep ==
    ASSUME ProxyInv, NEW r \in Exchanges, req[r].pc \in Before,
           NEW a \in Answers, a = Ok => req[r].status = Ok, Answer(r, a)
    PROVE  ProxyInv'
<1> DEFINE call == req[r]
           e == [call EXCEPT !.answer = a, !.pc = "respond"]
<1>1. call \in Entries /\ Good(call)
  BY DEF ProxyInv
<1>2. e \in Entries /\ Good(e)
  BY <1>1 DEF Entries, Before, After, Good, Forwarded, Buffered, Answered, Limit
<1>3. req' = [req EXCEPT ![r] = e]
  BY DEF Answer
<1> HIDE DEF e
<1> QED  BY <1>2, <1>3, OneExchange

(* Admission moves on or answers. *)
LEMMA AdmissionStep ==
    ASSUME ProxyAssumption, ProxyInv, NEW r \in Exchanges, Route(r) \/ Authenticate(r) \/ Quota(r) \/ Dispatch(r)
    PROVE  ProxyInv'
<1> DEFINE call == req[r]
           moved(step) == [call EXCEPT !.pc = step]
           dispatched == [call EXCEPT !.pc = "send", !.cookie = Cookies]
<1>1. call \in Entries /\ Good(call)
  BY DEF ProxyInv
<1>2. CASE /\ call.pc \in Before
           /\ \E a \in {"400", "401", "403", "413", "429", "4xx", "503"} : Answer(r, a)
  BY <1>2, AnswerStep DEF Answers, Statuses, Ok
<1>3. CASE At(r, "route") /\ req' = [req EXCEPT ![r].pc = "auth"]
  <2>1. moved("auth") \in Entries /\ Good(moved("auth"))
    BY <1>1, <1>3 DEF At, Entries, Before, After, Good, Forwarded, Buffered, Answered, Limit
  <2> QED  BY <1>3, <2>1, OneExchange
<1>4. CASE At(r, "auth") /\ req' = [req EXCEPT ![r].pc = "quota"]
  <2>1. moved("quota") \in Entries /\ Good(moved("quota"))
    BY <1>1, <1>4 DEF At, Entries, Before, After, Good, Forwarded, Buffered, Answered, Limit
  <2> QED  BY <1>4, <2>1, OneExchange
<1>5. CASE At(r, "quota") /\ req' = [req EXCEPT ![r].pc = "dispatch"]
  <2>1. moved("dispatch") \in Entries /\ Good(moved("dispatch"))
    BY <1>1, <1>5 DEF At, Entries, Before, After, Good, Forwarded, Buffered, Answered, Limit
  <2> QED  BY <1>5, <2>1, OneExchange
<1>6. CASE At(r, "dispatch") /\ req' = [req EXCEPT ![r].pc = "send", ![r].cookie = Cookies]
  <2>1. dispatched \in Entries
    BY <1>1 DEF Cookies, Entries, Before
  <2>3. Forwarded(dispatched)
    BY <1>1, <1>6 DEF ProxyAssumption, At, Entries, Good, Forwarded
  <2>4. Buffered(dispatched) /\ Answered(dispatched)
    BY <1>1, <1>6 DEF At, Entries, Before, Good, Buffered, Answered, Limit
  <2>2. req' = [req EXCEPT ![r] = dispatched]
    BY <1>6
  <2> HIDE DEF dispatched
  <2> QED  BY <2>1, <2>2, <2>3, <2>4, OneExchange DEF Good
<1> QED  BY <1>2, <1>3, <1>4, <1>5, <1>6
         DEF Route, Authenticate, Quota, Dispatch, At, Before

(* The client's body on its way to the upstream. *)
LEMMA SendingStep ==
    ASSUME ProxyAssumption, ProxyInv, NEW r \in Exchanges,
           EndOfBody(r) \/ Leave(r) \/ StopReading(r) \/ \E n \in Blocks : Forward(r, n)
    PROVE  ProxyInv'
<1> DEFINE call == req[r]
           ended == [call EXCEPT !.ended = TRUE, !.complete = TRUE, !.pc = "await"]
           stopped == [call EXCEPT !.pc = "await"]
<1> USE DEF At, Entries, Before, After, Good, Forwarded, Buffered, Answered, Limit
<1>1. call \in Entries /\ Good(call)
  BY DEF ProxyInv
<1>2. CASE EndOfBody(r)
  <2>1. ended \in Entries /\ Good(ended)
    BY <1>1, <1>2 DEF EndOfBody
  <2>2. req' = [req EXCEPT ![r] = ended]
    BY <1>2 DEF EndOfBody
  <2> HIDE DEF ended
  <2> QED  BY <2>1, <2>2, OneExchange
<1>3. CASE Leave(r)
  BY <1>3, AnswerStep DEF Leave, Answers, Ok
<1>4. CASE StopReading(r)
  <2>1. stopped \in Entries /\ Good(stopped)
    BY <1>1, <1>4 DEF StopReading
  <2>2. req' = [req EXCEPT ![r] = stopped]
    BY <1>4 DEF StopReading
  <2> HIDE DEF stopped
  <2> QED  BY <2>1, <2>2, OneExchange
<1>5. ASSUME NEW n \in Blocks, Forward(r, n) PROVE ProxyInv'
  <2> DEFINE total == call.offered + n
             over == [call EXCEPT !.offered = total, !.answer = "413", !.pc = "respond"]
             within == [call EXCEPT !.offered = total, !.received = total]
  <2>7. n \in Nat /\ MaxUpload \in Nat /\ call.pc = "send"
    <3>1. MaxBlock \in Nat /\ MaxUpload \in Nat
      BY DEF ProxyAssumption
    <3>2. n \in Nat
      BY <3>1 DEF Blocks
    <3>3. call.pc = "send"
      BY <1>5 DEF Forward
    <3> QED  BY <3>1, <3>2, <3>3
  <2>6. total \in Nat
    BY <1>1, <2>7
  <2>1. CASE total > MaxUpload
    <3>1. over \in Entries
      BY <1>1, <2>6 DEF Answers, Statuses
    <3>3. Forwarded(over) /\ Answered(over)
      BY <1>1, <2>7, <2>6, <2>1
    <3>4. Buffered(over)
      BY <1>1, <2>7, <2>1 DEF Ok
    <3>2. req' = [req EXCEPT ![r] = over]
      BY <1>5, <2>1 DEF Forward
    <3> HIDE DEF over
    <3> QED  BY <3>1, <3>2, <3>3, <3>4, OneExchange
  <2>2. CASE ~(total > MaxUpload)
    <3>1. within \in Entries
      BY <1>1, <2>6
    <3>3. Forwarded(within)
      BY <1>1, <2>7, <2>6, <2>2
    <3>4. Buffered(within) /\ Answered(within)
      BY <1>1, <2>7, <2>6, <2>2
    <3>2. req' = [req EXCEPT ![r] = within]
      BY <1>5, <2>2 DEF Forward
    <3> HIDE DEF within
    <3> QED  BY <3>1, <3>2, <3>3, <3>4, OneExchange
  <2> QED  BY <2>1, <2>2
<1> QED  BY <1>2, <1>3, <1>4, <1>5

(* The upstream's reply, and every way to lose it. *)
LEMMA ReplyStep ==
    ASSUME ProxyAssumption, ProxyInv, NEW r \in Exchanges,
           \/ \E status \in {Ok, "4xx", "504", "5xx"}, sets \in BOOLEAN : ReplyHead(r, status, sets)
           \/ \E n \in Blocks : Read(r, n)
           \/ \E public \in BOOLEAN : ReplyEnds(r, public)
           \/ Expire(r) \/ Break(r)
    PROVE  ProxyInv'
<1> DEFINE call == req[r]
<1> USE DEF At, Entries, Before, After, Good, Forwarded, Buffered, Answered, Limit
<1>1. call \in Entries /\ Good(call)
  BY DEF ProxyInv
<1>2. /\ {MaxReply, MaxErrorReply} \subseteq Nat
      /\ \A n \in Blocks : n \in Nat
  BY DEF ProxyAssumption, Blocks
<1>3. ASSUME NEW status \in {Ok, "4xx", "504", "5xx"}, NEW sets \in BOOLEAN,
             ReplyHead(r, status, sets)
      PROVE  ProxyInv'
  <2> DEFINE e == [call EXCEPT !.status = status, !.pc = "read"]
  <2>1. e \in Entries
    BY <1>1 DEF Statuses
  <2>2. Forwarded(e) /\ Buffered(e) /\ Answered(e)
    BY <1>1, <1>2, <1>3 DEF ReplyHead, Ok
  <2>3. req' = [req EXCEPT ![r] = e]
    BY <1>3 DEF ReplyHead
  <2> HIDE DEF e
  <2> QED  BY <2>1, <2>2, <2>3, OneExchange
<1>4. ASSUME NEW n \in Blocks, Read(r, n) PROVE ProxyInv'
  <2> DEFINE total == call.buffer + n
             made == call.produced + n
             over == [call EXCEPT !.produced = made, !.buffer = 0, !.answer = "502",
                                  !.pc = "respond"]
             within == [call EXCEPT !.produced = made, !.buffer = total]
  <2>1. total \in Nat /\ made \in Nat /\ n \in Nat /\ call.pc = "read"
    <3>1. n \in Nat /\ call.pc = "read"
      BY <1>2, <1>4 DEF Read
    <3> QED  BY <1>1, <3>1
  <2>2. CASE total > Limit(call)
    <3>1. over \in Entries
      BY <1>1, <2>1 DEF Answers
    <3>2. Forwarded(over) /\ Buffered(over) /\ Answered(over)
      BY <1>1, <1>2, <2>1 DEF Ok
    <3>3. req' = [req EXCEPT ![r] = over]
      BY <1>4, <2>2 DEF Read, ReplyLimit
    <3> HIDE DEF over
    <3> QED  BY <3>1, <3>2, <3>3, OneExchange
  <2>3. CASE ~(total > Limit(call))
    <3>1. within \in Entries
      BY <1>1, <2>1
    <3>2. Forwarded(within) /\ Answered(within)
      BY <1>1, <2>1
    <3>3. Buffered(within)
      BY <1>1, <1>2, <2>1, <2>3
    <3>4. req' = [req EXCEPT ![r] = within]
      BY <1>4, <2>3 DEF Read, ReplyLimit
    <3> HIDE DEF within
    <3> QED  BY <3>1, <3>2, <3>3, <3>4, OneExchange
  <2> QED  BY <2>2, <2>3
<1>5. ASSUME NEW public \in BOOLEAN, ReplyEnds(r, public) PROVE ProxyInv'
  <2>1. \E a \in {Ok, "4xx", "504", "502"} :
            Answer(r, a) /\ (a = Ok => call.status = Ok)
    BY <1>5 DEF ReplyEnds, Ok
  <2> QED  BY <1>5, <2>1, AnswerStep DEF ReplyEnds, Answers, Statuses
<1>6. CASE Expire(r) \/ Break(r)
  BY <1>6, AnswerStep DEF Expire, Break, Answers, Statuses, Ok
<1> QED  BY <1>3, <1>4, <1>5, <1>6

(* Something unexpected is raised before a response exists. *)
LEMMA UnexpectedStep ==
    ASSUME ProxyInv, NEW r \in Exchanges, Unexpected(r)
    PROVE  ProxyInv'
<1> DEFINE call == req[r]
           e == [call EXCEPT !.pc = "raised"]
<1>1. call \in Entries /\ Good(call)
  BY DEF ProxyInv
<1>2. e \in Entries /\ Good(e)
  BY <1>1 DEF Unexpected, Entries, Before, After, Good, Forwarded, Buffered, Answered, Limit
<1>3. req' = [req EXCEPT ![r] = e]
  BY DEF Unexpected
<1> HIDE DEF e
<1> QED  BY <1>2, <1>3, OneExchange

-----------------------------------------------------------------------------
(* The response. *)

(* Where a sender's exception goes from. *)
LEMMA AboveSteps ==
    ASSUME NEW r \in Exchanges, req[r].by \in {"route", "inner", "outer"}
    PROVE  /\ Above(r) \in {"raised", "reraised", "aborted"}
           /\ Above(r) = "raised" <=> req[r].by = "route"
           /\ Above(r) = "aborted" <=> req[r].by = "outer"
BY DEF Above

(* The response starts, or its sender raises: CORS inside the outer policy,  *)
(* the server outside it.                                                    *)
LEMMA StartStep ==
    ASSUME ProxyInv, NEW r \in Exchanges, NEW outcome \in {"sent", "cors", "gone"},
           SendStart(r, outcome)
    PROVE  ProxyInv'
<1> DEFINE call == req[r]
           inner == call.inner \/ call.by = "route"
           outer == call.outer \/ outcome # "cors"
           lost == call.lost \/ outcome = "gone"
           passed == [call EXCEPT !.inner = inner, !.outer = outer]
           sent == [passed EXCEPT !.starts = call.starts + 1, !.pc = "body"]
           raised == [passed EXCEPT !.lost = lost, !.pc = Above(r)]
<1>1. /\ call \in Entries /\ Good(call)
      /\ call.pc = "respond" /\ (outcome = "cors" => call.by # "outer")
  BY DEF ProxyInv, SendStart, At
<1>2. call.starts = 0 /\ ~call.outer
  BY <1>1 DEF Entries, Before, After, Good, Answered
<1>3. /\ outcome = "sent" => req' = [req EXCEPT ![r] = sent]
      /\ outcome # "sent" => req' = [req EXCEPT ![r] = raised]
  BY DEF SendStart
<1>4. inner \in BOOLEAN /\ outer \in BOOLEAN /\ lost \in BOOLEAN
  OBVIOUS
<1>5. /\ call.by = "route" => inner
      /\ outer <=> outcome # "cors"
      /\ outcome = "gone" => lost
  BY <1>2
<1> HIDE DEF inner, outer, lost
<1>6. passed \in Entries
  BY <1>1, <1>4 DEF Entries
<1>7. CASE outcome = "sent"
  <2>1. sent \in Entries
    <3> HIDE DEF passed
    <3>1. call.starts + 1 = 1
      BY <1>2
    <3>2. [passed EXCEPT !.starts = 1, !.pc = "body"] \in Entries
      BY <1>6 DEF Entries, After
    <3> QED  BY <3>1, <3>2
  <2>2. Forwarded(sent) /\ Buffered(sent)
    BY <1>1 DEF Entries, Before, Good, Forwarded, Buffered, Limit
  <2>3. Answered(sent)
    BY <1>1, <1>2, <1>5, <1>7 DEF Entries, Before, Answered
  <2> HIDE DEF sent
  <2> QED  BY <1>3, <1>7, <2>1, <2>2, <2>3, OneExchange DEF Good
<1>8. CASE outcome # "sent"
  <2>1. /\ Above(r) \in {"raised", "reraised", "aborted"}
        /\ Above(r) = "raised" <=> call.by = "route"
        /\ Above(r) = "aborted" <=> call.by = "outer"
    BY <1>1, AboveSteps DEF Entries
  <2>2. raised \in Entries
    BY <1>4, <1>6, <2>1 DEF Entries, After
  <2>3. Forwarded(raised) /\ Buffered(raised)
    BY <1>1, <2>1 DEF Entries, Before, Good, Forwarded, Buffered, Limit
  <2>4. Answered(raised)
    BY <1>1, <1>2, <1>5, <1>8, <2>1 DEF Entries, Before, Answered
  <2> HIDE DEF raised
  <2> QED  BY <1>3, <1>8, <2>2, <2>3, <2>4, OneExchange DEF Good
<1> QED  BY <1>7, <1>8

(* The response's body is taken, or the client is gone. *)
LEMMA BodyStep ==
    ASSUME ProxyInv, NEW r \in Exchanges, NEW sent \in BOOLEAN, SendBody(r, sent)
    PROVE  ProxyInv'
<1> DEFINE call == req[r]
           done == [call EXCEPT !.pc = "done"]
           gone == [call EXCEPT !.lost = TRUE, !.pc = Above(r)]
<1> USE DEF At, Entries, Before, After, Good, Forwarded, Buffered, Answered, Limit
<1>1. call \in Entries /\ Good(call) /\ call.pc = "body"
  BY DEF ProxyInv, SendBody
<1>2. done \in Entries /\ Good(done)
  BY <1>1
<1>3. gone \in Entries /\ Good(gone)
  BY <1>1, AboveSteps
<1>4. req' = [req EXCEPT ![r] = done] \/ req' = [req EXCEPT ![r] = gone]
  BY DEF SendBody
<1> HIDE DEF done, gone
<1> QED  BY <1>2, <1>3, <1>4, OneExchange

(* The two policies answer once, or pass the exception on. *)
LEMMA PolicyStep ==
    ASSUME ProxyInv, NEW r \in Exchanges, ErrorPolicy(r) \/ ResponsePolicy(r)
    PROVE  ProxyInv'
<1> DEFINE call == req[r]
           moved(step) == [call EXCEPT !.pc = step]
           answered(by) == [call EXCEPT !.answer = "500", !.by = by, !.pc = "respond"]
<1> USE DEF At, Entries, Before, After, Good, Forwarded, Buffered, Answered, Limit
<1>1. call \in Entries /\ Good(call)
  BY DEF ProxyInv
<1>2. ASSUME call.pc = "raised", call.inner
      PROVE  moved("reraised") \in Entries /\ Good(moved("reraised"))
  BY <1>1, <1>2
<1>3. ASSUME call.pc = "raised", ~call.inner
      PROVE  answered("inner") \in Entries /\ Good(answered("inner"))
  BY <1>1, <1>3 DEF Answers, Ok
<1>4. ASSUME call.pc = "reraised", call.outer
      PROVE  moved("aborted") \in Entries /\ Good(moved("aborted"))
  BY <1>1, <1>4
<1>5. ASSUME call.pc = "reraised", ~call.outer
      PROVE  answered("outer") \in Entries /\ Good(answered("outer"))
  BY <1>1, <1>5 DEF Answers, Ok
<1>6. \/ call.pc = "raised" /\ call.inner /\ req' = [req EXCEPT ![r] = moved("reraised")]
      \/ call.pc = "raised" /\ ~call.inner /\ req' = [req EXCEPT ![r] = answered("inner")]
      \/ call.pc = "reraised" /\ call.outer /\ req' = [req EXCEPT ![r] = moved("aborted")]
      \/ call.pc = "reraised" /\ ~call.outer /\ req' = [req EXCEPT ![r] = answered("outer")]
  BY DEF ErrorPolicy, ResponsePolicy
<1> HIDE DEF moved, answered
<1> QED  BY <1>2, <1>3, <1>4, <1>5, <1>6, OneExchange

(* A new request on a connection. *)
LEMMA FreshIsGood ==
    ASSUME ProxyAssumption, NEW u \in Users
    PROVE  Fresh(u) \in Entries /\ Good(Fresh(u))
BY DEF ProxyAssumption, Fresh, Entries, Before, After, Statuses, Answers, Good, Forwarded,
       Buffered, Answered, Limit, Ok

(* A finished request makes way for the next one. *)
LEMMA AcceptStep ==
    ASSUME ProxyAssumption, ProxyInv, NEW r \in Exchanges, NEW u \in Users, Accept(r, u)
    PROVE  ProxyInv'
BY FreshIsGood, OneExchange DEF Accept

-----------------------------------------------------------------------------

(* The inductive invariant of the exchanges. *)
THEOREM ProxyInvariant ==
    ASSUME ProxyAssumption
    PROVE  ProxySpec => []ProxyInv
<1>1. ProxyInit => ProxyInv
  <2>1. ASSUME NEW u \in Users PROVE Fresh(u) \in Entries /\ Good(Fresh(u))
    BY FreshIsGood
  <2> QED  BY <2>1 DEF ProxyInit, ProxyInv
<1>2. ProxyInv /\ [ProxyNext]_proxyVars => ProxyInv'
  <2> SUFFICES ASSUME ProxyInv, [ProxyNext]_proxyVars PROVE ProxyInv'
    OBVIOUS
  <2>1. CASE UNCHANGED proxyVars
    BY <2>1 DEF proxyVars, ProxyInv, Good, Forwarded, Buffered, Answered, Limit
  <2>2. CASE ProxyNext
    <3>1. PICK r \in Exchanges : \/ Route(r) \/ Authenticate(r) \/ Quota(r) \/ Exchange(r)
                                \/ Unexpected(r) \/ Respond(r)
                                \/ \E u \in Users : Accept(r, u)
      BY <2>2 DEF ProxyNext
    <3> QED  BY <3>1, AdmissionStep, SendingStep, ReplyStep, UnexpectedStep, StartStep, BodyStep,
                PolicyStep, AcceptStep DEF Exchange, Respond
  <2> QED  BY <2>1, <2>2
<1> QED  BY <1>1, <1>2, PTL DEF ProxySpec

(* What the upstream takes for a complete request is the client's, and no    *)
(* identity's cookie is sent with another's.                                 *)
THEOREM ForwardSafety ==
    ASSUME ProxyAssumption
    PROVE  ProxySpec => []UpstreamGetsTheRequest
<1>1. ProxyInv => UpstreamGetsTheRequest
  BY DEF ProxyInv, Entries, Good, Forwarded, UpstreamGetsTheRequest
<1> QED  BY <1>1, ProxyInvariant, PTL

(* No cut or broken reply passes for the upstream's success.                 *)
THEOREM SuccessSafety ==
    ASSUME ProxyAssumption
    PROVE  ProxySpec => []SuccessIsComplete
<1>1. ProxyInv => SuccessIsComplete
  BY DEF ProxyInv, Good, Buffered, Limit, ReplyLimit, SuccessIsComplete
<1> QED  BY <1>1, ProxyInvariant, PTL

(* One response, whatever is raised and wherever.                            *)
THEOREM ResponseSafety ==
    ASSUME ProxyAssumption
    PROVE  ProxySpec => []OneResponse
<1>1. ProxyInv => OneResponse
  BY DEF ProxyInv, Good, Answered, OneResponse
<1> QED  BY <1>1, ProxyInvariant, PTL

-----------------------------------------------------------------------------
(* The workspace.                                                           *)

Tokens == Logins \cup {NoToken}
Kinds == {"free", "connect", "refresh", "query", "upload", "rejected"}
Legs == {"documents", "usage", "query", "upload", "refresh"}

Handlers == [kind : Kinds, token : Tokens, session : Nat, legs : SUBSET Legs,
             button : {"none", "query", "upload"}]

Pages == [documents : SUBSET Tokens, answer : SUBSET Tokens, library : SUBSET Tokens]

PageType ==
    /\ token \in Tokens
    /\ generation \in Nat
    /\ shown \in Pages
    /\ waiting \in [Slots -> Handlers]
    /\ entered \in SUBSET Tokens

(* The page's token was entered in this session. *)
TokenIsEntered == token # NoToken => token \in entered

(* No handler is ahead of the generation, and one of the current generation  *)
(* carries a token of this session, if any.                                  *)
HandlersOfSession ==
    \A s \in Slots :
        /\ waiting[s].session <= generation
        /\ waiting[s].session = generation =>
               waiting[s].token = NoToken \/ waiting[s].token \in entered

WorkspaceInv ==
    /\ PageType
    /\ TokenIsEntered
    /\ HandlersOfSession
    /\ DocumentsEndWithSession

-----------------------------------------------------------------------------

(* A new handler belongs to the current session. *)
LEMMA NewHandler ==
    ASSUME PageType, NEW kind \in {"connect", "refresh", "query", "upload"}, NEW t \in Tokens
    PROVE  /\ Handler(kind, t) \in Handlers
           /\ Handler(kind, t).session = generation /\ Handler(kind, t).token = t
BY DEF Handler, Handlers, Kinds, Legs, PageType

(* Signing out moves every handler to an earlier session and clears the page. *)
LEMMA DisconnectClears ==
    ASSUME WorkspaceInv, Disconnected, waiting' \in [Slots -> Handlers],
           \A s \in Slots : waiting'[s].session <= waiting[s].session
    PROVE  WorkspaceInv'
<1>0. shown' \in Pages
  BY DEF WorkspaceInv, PageType, Disconnected, Pages
<1>1. PageType'
  BY <1>0 DEF WorkspaceInv, PageType, Disconnected, SignedOut, Tokens
<1>2. TokenIsEntered' /\ DocumentsEndWithSession'
  BY DEF Disconnected, SignedOut, WorkspaceInv, PageType, Pages, TokenIsEntered,
         DocumentsEndWithSession
<1>3. \A s \in Slots : waiting'[s].session < generation'
  <2> TAKE s \in Slots
  <2>1. waiting[s].session \in Nat /\ waiting'[s].session \in Nat
    BY DEF WorkspaceInv, PageType, Handlers
  <2> QED  BY <2>1 DEF WorkspaceInv, PageType, HandlersOfSession, Disconnected,
                SignedOut
<1>4. HandlersOfSession'
  BY <1>1, <1>3 DEF HandlersOfSession, PageType, Handlers
<1> QED  BY <1>1, <1>2, <1>4 DEF WorkspaceInv

(* What a rejected handler leaves in its slot. *)
LEMMA RejectedHandler ==
    ASSUME PageType, NEW s \in Slots, NEW leg \in waiting[s].legs, Rejected(s, leg)
    PROVE  /\ waiting' \in [Slots -> Handlers]
           /\ \A x \in Slots : \/ waiting'[x] = Free
                               \/ /\ waiting'[x].session = waiting[x].session
                                  /\ waiting'[x].token = waiting[x].token
<1>1. Free \in Handlers
  BY DEF Free, Handlers, Kinds, Tokens
<1> DEFINE cut == [waiting[s] EXCEPT !.kind = "rejected", !.legs = @ \ {leg}, !.button = "none"]
<1>2. waiting[s] \in Handlers
  BY DEF PageType
<1>3. cut \in Handlers /\ cut.session = waiting[s].session /\ cut.token = waiting[s].token
  BY <1>2 DEF Handlers, Kinds
<1>4. waiting' = [waiting EXCEPT ![s] = IF waiting[s].legs = {leg} THEN Free ELSE cut]
  BY Zenon DEF Rejected
<1> HIDE DEF cut
<1> QED  BY <1>1, <1>3, <1>4 DEF PageType

-----------------------------------------------------------------------------

(* Every disjunct of Next, for a case analysis. *)
LEMMA NextCases ==
    ASSUME WorkspaceNext
    PROVE  \/ \E s \in Slots, login \in Logins : Submit(s, login)
           \/ \E s \in Slots, kind \in {"refresh", "query", "upload"} : Click(s, kind)
           \/ \E s \in Slots, page \in 0..1 : Turn(s, page)
           \/ \E s \in Slots : Poll(s)
           \/ SignOut
           \/ \E s \in Slots : \E leg \in waiting[s].legs : Succeed(s, leg)
           \/ \E s \in Slots : \E leg \in waiting[s].legs : LegFails(s, leg)
           \/ \E s \in Slots : \E leg \in waiting[s].legs : SessionExpires(s, leg)
BY DEF WorkspaceNext

(* A step that stays in the session keeps the invariant when the handlers it *)
(* adds carry an entered token or none.                                      *)
LEMMA SameSession ==
    ASSUME WorkspaceInv, waiting' \in [Slots -> Handlers], generation' = generation,
           token' \in entered' \cup {NoToken}, entered \subseteq entered',
           entered' \in SUBSET Tokens,
           shown' \in Pages, shown' = shown \/ DocumentsEndWithSession',
           \A x \in Slots : \/ waiting'[x].token \in entered' \cup {NoToken}
                                /\ waiting'[x].session <= generation
                            \/ /\ waiting'[x].session = waiting[x].session
                               /\ waiting'[x].token = waiting[x].token
    PROVE  WorkspaceInv'
<1>1. PageType'
  BY DEF WorkspaceInv, PageType, Tokens
<1>2. TokenIsEntered' /\ DocumentsEndWithSession'
  BY DEF WorkspaceInv, TokenIsEntered, DocumentsEndWithSession
<1>3. HandlersOfSession'
  BY DEF WorkspaceInv, PageType, HandlersOfSession
<1> QED  BY <1>1, <1>2, <1>3 DEF WorkspaceInv

(* The inductive invariant of the page. *)
THEOREM PageInvariant == WorkspaceSpec => []WorkspaceInv
<1>1. WorkspaceInit => WorkspaceInv
  BY DEF WorkspaceInit, WorkspaceInv, PageType, TokenIsEntered, HandlersOfSession, DocumentsEndWithSession, Pages,
         Blank, Free, Handlers, Kinds, Tokens
<1>2. WorkspaceInv /\ [WorkspaceNext]_workspaceVars => WorkspaceInv'
  <2> SUFFICES ASSUME WorkspaceInv, [WorkspaceNext]_workspaceVars PROVE WorkspaceInv'
    OBVIOUS
  <2>0. PageType
    BY DEF WorkspaceInv
  <2>00. Free \in Handlers /\ Free.token = NoToken /\ Free.session = 0
    BY DEF Free, Handlers, Kinds, Tokens
  <2>1. CASE UNCHANGED workspaceVars
    BY <2>1 DEF workspaceVars, WorkspaceInv, PageType, TokenIsEntered, HandlersOfSession,
                DocumentsEndWithSession
  <2>2. ASSUME NEW s \in Slots, NEW login \in Logins, Submit(s, login) PROVE WorkspaceInv'
    BY <2>0, <2>2, NewHandler, SameSession DEF Submit, PageType, Tokens, WorkspaceInv, TokenIsEntered
  <2>3. ASSUME NEW s \in Slots, NEW kind \in {"refresh", "query", "upload"}, Start(s, kind),
               UNCHANGED <<token, generation, shown, entered>>
        PROVE  WorkspaceInv'
    BY <2>0, <2>3, NewHandler, SameSession DEF Start, PageType, Tokens, WorkspaceInv, TokenIsEntered
  <2>4. CASE SignOut
    BY <2>0, <2>4, DisconnectClears DEF SignOut, PageType, Handlers
  <2>5. ASSUME NEW s \in Slots, NEW leg \in waiting[s].legs, Succeed(s, leg) PROVE WorkspaceInv'
    <3> DEFINE call == waiting[s]
    <3>0. UNCHANGED <<token, generation, entered>> /\ call \in Handlers /\ call.token # NoToken
      BY <2>0, <2>5 DEF Succeed, PageType
    <3>1. CASE call.legs = {leg} /\ call.kind # "rejected"
      <4>1. Resume(s)
        BY <2>5, <3>1 DEF Succeed
      <4>2. PICK h \in {Free, [Handler("refresh", token) EXCEPT !.button = call.button]} :
                waiting' = [waiting EXCEPT ![s] = h]
        BY <4>1 DEF Resume
      <4>3. h \in Handlers /\ h.session <= generation /\ h.token \in {token, NoToken}
        BY <2>0, <2>00, <3>0, <4>2, NewHandler DEF Handlers, PageType, Tokens
      <4>4. \/ shown' = shown
            \/ /\ Current(call)
               /\ shown' \in {[shown EXCEPT !.documents = {call.token}, !.library = {call.token}],
                              [shown EXCEPT !.answer = {call.token}]}
        BY <4>1 DEF Resume, Painted
      <4>5. Current(call) => call.token \in entered
        BY <3>0 DEF Current, WorkspaceInv, HandlersOfSession
      <4>6. shown' \in Pages /\ (shown' = shown \/ DocumentsEndWithSession')
        <5>1. shown \in Pages /\ entered' = entered /\ DocumentsEndWithSession /\ entered \subseteq Tokens
          BY <2>0, <3>0 DEF PageType, WorkspaceInv
        <5>2. CASE shown' = shown
          BY <5>1, <5>2
        <5>3. CASE Current(call) /\ shown' = [shown EXCEPT !.documents = {call.token}, !.library = {call.token}]
          <6> HIDE DEF call
          <6> QED  BY <4>5, <5>1, <5>3 DEF Pages, DocumentsEndWithSession
        <5>4. CASE Current(call) /\ shown' = [shown EXCEPT !.answer = {call.token}]
          <6> HIDE DEF call
          <6> QED  BY <4>5, <5>1, <5>4 DEF Pages, DocumentsEndWithSession
        <5> QED  BY <4>4, <5>2, <5>3, <5>4
      <4> HIDE DEF call
      <4> QED  BY <2>0, <3>0, <4>2, <4>3, <4>6, SameSession DEF WorkspaceInv, PageType, TokenIsEntered
    <3>2. CASE ~(call.legs = {leg} /\ call.kind # "rejected")
      <4>1. /\ shown' = shown
            /\ \/ waiting' = [waiting EXCEPT ![s] = Free]
               \/ waiting' = [waiting EXCEPT ![s].legs = call.legs \ {leg}]
        BY <2>5, <3>2 DEF Succeed
      <4>2. PICK h \in {Free, [call EXCEPT !.legs = call.legs \ {leg}]} :
                waiting' = [waiting EXCEPT ![s] = h]
        BY <4>1
      <4>3. \/ h = Free
            \/ h \in Handlers /\ h.session = call.session /\ h.token = call.token
        BY <3>0, <4>2 DEF Handlers
      <4> QED  BY <2>0, <2>00, <3>0, <4>1, <4>2, <4>3, SameSession
               DEF WorkspaceInv, PageType, TokenIsEntered
    <3> QED  BY <3>1, <3>2
  <2>6. ASSUME NEW s \in Slots, NEW leg \in waiting[s].legs, LegFails(s, leg) PROVE WorkspaceInv'
    BY <2>0, <2>00, <2>6, RejectedHandler, SameSession
       DEF LegFails, WorkspaceInv, TokenIsEntered, PageType
  <2>7. ASSUME NEW s \in Slots, NEW leg \in waiting[s].legs, SessionExpires(s, leg) PROVE WorkspaceInv'
    BY <2>0, <2>00, <2>7, RejectedHandler, DisconnectClears DEF SessionExpires, PageType, Handlers
  <2> QED  BY <2>1, <2>2, <2>3, <2>4, <2>5, <2>6, <2>7, NextCases DEF Click, Turn, Poll
<1> QED  BY <1>1, <1>2, PTL DEF WorkspaceSpec

(* The list and the answer are of the session, in whatever order the         *)
(* requests of several sessions end.                                         *)
THEOREM PageSafety == WorkspaceSpec => []DocumentsEndWithSession
<1>1. WorkspaceInv => DocumentsEndWithSession
  BY DEF WorkspaceInv
<1> QED  BY <1>1, PageInvariant, PTL

=============================================================================
