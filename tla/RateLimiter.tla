----------------------------- MODULE RateLimiter ----------------------------
(***************************************************************************)
(* One user's token bucket, as the BUCKET script keeps it in Redis. The    *)
(* script runs atomically on the server's clock, which may be stepped      *)
(* back; the key expires after the time an empty bucket needs to fill.     *)
(*                                                                         *)
(* Tokens are counted in parts, Scale to a token, and time in ticks, so    *)
(* that the script's fractions are integers. Times are kept relative to    *)
(* the clock: age is now - updated, left is the key's remaining life.      *)
(***************************************************************************)
EXTENDS Integers

CONSTANTS Burst,     \* rate_limit_burst
          Scale,     \* parts of a token
          Rate,      \* parts refilled per tick
          Second,    \* ticks per second: rate_limit_rps is Rate * Second / Scale
          MaxBack,   \* bound: how far the clock can be behind updated
          MaxSteps   \* bound: how often the clock is stepped back

RateAssumption ==
    /\ {Burst, Scale, Rate, Second} \subseteq Nat \ {0}
    /\ {MaxBack, MaxSteps} \subseteq Nat

VARIABLES tokens, age, left,   \* the hash and its expiry; left = 0: no key
          last,                \* the latest decision
          ideal,               \* a bucket kept in true time, for comparison
          steps

bucketVars == <<tokens, age, left, last, ideal, steps>>

Full == Burst * Scale
Ceil(a, b) == (a + b - 1) \div b
Least(a, b) == IF a < b THEN a ELSE b
Larger(a, b) == IF a > b THEN a ELSE b

\* Mutant: the fill time in seconds is given to PEXPIRE as milliseconds.
MutantLife == Larger(1, Ceil(Full, Rate * Second))

\* PEXPIRE: the time in which an empty bucket fills, at least one.
Life == Larger(1, Ceil(Full, Rate))

BucketInit ==
    /\ tokens = Full /\ age = 0 /\ left = 0
    /\ last = [allowed |-> TRUE, retry |-> 0, prompt |-> TRUE]
    /\ ideal = Full
    /\ steps = 0

\* What the script finds: a missing key counts as a full bucket, and time
\* that has not passed yet refills nothing.
Refilled == IF left = 0 THEN Full ELSE Least(Full, tokens + Larger(0, age) * Rate)

\* Whole seconds until one token, from the fraction found.
Retry(found) == Ceil(Scale - found, Rate * Second)

\* Mutant: only whole tokens are stored, although updated moves on.
MutantStored(found, allowed) ==
    ((IF allowed THEN found - Scale ELSE found) \div Scale) * Scale

Stored(found, allowed) == IF allowed THEN found - Scale ELSE found

\* consume: one run of the script. updated becomes the later of itself and
\* now, so a clock that is behind keeps its negative age.
Consume ==
    LET found == Refilled
        allowed == found >= Scale
    IN  /\ tokens' = Stored(found, allowed)
        /\ age' = IF left = 0 THEN 0 ELSE Least(0, age)
        /\ left' = Life
        /\ last' = [allowed |-> allowed, prompt |-> left = 0 \/ age >= 0,
                    retry |-> IF allowed THEN 0 ELSE Retry(found)]
        /\ ideal' = IF allowed THEN ideal - Scale ELSE ideal
        /\ UNCHANGED steps

\* A tick of true time and of the clock; an expired key is gone.
Tick ==
    /\ left' = Larger(0, left - 1)
    /\ tokens' = IF left' = 0 THEN Full ELSE tokens
    /\ age' = IF left' = 0 THEN 0 ELSE age + 1
    /\ ideal' = Least(Full, ideal + Rate)
    /\ UNCHANGED <<last, steps>>

\* The server's clock is stepped back by n ticks; expiry times are absolute.
StepBack(n) ==
    /\ steps < MaxSteps
    /\ left > 0 /\ age - n >= -MaxBack
    /\ age' = age - n
    /\ left' = left + n
    /\ steps' = steps + 1
    /\ UNCHANGED <<tokens, last, ideal>>

BucketNext == Consume \/ Tick \/ \E n \in 1..MaxBack : StepBack(n)

BucketSpec == BucketInit /\ [][BucketNext]_bucketVars

-----------------------------------------------------------------------------

(* The limit holds in true time: however requests, expiry and backward      *)
(* clock steps interleave, the script never finds more tokens than a bucket *)
(* that refills at the configured rate from Burst, and never overdraws      *)
(* (rate_limit.py, BUCKET).                                                 *)
NeverAboveRate == tokens >= 0 /\ Refilled <= ideal

(* Asking in vain costs nothing and is answered exactly: a refused request  *)
(* leaves what the bucket would hold at this moment as it was, fractions    *)
(* included, so a user who keeps asking is served at the configured rate;   *)
(* and, unless the clock was behind, one who waits for Retry-After finds a  *)
(* token, one who waits a second less does not (rate_limit.py, BUCKET).     *)
RefusalIsFree ==
    [][Consume /\ ~last'.allowed =>
           /\ Refilled' = Refilled
           /\ last'.prompt =>
                  /\ tokens' + last'.retry * Second * Rate >= Scale
                  /\ tokens' + (last'.retry - 1) * Second * Rate < Scale]_bucketVars

=============================================================================
