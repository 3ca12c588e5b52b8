-------------------------------- MODULE TokenBucket -------------------------------
(***************************************************************************)
(* The rate limit of one connection's messages (ws/client.go:166,          *)
(* isRateLimited): a bucket of tokens that is not refilled as time passes  *)
(* but when the next message comes, by the time since the last one.        *)
(*                                                                         *)
(* The code counts in fractions of a token and of a second.  Here a token  *)
(* is Cost units, and Refill units come with every tick.  The time since   *)
(* lastRefill is kept up to Bucket ticks, which fill any bucket.           *)
(***************************************************************************)
EXTENDS Integers

CONSTANTS
  Bucket,   \* bucketSize, in units: 20 tokens
  Cost,     \* a token
  Refill    \* refillRate, in units per tick: 20 tokens per second

ASSUME TokenBucketAssumption ==
  /\ Bucket \in Nat /\ Cost \in Nat \ {0} /\ Refill \in Nat \ {0}
  /\ Cost <= Bucket

VARIABLES
  tokens,       \* as of lastRefill
  sinceRefill,  \* ticks since lastRefill
  answer        \* of the last message

bucketVars == <<tokens, sinceRefill, answer>>

Full(n) == IF n > Bucket THEN Bucket ELSE n

BucketInit == tokens = Bucket /\ sinceRefill = 0 /\ answer = "none"

\* A refused message refills the bucket and leaves lastRefill as it is.
SlipRefillsTwice ==
  LET refilled == Full(tokens + sinceRefill * Refill)
  IN  IF refilled >= Cost
      THEN tokens' = refilled - Cost /\ sinceRefill' = 0 /\ answer' = "served"
      ELSE tokens' = refilled /\ answer' = "refused" /\ UNCHANGED sinceRefill

IsRateLimited ==
  LET refilled == Full(tokens + sinceRefill * Refill)
  IN  /\ sinceRefill' = 0
      /\ IF refilled >= Cost
         THEN tokens' = refilled - Cost /\ answer' = "served"
         ELSE tokens' = refilled /\ answer' = "refused"

TicksPass ==
  /\ sinceRefill' = IF sinceRefill < Bucket THEN sinceRefill + 1 ELSE Bucket
  /\ UNCHANGED <<tokens, answer>>

BucketNext == IsRateLimited \/ TicksPass

BucketSpec == BucketInit /\ [][BucketNext]_bucketVars

--------------------------------------------------------------------------------
(* Properties *)

BucketTypeOK ==
  /\ tokens \in 0 .. Bucket
  /\ sinceRefill \in 0 .. Bucket
  /\ answer \in {"none", "served", "refused"}

\* What is missing in a bucket that were refilled at every tick.
Missing ==
  LET full == tokens + sinceRefill * Refill
  IN  IF full < Bucket THEN Bucket - full ELSE 0

Leaky == INSTANCE LeakyBucket WITH level <- Missing

(* The bucket that is refilled late, when a message comes, serves and refuses    *)
(* as one that leaks at every tick: refused messages neither cost nor win time,  *)
(* and no pause gains more than one bucket (client.go:170-184).                  *)
ImplementsLeakyBucket == Leaky!Spec
================================================================================
