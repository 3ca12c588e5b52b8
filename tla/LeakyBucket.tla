-------------------------------- MODULE LeakyBucket -------------------------------
(***************************************************************************)
(* What a rate limit promises: a served message adds Cost to the level, a  *)
(* tick takes Refill away, and a message is served exactly when the level  *)
(* does not rise over Bucket by it.  Over any stretch of time no more is   *)
(* served than Bucket and what has leaked in it.                           *)
(***************************************************************************)
EXTENDS Integers

CONSTANTS Bucket, Cost, Refill

VARIABLES
  level,   \* what has been served and has not leaked away
  answer   \* the last message was "served" or "refused"

Leaked(n) == IF n > Refill THEN n - Refill ELSE 0

Init == level = 0 /\ answer = "none"

Serve ==
  /\ level + Cost <= Bucket
  /\ level' = level + Cost /\ answer' = "served"

Refuse ==
  /\ level + Cost > Bucket
  /\ answer' = "refused" /\ UNCHANGED level

Leak == level' = Leaked(level) /\ UNCHANGED answer

Next == Serve \/ Refuse \/ Leak

Spec == Init /\ [][Next]_<<level, answer>>
================================================================================
