------------------------------ MODULE CircuitBreaker ------------------------------
(***************************************************************************)
(* The circuit breaker of the Redis client (redis/circuit_breaker.go):     *)
(* closed, it lets calls through and counts failures; open, it refuses     *)
(* them until Timeout after the last failure; half-open, it tries.         *)
(*                                                                         *)
(* Callers run Execute concurrently.  allowRequest reads the state under   *)
(* the lock and decides after it has given the lock back, so that another  *)
(* caller may have changed the state in between; fn() runs outside it too. *)
(*                                                                         *)
(* Times are ages in ticks, kept only as long as they are told apart: up   *)
(* to Timeout + 1 and Cooldown.  Counters are compared with a threshold    *)
(* only and kept up to one more than it.                                   *)
(***************************************************************************)
EXTENDS Integers

CONSTANTS
  Callers,            \* goroutines that call Execute
  FailureThreshold,   \* 5 by default
  SuccessThreshold,   \* 2
  Timeout,            \* 30 s
  Cooldown            \* 5 s

ASSUME BreakerAssumption ==
  /\ FailureThreshold \in Nat \ {0} /\ SuccessThreshold \in Nat \ {0}
  /\ Timeout \in Nat /\ Cooldown \in Nat

CircuitStates == {"closed", "open", "half-open"}
Breakers ==
  [state: CircuitStates,
   failureCount: 0 .. FailureThreshold + 1,
   successCount: 0 .. SuccessThreshold + 1,
   failureAge: 0 .. Timeout + 1,      \* since lastFailureTime
   changeAge: 0 .. Cooldown]          \* since lastStateChange

VARIABLES
  cb,        \* the CircuitBreaker
  caller,    \* where each caller is in Execute
  seenAge,   \* since the lastFailureTime each caller has read
  healthy,   \* do the calls succeed?
  streak,    \* successes since the last failure
  failedNow, \* was a failure recorded since the last change of state,
  cooling    \* and the last failure within Cooldown of it?

breakerVars == <<cb, caller, seenAge, healthy, streak, failedNow, cooling>>

UpTo(max, n) == IF n < max THEN n + 1 ELSE max

--------------------------------------------------------------------------------
(* The methods, as functions of the breaker *)

SetState(b, to) ==
  IF b.changeAge < Cooldown THEN b ELSE
  [b EXCEPT !.state = to, !.changeAge = 0,
            !.failureCount = IF to = "closed" THEN 0 ELSE @,
            !.successCount = IF to = "closed" THEN 0 ELSE @]

SlipFailureKeepsSuccesses(b) ==
  [b EXCEPT !.failureCount = UpTo(FailureThreshold + 1, @), !.failureAge = 0]

Failed(b) ==
  [b EXCEPT !.failureCount = UpTo(FailureThreshold + 1, @), !.failureAge = 0,
            !.successCount = 0]

SlipOneFailureMore(b) ==
  LET f == Failed(b)
  IN  IF f.state = "half-open" \/ f.failureCount > FailureThreshold
      THEN SetState(f, "open") ELSE f

RecordFailure(b) ==
  LET f == Failed(b)
  IN  IF f.state = "half-open" \/ f.failureCount >= FailureThreshold
      THEN SetState(f, "open") ELSE f

\* The breaker closes on the success that reaches the threshold, or never.
SlipOnlyAtThreshold(b) ==
  LET s == [b EXCEPT !.successCount = UpTo(SuccessThreshold + 1, @)]
      c == IF s.state = "half-open" /\ s.successCount = SuccessThreshold
           THEN SetState(s, "closed") ELSE s
  IN  IF c.state = "closed" THEN [c EXCEPT !.failureCount = 0] ELSE c

RecordSuccess(b) ==
  LET s == [b EXCEPT !.successCount = UpTo(SuccessThreshold + 1, @)]
      c == IF s.state = "half-open" /\ s.successCount >= SuccessThreshold
           THEN SetState(s, "closed") ELSE s
  IN  IF c.state = "closed" THEN [c EXCEPT !.failureCount = 0] ELSE c

--------------------------------------------------------------------------------
(* Execute *)

BreakerInit ==
  /\ cb = [state |-> "closed", failureCount |-> 0, successCount |-> 0,
           failureAge |-> Timeout + 1, changeAge |-> 0]
  /\ caller = [c \in Callers |-> "idle"]
  /\ seenAge = [c \in Callers |-> 0]
  /\ healthy = TRUE /\ streak = 0 /\ failedNow = FALSE /\ cooling = FALSE

\* cb becomes b, and the history goes along: what is told of the last change.
Becomes(b, failure) ==
  /\ cb' = b
  /\ cooling' = IF failure THEN cb.changeAge < Cooldown ELSE cooling
  /\ failedNow' = (b.state = cb.state /\ (failure \/ failedNow))

\* allowRequest, first half: the state and lastFailureTime, under the lock.
AllowRequest(c) ==
  /\ caller[c] = "idle"
  /\ IF cb.state = "open"
     THEN /\ caller' = [caller EXCEPT ![c] = "deciding"]
          /\ seenAge' = [seenAge EXCEPT ![c] = cb.failureAge]
     ELSE /\ caller' = [caller EXCEPT ![c] = "calling"]
          /\ UNCHANGED seenAge
  /\ UNCHANGED <<cb, healthy, streak, failedNow, cooling>>

\* Second half, for a circuit that was open: half-open and call, or refuse.
Decide(c) ==
  /\ caller[c] = "deciding"
  /\ IF seenAge[c] > Timeout
     THEN /\ caller' = [caller EXCEPT ![c] = "calling"]
          /\ Becomes(SetState(cb, "half-open"), FALSE)
     ELSE /\ caller' = [caller EXCEPT ![c] = "idle"]
          /\ UNCHANGED <<cb, failedNow, cooling>>
  /\ seenAge' = [seenAge EXCEPT ![c] = 0]
  /\ UNCHANGED <<healthy, streak>>

Fail(c) ==
  /\ caller[c] = "calling" /\ ~healthy
  /\ caller' = [caller EXCEPT ![c] = "idle"]
  /\ Becomes(RecordFailure(cb), TRUE)
  /\ streak' = 0
  /\ UNCHANGED <<seenAge, healthy>>

Succeed(c) ==
  /\ caller[c] = "calling" /\ healthy
  /\ caller' = [caller EXCEPT ![c] = "idle"]
  /\ Becomes(RecordSuccess(cb), FALSE)
  /\ streak' = UpTo(SuccessThreshold + 1, streak)
  /\ UNCHANGED <<seenAge, healthy>>

\* What is called (Redis) breaks down or comes back.
Turn ==
  /\ healthy' = ~healthy
  /\ UNCHANGED <<cb, caller, seenAge, streak, failedNow, cooling>>

Tick ==
  /\ cb' = [cb EXCEPT !.failureAge = UpTo(Timeout + 1, @), !.changeAge = UpTo(Cooldown, @)]
  /\ seenAge' = [c \in Callers |-> IF caller[c] = "deciding"
                                   THEN UpTo(Timeout + 1, seenAge[c]) ELSE 0]
  /\ UNCHANGED <<caller, healthy, streak, failedNow, cooling>>

Execute(c) == AllowRequest(c) \/ Decide(c) \/ Fail(c) \/ Succeed(c)

BreakerNext == Turn \/ Tick \/ \E c \in Callers : Execute(c)

\* Time passes, and callers go on calling.
BreakerSpec ==
  /\ BreakerInit /\ [][BreakerNext]_breakerVars
  /\ WF_breakerVars(Tick)
  /\ \A c \in Callers : WF_breakerVars(Execute(c))

--------------------------------------------------------------------------------
(* Properties *)

BreakerTypeOK ==
  /\ cb \in Breakers
  /\ caller \in [Callers -> {"idle", "deciding", "calling"}]
  /\ seenAge \in [Callers -> 0 .. Timeout + 1]
  /\ healthy \in BOOLEAN /\ failedNow \in BOOLEAN /\ cooling \in BOOLEAN
  /\ streak \in 0 .. SuccessThreshold + 1

(* Too many failures leave the breaker closed, and a failed try leaves it        *)
(* half-open, only when the last one came within Cooldown of the last change     *)
(* (circuit_breaker.go:98, :135): whatever order the callers come in.            *)
FailuresOpen ==
  \/ cb.state = "closed" /\ cb.failureCount >= FailureThreshold
  \/ cb.state = "half-open" /\ failedNow
  => cooling

(* The breaker closes from half-open alone, and never with fewer than            *)
(* SuccessThreshold successes in a row, also when calls that began before it      *)
(* opened end now (circuit_breaker.go:113).                                       *)
ClosesOnRecovery ==
  [][cb.state # "closed" /\ cb'.state = "closed" =>
       cb.state = "half-open" /\ streak' >= SuccessThreshold]_breakerVars

(* When the calls succeed again and go on being made, the breaker closes and      *)
(* stays closed: a change that the cooldown drops is made later, and a caller     *)
(* with an old reading half-opens it for a while only (circuit_breaker.go:77).    *)
Recovers == <>[]healthy => <>[](cb.state = "closed")
================================================================================
