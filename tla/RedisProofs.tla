------------------------------ MODULE RedisProofs ------------------------------
(***************************************************************************)
(* Proofs about what guards Redis and what it guards: CircuitBreaker (for  *)
(* any callers, thresholds and times: the types, that too many failures    *)
(* open it, and that only successes in a row close it) and Leases (for any *)
(* nodes and any LeaseTTL: the types, and that nobody but the node in the  *)
(* key believes to own the game).                                          *)
(***************************************************************************)
EXTENDS CircuitBreaker, Leases, TLAPS

--------------------------------------------------------------------------------
(* CircuitBreaker: the invariant *)

\* The successes counted are successes in a row.
Counted == cb.successCount <= streak

BreakerInv == BreakerTypeOK /\ FailuresOpen /\ Counted

--------------------------------------------------------------------------------
(* The methods *)

\* A counter that stops at its bound stays in its range, and grows by one below it.
LEMMA UpToBounds ==
  ASSUME NEW max \in Nat, NEW n \in 0 .. max
  PROVE  UpTo(max, n) \in 0 .. max
BY DEF UpTo

\* setState changes the state to the one asked for, or nothing within the cooldown; the
\* counters start again when it closes (circuit_breaker.go:134).
LEMMA SetStateChanges ==
  ASSUME NEW b \in Breakers, NEW to \in CircuitStates
  PROVE  /\ SetState(b, to) \in Breakers
         /\ b.changeAge < Cooldown => SetState(b, to) = b
         /\ ~(b.changeAge < Cooldown) => SetState(b, to).state = to
         /\ SetState(b, to).successCount \in {b.successCount, 0}
         /\ SetState(b, to).failureCount \in {b.failureCount, 0}
         /\ SetState(b, to).state \in {b.state, to}
<1>1. CASE b.changeAge < Cooldown
  BY <1>1 DEF SetState
<1>2. CASE ~(b.changeAge < Cooldown)
  <2> DEFINE fc == IF to = "closed" THEN 0 ELSE b.failureCount
             sc == IF to = "closed" THEN 0 ELSE b.successCount
  <2>1. SetState(b, to) = [b EXCEPT !.state = to, !.changeAge = 0,
                                    !.failureCount = fc, !.successCount = sc]
    BY <1>2 DEF SetState
  <2>2. fc \in 0 .. FailureThreshold + 1 /\ fc \in {b.failureCount, 0}
    BY BreakerAssumption DEF Breakers
  <2>3. sc \in 0 .. SuccessThreshold + 1 /\ sc \in {b.successCount, 0}
    BY BreakerAssumption DEF Breakers
  <2>4. 0 \in 0 .. Cooldown
    BY BreakerAssumption
  <2> HIDE DEF fc, sc
  <2>5. SetState(b, to) \in Breakers
    BY <2>1, <2>2, <2>3, <2>4 DEF Breakers
  <2>6. /\ SetState(b, to).state = to
        /\ SetState(b, to).failureCount = fc /\ SetState(b, to).successCount = sc
    BY <2>1 DEF Breakers
  <2> QED
    BY <1>2, <2>2, <2>3, <2>5, <2>6
<1> QED
  BY <1>1, <1>2

\* recordFailure: no successes are left, and after too many failures, or the failure of a
\* try, the breaker is open unless the cooldown is on (circuit_breaker.go:98).
LEMMA FailureCounts ==
  ASSUME NEW b \in Breakers
  PROVE  /\ RecordFailure(b) \in Breakers
         /\ RecordFailure(b).successCount = 0
         /\ RecordFailure(b).state \in {b.state, "open"}
         /\ \/ RecordFailure(b).state = "closed" /\ RecordFailure(b).failureCount >= FailureThreshold
            \/ RecordFailure(b).state = "half-open"
            => b.changeAge < Cooldown
<1> DEFINE f == Failed(b)
<1>1. /\ f \in Breakers /\ f.successCount = 0
      /\ f.state = b.state /\ f.changeAge = b.changeAge
  <2> DEFINE fc == UpTo(FailureThreshold + 1, b.failureCount)
  <2>1. fc \in 0 .. FailureThreshold + 1
    BY BreakerAssumption, UpToBounds DEF Breakers
  <2>2. f = [b EXCEPT !.failureCount = fc, !.failureAge = 0, !.successCount = 0]
    BY DEF Failed
  <2>3. 0 \in 0 .. Timeout + 1 /\ 0 \in 0 .. SuccessThreshold + 1
    BY BreakerAssumption
  <2> HIDE DEF fc, f
  <2> QED
    BY <2>1, <2>2, <2>3 DEF Breakers
<1>2. "open" \in CircuitStates
  BY DEF CircuitStates
<1>3. RecordFailure(b) =
        IF f.state = "half-open" \/ f.failureCount >= FailureThreshold
        THEN SetState(f, "open") ELSE f
  BY DEF RecordFailure
<1> HIDE DEF f
<1>4. /\ SetState(f, "open") \in Breakers
      /\ f.changeAge < Cooldown => SetState(f, "open") = f
      /\ ~(f.changeAge < Cooldown) => SetState(f, "open").state = "open"
      /\ SetState(f, "open").successCount \in {f.successCount, 0}
      /\ SetState(f, "open").state \in {f.state, "open"}
  BY <1>1, <1>2, SetStateChanges
<1> QED
  BY <1>1, <1>3, <1>4

\* recordSuccess: one success more, or none left; it closes the breaker only from
\* half-open and at the threshold, and a closed breaker has no failures
\* (circuit_breaker.go:113).
LEMMA SuccessCounts ==
  ASSUME NEW b \in Breakers
  PROVE  /\ RecordSuccess(b) \in Breakers
         /\ RecordSuccess(b).successCount <= UpTo(SuccessThreshold + 1, b.successCount)
         /\ RecordSuccess(b).state \in {b.state, "closed"}
         /\ RecordSuccess(b).state = "closed" => RecordSuccess(b).failureCount = 0
         /\ RecordSuccess(b).state # b.state =>
              /\ b.state = "half-open"
              /\ UpTo(SuccessThreshold + 1, b.successCount) >= SuccessThreshold
<1> DEFINE u == UpTo(SuccessThreshold + 1, b.successCount)
           s == [b EXCEPT !.successCount = u]
           c == IF s.state = "half-open" /\ s.successCount >= SuccessThreshold
                THEN SetState(s, "closed") ELSE s
<1>1. u \in 0 .. SuccessThreshold + 1
  BY BreakerAssumption, UpToBounds DEF Breakers
<1>2. s \in Breakers /\ s.state = b.state /\ s.successCount = u
  <2> HIDE DEF u
  <2> QED
    BY <1>1 DEF Breakers
<1>3. "closed" \in CircuitStates
  BY DEF CircuitStates
<1>4. RecordSuccess(b) = IF c.state = "closed" THEN [c EXCEPT !.failureCount = 0] ELSE c
  BY DEF RecordSuccess
<1> HIDE DEF s, u
<1>5. /\ SetState(s, "closed") \in Breakers
      /\ SetState(s, "closed").successCount \in {u, 0}
      /\ SetState(s, "closed").state \in {b.state, "closed"}
  BY <1>2, <1>3, SetStateChanges
<1>6. /\ c \in Breakers /\ c.successCount \in {u, 0} /\ c.state \in {b.state, "closed"}
      /\ c.state # b.state => b.state = "half-open" /\ u >= SuccessThreshold
  BY <1>2, <1>5
<1> HIDE DEF c
<1>7. /\ RecordSuccess(b) \in Breakers
      /\ RecordSuccess(b).successCount = c.successCount
      /\ RecordSuccess(b).state = c.state
      /\ c.state = "closed" => RecordSuccess(b).failureCount = 0
  BY <1>4, <1>6, BreakerAssumption DEF Breakers
<1>8. c.successCount <= u
  BY <1>1, <1>6
<1> QED
  BY <1>6, <1>7, <1>8 DEF u
--------------------------------------------------------------------------------
(* The callers *)

\* A successful call adds one success in a row, and a failed one leaves none; what
\* happens to the breaker is told of, with the failures and the cooldown of it.
LEMMA InvariantKept ==
  ASSUME BreakerInv, [BreakerNext]_breakerVars
  PROVE  BreakerInv'
<1> USE BreakerAssumption
<1>0. /\ cb \in Breakers /\ streak \in 0 .. SuccessThreshold + 1
      /\ "half-open" \in CircuitStates
  BY DEF BreakerInv, BreakerTypeOK, CircuitStates
<1>1. ASSUME NEW c \in Callers, AllowRequest(c) PROVE BreakerInv'
  <2>1. seenAge' \in [Callers -> 0 .. Timeout + 1]
    BY <1>1 DEF AllowRequest, BreakerInv, BreakerTypeOK, Breakers
  <2>2. caller' \in [Callers -> {"idle", "deciding", "calling"}]
    BY <1>1 DEF AllowRequest, BreakerInv, BreakerTypeOK
  <2>3. UNCHANGED <<cb, healthy, streak, failedNow, cooling>>
    BY <1>1 DEF AllowRequest
  <2> QED
    BY <2>1, <2>2, <2>3 DEF BreakerInv, BreakerTypeOK, FailuresOpen, Counted
<1>2. ASSUME NEW c \in Callers, Decide(c) PROVE BreakerInv'
  <2>1. /\ caller' \in [Callers -> {"idle", "deciding", "calling"}]
        /\ seenAge' \in [Callers -> 0 .. Timeout + 1]
        /\ UNCHANGED <<healthy, streak>>
    <3>1. 0 \in 0 .. Timeout + 1
      OBVIOUS
    <3> QED
      BY <1>2, <3>1 DEF Decide, BreakerInv, BreakerTypeOK
  <2>2. CASE UNCHANGED <<cb, failedNow, cooling>>
    BY <2>1, <2>2 DEF BreakerInv, BreakerTypeOK, FailuresOpen, Counted
  <2>3. CASE Becomes(SetState(cb, "half-open"), FALSE)
    <3>1. /\ cb' \in Breakers
          /\ cb'.successCount \in {cb.successCount, 0}
          /\ cb'.failureCount \in {cb.failureCount, 0}
          /\ cb'.state \in {cb.state, "half-open"}
      BY <1>0, <2>3, SetStateChanges DEF Becomes
    <3>2. UNCHANGED cooling /\ (failedNow' <=> cb'.state = cb.state /\ failedNow)
      BY <2>3 DEF Becomes
    <3>3. failedNow' \in BOOLEAN /\ cooling' \in BOOLEAN
      BY <2>3, Zenon DEF Becomes, BreakerInv, BreakerTypeOK
    <3>4. BreakerTypeOK'
      BY <2>1, <3>1, <3>3 DEF BreakerInv, BreakerTypeOK
    <3>5. cb.state \in CircuitStates /\ cb.failureCount \in Nat
      BY <1>0 DEF Breakers
    <3>6. FailuresOpen'
      BY <3>1, <3>2, <3>5 DEF BreakerInv, FailuresOpen
    <3>7. Counted'
      BY <1>0, <2>1, <3>1 DEF BreakerInv, Counted
    <3> QED
      BY <3>4, <3>6, <3>7 DEF BreakerInv
  <2> QED
    BY <1>2, <2>2, <2>3 DEF Decide
<1>3. ASSUME NEW c \in Callers, Fail(c) PROVE BreakerInv'
  <2>1. /\ caller' \in [Callers -> {"idle", "deciding", "calling"}]
        /\ UNCHANGED <<seenAge, healthy>> /\ streak' = 0
    BY <1>3 DEF Fail, BreakerInv, BreakerTypeOK
  <2>2. cb' = RecordFailure(cb)
    BY <1>3 DEF Fail, Becomes
  <2>3. (cooling' <=> cb.changeAge < Cooldown)
    BY <1>3 DEF Fail, Becomes
  <2>4. failedNow' \in BOOLEAN /\ cooling' \in BOOLEAN
    <3>1. cooling' = (cb.changeAge < Cooldown)
      BY <1>3, Zenon DEF Fail, Becomes
    <3>2. failedNow' = (RecordFailure(cb).state = cb.state)
      BY <1>3, Zenon DEF Fail, Becomes
    <3>3. failedNow' \in BOOLEAN
      BY <3>2, Zenon
    <3>4. (cb.changeAge < Cooldown) \in BOOLEAN
      BY <1>0, SMT DEF Breakers
    <3> QED
      BY <3>1, <3>3, <3>4, Zenon
  <2>5. /\ cb' \in Breakers /\ cb'.successCount = 0
        /\ \/ cb'.state = "closed" /\ cb'.failureCount >= FailureThreshold
           \/ cb'.state = "half-open"
           => cb.changeAge < Cooldown
    BY <1>0, <2>2, FailureCounts
  <2>6. BreakerTypeOK'
    BY <2>1, <2>4, <2>5 DEF BreakerInv, BreakerTypeOK
  <2>7. FailuresOpen' /\ Counted'
    BY <2>1, <2>3, <2>5 DEF FailuresOpen, Counted
  <2> QED
    BY <2>6, <2>7 DEF BreakerInv
<1>4. ASSUME NEW c \in Callers, Succeed(c) PROVE BreakerInv'
  <2>1. /\ caller' \in [Callers -> {"idle", "deciding", "calling"}]
        /\ UNCHANGED <<seenAge, healthy>>
        /\ streak' = UpTo(SuccessThreshold + 1, streak)
    BY <1>4 DEF Succeed, BreakerInv, BreakerTypeOK
  <2>2. cb' = RecordSuccess(cb) /\ UNCHANGED cooling
        /\ (failedNow' <=> cb'.state = cb.state /\ failedNow)
    BY <1>4 DEF Succeed, Becomes
  <2>3. failedNow' \in BOOLEAN /\ cooling' \in BOOLEAN
    BY <1>4, Zenon DEF Succeed, Becomes, BreakerInv, BreakerTypeOK
  <2>4. /\ cb' \in Breakers
        /\ cb'.successCount <= UpTo(SuccessThreshold + 1, cb.successCount)
        /\ cb'.state \in {cb.state, "closed"}
        /\ cb'.state = "closed" => cb'.failureCount = 0
    BY <1>0, <2>2, SuccessCounts
  <2>5. /\ UpTo(SuccessThreshold + 1, cb.successCount) <= streak'
        /\ streak' \in 0 .. SuccessThreshold + 1
    BY <1>0, <2>1 DEF UpTo, Breakers, BreakerInv, Counted
  <2>6. BreakerTypeOK'
    BY <2>1, <2>3, <2>4, <2>5 DEF BreakerInv, BreakerTypeOK
  <2>7. Counted'
    <3>1. /\ cb'.successCount \in Int /\ streak' \in Int
          /\ UpTo(SuccessThreshold + 1, cb.successCount) \in Int
      BY <1>0, <2>4, <2>5, UpToBounds DEF Breakers
    <3> QED
      BY <2>4, <2>5, <3>1 DEF Counted
  <2>8. FailuresOpen'
    <3>1. 0 < FailureThreshold /\ cb.state \in CircuitStates
      BY <1>0 DEF Breakers
    <3> QED
      BY <2>2, <2>4, <3>1 DEF BreakerInv, FailuresOpen
  <2> QED
    BY <2>6, <2>7, <2>8 DEF BreakerInv
<1>5. CASE Turn
  BY <1>5 DEF Turn, BreakerInv, BreakerTypeOK, FailuresOpen, Counted
<1>6. CASE Tick
  <2>1. /\ cb' \in Breakers /\ cb'.state = cb.state
        /\ cb'.failureCount = cb.failureCount /\ cb'.successCount = cb.successCount
    <3> DEFINE f == UpTo(Timeout + 1, cb.failureAge)
               a == UpTo(Cooldown, cb.changeAge)
    <3>1. f \in 0 .. Timeout + 1 /\ a \in 0 .. Cooldown
      BY <1>0, UpToBounds DEF Breakers
    <3>2. cb' = [cb EXCEPT !.failureAge = f, !.changeAge = a]
      BY <1>6 DEF Tick
    <3> HIDE DEF f, a
    <3> QED
      BY <1>0, <3>1, <3>2 DEF Breakers
  <2>2. seenAge' \in [Callers -> 0 .. Timeout + 1]
    BY <1>6 DEF Tick, UpTo, BreakerInv, BreakerTypeOK
  <2>3. UNCHANGED <<caller, healthy, streak, failedNow, cooling>>
    BY <1>6 DEF Tick
  <2> QED
    BY <2>1, <2>2, <2>3 DEF BreakerInv, BreakerTypeOK, FailuresOpen, Counted
<1>7. CASE UNCHANGED breakerVars
  BY <1>7 DEF breakerVars, BreakerInv, BreakerTypeOK, FailuresOpen, Counted
<1> QED
  BY <1>1, <1>2, <1>3, <1>4, <1>5, <1>6, <1>7 DEF BreakerNext, Execute

\* The inductive invariant holds in every reachable state.
THEOREM BreakerInvariance == BreakerSpec => []BreakerInv
<1>1. BreakerInit => BreakerInv
  <2> SUFFICES ASSUME BreakerInit PROVE BreakerInv
    OBVIOUS
  <2>1. cb \in Breakers /\ cb.state = "closed" /\ cb.failureCount = 0 /\ cb.successCount = 0
    BY BreakerAssumption DEF BreakerInit, Breakers, CircuitStates
  <2>2. seenAge \in [Callers -> 0 .. Timeout + 1]
    BY BreakerAssumption DEF BreakerInit
  <2>3. /\ caller \in [Callers -> {"idle", "deciding", "calling"}]
        /\ healthy \in BOOLEAN /\ failedNow \in BOOLEAN /\ cooling \in BOOLEAN
    BY DEF BreakerInit
  <2>4. streak = 0 /\ streak \in 0 .. SuccessThreshold + 1
    BY BreakerAssumption DEF BreakerInit
  <2> QED
    BY <2>1, <2>2, <2>3, <2>4, BreakerAssumption
    DEF BreakerInv, BreakerTypeOK, FailuresOpen, Counted
<1>2. BreakerInv /\ [BreakerNext]_breakerVars => BreakerInv'
  BY InvariantKept
<1> QED
  BY <1>1, <1>2, PTL DEF BreakerSpec

\* Every field of the breaker, and every caller, keeps its type.
THEOREM BreakerTypeCorrect == BreakerSpec => []BreakerTypeOK
<1>1. BreakerInv => BreakerTypeOK
  BY DEF BreakerInv
<1> QED
  BY <1>1, BreakerInvariance, PTL

\* A breaker that is not open after too many failures, or half-open after a failed try,
\* is so because of the cooldown (circuit_breaker.go:98, :135).
THEOREM FailuresOpenCorrect == BreakerSpec => []FailuresOpen
<1>1. BreakerInv => FailuresOpen
  BY DEF BreakerInv
<1> QED
  BY <1>1, BreakerInvariance, PTL

\* Only SuccessThreshold successes in a row close the breaker, and only from half-open,
\* in whatever order the callers come in (circuit_breaker.go:113).
THEOREM ClosesOnRecoveryCorrect == BreakerSpec => ClosesOnRecovery
<1> DEFINE Closes == cb.state # "closed" /\ cb'.state = "closed" =>
                       cb.state = "half-open" /\ streak' >= SuccessThreshold
<1>1. BreakerInv /\ [BreakerNext]_breakerVars => [Closes]_breakerVars
  <2> SUFFICES ASSUME BreakerInv, BreakerNext, cb.state # "closed", cb'.state = "closed"
               PROVE  cb.state = "half-open" /\ streak' >= SuccessThreshold
    OBVIOUS
  <2> USE BreakerAssumption
  <2>0. /\ cb \in Breakers /\ streak \in 0 .. SuccessThreshold + 1
        /\ "half-open" \in CircuitStates
    BY DEF BreakerInv, BreakerTypeOK, CircuitStates
  <2>1. ASSUME NEW c \in Callers, AllowRequest(c) PROVE FALSE
    BY <2>1 DEF AllowRequest
  <2>2. ASSUME NEW c \in Callers, Decide(c) PROVE FALSE
    <3>1. cb' = cb \/ cb' = SetState(cb, "half-open")
      BY <2>2 DEF Decide, Becomes
    <3> QED
      BY <2>0, <3>1, SetStateChanges
  <2>3. ASSUME NEW c \in Callers, Fail(c) PROVE FALSE
    <3>1. cb' = RecordFailure(cb)
      BY <2>3 DEF Fail, Becomes
    <3> QED
      BY <2>0, <3>1, FailureCounts
  <2>4. ASSUME NEW c \in Callers, Succeed(c)
        PROVE  cb.state = "half-open" /\ streak' >= SuccessThreshold
    <3>1. /\ cb' = RecordSuccess(cb)
          /\ streak' = UpTo(SuccessThreshold + 1, streak)
      BY <2>4 DEF Succeed, Becomes
    <3>2. /\ cb.state = "half-open"
          /\ UpTo(SuccessThreshold + 1, cb.successCount) >= SuccessThreshold
      BY <2>0, <3>1, SuccessCounts
    <3>3. UpTo(SuccessThreshold + 1, cb.successCount) <= streak'
      BY <2>0, <3>1 DEF UpTo, Breakers, BreakerInv, Counted
    <3>4. /\ streak' \in Int
          /\ UpTo(SuccessThreshold + 1, cb.successCount) \in Int
      BY <2>0, <3>1, UpToBounds DEF Breakers
    <3> QED
      BY <3>2, <3>3, <3>4
  <2>5. CASE Turn
    BY <2>5 DEF Turn
  <2>6. CASE Tick
    BY <2>0, <2>6 DEF Tick, Breakers
  <2> QED
    BY <2>1, <2>2, <2>3, <2>4, <2>5, <2>6 DEF BreakerNext, Execute
<1>2. ClosesOnRecovery <=> [][Closes]_breakerVars
  BY PTL DEF ClosesOnRecovery
<1> QED
  BY <1>1, <1>2, BreakerInvariance, PTL DEF BreakerSpec

--------------------------------------------------------------------------------
(* Leases *)

\* What OneOwner needs of the steps inside AcquireSession and ReleaseSession: a node
\* in one of them does not have the game in its map.
InBetween == ~lapsed => \A n \in Nodes : sessions[n] => doing[n] = "nothing"

LeasesInv == LeasesTypeOK /\ OneOwner /\ InBetween

\* Every step of every node, and of time, keeps the types.
LEMMA TypesKept ==
  ASSUME LeasesTypeOK, [LeasesNext]_leasesVars
  PROVE  LeasesTypeOK'
<1> USE LeasesAssumption DEF LeasesTypeOK
<1>1. CASE Age
  <2>1. lapsed' \in BOOLEAN
    BY <1>1, Zenon DEF Age
  <2>2. /\ owner' \in Nodes \union {NoNode} /\ ttl' \in 0 .. LeaseTTL
        /\ owner' = NoNode <=> ttl' = 0
    BY <1>1 DEF Age
  <2> QED
    BY <1>1, <2>1, <2>2 DEF Age
<1>2. ASSUME NEW n \in Nodes, Acquire(n) PROVE LeasesTypeOK'
  BY <1>2 DEF Acquire
<1>3. ASSUME NEW n \in Nodes, Believe(n) PROVE LeasesTypeOK'
  BY <1>3 DEF Believe
<1>4. ASSUME NEW n \in Nodes, Release(n) PROVE LeasesTypeOK'
  BY <1>4 DEF Release
<1>5. ASSUME NEW n \in Nodes, Delete(n) PROVE LeasesTypeOK'
  BY <1>5 DEF Delete
<1>6. ASSUME NEW n \in Nodes, Refresh(n) PROVE LeasesTypeOK'
  BY <1>6 DEF Refresh
<1>7. ASSUME NEW n \in Nodes, StopNode(n) PROVE LeasesTypeOK'
  BY <1>7 DEF StopNode
<1>8. ASSUME NEW n \in Nodes, Crash(n) PROVE LeasesTypeOK'
  BY <1>8 DEF Crash
<1>9. CASE UNCHANGED leasesVars
  BY <1>9 DEF leasesVars
<1> QED
  BY <1>1, <1>2, <1>3, <1>4, <1>5, <1>6, <1>7, <1>8, <1>9 DEF LeasesNext

\* A free key belongs to nobody's map, until a key has expired under its owner.
LEMMA FreeKey ==
  ASSUME OneOwner, ~lapsed, owner = NoNode, NEW n \in Nodes
  PROVE  ~Has(n)
BY LeasesAssumption DEF OneOwner

\* Each step keeps the owner the only one who believes to be it (the key is set only
\* when it is free, and deleted only by who believes to have it).
LEMMA OwnerKept ==
  ASSUME LeasesInv, [LeasesNext]_leasesVars
  PROVE  OneOwner' /\ InBetween'
<1> SUFFICES ASSUME ~lapsed'
             PROVE  /\ \A m \in Nodes : Has(m)' => owner' = m
                    /\ \A m \in Nodes : sessions'[m] => doing'[m] = "nothing"
  BY DEF OneOwner, InBetween
<1> USE LeasesAssumption DEF LeasesInv, LeasesTypeOK, OneOwner, InBetween, Has
<1>1. CASE Age
  BY <1>1 DEF Age
<1>2. ASSUME NEW n \in Nodes, Acquire(n)
      PROVE  /\ \A m \in Nodes : Has(m)' => owner' = m
             /\ \A m \in Nodes : sessions'[m] => doing'[m] = "nothing"
  BY <1>2, FreeKey DEF Acquire
<1>3. ASSUME NEW n \in Nodes, Believe(n)
      PROVE  /\ \A m \in Nodes : Has(m)' => owner' = m
             /\ \A m \in Nodes : sessions'[m] => doing'[m] = "nothing"
  BY <1>3 DEF Believe
<1>4. ASSUME NEW n \in Nodes, Release(n)
      PROVE  /\ \A m \in Nodes : Has(m)' => owner' = m
             /\ \A m \in Nodes : sessions'[m] => doing'[m] = "nothing"
  BY <1>4 DEF Release
<1>5. ASSUME NEW n \in Nodes, Delete(n)
      PROVE  /\ \A m \in Nodes : Has(m)' => owner' = m
             /\ \A m \in Nodes : sessions'[m] => doing'[m] = "nothing"
  BY <1>5 DEF Delete
<1>6. ASSUME NEW n \in Nodes, Refresh(n)
      PROVE  /\ \A m \in Nodes : Has(m)' => owner' = m
             /\ \A m \in Nodes : sessions'[m] => doing'[m] = "nothing"
  BY <1>6 DEF Refresh
<1>7. ASSUME NEW n \in Nodes, StopNode(n)
      PROVE  /\ \A m \in Nodes : Has(m)' => owner' = m
             /\ \A m \in Nodes : sessions'[m] => doing'[m] = "nothing"
  BY <1>7 DEF StopNode
<1>8. ASSUME NEW n \in Nodes, Crash(n)
      PROVE  /\ \A m \in Nodes : Has(m)' => owner' = m
             /\ \A m \in Nodes : sessions'[m] => doing'[m] = "nothing"
  BY <1>8 DEF Crash
<1>9. CASE UNCHANGED leasesVars
  BY <1>9 DEF leasesVars
<1> QED
  BY <1>1, <1>2, <1>3, <1>4, <1>5, <1>6, <1>7, <1>8, <1>9 DEF LeasesNext

\* The inductive invariant holds in every reachable state (cluster.go:58-144).
THEOREM LeasesInvariance == LeasesSpec => []LeasesInv
<1>1. LeasesInit => LeasesInv
  <2> SUFFICES ASSUME LeasesInit PROVE LeasesInv
    OBVIOUS
  <2>1. LeasesTypeOK
    <3>1. /\ sessions \in [Nodes -> BOOLEAN] /\ beating \in [Nodes -> BOOLEAN]
          /\ lapsed \in BOOLEAN
      BY DEF LeasesInit
    <3>2. /\ owner \in Nodes \union {NoNode}
          /\ ttl \in 0 .. LeaseTTL /\ (owner = NoNode <=> ttl = 0)
          /\ doing \in [Nodes -> {"nothing", "acquired", "releasing"}]
      BY LeasesAssumption DEF LeasesInit
    <3> QED
      BY <3>1, <3>2 DEF LeasesTypeOK
  <2>2. \A n \in Nodes : sessions[n] = FALSE /\ doing[n] = "nothing"
    BY DEF LeasesInit
  <2> QED
    BY <2>1, <2>2 DEF LeasesInv, OneOwner, InBetween, Has
<1>2. LeasesInv /\ [LeasesNext]_leasesVars => LeasesInv'
  BY TypesKept, OwnerKept DEF LeasesInv
<1> QED
  BY <1>1, <1>2, PTL DEF LeasesSpec

\* The key, its time to live and the nodes' maps keep their types; an expired key is
\* a free one (cluster.go:61).
THEOREM LeasesTypeCorrect == LeasesSpec => []LeasesTypeOK
<1>1. LeasesInv => LeasesTypeOK
  BY DEF LeasesInv
<1> QED
  BY <1>1, LeasesInvariance, PTL

\* Until a key has expired under its owner, no two nodes believe to own a game.
THEOREM OneOwnerCorrect == LeasesSpec => []OneOwner
<1>1. LeasesInv => OneOwner
  BY DEF LeasesInv
<1> QED
  BY <1>1, LeasesInvariance, PTL
================================================================================
