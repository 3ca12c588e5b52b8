--------------------------------- MODULE MCParts ---------------------------------
(* The smaller parts, side by side in one run: each is a state machine of its    *)
(* own, and a behaviour is one of one of them, while the others stand still.     *)
EXTENDS LockOrder, CircuitBreaker, Admission, TokenBucket, Leases, Questions, GameClient

VARIABLE part

PartsInit ==
  /\ OrderInit /\ BreakerInit /\ AdmissionInit /\ BucketInit /\ LeasesInit
  /\ QuestionsInit /\ ClientInit
  /\ part \in {"order", "breaker", "admission", "bucket", "leases", "questions", "client"}
  /\ part # "questions" => difficulty = 0
  /\ part # "client" => conn = "registered"

PartsNext ==
  /\ UNCHANGED part
  /\ CASE part = "order"     -> OrderNext     [] OTHER -> UNCHANGED orderVars
  /\ CASE part = "breaker"   -> BreakerNext   [] OTHER -> UNCHANGED breakerVars
  /\ CASE part = "admission" -> AdmissionNext [] OTHER -> UNCHANGED admissionVars
  /\ CASE part = "bucket"    -> BucketNext    [] OTHER -> UNCHANGED bucketVars
  /\ CASE part = "leases"    -> LeasesNext    [] OTHER -> UNCHANGED leasesVars
  /\ CASE part = "questions" -> QuestionsNext [] OTHER -> UNCHANGED questionsVars
  /\ CASE part = "client"    -> ClientNext    [] OTHER -> UNCHANGED clientVars

PartsSpec ==
  /\ PartsInit
  /\ [][PartsNext]_<<part, orderVars, breakerVars, admissionVars, bucketVars, leasesVars,
                    questionsVars, clientVars>>
  /\ WF_breakerVars(part = "breaker" /\ Tick)
  /\ \A c \in Callers : WF_breakerVars(part = "breaker" /\ Execute(c))
  /\ WF_leasesVars(part = "leases" /\ Age)
  /\ WF_clientVars(part = "client" /\ Receive)
  /\ WF_clientVars(part = "client" /\ (StartNextRound \/ RoundTimer))
================================================================================
