--------------------------------- MODULE Admission --------------------------------
(***************************************************************************)
(* What ServeHTTP asks before it takes a connection (ws/handler.go:58):    *)
(* IPAbuseDetector.RecordConnection of the address, authenticate, and      *)
(* RateLimiter.Allow of the player (security.go).  Each request has its    *)
(* own goroutine and neither of the two has a lock: a method reads the     *)
(* timestamps, and stores the valid ones and its own after another may     *)
(* have stored its own.  It judges and extends the slice it filtered (the  *)
(* compiler forwards it to the later reads of the field); that it stores   *)
(* this slice twice, first without its own timestamp, is one store here.   *)
(*                                                                         *)
(* One address and one player, whose requests contend.  A timestamp is its *)
(* age in ticks, kept up to Window, from where on it is not valid.         *)
(*                                                                         *)
(* Left out: that Go's runtime may notice two goroutines inside one map    *)
(* and end the program; the signatures and nonces of security.go, that     *)
(* nothing calls.                                                          *)
(***************************************************************************)
EXTENDS Integers, SequencesExt

CONSTANTS
  Handlers,    \* the goroutines that serve requests
  Threshold,   \* connections an address may open per Window (50)
  Limit,       \* connections a player may open per Window (10)
  Window       \* the sliding window (1 min, 1 s)

ASSUME AdmissionAssumption ==
  Threshold \in Nat \ {0} /\ Limit \in Nat \ {0} /\ Window \in Nat \ {0}

VARIABLES
  serving,      \* where each handler is: "idle", "ip", "auth", "player"
  mine,         \* the valid timestamps it has read, and its own as the last
  connections,  \* ipStats.connections
  blocked,      \* ipStats.blocked
  blockedAge,   \* since ipStats.blockedAt; one more than 2 * Window: long ago
  timestamps,   \* slidingWindow.timestamps of the player
  passed,       \* history: who really passed each of the two, within Window, in the
                \* order of passing: an old one may wait behind a younger one
  sinceOverlap  \* since two handlers were last inside the same method

admissionVars ==
  <<serving, mine, connections, blocked, blockedAge, timestamps, passed, sinceOverlap>>

Ages == 0 .. Window
LongAgo == 2 * Window + 1
Older(max, age) == IF age < max THEN age + 1 ELSE age

\* The stored timestamps are in the order of time (StoredInOrder, LimitsProofs): the
\* valid ones are those that are left without the first n.
Valid(ages) ==
  LET n == CHOOSE n \in 0 .. Len(ages) :
             /\ \A i \in 1 .. n : ages[i] >= Window
             /\ n = Len(ages) \/ ages[n + 1] < Window
  IN  SubSeq(ages, n + 1, Len(ages))

AdmissionInit ==
  /\ serving = [h \in Handlers |-> "idle"]
  /\ mine = [h \in Handlers |-> <<>>]
  /\ connections = <<>> /\ timestamps = <<>>
  /\ blocked = FALSE /\ blockedAge = LongAgo
  /\ passed = [ip |-> <<>>, player |-> <<>>]
  /\ sinceOverlap = Window + 1

Overlap(s) == \E h, k \in Handlers : h # k /\ s[h] = s[k] /\ s[h] \in {"ip", "player"}

Goes(h, to) ==
  /\ serving' = [serving EXCEPT ![h] = to]
  /\ sinceOverlap' = IF Overlap([serving EXCEPT ![h] = to]) THEN 0 ELSE sinceOverlap

SlipForgetsTheBlock(h) ==
  /\ serving[h] = "idle"
  /\ blocked' = FALSE
  /\ Goes(h, "ip") /\ mine' = [mine EXCEPT ![h] = Append(Valid(connections), 0)]
  /\ UNCHANGED <<connections, blockedAge, timestamps, passed>>

\* RecordConnection up to the filter; a block that has lasted is lifted.
Connect(h) ==
  /\ serving[h] = "idle"
  /\ IF blocked /\ blockedAge <= Window
     THEN UNCHANGED <<serving, sinceOverlap, mine, blocked>>
     ELSE /\ blocked' = FALSE
          /\ Goes(h, "ip") /\ mine' = [mine EXCEPT ![h] = Append(Valid(connections), 0)]
  /\ UNCHANGED <<connections, blockedAge, timestamps, passed>>

\* The rest: the address is blocked, or the connection counted.
RecordConnection(h) ==
  /\ serving[h] = "ip"
  /\ IF Len(mine[h]) > Threshold
     THEN /\ connections' = Front(mine[h])
          /\ blocked' = TRUE /\ blockedAge' = Last(mine[h])
          /\ Goes(h, "idle")
          /\ UNCHANGED passed
     ELSE /\ connections' = mine[h]
          /\ passed' = [passed EXCEPT !.ip = Valid(Append(@, Last(mine[h])))]
          /\ Goes(h, "auth")
          /\ UNCHANGED <<blocked, blockedAge>>
  /\ mine' = [mine EXCEPT ![h] = <<>>]
  /\ UNCHANGED timestamps

\* authenticate fails, or Allow filters the player's timestamps.
Authenticate(h) ==
  /\ serving[h] = "auth"
  /\ \/ Goes(h, "idle") /\ UNCHANGED mine
     \/ Goes(h, "player") /\ mine' = [mine EXCEPT ![h] = Append(Valid(timestamps), 0)]
  /\ UNCHANGED <<connections, blocked, blockedAge, timestamps, passed>>

SlipLimitPlusOne(h) ==
  /\ serving[h] = "player"
  /\ IF Len(mine[h]) > Limit + 1
     THEN timestamps' = Front(mine[h]) /\ UNCHANGED passed
     ELSE /\ timestamps' = mine[h]
          /\ passed' = [passed EXCEPT !.player = Valid(Append(@, Last(mine[h])))]
  /\ Goes(h, "idle") /\ mine' = [mine EXCEPT ![h] = <<>>]
  /\ UNCHANGED <<connections, blocked, blockedAge>>

\* The rest of Allow; then the connection is upgraded and registered (Hub).
Allow(h) ==
  /\ serving[h] = "player"
  /\ IF Len(mine[h]) > Limit
     THEN timestamps' = Front(mine[h]) /\ UNCHANGED passed
     ELSE /\ timestamps' = mine[h]
          /\ passed' = [passed EXCEPT !.player = Valid(Append(@, Last(mine[h])))]
  /\ Goes(h, "idle") /\ mine' = [mine EXCEPT ![h] = <<>>]
  /\ UNCHANGED <<connections, blocked, blockedAge>>

TimePasses ==
  LET Aged(ages) == [i \in 1 .. Len(ages) |-> Older(Window, ages[i])]
  IN  /\ mine' = [h \in Handlers |-> Aged(mine[h])]
      /\ connections' = Aged(connections) /\ timestamps' = Aged(timestamps)
      /\ passed' = [ip |-> Valid(Aged(passed.ip)), player |-> Valid(Aged(passed.player))]
      /\ blockedAge' = Older(LongAgo, blockedAge)
      /\ sinceOverlap' = IF Overlap(serving) THEN 0 ELSE Older(Window + 1, sinceOverlap)
      /\ UNCHANGED <<serving, blocked>>

AdmissionNext ==
  \/ TimePasses
  \/ \E h \in Handlers : Connect(h) \/ RecordConnection(h) \/ Authenticate(h) \/ Allow(h)

AdmissionSpec == AdmissionInit /\ [][AdmissionNext]_admissionVars

--------------------------------------------------------------------------------
(* Properties *)

(* An address passes at most Threshold times, and a player at most Limit times,  *)
(* in any Window: two handlers inside the same method at once may break it, and  *)
(* a Window later it holds again (security.go:103, :149; handler.go:61, :75).    *)
AtMostLimit ==
  sinceOverlap > Window =>
    Len(passed.ip) <= Threshold /\ Len(passed.player) <= Limit

(* Nobody passes from a blocked address until the block has lasted a Window.     *)
BlockLasts ==
  sinceOverlap > Window =>
    \A i \in 1 .. Len(passed.ip) :
      passed.ip[i] < blockedAge => blockedAge - passed.ip[i] > Window
================================================================================
