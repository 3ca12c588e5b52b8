----------------------------- MODULE MCMatchmaking -----------------------------
(***************************************************************************)
(* Matchmaking for TLC: players and nodes are interchangeable, and a       *)
(* behaviour that begins with some of its bounds used up sees one kind of  *)
(* trouble, or two, instead of all of them, but more players that join.    *)
(***************************************************************************)
EXTENDS Matchmaking

PlayersAndNodes == Permutations(Players) \union Permutations(Nodes)

Bound == [joins |-> MaxJoins, leaves |-> MaxLeaves, lapses |-> MaxLapses,
          faults |-> MaxFaults, crashes |-> MaxCrashes]

\* All that is left is joins many JOIN_QUEUE messages and the troubles seen.
Left(joins, seen) ==
  [b \in Bounds |-> IF b = "joins" THEN MaxJoins - joins
                    ELSE IF b \in seen THEN 0 ELSE Bound[b]]

BusyInit ==
  Fresh /\ used \in {Left(4, {}), Left(3, {"leaves"}), Left(3, {"lapses"}),
                     Left(2, {"faults"}), Left(2, {"crashes"})}
BusySpec == BusyInit /\ [][Next]_vars

TroubledInit ==
  Fresh /\ used \in {Left(2, {"leaves"}), Left(2, {"lapses"}),
                     Left(2, {"faults", "crashes"})}
TroubledSpec == TroubledInit /\ [][Next]_vars /\ Fairness
================================================================================
