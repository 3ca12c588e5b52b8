------------------------------ MODULE RoundLedger ------------------------------
(***************************************************************************)
(* What a match promises its two players about answers and points, without *)
(* connections, timers, channels or locks.  Rounds are opened one after    *)
(* the other, at most LastRound of them.  While a round is open each       *)
(* player may make one entry, which stands.  A round closes when everyone  *)
(* has made an entry or at its deadline; closing is the only moment at     *)
(* which points are given, one for each right entry, and a closed round is *)
(* never touched again.  GameSession is shown to implement this module.    *)
(***************************************************************************)
EXTENDS Integers

CONSTANTS Players,    \* the players of the match
          LastRound   \* how many rounds it has

VARIABLES round,      \* number of the current round, 0 before the first
          open,       \* may entries still be made in it?
          entry,      \* what each player entered in it
          points      \* the points of each player

ledgerVars == <<round, open, entry, points>>

Entries == {"none", "right", "wrong"}

Blank == [p \in Players |-> "none"]

(* The points after closing a round with entries e. *)
Awarded(e) == [p \in Players |-> IF e[p] = "right" THEN points[p] + 1 ELSE points[p]]

Init == /\ round = 0
        /\ open = FALSE
        /\ entry = Blank
        /\ points = [p \in Players |-> 0]

OpenRound == /\ ~open
             /\ round < LastRound
             /\ round' = round + 1
             /\ open' = TRUE
             /\ entry' = Blank
             /\ UNCHANGED points

(* An entry is made; it may be the one that closes the round. *)
Enter(p, e) ==
  /\ open
  /\ entry[p] = "none"
  /\ entry' = [entry EXCEPT ![p] = e]
  /\ UNCHANGED round
  /\ \/ /\ \E q \in Players : entry'[q] = "none"
        /\ UNCHANGED <<open, points>>
     \/ /\ \A q \in Players : entry'[q] # "none"
        /\ open' = FALSE
        /\ points' = Awarded(entry')

Deadline == /\ open
            /\ open' = FALSE
            /\ points' = Awarded(entry)
            /\ UNCHANGED <<round, entry>>

Next == \/ OpenRound
        \/ \E p \in Players : Enter(p, "right") \/ Enter(p, "wrong")
        \/ Deadline

Spec == Init /\ [][Next]_ledgerVars

================================================================================
