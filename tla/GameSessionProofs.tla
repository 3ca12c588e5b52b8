--------------------------- MODULE GameSessionProofs ---------------------------
(***************************************************************************)
(* Proofs about GameSession, for any number of rounds, any capacity of the *)
(* channel and any number of calls.                                        *)
(***************************************************************************)
EXTENDS GameSession, FiniteSetTheorems, TLAPS

(* A game has at least one round. *)
LEMMA LastRoundPositive == LastRound \in Nat /\ LastRound >= 1
  BY BoundsAssumption DEF LastRound

(* While a round is current, IsLast tells the last round of the game. *)
LEMMA IsLastMeaning ==
  ASSUME currentRound \in Nat, currentRound >= 1, currentRound <= LastRound
  PROVE  IsLast <=> currentRound = LastRound
  BY BoundsAssumption DEF LastRound, IsLast

(* The current round is one of the rounds. *)
LEMMA CurrentIsRound ==
  ASSUME TypeOK, RoundsInOrder, currentRound # 0
  PROVE  /\ currentRound \in 1..Len(rounds)
         /\ Current \in Round
         /\ Current.answers \in [Players -> Marks]
         /\ Current.finalized \in BOOLEAN
<1>1. currentRound \in Nat /\ rounds \in Seq(Round) /\ Len(rounds) = currentRound
  BY DEF TypeOK, RoundsInOrder
<1>2. currentRound \in 1..Len(rounds)
  BY <1>1
<1>3. Current \in Round
  BY <1>1, <1>2 DEF Current
<1>. QED
  BY <1>2, <1>3 DEF Round

(* What finalizeCurrentRoundLocked leaves, given the current round with    *)
(* the answers it now has.                                                 *)
LEMMA Finalized ==
  ASSUME TypeOK, RoundsInOrder, OverWhenAllPlayed, currentRound # 0,
         NEW round \in Round,
         round.finalized = Current.finalized,
         FinalizeCurrentRound(round),
         UNCHANGED currentRound
  PROVE  /\ rounds' = [rounds EXCEPT ![currentRound] = [round EXCEPT !.finalized = TRUE]]
         /\ rounds' \in Seq(Round)
         /\ Len(rounds') = Len(rounds)
         /\ score' \in [Players -> Nat]
         /\ state' \in States \ {"round_active", "waiting", "countdown"} \/ state' = state
         /\ state' # "round_active"
         /\ state' = "game_over" <=> currentRound = LastRound
         /\ Current.finalized => state' = state /\ score' = score
         /\ ~Current.finalized => score' = Award(round) /\ state' \in {"game_over", "round_end"}
<1>. /\ rounds \in Seq(Round)
     /\ score \in [Players -> Nat]
     /\ state = "game_over" <=> currentRound = LastRound /\ ~RoundOpen
  BY DEF TypeOK, OverWhenAllPlayed
<1>1. /\ currentRound \in 1..Len(rounds)
      /\ Current \in Round
  BY CurrentIsRound
<1>2. IsLast <=> currentRound = LastRound
  BY <1>1, IsLastMeaning DEF RoundsInOrder, TypeOK
<1>3. Award(round) \in [Players -> Nat]
  BY DEF Award, TypeOK, Round
<1>4. [round EXCEPT !.finalized = TRUE] \in Round
  BY DEF Round
<1>5. CASE round.finalized
  <2>1. rounds' = [rounds EXCEPT ![currentRound] = round] /\ UNCHANGED <<state, score, told>>
    BY <1>5 DEF FinalizeCurrentRound
  <2>2. [round EXCEPT !.finalized = TRUE] = round
    BY <1>5 DEF Round
  <2>3. ~RoundOpen /\ state # "round_active"
    BY <1>5, <1>1 DEF RoundOpen, RoundsInOrder, Current
  <2>4. rounds' = [rounds EXCEPT ![currentRound] = [round EXCEPT !.finalized = TRUE]]
    BY <2>1, <2>2
  <2>5. rounds' \in Seq(Round) /\ Len(rounds') = Len(rounds)
    BY <1>1, <1>4, <2>4
  <2>6. Current.finalized
    BY <1>5
  <2>. QED
    BY <2>1, <2>3, <2>4, <2>5, <2>6
<1>6. CASE ~round.finalized
  <2>1. /\ rounds' = [rounds EXCEPT ![currentRound] = [round EXCEPT !.finalized = TRUE]]
        /\ score' = Award(round)
        /\ state' = IF IsLast THEN "game_over" ELSE "round_end"
    BY <1>6 DEF FinalizeCurrentRound
  <2>. QED
    BY <1>1, <1>2, <1>3, <1>4, <1>6, <2>1 DEF States
<1>. QED
  BY <1>5, <1>6 DEF Round

(* What startNextRound leaves. *)
LEMMA NextRoundStarted ==
  ASSUME TypeOK, RoundsInOrder, StartNextRound
  PROVE  /\ currentRound' = currentRound + 1
         /\ rounds' \in Seq(Round)
         /\ Len(rounds') = Len(rounds) + 1
         /\ \A r \in 1..Len(rounds) : rounds'[r] = rounds[r]
         /\ rounds'[currentRound'] = NewRound
         /\ state' = "round_active"
         /\ UNCHANGED <<score, connected>>
         /\ clock' = "before"
<1>1. NewRound \in Round
  BY DEF NewRound, Round, Marks
<1>. QED
  BY <1>1 DEF StartNextRound, TypeOK, RoundsInOrder

--------------------------------------------------------------------------------
(* Steps that leave the game alone: they touch neither the rounds nor the  *)
(* scores, and keep run() where it is or move it without a round in hand.  *)

(* Any action at the head of the channel has the type of an action. *)
LEMMA ReceiveType ==
  ASSUME TypeOK, NEW type, Receive(type)
  PROVE  /\ pc = "select"
         /\ pc' = pc
         /\ Head(actionCh) \in AnswerActions \union ConnActions
         /\ Head(actionCh).type = type
         /\ actionCh' \in Seq(AnswerActions \union ConnActions)
<1>1. actionCh \in Seq(AnswerActions \union ConnActions) /\ actionCh # <<>>
  BY DEF TypeOK, Receive
<1>. QED
  BY <1>1 DEF Receive

(* An answer that is accepted is put into the open current round. *)
LEMMA AnswerAccepted ==
  ASSUME TypeOK, RoundsInOrder, PhaseInv, NEW a \in AnswerActions,
         Ruling(a) = "accepted"
  PROVE  /\ currentRound # 0
         /\ state = "round_active"
         /\ a.round = currentRound
         /\ ~Current.finalized
         /\ Current.answers[a.player] = "none"
         /\ Answered(a) \in Round
         /\ Answered(a).finalized = Current.finalized
         /\ Answered(a).answers = [Current.answers EXCEPT ![a.player] = Mark(a.right)]
<1>1. /\ state = "round_active"
      /\ a.round = currentRound
      /\ ~HasAnswer(Current, a.player)
  BY DEF Ruling
<1>2. currentRound # 0
  BY <1>1 DEF PhaseInv
<1>3. Current \in Round /\ ~Current.finalized
  BY <1>1, <1>2, CurrentIsRound DEF RoundsInOrder, Current
<1>4. Mark(a.right) \in Marks
  BY DEF Mark, Marks
<1>5. a.player \in Players
  BY DEF AnswerActions
<1>. QED
  BY <1>1, <1>2, <1>3, <1>4, <1>5 DEF Answered, HasAnswer, Round

(* What the DoAnswer step does to the game. *)
LEMMA AnswerRecorded ==
  ASSUME TypeOK, RoundsInOrder, OverWhenAllPlayed, PhaseInv, NEW a \in AnswerActions,
         Ruling(a) = "accepted", Record(a), UNCHANGED currentRound
  PROVE  /\ rounds' \in Seq(Round)
         /\ Len(rounds') = Len(rounds)
         /\ \A r \in 1..Len(rounds) : r # currentRound => rounds'[r] = rounds[r]
         /\ rounds'[currentRound].answers = Answered(a).answers
         /\ \/ /\ ~AllAnswered(Answered(a))
               /\ ~rounds'[currentRound].finalized
               /\ state' = state
               /\ score' = score
            \/ /\ AllAnswered(Answered(a))
               /\ rounds'[currentRound].finalized
               /\ state' \in {"game_over", "round_end"}
               /\ state' = "game_over" <=> currentRound = LastRound
               /\ score' = Award(Answered(a))
<1>1. /\ currentRound \in 1..Len(rounds)
      /\ rounds \in Seq(Round)
      /\ Answered(a) \in Round
      /\ Answered(a).finalized = Current.finalized
      /\ ~Current.finalized
  BY AnswerAccepted, CurrentIsRound DEF TypeOK
<1>2. CASE AllAnswered(Answered(a)) /\ FinalizeCurrentRound(Answered(a))
  <2>1. /\ rounds' = [rounds EXCEPT ![currentRound] = [Answered(a) EXCEPT !.finalized = TRUE]]
        /\ rounds' \in Seq(Round)
        /\ Len(rounds') = Len(rounds)
        /\ state' = "game_over" <=> currentRound = LastRound
        /\ score' = Award(Answered(a))
        /\ state' \in {"game_over", "round_end"}
    BY <1>1, <1>2, Finalized
  <2>2. /\ rounds'[currentRound] = [Answered(a) EXCEPT !.finalized = TRUE]
        /\ \A r \in 1..Len(rounds) : r # currentRound => rounds'[r] = rounds[r]
    BY <1>1, <2>1
  <2>3. /\ rounds'[currentRound].answers = Answered(a).answers
        /\ rounds'[currentRound].finalized
    BY <1>1, <2>2 DEF Round
  <2>. QED
    BY <1>2, <2>1, <2>2, <2>3
<1>3. CASE /\ ~AllAnswered(Answered(a))
           /\ rounds' = [rounds EXCEPT ![currentRound] = Answered(a)]
           /\ UNCHANGED <<state, score, told>>
  <2>1. /\ rounds' \in Seq(Round)
        /\ Len(rounds') = Len(rounds)
        /\ \A r \in 1..Len(rounds) : r # currentRound => rounds'[r] = rounds[r]
        /\ rounds'[currentRound] = Answered(a)
    BY <1>1, <1>3
  <2>. QED
    BY <1>1, <1>3, <2>1
<1>. QED
  BY <1>2, <1>3 DEF Record

--------------------------------------------------------------------------------
(* Type correctness *)

(* A new session is well typed. *)
LEMMA TypeOKInit == Init => TypeOK
<1>. SUFFICES ASSUME Init PROVE TypeOK
  OBVIOUS
<1>1. rounds \in Seq(Round) /\ actionCh \in Seq(AnswerActions \union ConnActions)
  BY DEF Init
<1>. QED
  BY <1>1 DEF Init, TypeOK, PCs, States

(* The steps of run() keep the types. *)
LEMMA TypeOKRun ==
  ASSUME TypeOK, PhaseInv, RoundsInOrder, OverWhenAllPlayed, Run
  PROVE  TypeOK'
<1>. USE DEF vars, gameVars, timerVars, mgrVars, callVars
<1>1. CASE Start
  BY <1>1 DEF Start, TypeOK, PCs, States
<1>12. CASE Announce
  BY <1>12 DEF Announce, TypeOK, PCs
<1>2. ASSUME StartNextRound PROVE /\ rounds' \in Seq(Round)
                                  /\ state' \in States
                                  /\ currentRound' \in Nat
                                  /\ UNCHANGED <<score, connected>>
                                  /\ clock' \in {"before", "at", "after"}
  BY <1>2, NextRoundStarted DEF TypeOK, States
<1>3. CASE EndCountdown
  <2>1. StartNextRound
    BY <1>3 DEF EndCountdown
  <2>. QED
    BY <1>2, <1>3, <2>1 DEF EndCountdown, TypeOK, PCs
<1>4. CASE Advance
  <2>1. StartNextRound
    BY <1>4 DEF Advance
  <2>. QED
    BY <1>2, <1>4, <2>1 DEF Advance, TypeOK, PCs
<1>5. CASE TakeStop
  BY <1>5 DEF TakeStop, TypeOK, PCs
<1>6. CASE RoundTimer
  <2>1. currentRound # 0 /\ Current \in Round
    BY <1>6, CurrentIsRound DEF RoundTimer, PhaseInv
  <2>2. FinalizeCurrentRound(Current) /\ UNCHANGED currentRound
    BY <1>6 DEF RoundTimer
  <2>3. /\ rounds' \in Seq(Round)
        /\ score' \in [Players -> Nat]
        /\ state' \in States
    BY <2>1, <2>2, Finalized DEF TypeOK
  <2>. QED
    BY <1>6, <2>2, <2>3 DEF RoundTimer, TypeOK, PCs
<1>7. CASE CheckOver
  BY <1>7 DEF CheckOver, TypeOK, PCs
<1>8. CASE Cleanup
  <2>1. outcome' \in {"none", "normal", "abandoned", "unknown"}
    BY <1>8 DEF Cleanup, HandleGameEnd, OutcomeOf, TypeOK
  <2>. QED
    BY <1>8, <2>1 DEF Cleanup, HandleGameEnd, TypeOK, PCs
<1>9. CASE DoAnswer
  <2>. DEFINE a == Head(actionCh)
  <2>1. /\ a \in AnswerActions
        /\ actionCh' \in Seq(AnswerActions \union ConnActions)
        /\ pc' = pc
    BY <1>9, ReceiveType DEF DoAnswer, AnswerActions, ConnActions
  <2>2. Ruling(a) \in Rulings
    BY DEF Ruling, Rulings
  <2>3. Respond(a, Ruling(a)) /\ UNCHANGED currentRound
    BY <1>9 DEF DoAnswer
  <2>4. response' \in [Calls -> Rulings \union {"none"}]
    BY <2>2, <2>3 DEF Respond, TypeOK
  <2>5. /\ rounds' \in Seq(Round)
        /\ score' \in [Players -> Nat]
        /\ state' \in States
    <3>1. CASE Ruling(a) = "accepted"
      <4>1. Record(a)
        BY <1>9, <3>1 DEF DoAnswer
      <4>2. Award(Answered(a)) \in [Players -> Nat]
        BY DEF Award, TypeOK
      <4>. QED
        BY <2>1, <2>3, <3>1, <4>1, <4>2, AnswerRecorded DEF TypeOK, States
    <3>2. CASE Ruling(a) # "accepted"
      BY <1>9, <3>2 DEF DoAnswer, TypeOK
    <3>. QED
      BY <3>1, <3>2
  <2>. QED
    BY <1>9, <2>1, <2>4, <2>5 DEF DoAnswer, TypeOK
<1>10. CASE DoDisconnect
  <2>1. /\ Head(actionCh).player \in Players
        /\ actionCh' \in Seq(AnswerActions \union ConnActions)
        /\ pc' = pc
    BY <1>10, ReceiveType DEF DoDisconnect, AnswerActions, ConnActions
  <2>2. /\ connected' \in [Players -> BOOLEAN]
        /\ tracked' \in [Players -> BOOLEAN]
        /\ orphans' \in [Players -> Nat]
    BY <1>10, <2>1 DEF DoDisconnect, TypeOK
  <2>. QED
    BY <1>10, <2>1, <2>2 DEF DoDisconnect, TypeOK
<1>11. CASE DoReconnect
  <2>1. /\ Head(actionCh).player \in Players
        /\ actionCh' \in Seq(AnswerActions \union ConnActions)
        /\ pc' = pc
    BY <1>11, ReceiveType DEF DoReconnect, AnswerActions, ConnActions
  <2>2. /\ connected' \in [Players -> BOOLEAN]
        /\ tracked' \in [Players -> BOOLEAN]
    BY <1>11, <2>1 DEF DoReconnect, TypeOK
  <2>. QED
    BY <1>11, <2>1, <2>2 DEF DoReconnect, TypeOK
<1>. QED
  BY <1>1, <1>3, <1>4, <1>5, <1>6, <1>7, <1>8, <1>9, <1>10, <1>11, <1>12 DEF Run

(* Time and timers keep the types. *)
LEMMA TypeOKTimers ==
  ASSUME TypeOK, Timers
  PROVE  TypeOK'
<1>. USE DEF gameVars, timerVars, mgrVars, callVars
<1>1. CASE Tick
  BY <1>1 DEF Tick, TypeOK
<1>2. ASSUME NEW p \in Players, GraceExpires(p) PROVE TypeOK'
  <2>1. /\ tracked' \in [Players -> BOOLEAN]
        /\ orphans' \in [Players -> Nat]
        /\ firing' \in [Players -> Nat]
    <3>1. /\ tracked \in [Players -> BOOLEAN]
          /\ orphans \in [Players -> Nat]
          /\ firing \in [Players -> Nat]
      BY DEF TypeOK
    <3>2. firing' \in [Players -> Nat]
      BY <1>2, <3>1 DEF GraceExpires
    <3>3. CASE tracked' = [tracked EXCEPT ![p] = FALSE] /\ UNCHANGED orphans
      BY <3>1, <3>2, <3>3
    <3>4. CASE /\ orphans[p] > 0
               /\ orphans' = [orphans EXCEPT ![p] = @ - 1]
               /\ UNCHANGED tracked
      BY <3>1, <3>2, <3>4
    <3>. QED
      BY <1>2, <3>3, <3>4 DEF GraceExpires
  <2>. QED
    BY <1>2, <2>1 DEF GraceExpires, TypeOK
<1>3. ASSUME NEW p \in Players, Forfeit(p) PROVE TypeOK'
  <2>1. /\ firing' \in [Players -> Nat]
        /\ state' \in States
        /\ registered' \in BOOLEAN
        /\ outcome' \in {"none", "normal", "abandoned", "unknown"}
    <3>1. /\ firing \in [Players -> Nat]
          /\ state \in States
          /\ registered \in BOOLEAN
          /\ outcome \in {"none", "normal", "abandoned", "unknown"}
      BY DEF TypeOK
    <3>2. firing' \in [Players -> Nat]
      BY <1>3, <3>1 DEF Forfeit
    <3>. QED
      BY <1>3, <3>1, <3>2 DEF Forfeit, HandleGameEnd, OutcomeOf, States
  <2>. QED
    BY <1>3, <2>1 DEF Forfeit, TypeOK
<1>. QED
  BY <1>1, <1>2, <1>3 DEF Timers

(* Callers of the manager and a shutdown keep the types. *)
LEMMA TypeOKCallers ==
  ASSUME TypeOK, Callers \/ Shutdown
  PROVE  TypeOK'
<1>. USE DEF gameVars, timerVars, mgrVars, callVars
<1>1. ASSUME NEW p \in Players, NEW r \in 1..LastRound, NEW right \in BOOLEAN,
             BeginAnswer(p, r, right)
      PROVE  TypeOK'
  <2>. DEFINE c == answersSent + 1
              a == [type |-> "answer", player |-> p, round |-> r, right |-> right,
                    call |-> c]
  <2>1. answersSent' \in Nat /\ c \in Nat
    BY <1>1 DEF BeginAnswer, TypeOK
  <2>2. r \in Nat
    BY LastRoundPositive
  <2>3. a \in AnswerActions
    BY <2>1, <2>2 DEF AnswerActions
  <2>4. /\ entering' = entering \union {a}
        /\ asked' = [asked EXCEPT ![c] = a]
    BY <1>1 DEF BeginAnswer
  <2>. HIDE DEF a
  <2>5. /\ entering' \in SUBSET (AnswerActions \union ConnActions)
        /\ asked' \in [Calls -> AnswerActions \union {NoAction}]
    BY <2>3, <2>4 DEF TypeOK
  <2>6. /\ reply' \in [Calls -> Rulings \union {"none", "pending", "timeout"}]
        /\ response' \in [Calls -> Rulings \union {"none"}]
    BY <1>1 DEF BeginAnswer, TypeOK
  <2>. QED
    BY <1>1, <2>1, <2>5, <2>6 DEF BeginAnswer, TypeOK
<1>2. ASSUME NEW a \in ConnActions, BeginConnCall(a) PROVE TypeOK'
  BY <1>2 DEF BeginConnCall, TypeOK
<1>3. ASSUME NEW p \in Players, BeginDisconnect(p) \/ BeginReconnect(p) PROVE TypeOK'
  <2>1. \A type \in {"disconnect", "reconnect"} :
          [type |-> type, player |-> p] \in ConnActions
    BY DEF ConnActions
  <2>. QED
    BY <1>2, <1>3, <2>1 DEF BeginDisconnect, BeginReconnect
<1>4. ASSUME NEW a \in entering, SubmitAction(a) PROVE TypeOK'
  <2>1. a \in AnswerActions \union ConnActions
    BY DEF TypeOK
  <2>2. actionCh' \in Seq(AnswerActions \union ConnActions)
    <3>1. actionCh \in Seq(AnswerActions \union ConnActions)
      BY DEF TypeOK
    <3>. QED
      BY <1>4, <2>1, <3>1 DEF SubmitAction
  <2>. QED
    BY <1>4, <2>2 DEF SubmitAction, TypeOK
<1>5. ASSUME NEW c \in Calls, NEW result \in Rulings \union {"timeout"},
             Return(c, result)
      PROVE  TypeOK'
  <2>1. /\ reply' \in [Calls -> Rulings \union {"none", "pending", "timeout"}]
        /\ response' \in [Calls -> Rulings \union {"none"}]
    BY <1>5 DEF Return, TypeOK
  <2>. QED
    BY <1>5, <2>1 DEF Return, TypeOK
<1>6. ASSUME NEW c \in Calls, TakeResponse(c) \/ Timeout(c) PROVE TypeOK'
  <2>1. response[c] # "none" => response[c] \in Rulings
    BY DEF TypeOK
  <2>. QED
    BY <1>5, <1>6, <2>1 DEF TakeResponse, Timeout
<1>7. CASE Shutdown
  BY <1>7 DEF Shutdown, TypeOK
<1>. QED
  BY <1>1, <1>3, <1>4, <1>6, <1>7 DEF Callers

--------------------------------------------------------------------------------
(* The order of the rounds *)

Order == PhaseInv /\ RoundsInOrder /\ OverWhenAllPlayed

(* A new session is at the first phase, with no round. *)
LEMMA OrderInit == Init => Order
<1>. SUFFICES ASSUME Init PROVE Order
  OBVIOUS
<1>1. /\ pc = "start" /\ state = "waiting" /\ currentRound = 0 /\ rounds = <<>>
      /\ \A p \in Players : ~tracked[p] /\ orphans[p] = 0 /\ firing[p] = 0
  BY DEF Init
<1>2. PhaseInv
  BY <1>1 DEF PhaseInv, RoundOpen
<1>3. RoundsInOrder /\ OverWhenAllPlayed
  BY <1>1, LastRoundPositive DEF RoundsInOrder, OverWhenAllPlayed, RoundOpen
<1>. QED
  BY <1>2, <1>3 DEF Order

(* What a step that leaves the game and run() alone keeps. *)
LEMMA OrderUntouched ==
  ASSUME Order, UNCHANGED <<pc, state, currentRound, rounds>>,
         currentRound = 0 => UNCHANGED timerVars
  PROVE  Order'
<1>1. PhaseInv'
  BY DEF Order, PhaseInv, RoundOpen, timerVars
<1>2. RoundsInOrder' /\ OverWhenAllPlayed'
  BY DEF Order, RoundsInOrder, OverWhenAllPlayed, RoundOpen
<1>. QED
  BY <1>1, <1>2 DEF Order

(* startNextRound opens the next round after the closed ones. *)
LEMMA OrderStartNextRound ==
  ASSUME TypeOK, Order, pc \in {"countdown", "advance"}, pc' = "select", StartNextRound
  PROVE  Order'
<1>0. /\ currentRound \in Nat
      /\ rounds \in Seq(Round)
      /\ Len(rounds) = currentRound
      /\ currentRound <= LastRound
  BY DEF TypeOK, Order, RoundsInOrder
<1>1. currentRound < LastRound
  <2>1. CASE currentRound = 0
    BY <2>1, LastRoundPositive
  <2>2. CASE currentRound # 0
    <3>1. pc = "advance"
      BY <2>2 DEF Order, PhaseInv
    <3>2. ~RoundOpen /\ state # "game_over"
      BY <3>1 DEF Order, PhaseInv
    <3>3. currentRound # LastRound
      BY <3>2 DEF Order, OverWhenAllPlayed
    <3>. QED
      BY <1>0, <3>3, LastRoundPositive
  <2>. QED
    BY <2>1, <2>2
<1>2. \A r \in 1..currentRound : rounds[r].finalized
  <2>1. currentRound # 0 => rounds[currentRound].finalized
    BY <1>0 DEF Order, PhaseInv, RoundOpen
  <2>. QED
    BY <1>0, <2>1 DEF Order, RoundsInOrder
<1>3. /\ currentRound' = currentRound + 1
      /\ Len(rounds') = currentRound'
      /\ \A r \in 1..(currentRound' - 1) : rounds'[r].finalized
      /\ rounds'[currentRound'] = NewRound
      /\ state' = "round_active"
  BY <1>0, <1>2, NextRoundStarted DEF Order
<1>4. RoundOpen'
  BY <1>0, <1>3 DEF RoundOpen, NewRound
<1>5. RoundsInOrder'
  BY <1>0, <1>1, <1>3, <1>4, LastRoundPositive DEF RoundsInOrder, RoundOpen
<1>6. OverWhenAllPlayed' /\ PhaseInv'
  BY <1>0, <1>3, <1>4 DEF OverWhenAllPlayed, PhaseInv
<1>. QED
  BY <1>5, <1>6 DEF Order

(* The round timer closes the current round, or finds it closed. *)
LEMMA OrderRoundTimer ==
  ASSUME TypeOK, Order, RoundTimer
  PROVE  Order'
<1>1. /\ currentRound # 0
      /\ FinalizeCurrentRound(Current)
      /\ UNCHANGED currentRound
      /\ pc' = "finalized"
  BY DEF RoundTimer, Order, PhaseInv
<1>2. /\ currentRound \in 1..Len(rounds)
      /\ Current \in Round
      /\ rounds \in Seq(Round)
      /\ Len(rounds) = currentRound
  BY <1>1, CurrentIsRound DEF Order, TypeOK, RoundsInOrder
<1>3. /\ rounds' = [rounds EXCEPT ![currentRound] = [Current EXCEPT !.finalized = TRUE]]
      /\ Len(rounds') = currentRound
      /\ state' # "round_active"
      /\ state' = "game_over" <=> currentRound = LastRound
      /\ state' \in States \ {"round_active", "waiting", "countdown"} \/ state' = state
  BY <1>1, <1>2, Finalized DEF Order
<1>4. /\ \A r \in 1..(currentRound - 1) : rounds'[r] = rounds[r]
      /\ rounds'[currentRound].finalized
  BY <1>2, <1>3 DEF Round
<1>5. RoundsInOrder'
  BY <1>1, <1>2, <1>3, <1>4 DEF Order, RoundsInOrder
<1>6. ~RoundOpen' /\ OverWhenAllPlayed'
  BY <1>1, <1>3, <1>4 DEF RoundOpen, OverWhenAllPlayed
<1>7. PhaseInv'
  BY <1>1, <1>3, <1>6 DEF Order, PhaseInv
<1>. QED
  BY <1>5, <1>6, <1>7 DEF Order

(* An answer that run() takes stays in the open round, and may close it. *)
LEMMA OrderDoAnswer ==
  ASSUME TypeOK, Order, DoAnswer
  PROVE  Order'
<1>. DEFINE a == Head(actionCh)
<1>1. /\ a \in AnswerActions
      /\ pc = "select" /\ pc' = pc
      /\ UNCHANGED currentRound
      /\ UNCHANGED timerVars
  BY ReceiveType DEF DoAnswer, AnswerActions, ConnActions
<1>2. CASE Ruling(a) # "accepted"
  BY <1>1, <1>2, OrderUntouched DEF DoAnswer
<1>3. CASE Ruling(a) = "accepted"
  <2>1. Record(a)
    BY <1>3 DEF DoAnswer
  <2>2. currentRound # 0 /\ state = "round_active" /\ ~Current.finalized
    BY <1>1, <1>3, AnswerAccepted DEF Order
  <2>3. /\ rounds \in Seq(Round)
        /\ Len(rounds) = currentRound
        /\ currentRound \in 1..Len(rounds)
    BY <2>2, CurrentIsRound DEF TypeOK, Order, RoundsInOrder
  <2>4. /\ Len(rounds') = Len(rounds)
        /\ \A r \in 1..Len(rounds) : r # currentRound => rounds'[r] = rounds[r]
        /\ \/ /\ ~rounds'[currentRound].finalized
              /\ state' = state
           \/ /\ rounds'[currentRound].finalized
              /\ state' \in {"game_over", "round_end"}
              /\ state' = "game_over" <=> currentRound = LastRound
    BY <1>1, <1>3, <2>1, AnswerRecorded DEF Order
  <2>5. RoundsInOrder'
    <3>1. \A r \in 1..(currentRound - 1) : rounds'[r].finalized
      BY <2>3, <2>4 DEF Order, RoundsInOrder
    <3>. QED
      BY <1>1, <2>3, <2>4, <3>1 DEF Order, RoundsInOrder
  <2>6. OverWhenAllPlayed'
    BY <1>1, <2>2, <2>3, <2>4 DEF OverWhenAllPlayed, RoundOpen
  <2>7. PhaseInv'
    BY <1>1, <2>2, <2>4 DEF Order, PhaseInv, timerVars
  <2>. QED
    BY <2>5, <2>6, <2>7 DEF Order
<1>. QED
  BY <1>2, <1>3

(* The steps of run() keep rounds and phases in order. *)
LEMMA OrderRun ==
  ASSUME TypeOK, Order, Run
  PROVE  Order'
<1>. USE DEF gameVars
<1>1. CASE Start
  <2>1. currentRound = 0 /\ currentRound' = 0 /\ rounds' = rounds
        /\ pc' = "announce" /\ state' = "countdown" /\ UNCHANGED timerVars
    BY <1>1 DEF Start, Order, PhaseInv
  <2>2. PhaseInv'
    BY <2>1 DEF Order, PhaseInv, RoundOpen, timerVars
  <2>3. RoundsInOrder' /\ OverWhenAllPlayed'
    BY <2>1, LastRoundPositive DEF Order, RoundsInOrder, OverWhenAllPlayed, RoundOpen
  <2>. QED
    BY <2>2, <2>3 DEF Order
<1>7. CASE Announce
  <2>1. /\ currentRound = 0 /\ UNCHANGED <<state, currentRound, rounds, timerVars>>
        /\ pc' = "countdown"
    BY <1>7 DEF Announce, Order, PhaseInv
  <2>2. PhaseInv'
    BY <2>1 DEF Order, PhaseInv, RoundOpen, timerVars
  <2>3. RoundsInOrder' /\ OverWhenAllPlayed'
    BY <2>1 DEF Order, RoundsInOrder, OverWhenAllPlayed, RoundOpen
  <2>. QED
    BY <2>2, <2>3 DEF Order
<1>2. CASE EndCountdown \/ Advance
  BY <1>2, OrderStartNextRound DEF EndCountdown, Advance
<1>3. CASE RoundTimer
  BY <1>3, OrderRoundTimer
<1>4. CASE TakeStop \/ CheckOver \/ Cleanup
  <2>1. UNCHANGED <<state, currentRound, rounds>> /\ currentRound # 0
    BY <1>4 DEF TakeStop, CheckOver, Cleanup, Order, PhaseInv
  <2>2. /\ pc' \notin {"start", "announce", "countdown"}
        /\ pc' \in {"advance", "cleanup", "done"} => ~RoundOpen
        /\ pc' # "finalized"
        /\ pc' = "advance" => state # "game_over"
        /\ pc' \in {"cleanup", "done"} => state = "game_over"
    BY <1>4 DEF TakeStop, CheckOver, Cleanup, Order, PhaseInv
  <2>3. PhaseInv'
    BY <2>1, <2>2 DEF Order, PhaseInv, RoundOpen
  <2>4. RoundsInOrder' /\ OverWhenAllPlayed'
    BY <2>1 DEF Order, RoundsInOrder, OverWhenAllPlayed, RoundOpen
  <2>. QED
    BY <2>3, <2>4 DEF Order
<1>5. CASE DoAnswer
  BY <1>5, OrderDoAnswer
<1>6. CASE DoDisconnect \/ DoReconnect
  <2>1. /\ pc = "select"
        /\ UNCHANGED <<pc, state, currentRound, rounds>>
    BY <1>6 DEF DoDisconnect, DoReconnect, Receive
  <2>2. currentRound # 0
    BY <2>1 DEF Order, PhaseInv
  <2>. QED
    BY <2>1, <2>2, OrderUntouched
<1>. QED
  BY <1>1, <1>2, <1>3, <1>4, <1>5, <1>6, <1>7 DEF Run

(* Timers, forfeits, callers and a shutdown keep rounds and phases in order. *)
LEMMA OrderOthers ==
  ASSUME TypeOK, Order, Timers \/ Callers \/ Shutdown
  PROVE  Order'
<1>. USE DEF gameVars
<1>1. CASE Tick
  BY <1>1, OrderUntouched DEF Tick
<1>2. ASSUME NEW p \in Players, GraceExpires(p) PROVE Order'
  <2>1. currentRound # 0
    <3>1. tracked[p] \/ orphans[p] > 0
      BY <1>2 DEF GraceExpires
    <3>. QED
      BY <3>1 DEF Order, PhaseInv
  <2>. QED
    BY <1>2, <2>1, OrderUntouched DEF GraceExpires
<1>3. ASSUME NEW p \in Players, Forfeit(p) PROVE Order'
  <2>1. currentRound # 0
    BY <1>3 DEF Forfeit, Order, PhaseInv
  <2>2. UNCHANGED <<pc, currentRound, rounds>>
    BY <1>3 DEF Forfeit
  <2>3. CASE state' = state
    BY <2>1, <2>2, <2>3, OrderUntouched
  <2>4. CASE state \notin {"game_over", "abandoned"} /\ state' = "abandoned"
    <3>1. RoundsInOrder' /\ OverWhenAllPlayed'
      BY <2>2, <2>4 DEF Order, RoundsInOrder, OverWhenAllPlayed, RoundOpen
    <3>2. PhaseInv'
      BY <2>1, <2>2, <2>4 DEF Order, PhaseInv, RoundOpen
    <3>. QED
      BY <3>1, <3>2 DEF Order
  <2>. QED
    BY <1>3, <2>3, <2>4 DEF Forfeit, AlreadyEnded
<1>4. CASE Callers \/ Shutdown
  <2>1. UNCHANGED <<pc, state, currentRound, rounds, timerVars>>
    BY <1>4 DEF Callers, Shutdown, BeginAnswer, BeginDisconnect, BeginReconnect,
                BeginConnCall, TakeResponse, Timeout, Return, SubmitAction
  <2>. QED
    BY <2>1, OrderUntouched
<1>. QED
  BY <1>1, <1>2, <1>3, <1>4 DEF Timers

--------------------------------------------------------------------------------
(* Scores *)

(* A player has won finitely many rounds. *)
LEMMA WonIsFinite ==
  ASSUME TypeOK, NEW p \in Players
  PROVE  IsFiniteSet(Won(p))
<1>1. IsFiniteSet(1..currentRound)
  BY FS_Interval DEF TypeOK
<1>. QED
  BY <1>1, FS_Subset DEF Won

(* Closing the open current round gives its points, and they are counted   *)
(* nowhere else.                                                           *)
LEMMA ScoreOnClose ==
  ASSUME TypeOK, Order, ScoreMatchesRounds, currentRound # 0,
         ~Current.finalized,
         UNCHANGED currentRound,
         NEW round \in Round,
         \A r \in 1..Len(rounds) : r # currentRound => rounds'[r] = rounds[r],
         rounds'[currentRound].answers = round.answers,
         rounds'[currentRound].finalized,
         score' = Award(round)
  PROVE  ScoreMatchesRounds'
<1>. SUFFICES ASSUME NEW p \in Players
              PROVE  score'[p] = Cardinality(Won(p)')
  BY DEF ScoreMatchesRounds
<1>1. /\ currentRound \in Nat
      /\ Len(rounds) = currentRound
      /\ score \in [Players -> Nat]
  BY DEF TypeOK, Order, RoundsInOrder
<1>2. /\ score[p] = Cardinality(Won(p))
      /\ score[p] \in Nat
      /\ score'[p] = IF round.answers[p] = "right" THEN score[p] + 1 ELSE score[p]
  BY <1>1 DEF ScoreMatchesRounds, Award
<1>3. currentRound \notin Won(p)
  BY DEF Won, Current
<1>4. CASE round.answers[p] = "right"
  <2>1. Won(p)' = Won(p) \union {currentRound}
    BY <1>1, <1>4 DEF Won
  <2>2. IsFiniteSet(Won(p))
    BY WonIsFinite
  <2>3. Cardinality(Won(p) \union {currentRound}) = Cardinality(Won(p)) + 1
    BY <1>3, <2>2, FS_AddElement
  <2>. QED
    BY <1>2, <1>4, <2>1, <2>3
<1>5. CASE round.answers[p] # "right"
  <2>1. Won(p)' = Won(p)
    BY <1>1, <1>3, <1>5 DEF Won
  <2>. QED
    BY <1>2, <1>5, <2>1
<1>. QED
  BY <1>4, <1>5

(* Without rounds every score is zero. *)
LEMMA ScoreInit == Init => ScoreMatchesRounds
<1>. SUFFICES ASSUME Init, NEW p \in Players PROVE score[p] = Cardinality(Won(p))
  BY DEF ScoreMatchesRounds
<1>1. Won(p) = {} /\ score[p] = 0
  BY DEF Init, Won
<1>. QED
  BY <1>1, FS_EmptySet

(* Where rounds and scores do not change, they still agree. *)
LEMMA ScoreUntouched ==
  ASSUME ScoreMatchesRounds, UNCHANGED <<currentRound, rounds, score>>
  PROVE  ScoreMatchesRounds'
BY DEF ScoreMatchesRounds, Won

(* Every step keeps scores in agreement with the closed rounds. *)
LEMMA ScoreStep ==
  ASSUME TypeOK, Order, ScoreMatchesRounds, Next
  PROVE  ScoreMatchesRounds'
<1>1. CASE EndCountdown \/ Advance
  <2>1. StartNextRound
    BY <1>1 DEF EndCountdown, Advance
  <2>2. /\ currentRound' = currentRound + 1
        /\ \A r \in 1..Len(rounds) : rounds'[r] = rounds[r]
        /\ rounds'[currentRound'] = NewRound
        /\ score' = score
        /\ currentRound \in Nat
        /\ Len(rounds) = currentRound
    BY <2>1, NextRoundStarted DEF TypeOK, Order, RoundsInOrder
  <2>3. ASSUME NEW p \in Players PROVE Won(p)' = Won(p)
    BY <2>2 DEF Won, NewRound
  <2>. QED
    BY <2>2, <2>3 DEF ScoreMatchesRounds
<1>2. CASE RoundTimer
  <2>1. /\ currentRound # 0
        /\ FinalizeCurrentRound(Current)
        /\ UNCHANGED currentRound
    BY <1>2 DEF RoundTimer, Order, PhaseInv
  <2>2. /\ currentRound \in 1..Len(rounds)
        /\ Current \in Round
        /\ rounds \in Seq(Round)
    BY <2>1, CurrentIsRound DEF Order, TypeOK
  <2>3. /\ rounds' = [rounds EXCEPT ![currentRound] = [Current EXCEPT !.finalized = TRUE]]
        /\ Current.finalized => score' = score
        /\ ~Current.finalized => score' = Award(Current)
    BY <2>1, <2>2, Finalized DEF Order
  <2>4. CASE Current.finalized
    <3>1. rounds' = rounds
      BY <2>2, <2>3, <2>4 DEF Current, Round
    <3>. QED
      BY <2>1, <2>3, <2>4, <3>1, ScoreUntouched
  <2>5. CASE ~Current.finalized
    <3>1. /\ \A r \in 1..Len(rounds) : r # currentRound => rounds'[r] = rounds[r]
          /\ rounds'[currentRound].answers = Current.answers
          /\ rounds'[currentRound].finalized
      BY <2>2, <2>3 DEF Round
    <3>. QED
      BY <2>1, <2>2, <2>3, <2>5, <3>1, ScoreOnClose
  <2>. QED
    BY <2>4, <2>5
<1>3. CASE DoAnswer
  <2>. DEFINE a == Head(actionCh)
  <2>1. a \in AnswerActions /\ UNCHANGED currentRound
    BY <1>3, ReceiveType DEF DoAnswer, AnswerActions, ConnActions
  <2>2. CASE Ruling(a) # "accepted"
    BY <1>3, <2>1, <2>2, ScoreUntouched DEF DoAnswer
  <2>3. CASE Ruling(a) = "accepted"
    <3>1. Record(a)
      BY <1>3, <2>3 DEF DoAnswer
    <3>2. currentRound # 0 /\ ~Current.finalized /\ Answered(a) \in Round
      BY <2>1, <2>3, AnswerAccepted DEF Order
    <3>3. currentRound \in 1..Len(rounds) /\ Len(rounds) = currentRound
      BY <3>2, CurrentIsRound DEF Order, RoundsInOrder
    <3>4. /\ \A r \in 1..Len(rounds) : r # currentRound => rounds'[r] = rounds[r]
          /\ rounds'[currentRound].answers = Answered(a).answers
          /\ \/ /\ ~rounds'[currentRound].finalized
                /\ score' = score
             \/ /\ rounds'[currentRound].finalized
                /\ score' = Award(Answered(a))
      BY <2>1, <2>3, <3>1, AnswerRecorded DEF Order
    <3>5. CASE ~rounds'[currentRound].finalized /\ score' = score
      <4>1. ASSUME NEW p \in Players PROVE Won(p)' = Won(p)
        BY <2>1, <3>2, <3>3, <3>4, <3>5 DEF Won, Current
      <4>. QED
        BY <3>5, <4>1 DEF ScoreMatchesRounds
    <3>6. CASE rounds'[currentRound].finalized /\ score' = Award(Answered(a))
      BY <2>1, <3>2, <3>4, <3>6, ScoreOnClose
    <3>. QED
      BY <3>4, <3>5, <3>6
  <2>. QED
    BY <2>2, <2>3
<1>4. CASE Start \/ Announce \/ CheckOver \/ Cleanup \/ TakeStop \/ DoDisconnect
           \/ DoReconnect
  BY <1>4, ScoreUntouched DEF Start, Announce, CheckOver, Cleanup, TakeStop, DoDisconnect,
                              DoReconnect, gameVars
<1>5. CASE Timers
  BY <1>5, ScoreUntouched DEF Timers, Tick, GraceExpires, Forfeit, gameVars
<1>6. CASE Callers \/ Shutdown
  BY <1>6, ScoreUntouched DEF Callers, Shutdown, BeginAnswer, BeginDisconnect,
       BeginReconnect, BeginConnCall, TakeResponse, Timeout, Return, SubmitAction,
       gameVars
<1>. QED
  BY <1>1, <1>2, <1>3, <1>4, <1>5, <1>6 DEF Next, Run

--------------------------------------------------------------------------------
(* The outcome the manager records *)

(* A new session is registered and has no outcome. *)
LEMMA OutcomeInit == Init => OutcomeHonest
  BY DEF Init, OutcomeHonest

(* Every step keeps the recorded outcome right (handleGameEnd, forfeitGame). *)
LEMMA OutcomeStep ==
  ASSUME TypeOK, Order, Order', OutcomeHonest, Next
  PROVE  OutcomeHonest'
<1>. USE DEF gameVars, mgrVars
<1>0. OverWhenAllPlayed' /\ registered \in BOOLEAN
  BY DEF Order, TypeOK
<1>1. ASSUME UNCHANGED mgrVars, state' # "abandoned" \/ state' = state,
             state = "game_over" => state' = "game_over"
      PROVE  OutcomeHonest'
  BY <1>0, <1>1 DEF OutcomeHonest
<1>2. CASE Start \/ EndCountdown \/ Advance
  <2>1. UNCHANGED mgrVars /\ state' # "abandoned"
    BY <1>2 DEF Start, EndCountdown, Advance, StartNextRound
  <2>2. state # "game_over"
    BY <1>2 DEF Start, EndCountdown, Advance, Order, PhaseInv
  <2>. QED
    BY <1>1, <2>1, <2>2
<1>3. CASE RoundTimer
  <2>1. currentRound # 0 /\ FinalizeCurrentRound(Current) /\ UNCHANGED currentRound
    BY <1>3 DEF RoundTimer, Order, PhaseInv
  <2>2. state' \in {"game_over", "round_end"} \/ state' = state
    BY <2>1 DEF FinalizeCurrentRound
  <2>3. state = "game_over" => currentRound = LastRound
    BY DEF Order, OverWhenAllPlayed
  <2>4. state' = "game_over" <=> currentRound = LastRound
    BY <2>1, CurrentIsRound, Finalized DEF Order
  <2>. QED
    BY <1>1, <1>3, <2>2, <2>3, <2>4 DEF RoundTimer
<1>4. CASE DoAnswer
  <2>. DEFINE a == Head(actionCh)
  <2>1. a \in AnswerActions /\ UNCHANGED <<currentRound, mgrVars>>
    BY <1>4, ReceiveType DEF DoAnswer, AnswerActions, ConnActions
  <2>2. CASE Ruling(a) # "accepted"
    BY <1>1, <1>4, <2>1, <2>2 DEF DoAnswer
  <2>3. CASE Ruling(a) = "accepted"
    <3>1. Record(a)
      BY <1>4, <2>3 DEF DoAnswer
    <3>2. state = "round_active"
      BY <2>1, <2>3, AnswerAccepted DEF Order
    <3>3. state' = state \/ state' \in {"game_over", "round_end"}
      BY <2>1, <2>3, <3>1, AnswerRecorded DEF Order
    <3>. QED
      BY <1>1, <2>1, <3>2, <3>3
  <2>. QED
    BY <2>2, <2>3
<1>5. CASE Announce \/ CheckOver \/ TakeStop \/ DoDisconnect \/ DoReconnect
  BY <1>1, <1>5 DEF Announce, CheckOver, TakeStop, DoDisconnect, DoReconnect
<1>6. CASE Cleanup
  <2>1. state = "game_over" /\ state' = "game_over"
    BY <1>6 DEF Cleanup, Order, PhaseInv
  <2>. QED
    BY <1>0, <1>6, <2>1 DEF Cleanup, HandleGameEnd, OutcomeOf, OutcomeHonest
<1>7. ASSUME NEW p \in Players, Forfeit(p) PROVE OutcomeHonest'
  <2>1. CASE AlreadyEnded
    BY <1>1, <1>7, <2>1 DEF Forfeit
  <2>2. CASE ~AlreadyEnded
    <3>1. /\ state' = "abandoned"
          /\ registered' = FALSE
          /\ outcome' = IF registered THEN "abandoned" ELSE outcome
          /\ state # "game_over"
      BY <1>7, <2>2 DEF Forfeit, AlreadyEnded, HandleGameEnd, OutcomeOf
    <3>2. outcome' = "abandoned"
      BY <3>1 DEF OutcomeHonest, TypeOK
    <3>. QED
      BY <3>1, <3>2 DEF OutcomeHonest
  <2>. QED
    BY <2>1, <2>2
<1>8. CASE Tick \/ Shutdown
  BY <1>1, <1>8 DEF Tick, Shutdown
<1>9. ASSUME NEW p \in Players, GraceExpires(p) PROVE OutcomeHonest'
  BY <1>1, <1>9 DEF GraceExpires
<1>10. CASE Callers
  <2>1. UNCHANGED <<state, mgrVars>>
    BY <1>10 DEF Callers, BeginAnswer, BeginDisconnect, BeginReconnect, BeginConnCall,
                 TakeResponse, Timeout, Return, SubmitAction
  <2>. QED
    BY <1>1, <2>1
<1>. QED
  BY <1>2, <1>3, <1>4, <1>5, <1>6, <1>7, <1>8, <1>9, <1>10 DEF Next, Run, Timers

--------------------------------------------------------------------------------
(* Acknowledgements *)

(* An answer that is in a round stays there. *)
LEMMA AnswersStand ==
  ASSUME TypeOK, Order, Next, NEW p \in Players, NEW r \in 1..currentRound,
         rounds[r].answers[p] # "none"
  PROVE  /\ r \in 1..currentRound'
         /\ rounds'[r].answers[p] = rounds[r].answers[p]
<1>0. /\ currentRound \in Nat
      /\ rounds \in Seq(Round)
      /\ Len(rounds) = currentRound
      /\ r \in 1..Len(rounds)
  BY DEF TypeOK, Order, RoundsInOrder
<1>1. CASE EndCountdown \/ Advance
  <2>1. StartNextRound
    BY <1>1 DEF EndCountdown, Advance
  <2>. QED
    BY <1>0, <2>1, NextRoundStarted DEF Order
<1>2. CASE RoundTimer
  <2>1. /\ currentRound # 0
        /\ FinalizeCurrentRound(Current)
        /\ UNCHANGED currentRound
    BY <1>2 DEF RoundTimer, Order, PhaseInv
  <2>2. currentRound \in 1..Len(rounds) /\ Current \in Round
    BY <2>1, CurrentIsRound DEF Order
  <2>3. rounds' = [rounds EXCEPT ![currentRound] = [Current EXCEPT !.finalized = TRUE]]
    BY <2>1, <2>2, Finalized DEF Order
  <2>4. rounds'[r].answers = rounds[r].answers
    BY <1>0, <2>2, <2>3 DEF Current, Round
  <2>. QED
    BY <2>1, <2>4
<1>3. CASE DoAnswer
  <2>. DEFINE a == Head(actionCh)
  <2>1. a \in AnswerActions /\ UNCHANGED currentRound
    BY <1>3, ReceiveType DEF DoAnswer, AnswerActions, ConnActions
  <2>2. CASE Ruling(a) # "accepted"
    BY <1>3, <2>1, <2>2 DEF DoAnswer
  <2>3. CASE Ruling(a) = "accepted"
    <3>1. Record(a)
      BY <1>3, <2>3 DEF DoAnswer
    <3>2. /\ Current.answers[a.player] = "none"
          /\ Answered(a).answers = [Current.answers EXCEPT ![a.player] = Mark(a.right)]
          /\ currentRound # 0
      BY <2>1, <2>3, AnswerAccepted DEF Order
    <3>3. /\ r # currentRound => rounds'[r] = rounds[r]
          /\ rounds'[currentRound].answers = Answered(a).answers
      BY <1>0, <2>1, <2>3, <3>1, AnswerRecorded DEF Order
    <3>4. Current.answers \in [Players -> Marks]
      BY <3>2, CurrentIsRound DEF Order
    <3>5. r = currentRound => a.player # p
      BY <3>2 DEF Current
    <3>. QED
      BY <2>1, <3>2, <3>3, <3>4, <3>5 DEF Current
  <2>. QED
    BY <2>2, <2>3
<1>4. CASE Start \/ Announce \/ CheckOver \/ Cleanup \/ TakeStop \/ DoDisconnect
           \/ DoReconnect
  BY <1>4 DEF Start, Announce, CheckOver, Cleanup, TakeStop, DoDisconnect, DoReconnect, gameVars
<1>5. CASE Timers
  BY <1>5 DEF Timers, Tick, GraceExpires, Forfeit, gameVars
<1>6. CASE Callers \/ Shutdown
  BY <1>6 DEF Callers, Shutdown, BeginAnswer, BeginDisconnect, BeginReconnect,
       BeginConnCall, TakeResponse, Timeout, Return, SubmitAction, gameVars
<1>. QED
  BY <1>1, <1>2, <1>3, <1>4, <1>5, <1>6 DEF Next, Run

(* Nobody has been answered yet. *)
LEMMA AckInit == Init => AckInv
  BY DEF Init, AckInv

(* A call that was counted stays counted. *)
LEMMA CountedStands ==
  ASSUME TypeOK, Order, Next, NEW c \in Calls, Counted(c), asked'[c] = asked[c]
  PROVE  Counted(c)'
<1>. DEFINE r == asked[c].round
            p == asked[c].player
<1>1. /\ r \in 1..currentRound
      /\ rounds[r].answers[p] = Mark(asked[c].right)
      /\ asked[c] # NoAction
  BY DEF Counted
<1>2. rounds[r].answers[p] # "none"
  BY <1>1 DEF Mark
<1>3. p \in Players
  BY <1>1 DEF TypeOK, AnswerActions
<1>4. /\ r \in 1..currentRound'
      /\ rounds'[r].answers[p] = rounds[r].answers[p]
  BY <1>1, <1>2, <1>3, AnswersStand
<1>. QED
  BY <1>1, <1>4 DEF Counted

(* Every step keeps acknowledgements honest. *)
LEMMA AckStep ==
  ASSUME TypeOK, Order, AckInv, Next
  PROVE  AckInv'
<1>1. ASSUME UNCHANGED asked,
             \A c \in Calls : response'[c] = "accepted" \/ reply'[c] = "accepted" =>
                                response[c] = "accepted" \/ reply[c] = "accepted"
      PROVE  AckInv'
  <2>. SUFFICES ASSUME NEW c \in Calls,
                       response'[c] = "accepted" \/ reply'[c] = "accepted"
                PROVE  Counted(c)'
    BY DEF AckInv
  <2>1. Counted(c)
    BY <1>1 DEF AckInv
  <2>. QED
    BY <1>1, <2>1, CountedStands
<1>2. CASE DoAnswer
  <2>. DEFINE a == Head(actionCh)
  <2>1. /\ a \in AnswerActions
        /\ UNCHANGED <<currentRound, asked, reply>>
        /\ Respond(a, Ruling(a))
    BY <1>2, ReceiveType DEF DoAnswer, AnswerActions, ConnActions, callVars
  <2>. SUFFICES ASSUME NEW c \in Calls,
                       response'[c] = "accepted" \/ reply'[c] = "accepted"
                PROVE  Counted(c)'
    BY DEF AckInv
  <2>2. CASE response[c] = "accepted" \/ reply[c] = "accepted"
    <3>1. Counted(c)
      BY <2>2 DEF AckInv
    <3>. QED
      BY <2>1, <3>1, CountedStands
  <2>3. CASE ~(response[c] = "accepted" \/ reply[c] = "accepted")
    <3>1. asked[c] = a /\ Ruling(a) = "accepted"
      BY <2>1, <2>3 DEF Respond
    <3>2. Record(a)
      BY <1>2, <3>1 DEF DoAnswer
    <3>3. /\ currentRound # 0
          /\ a.round = currentRound
          /\ a.player \in Players
          /\ Answered(a).answers = [Current.answers EXCEPT ![a.player] = Mark(a.right)]
      BY <2>1, <3>1, AnswerAccepted DEF Order, AnswerActions
    <3>4. Current.answers \in [Players -> Marks] /\ currentRound \in 1..Len(rounds)
      BY <3>3, CurrentIsRound DEF Order
    <3>5. rounds'[currentRound].answers = Answered(a).answers
      BY <2>1, <3>1, <3>2, AnswerRecorded DEF Order
    <3>6. rounds'[currentRound].answers[a.player] = Mark(a.right)
      BY <3>3, <3>4, <3>5
    <3>7. a # NoAction
      BY <2>1 DEF AnswerActions, NoAction
    <3>8. currentRound \in 1..currentRound
      BY <3>4 DEF TypeOK
    <3>. QED
      BY <2>1, <3>1, <3>3, <3>6, <3>7, <3>8 DEF Counted
  <2>. QED
    BY <2>2, <2>3
<1>3. ASSUME NEW p \in Players, NEW r \in 1..LastRound, NEW right \in BOOLEAN,
             BeginAnswer(p, r, right)
      PROVE  AckInv'
  <2>. DEFINE c == answersSent + 1
  <2>. SUFFICES ASSUME NEW d \in Calls,
                       response'[d] = "accepted" \/ reply'[d] = "accepted"
                PROVE  Counted(d)'
    BY DEF AckInv
  <2>1. /\ reply' = [reply EXCEPT ![c] = "pending"]
        /\ response' = [response EXCEPT ![c] = "none"]
        /\ \E a : asked' = [asked EXCEPT ![c] = a]
    BY <1>3 DEF BeginAnswer
  <2>2. d # c
    BY <2>1 DEF TypeOK
  <2>3. (response[d] = "accepted" \/ reply[d] = "accepted") /\ asked'[d] = asked[d]
    BY <2>1, <2>2 DEF TypeOK
  <2>4. Counted(d)
    BY <2>3 DEF AckInv
  <2>. QED
    BY <2>3, <2>4, CountedStands
<1>4. ASSUME NEW c \in Calls, TakeResponse(c) \/ Timeout(c) PROVE AckInv'
  <2>1. /\ UNCHANGED asked
        /\ response' = [response EXCEPT ![c] = "none"]
        /\ \/ reply' = [reply EXCEPT ![c] = response[c]]
           \/ reply' = [reply EXCEPT ![c] = "timeout"]
    BY <1>4 DEF TakeResponse, Timeout, Return
  <2>2. response \in [Calls -> Rulings \union {"none"}]
        /\ reply \in [Calls -> Rulings \union {"none", "pending", "timeout"}]
    BY DEF TypeOK
  <2>. QED
    BY <1>1, <2>1, <2>2
<1>5. CASE Start \/ Announce \/ EndCountdown \/ RoundTimer \/ CheckOver \/ Advance
           \/ Cleanup \/ TakeStop \/ DoDisconnect \/ DoReconnect
  <2>1. UNCHANGED <<asked, response, reply>>
    BY <1>5 DEF Start, Announce, EndCountdown, RoundTimer, CheckOver, Advance, Cleanup, TakeStop,
                DoDisconnect, DoReconnect, callVars
  <2>. QED
    BY <1>1, <2>1
<1>6. CASE Timers \/ Shutdown
  <2>1. UNCHANGED <<asked, response, reply>>
    BY <1>6 DEF Timers, Tick, GraceExpires, Forfeit, Shutdown, callVars
  <2>. QED
    BY <1>1, <2>1
<1>7. ASSUME NEW p \in Players, BeginDisconnect(p) \/ BeginReconnect(p) PROVE AckInv'
  BY <1>1, <1>7 DEF BeginDisconnect, BeginReconnect, BeginConnCall
<1>8. ASSUME NEW a \in entering, SubmitAction(a) PROVE AckInv'
  BY <1>1, <1>8 DEF SubmitAction
<1>. QED
  BY <1>2, <1>3, <1>4, <1>5, <1>6, <1>7, <1>8 DEF Next, Run, Callers

--------------------------------------------------------------------------------
(* The invariant *)

(* A step that changes nothing keeps the invariant. *)
LEMMA Untouched == IInv /\ UNCHANGED vars => IInv'
<1>. SUFFICES ASSUME IInv, UNCHANGED vars PROVE IInv'
  OBVIOUS
<1>. USE DEF vars, gameVars, timerVars, mgrVars, callVars
<1>1. TypeOK'
  BY DEF IInv, TypeOK
<1>2. Order'
  BY OrderUntouched DEF IInv, Order
<1>3. ScoreMatchesRounds' /\ OutcomeHonest' /\ AckInv'
  BY ScoreUntouched DEF IInv, OutcomeHonest, OverWhenAllPlayed, RoundOpen, AckInv, Counted
<1>. QED
  BY <1>1, <1>2, <1>3 DEF IInv, Order

(* IInv is inductive. *)
LEMMA Inductive == IInv /\ [Next]_vars => IInv'
<1>. SUFFICES ASSUME IInv, Next PROVE IInv'
  BY Untouched
<1>1. TypeOK /\ Order /\ ScoreMatchesRounds /\ OutcomeHonest /\ AckInv
  BY DEF IInv, Order
<1>2. TypeOK'
  BY <1>1, TypeOKRun, TypeOKTimers, TypeOKCallers DEF Order, Next
<1>3. Order'
  BY <1>1, OrderRun, OrderOthers DEF Next
<1>4. ScoreMatchesRounds' /\ OutcomeHonest' /\ AckInv'
  BY <1>1, <1>3, ScoreStep, OutcomeStep, AckStep
<1>. QED
  BY <1>2, <1>3, <1>4 DEF IInv, Order

(* IInv holds in every reachable state of a session, whatever the number   *)
(* of rounds, the capacity of the channel and the number of calls.         *)
THEOREM Invariance == Spec => []IInv
<1>1. Init => IInv
  BY TypeOKInit, OrderInit, ScoreInit, OutcomeInit, AckInit DEF IInv, Order
<1>. QED
  BY <1>1, Inductive, PTL DEF Spec

(* Every variable keeps its type. *)
THEOREM TypeCorrect == Spec => []TypeOK
<1>1. IInv => TypeOK
  BY DEF IInv
<1>. QED
  BY <1>1, Invariance, PTL

(* A score is the number of closed rounds answered right. *)
THEOREM ScoresCorrect == Spec => []ScoreMatchesRounds
<1>1. IInv => ScoreMatchesRounds
  BY DEF IInv
<1>. QED
  BY <1>1, Invariance, PTL

(* Only the last round can be open, and there are at most LastRound.       *)
THEOREM OrderCorrect == Spec => []RoundsInOrder
<1>1. IInv => RoundsInOrder
  BY DEF IInv
<1>. QED
  BY <1>1, Invariance, PTL

(* The game is over exactly when its last round is closed. *)
THEOREM OverCorrect == Spec => []OverWhenAllPlayed
<1>1. IInv => OverWhenAllPlayed
  BY DEF IInv
<1>. QED
  BY <1>1, Invariance, PTL

(* The manager drops a session once, with the right label. *)
THEOREM OutcomeCorrect == Spec => []OutcomeHonest
<1>1. IInv => OutcomeHonest
  BY DEF IInv
<1>. QED
  BY <1>1, Invariance, PTL

(* An answer acknowledged as accepted is in the round it was sent for.     *)
THEOREM AckCorrect == Spec => []AckHonest
<1>1. IInv => AckHonest
  BY DEF IInv, AckInv, AckHonest, Counted
<1>. QED
  BY <1>1, Invariance, PTL

--------------------------------------------------------------------------------
(* What steps may not do *)

(* No step changes the result of a game that is over. *)
LEMMA OverStep ==
  ASSUME TypeOK, Order, Next, state = "game_over"
  PROVE  UNCHANGED <<state, currentRound, rounds, score>>
<1>. USE DEF gameVars
<1>1. currentRound = LastRound /\ ~RoundOpen /\ currentRound # 0
  BY LastRoundPositive DEF Order, OverWhenAllPlayed
<1>2. CASE Start \/ Announce \/ EndCountdown \/ Advance
  BY <1>2 DEF Start, Announce, EndCountdown, Advance, Order, PhaseInv
<1>3. CASE RoundTimer
  <2>1. Current \in Round /\ currentRound \in 1..Len(rounds) /\ rounds \in Seq(Round)
    BY <1>1, CurrentIsRound DEF Order, TypeOK
  <2>2. Current.finalized
    BY <1>1, <2>1 DEF RoundOpen, Current, Round
  <2>3. FinalizeCurrentRound(Current) /\ UNCHANGED currentRound
    BY <1>3 DEF RoundTimer
  <2>4. rounds' = [rounds EXCEPT ![currentRound] = Current] /\ UNCHANGED <<state, score>>
    BY <2>2, <2>3 DEF FinalizeCurrentRound
  <2>5. rounds' = rounds
    BY <2>1, <2>4 DEF Current
  <2>. QED
    BY <2>3, <2>4, <2>5
<1>4. CASE DoAnswer
  <2>1. Ruling(Head(actionCh)) # "accepted"
    BY DEF Ruling
  <2>. QED
    BY <1>4, <2>1 DEF DoAnswer
<1>5. CASE CheckOver \/ Cleanup \/ TakeStop \/ DoDisconnect \/ DoReconnect
  BY <1>5 DEF CheckOver, Cleanup, TakeStop, DoDisconnect, DoReconnect
<1>6. CASE Tick \/ Shutdown
  BY <1>6 DEF Tick, Shutdown
<1>7. ASSUME NEW p \in Players, GraceExpires(p) \/ Forfeit(p)
      PROVE  UNCHANGED <<state, currentRound, rounds, score>>
  BY <1>7 DEF GraceExpires, Forfeit, AlreadyEnded
<1>8. CASE Callers
  BY <1>8 DEF Callers, BeginAnswer, BeginDisconnect, BeginReconnect, BeginConnCall,
              TakeResponse, Timeout, Return, SubmitAction
<1>. QED
  BY <1>2, <1>3, <1>4, <1>5, <1>6, <1>7, <1>8 DEF Next, Run, Timers

(* Once a game is over nothing changes its result: no forfeit, no late     *)
(* answer, no second firing of the round timer.                            *)
THEOREM ResultFinal == Spec => GameOverIsFinal
<1>1. IInv /\ [Next]_vars =>
        [state = "game_over" => UNCHANGED <<state, currentRound, rounds, score>>]_vars
  BY OverStep DEF IInv, Order, vars
<1>. QED
  BY <1>1, Invariance, PTL DEF Spec, GameOverIsFinal

--------------------------------------------------------------------------------
(* GameSession implements RoundLedger *)

Entry == IF currentRound = 0 THEN [p \in Players |-> "none"]
                             ELSE rounds[currentRound].answers

(* len(Answers) >= 2 says that every player answered. *)
LEMMA AllAnsweredMeaning ==
  ASSUME NEW round
  PROVE  AllAnswered(round) <=> \A p \in Players : round.answers[p] # "none"
<1>. DEFINE A == {p \in Players : HasAnswer(round, p)}
<1>1. IsFiniteSet(Players) /\ Cardinality(Players) = 2
  BY PlayersAssumption
<1>2. A \subseteq Players
  OBVIOUS
<1>3. /\ IsFiniteSet(A)
      /\ Cardinality(A) <= 2
      /\ Cardinality(A) = 2 => A = Players
  BY <1>1, <1>2, FS_Subset
<1>4. Cardinality(A) \in Nat
  BY <1>3, FS_CardinalityType
<1>5. CASE A = Players
  BY <1>1, <1>5 DEF AllAnswered, HasAnswer
<1>6. CASE A # Players
  BY <1>3, <1>4, <1>6 DEF AllAnswered, HasAnswer
<1>. QED
  BY <1>5, <1>6

(* Where rounds and scores do not change, the ledger does not either. *)
LEMMA LedgerUntouched ==
  ASSUME UNCHANGED <<currentRound, rounds, score>>
  PROVE  UNCHANGED Ledger!ledgerVars
BY DEF Ledger!ledgerVars, RoundOpen

(* startNextRound opens a round of the ledger. *)
LEMMA LedgerOpenRound ==
  ASSUME TypeOK, Order, Order', StartNextRound, pc \in {"countdown", "advance"}
  PROVE  Ledger!OpenRound
<1>1. /\ currentRound' = currentRound + 1
      /\ rounds'[currentRound'] = NewRound
      /\ score' = score
      /\ currentRound \in Nat
  BY NextRoundStarted DEF TypeOK, Order
<1>2. currentRound < LastRound
  BY <1>1, LastRoundPositive DEF Order, RoundsInOrder
<1>3. ~RoundOpen
  BY DEF Order, PhaseInv, RoundOpen
<1>4. RoundOpen' /\ Entry' = [p \in Players |-> "none"]
  BY <1>1 DEF RoundOpen, Entry, NewRound
<1>. QED
  BY <1>1, <1>2, <1>3, <1>4 DEF Ledger!OpenRound, Ledger!Blank, Entry

(* The round timer is a deadline of the ledger, or nothing to it. *)
LEMMA LedgerDeadline ==
  ASSUME TypeOK, Order, RoundTimer
  PROVE  Ledger!Deadline \/ UNCHANGED Ledger!ledgerVars
<1>1. /\ currentRound # 0
      /\ FinalizeCurrentRound(Current)
      /\ UNCHANGED currentRound
  BY DEF RoundTimer, Order, PhaseInv
<1>2. /\ currentRound \in 1..Len(rounds)
      /\ Current \in Round
      /\ rounds \in Seq(Round)
      /\ currentRound > 0
  BY <1>1, CurrentIsRound DEF Order, TypeOK
<1>3. /\ rounds' = [rounds EXCEPT ![currentRound] = [Current EXCEPT !.finalized = TRUE]]
      /\ Current.finalized => score' = score
      /\ ~Current.finalized => score' = Award(Current)
  BY <1>1, <1>2, Finalized DEF Order
<1>4. /\ rounds'[currentRound].answers = Current.answers
      /\ rounds'[currentRound].finalized
  BY <1>2, <1>3 DEF Round
<1>5. CASE Current.finalized
  <2>1. rounds' = rounds
    BY <1>2, <1>3, <1>5 DEF Current, Round
  <2>. QED
    BY <1>1, <1>3, <1>5, <2>1, LedgerUntouched
<1>6. CASE ~Current.finalized
  BY <1>1, <1>2, <1>3, <1>4, <1>6
     DEF Ledger!Deadline, Ledger!Awarded, RoundOpen, Award, Current
<1>. QED
  BY <1>5, <1>6

(* An answer that run() takes is an entry in the ledger, or nothing to it. *)
LEMMA LedgerEnter ==
  ASSUME TypeOK, Order, DoAnswer
  PROVE  \/ \E p \in Players : Ledger!Enter(p, "right") \/ Ledger!Enter(p, "wrong")
         \/ UNCHANGED Ledger!ledgerVars
<1>. DEFINE a == Head(actionCh)
            e == Mark(a.right)
            p == a.player
<1>1. a \in AnswerActions /\ p \in Players /\ UNCHANGED currentRound
  BY ReceiveType DEF DoAnswer, AnswerActions, ConnActions
<1>2. CASE Ruling(a) # "accepted"
  BY <1>1, <1>2, LedgerUntouched DEF DoAnswer
<1>3. CASE Ruling(a) = "accepted"
  <2>1. Record(a)
    BY <1>3 DEF DoAnswer
  <2>2. /\ currentRound # 0
        /\ ~Current.finalized
        /\ Current.answers[p] = "none"
        /\ Answered(a).answers = [Current.answers EXCEPT ![p] = e]
    BY <1>1, <1>3, AnswerAccepted DEF Order
  <2>3. currentRound > 0
    BY <2>2 DEF TypeOK
  <2>4. /\ rounds'[currentRound].answers = Answered(a).answers
        /\ \/ /\ ~AllAnswered(Answered(a))
              /\ ~rounds'[currentRound].finalized
              /\ score' = score
           \/ /\ AllAnswered(Answered(a))
              /\ rounds'[currentRound].finalized
              /\ score' = Award(Answered(a))
    BY <1>1, <1>3, <2>1, AnswerRecorded DEF Order
  <2>5. AllAnswered(Answered(a)) <=> \A q \in Players : Answered(a).answers[q] # "none"
    BY AllAnsweredMeaning
  <2>6. /\ RoundOpen
        /\ Entry = Current.answers
        /\ Entry' = [Entry EXCEPT ![p] = e]
        /\ Entry' = Answered(a).answers
        /\ RoundOpen' <=> ~rounds'[currentRound].finalized
    BY <1>1, <2>2, <2>3, <2>4 DEF RoundOpen, Entry, Current
  <2>7. Ledger!Enter(p, e)
    <3>. HIDE DEF a, e, p
    <3>1. CASE ~AllAnswered(Answered(a)) /\ RoundOpen' /\ score' = score
      <4>1. \E q \in Players : Entry'[q] = "none"
        BY <2>5, <2>6, <3>1
      <4>. QED
        BY <1>1, <2>2, <2>6, <3>1, <4>1 DEF Ledger!Enter, Entry
    <3>2. CASE AllAnswered(Answered(a)) /\ ~RoundOpen' /\ score' = Award(Answered(a))
      <4>1. \A q \in Players : Entry'[q] # "none"
        BY <2>5, <2>6, <3>2
      <4>2. score' = Ledger!Awarded(Entry')
        BY <2>6, <3>2 DEF Award, Ledger!Awarded
      <4>3. RoundOpen' = FALSE
        BY <3>2 DEF RoundOpen
      <4>. QED
        BY <1>1, <2>2, <2>6, <4>1, <4>2, <4>3 DEF Ledger!Enter, Entry
    <3>. QED
      BY <2>4, <2>6, <3>1, <3>2
  <2>. QED
    BY <1>1, <2>7 DEF Mark
<1>. QED
  BY <1>2, <1>3

(* Every step of a session is a step of the ledger or none. *)
LEMMA LedgerStep ==
  ASSUME TypeOK, Order, Order', Next
  PROVE  Ledger!Next \/ UNCHANGED Ledger!ledgerVars
<1>1. CASE EndCountdown \/ Advance
  BY <1>1, LedgerOpenRound DEF EndCountdown, Advance, Ledger!Next
<1>2. CASE RoundTimer
  BY <1>2, LedgerDeadline DEF Ledger!Next
<1>3. CASE DoAnswer
  BY <1>3, LedgerEnter DEF Ledger!Next
<1>4. CASE Start \/ Announce \/ CheckOver \/ Cleanup \/ TakeStop \/ DoDisconnect
           \/ DoReconnect
  BY <1>4, LedgerUntouched DEF Start, Announce, CheckOver, Cleanup, TakeStop, DoDisconnect,
                               DoReconnect, gameVars
<1>5. CASE Timers
  BY <1>5, LedgerUntouched DEF Timers, Tick, GraceExpires, Forfeit, gameVars
<1>6. CASE Callers \/ Shutdown
  BY <1>6, LedgerUntouched DEF Callers, Shutdown, BeginAnswer, BeginDisconnect,
       BeginReconnect, BeginConnCall, TakeResponse, Timeout, Return, SubmitAction,
       gameVars
<1>. QED
  BY <1>1, <1>2, <1>3, <1>4, <1>5, <1>6 DEF Next, Run

(* A session keeps the ledger: every step of it is a step of RoundLedger,  *)
(* or changes nothing the ledger speaks of.                                *)
THEOREM Refinement == Spec => ImplementsLedger
<1>1. Init => Ledger!Init
  BY DEF Init, Ledger!Init, Ledger!Blank, RoundOpen
<1>2. ASSUME IInv, IInv', [Next]_vars PROVE [Ledger!Next]_(Ledger!ledgerVars)
  <2>1. CASE Next
    BY <1>2, <2>1, LedgerStep DEF IInv, Order
  <2>2. CASE UNCHANGED vars
    BY <2>2, LedgerUntouched DEF vars, gameVars
  <2>. QED
    BY <1>2, <2>1, <2>2
<1>. QED
  BY <1>1, <1>2, Invariance, PTL DEF Spec, ImplementsLedger, Ledger!Spec

--------------------------------------------------------------------------------
(* What the players are told *)

(* A critical section that ends with a broadcast leaves the players told. *)
LEMMA BroadcastTells == Broadcast => PlayersUpToDate'
BY DEF PlayersUpToDate, Broadcast, Snapshot

(* A critical section that changes nothing players see leaves them told. *)
LEMMA SilentTells ==
  ASSUME PlayersUpToDate, UNCHANGED gameVars,
         pc \in {"start", "announce"} => pc' \in {"start", "announce"}
  PROVE  PlayersUpToDate'
BY DEF PlayersUpToDate, gameVars, Snapshot, MoreThanTheOthers, RoundOpen

(* An answer that leaves its round open changes only who answered it. *)
LEMMA AnswerTells ==
  ASSUME TypeOK, Order, PlayersUpToDate, NEW a \in AnswerActions, pc = "select",
         Ruling(a) = "accepted", ~AllAnswered(Answered(a)), Record(a),
         UNCHANGED <<pc, currentRound, connected>>
  PROVE  PlayersUpToDate'
<1>1. /\ rounds' = [rounds EXCEPT ![currentRound] = Answered(a)]
      /\ UNCHANGED <<state, score, told>>
  BY DEF Record
<1>2. /\ currentRound # 0
      /\ ~Current.finalized
      /\ Answered(a) \in Round
      /\ Answered(a).finalized = Current.finalized
      /\ Answered(a).answers = [Current.answers EXCEPT ![a.player] = Mark(a.right)]
  BY AnswerAccepted DEF Order
<1>3. /\ currentRound \in 1..Len(rounds)
      /\ rounds \in Seq(Round)
      /\ Current.answers \in [Players -> Marks]
  BY <1>2, CurrentIsRound DEF Order, TypeOK
<1>4. rounds'[currentRound] = Answered(a)
  BY <1>1, <1>3
<1>5. RoundOpen' /\ currentRound > 0
  BY <1>2, <1>3, <1>4 DEF RoundOpen
<1>6. Snapshot.answered \subseteq Snapshot'.answered
  <2>1. ASSUME NEW p \in Players, Current.answers[p] # "none"
        PROVE  Answered(a).answers[p] # "none"
    BY <1>2, <1>3, <2>1 DEF Mark
  <2>. QED
    BY <1>4, <1>5, <2>1 DEF Snapshot, HasAnswer, Current
<1>7. \A f \in {"state", "round", "score", "connected", "winner"} :
        Snapshot'[f] = Snapshot[f]
  BY <1>1 DEF Snapshot, MoreThanTheOthers
<1>. QED
  BY <1>1, <1>5, <1>6, <1>7 DEF PlayersUpToDate

(* Every critical section that changes what players see, but for an answer *)
(* to an open round, ends with a broadcast (broadcastSnapshotLocked and    *)
(* its callers).                                                           *)
LEMMA ToldStep ==
  ASSUME IInv, PlayersUpToDate, [Next]_vars
  PROVE  PlayersUpToDate'
<1>. USE DEF gameVars
<1>0. TypeOK /\ Order
  BY DEF IInv, Order
<1>1. CASE Announce \/ DoDisconnect \/ DoReconnect \/ EndCountdown \/ Advance
  BY <1>1, BroadcastTells DEF Announce, DoDisconnect, DoReconnect, EndCountdown,
                              Advance, StartNextRound
<1>2. CASE Start
  BY <1>2 DEF Start, PlayersUpToDate
<1>3. CASE RoundTimer
  <2>1. /\ pc = "select" /\ pc' = "finalized"
        /\ currentRound # 0
        /\ UNCHANGED <<currentRound, connected>>
        /\ FinalizeCurrentRound(Current)
    BY <1>0, <1>3 DEF RoundTimer, Order, PhaseInv
  <2>2. CASE Broadcast
    BY <2>2, BroadcastTells
  <2>3. CASE rounds' = [rounds EXCEPT ![currentRound] = Current] /\ UNCHANGED <<state, score, told>>
    <3>1. rounds' = rounds
      BY <1>0, <2>1, <2>3, CurrentIsRound DEF Current, TypeOK, Order
    <3>. QED
      BY <2>1, <2>3, <3>1, SilentTells
  <2>. QED
    BY <2>1, <2>2, <2>3 DEF FinalizeCurrentRound
<1>4. CASE DoAnswer
  <2>. DEFINE a == Head(actionCh)
  <2>1. /\ a \in AnswerActions
        /\ pc = "select" /\ pc' = pc
        /\ UNCHANGED <<currentRound, connected>>
    BY <1>0, <1>4, ReceiveType DEF DoAnswer, AnswerActions, ConnActions
  <2>2. CASE Ruling(a) # "accepted"
    <3>1. UNCHANGED <<rounds, state, score, told>>
      BY <1>4, <2>2 DEF DoAnswer
    <3>. QED
      BY <2>1, <3>1, SilentTells
  <2>3. CASE Ruling(a) = "accepted"
    <3>1. Record(a)
      BY <1>4, <2>3 DEF DoAnswer
    <3>2. CASE ~AllAnswered(Answered(a))
      BY <1>0, <2>1, <2>3, <3>1, <3>2, AnswerTells
    <3>3. CASE AllAnswered(Answered(a))
      <4>1. ~Answered(a).finalized
        BY <1>0, <2>1, <2>3, AnswerAccepted DEF Order
      <4>2. Broadcast
        BY <3>1, <3>3, <4>1 DEF Record, FinalizeCurrentRound
      <4>. QED
        BY <4>2, BroadcastTells
    <3>. QED
      BY <3>2, <3>3
  <2>. QED
    BY <2>2, <2>3
<1>5. CASE CheckOver \/ Cleanup \/ TakeStop
  BY <1>5, SilentTells DEF CheckOver, Cleanup, TakeStop
<1>6. ASSUME NEW p \in Players, Forfeit(p)
      PROVE  PlayersUpToDate'
  <2>1. CASE Broadcast
    BY <2>1, BroadcastTells
  <2>2. CASE UNCHANGED <<state, told>>
    BY <1>6, <2>2, SilentTells DEF Forfeit
  <2>. QED
    BY <1>6, <2>1, <2>2 DEF Forfeit
<1>7. CASE Tick \/ \E p \in Players : GraceExpires(p)
  BY <1>7, SilentTells DEF Tick, GraceExpires
<1>8. CASE Callers \/ Shutdown
  BY <1>8, SilentTells DEF Callers, Shutdown, BeginAnswer, BeginDisconnect,
       BeginReconnect, BeginConnCall, TakeResponse, Timeout, Return, SubmitAction
<1>9. CASE UNCHANGED vars
  BY <1>9, SilentTells DEF vars
<1>. QED
  BY <1>1, <1>2, <1>3, <1>4, <1>5, <1>6, <1>7, <1>8, <1>9 DEF Next, Run, Timers

(* From the first broadcast on the players have been told the current      *)
(* state, round, scores and connections, and who answered a round by the   *)
(* time it is closed (session.go, broadcastSnapshot and its callers).      *)
THEOREM ToldCorrect == Spec => []PlayersUpToDate
<1>1. Init => PlayersUpToDate
  BY DEF Init, PlayersUpToDate
<1>. QED
  BY <1>1, ToldStep, Invariance, PTL DEF Spec

(* Before the first broadcast nothing is announced: no timer is armed and  *)
(* run() has not taken an action.                                          *)
LEMMA UntoldStep ==
  ASSUME IInv, [Next]_vars, pc' \in {"start", "announce"}
  PROVE  pc \in {"start", "announce"} /\ told' = told
<1>. USE DEF gameVars
<1>1. CASE Run
  BY <1>1 DEF Run, Start, Announce, EndCountdown, RoundTimer, CheckOver, Advance,
       Cleanup, TakeStop, DoAnswer, DoDisconnect, DoReconnect, Receive
<1>2. ASSUME NEW p \in Players, Forfeit(p)
      PROVE  FALSE
  <2>1. pc' = pc /\ firing[p] > 0
    BY <1>2 DEF Forfeit
  <2>. QED
    BY <2>1 DEF IInv, PhaseInv
<1>3. CASE Tick \/ \E p \in Players : GraceExpires(p)
  BY <1>3 DEF Tick, GraceExpires
<1>4. CASE Callers \/ Shutdown
  BY <1>4 DEF Callers, Shutdown, BeginAnswer, BeginDisconnect, BeginReconnect,
       BeginConnCall, TakeResponse, Timeout, Return, SubmitAction
<1>5. CASE UNCHANGED vars
  BY <1>5 DEF vars
<1>. QED
  BY <1>1, <1>2, <1>3, <1>4, <1>5 DEF Next, Timers

(* Players who see the game over see as winner whoever has more right      *)
(* answers in the rounds, and nobody after a draw (buildSnapshotLocked).   *)
THEOREM WinnerCorrect == Spec => []WinnerHonest
<1>. DEFINE Untold == pc \in {"start", "announce"} => told = NoSnapshot
<1>1. Init => Untold
  BY DEF Init
<1>2. Untold /\ IInv /\ [Next]_vars => Untold'
  <2>. SUFFICES ASSUME Untold, IInv, [Next]_vars, pc' \in {"start", "announce"}
                PROVE  told' = NoSnapshot
    OBVIOUS
  <2>1. pc \in {"start", "announce"} /\ told' = told
    BY UntoldStep
  <2>. QED
    BY <2>1
<1>3. ASSUME PlayersUpToDate, Untold, IInv PROVE WinnerHonest
  <2>. SUFFICES ASSUME told.state = "game_over"
                PROVE  told.winner = {p \in Players : \A q \in Players \ {p} :
                                        Cardinality(Won(p)) > Cardinality(Won(q))}
    BY DEF WinnerHonest
  <2>1. pc \notin {"start", "announce"}
    BY <1>3 DEF NoSnapshot
  <2>2. told["state"] = Snapshot["state"] /\ told["winner"] = Snapshot["winner"]
    BY <1>3, <2>1 DEF PlayersUpToDate
  <2>. QED
    BY <1>3, <2>2 DEF IInv, ScoreMatchesRounds, Snapshot, MoreThanTheOthers
<1>. QED
  BY <1>1, <1>2, <1>3, ToldCorrect, Invariance, PTL DEF Spec

--------------------------------------------------------------------------------
(* A clock runs for a player who is away *)

(* The timers of a player in a game that goes on. *)
Timed(p) == tracked[p] \/ orphans[p] > 0 \/ firing[p] > 0

(* Disconnects arm a timer, timers that run out start a forfeit, and a     *)
(* forfeit that finds the game going on ends it (handleDisconnect,         *)
(* handleReconnect, forfeitGame, cleanup).                                 *)
LEMMA AbsenceStep ==
  ASSUME IInv, AbsenceIsTimed, [Next]_vars
  PROVE  AbsenceIsTimed'
<1>1. /\ tracked \in [Players -> BOOLEAN] /\ connected \in [Players -> BOOLEAN]
      /\ orphans \in [Players -> Nat] /\ firing \in [Players -> Nat]
      /\ registered \in BOOLEAN
  BY DEF IInv, TypeOK
<1>2. state = "game_over" => state' = "game_over"
  BY OverStep DEF IInv, Order, vars, gameVars
<1>3. SUFFICES ASSUME NEW p \in Players,
                      ~connected'[p], registered', state' # "game_over"
               PROVE  Timed(p)'
  <2>1. ASSUME \A q \in Players :
                 ~connected'[q] /\ registered' /\ state' # "game_over" => Timed(q)'
        PROVE  AbsenceIsTimed'
    BY <2>1 DEF AbsenceIsTimed, Timed
  <2>. QED
    BY <2>1
<1>4. ~connected[p] /\ registered => Timed(p)
  BY <1>2, <1>3 DEF AbsenceIsTimed, Timed
<1>5. CASE UNCHANGED <<connected, timerVars, registered>>
  BY <1>3, <1>4, <1>5 DEF Timed, timerVars
<1>6. CASE DoDisconnect
  <2>. DEFINE q == Head(actionCh).player
  <2>1. /\ connected' = [connected EXCEPT ![q] = FALSE]
        /\ tracked' = [tracked EXCEPT ![q] = TRUE]
        /\ orphans' = [orphans EXCEPT ![q] = IF tracked[q] THEN @ + 1 ELSE @]
        /\ UNCHANGED <<firing, registered>>
    BY <1>6 DEF DoDisconnect, mgrVars
  <2>. HIDE DEF q
  <2>. QED
    BY <1>1, <1>3, <1>4, <2>1 DEF Timed
<1>7. CASE DoReconnect
  <2>. DEFINE q == Head(actionCh).player
  <2>1. /\ connected' = [connected EXCEPT ![q] = TRUE]
        /\ tracked' = [tracked EXCEPT ![q] = FALSE]
        /\ UNCHANGED <<orphans, firing, registered>>
    BY <1>7 DEF DoReconnect, mgrVars
  <2>. HIDE DEF q
  <2>. QED
    BY <1>1, <1>3, <1>4, <2>1 DEF Timed
<1>8. ASSUME NEW q \in Players, GraceExpires(q) PROVE Timed(p)'
  <2>1. /\ \/ tracked' = [tracked EXCEPT ![q] = FALSE] /\ UNCHANGED orphans
           \/ orphans' = [orphans EXCEPT ![q] = @ - 1] /\ UNCHANGED tracked
        /\ firing' = [firing EXCEPT ![q] = @ + 1]
        /\ UNCHANGED <<connected, registered>>
    BY <1>8 DEF GraceExpires, gameVars, mgrVars
  <2>. QED
    BY <1>1, <1>3, <1>4, <2>1 DEF Timed
<1>9. ASSUME NEW q \in Players, Forfeit(q) PROVE Timed(p)'
  <2>1. state \in {"game_over", "abandoned"} /\ UNCHANGED <<state, mgrVars>>
    BY <1>3, <1>9 DEF Forfeit, HandleGameEnd, AlreadyEnded
  <2>2. state = "abandoned" /\ registered
    BY <1>3, <2>1 DEF mgrVars
  <2>. QED
    BY <2>2 DEF IInv, OutcomeHonest
<1>10. CASE Cleanup
  BY <1>3, <1>10 DEF Cleanup, HandleGameEnd
<1>11. CASE Start \/ Announce \/ EndCountdown \/ RoundTimer \/ CheckOver \/ Advance \/ TakeStop
              \/ DoAnswer
  BY <1>5, <1>11 DEF Start, Announce, EndCountdown, RoundTimer, CheckOver, Advance, TakeStop,
       DoAnswer, StartNextRound, gameVars, mgrVars
<1>12. CASE Tick \/ Callers \/ Shutdown \/ UNCHANGED vars
  BY <1>5, <1>12, ZenonT(40)
   DEF Tick, Callers, Shutdown, BeginAnswer, BeginDisconnect,
       BeginReconnect, BeginConnCall, TakeResponse, Timeout, Return, SubmitAction,
       gameVars, mgrVars, vars
<1>. QED
  BY <1>6, <1>7, <1>8, <1>9, <1>10, <1>11, <1>12 DEF Next, Run, Timers

(* While a player is away from a game that still goes on, a clock is       *)
(* running for him, however many timers were replaced or are firing.       *)
THEOREM AbsenceCorrect == Spec => []AbsenceIsTimed
<1>1. Init => AbsenceIsTimed
  BY DEF Init, AbsenceIsTimed
<1>. QED
  BY <1>1, Invariance, AbsenceStep, PTL DEF Spec

================================================================================
