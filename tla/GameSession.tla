------------------------------ MODULE GameSession ------------------------------
(***************************************************************************)
(* One game session of the backend (internal/game/session.go): the         *)
(* goroutine run() that owns the rounds, the grace timers whose goroutines *)
(* run forfeitGame(), the bounded channel actionCh between the session and *)
(* the callers of GameManager, and those callers.                          *)
(*                                                                         *)
(* Every critical section of the session's mutex is one action; what the   *)
(* code does between two of them (the unlocked read of s.State in run(),   *)
(* the lookup of a session and the send on its channel) is split where the *)
(* other goroutines can get in between.                                    *)
(*                                                                         *)
(* Left out: what only logs or counts (metrics, latency), disconnectTimes, *)
(* which is written and never read, the text of questions (an answer is    *)
(* right or wrong for the round it names), and the callers the code turns  *)
(* away for not being one of the two players.                              *)
(*                                                                         *)
(* A definition whose name begins with Slip is no part of the model: it is *)
(* the definition after it with a bug, put in its place to see that a      *)
(* property notices.                                                       *)
(***************************************************************************)
EXTENDS Integers, Sequences, FiniteSets

CONSTANTS
  Players,        \* the two player ids of the session
  TotalRounds,    \* SessionConfig.TotalRounds (TOTAL_ROUNDS, 10 by default)
  ChanCap,        \* capacity of actionCh (100 in the code)
  MaxAnswers,     \* bound: ANSWER messages the readers of the players send
  MaxConnEvents,  \* bound: disconnects and RECONNECT messages
  MayShutDown     \* bound: may GracefulShutdown give up on the session?

ASSUME PlayersAssumption == IsFiniteSet(Players) /\ Cardinality(Players) = 2
ASSUME BoundsAssumption ==
  /\ TotalRounds \in Nat
  /\ ChanCap \in Nat \ {0}
  /\ MaxAnswers \in Nat
  /\ MaxConnEvents \in Nat
  /\ MayShutDown \in BOOLEAN

VARIABLES
  pc,            \* where run() is
  state,         \* s.State
  currentRound,  \* s.CurrentRound
  rounds,        \* s.Rounds: answers by player, and Finalized
  score,         \* Players[i].Score
  connected,     \* Players[i].Connected
  clock,         \* the wall clock against the current round's DeadlineTS
  tracked,       \* does graceTickers hold an armed timer for the player?
  orphans,       \* armed grace timers that graceTickers no longer holds
  firing,        \* forfeitGame goroutines started and not yet in the lock
  actionCh,      \* s.actionCh
  stopCh,        \* is s.stopCh closed?
  registered,    \* does GameManager.sessions hold the session?
  outcome,       \* the label RecordMatchCompleted was called with
  told,          \* the snapshot last broadcast to both players
  entering,      \* actions whose caller is past the lookup, not in actionCh yet
  asked,         \* by call of SubmitAnswer: the answer it submitted,
  response,      \*   what its ResponseCh holds,
  reply,         \*   and what it returned
  answersSent,   \* how many of these calls began; numbers them
  connEvents     \* how many disconnect and reconnect calls began

gameVars  == <<state, currentRound, rounds, score, connected, told>>
timerVars == <<tracked, orphans, firing>>
mgrVars   == <<registered, outcome>>
callVars  == <<entering, asked, reply, answersSent, connEvents>>
vars == <<pc, gameVars, clock, timerVars, mgrVars, actionCh, stopCh, response,
          callVars>>

--------------------------------------------------------------------------------
(* Values *)

States == {"waiting", "countdown", "round_active", "round_end", "game_over",
           "abandoned"}

PCs == {"start", "announce", "countdown", "select", "finalized", "advance", "cleanup",
        "done", "stopped"}

Marks == {"none", "right", "wrong"}

Round == [answers : [Players -> Marks], finalized : BOOLEAN]

NewRound == [answers |-> [p \in Players |-> "none"], finalized |-> FALSE]

(* A GameAction.  An answer names its round, says whether it is the right  *)
(* answer to that round's question, and carries the number of its call.    *)
AnswerActions ==
  [type : {"answer"}, player : Players, round : Nat, right : BOOLEAN,
   call : Nat]

ConnActions == [type : {"disconnect", "reconnect"}, player : Players]

NoAction == [type |-> "nothing"]

Calls == 1..MaxAnswers

Rulings == {"accepted", "game_not_active", "wrong_round", "deadline_passed",
             "already_answered"}

(* The last round a game can reach: the first one is started before        *)
(* TotalRounds is ever looked at.                                          *)
LastRound == IF TotalRounds = 0 THEN 1 ELSE TotalRounds

Mark(right) == IF right THEN "right" ELSE "wrong"

--------------------------------------------------------------------------------
(* Snapshots *)

(* Slip: a draw counts as a win. *)
SlipDrawWins(p) == \A q \in Players \ {p} : score[p] >= score[q]

MoreThanTheOthers(p) == \A q \in Players \ {p} : score[p] > score[q]

HasAnswer(round, p) == round.answers[p] # "none"

(* buildSnapshotLocked, without what it copies from the question and the   *)
(* answers.                                                                *)
Snapshot ==
  [state     |-> state,
   round     |-> currentRound,
   score     |-> score,
   connected |-> connected,
   answered  |-> {p \in Players : currentRound > 0 /\ HasAnswer(rounds[currentRound], p)},
   winner    |-> {p \in Players : state = "game_over" /\ MoreThanTheOthers(p)}]

NoSnapshot == [state |-> "nothing"]

(* broadcastSnapshotLocked: ends every critical section that calls it. *)
Broadcast == told' = Snapshot'

Init ==
  /\ pc = "start"
  /\ state = "waiting"
  /\ currentRound = 0
  /\ rounds = <<>>
  /\ score = [p \in Players |-> 0]
  /\ connected = [p \in Players |-> TRUE]
  /\ clock = "before"
  /\ tracked = [p \in Players |-> FALSE]
  /\ orphans = [p \in Players |-> 0]
  /\ firing = [p \in Players |-> 0]
  /\ actionCh = <<>>
  /\ stopCh = FALSE
  /\ registered = TRUE
  /\ outcome = "none"
  /\ told = NoSnapshot
  /\ entering = {}
  /\ asked = [c \in Calls |-> NoAction]
  /\ response = [c \in Calls |-> "none"]
  /\ reply = [c \in Calls |-> "none"]
  /\ answersSent = 0
  /\ connEvents = 0

--------------------------------------------------------------------------------
(* The rounds *)

Current == rounds[currentRound]

(* Slip: one answer is enough. *)
SlipOneIsAll(round) == Cardinality({p \in Players : HasAnswer(round, p)}) >= 1

AllAnswered(round) == Cardinality({p \in Players : HasAnswer(round, p)}) >= 2

(* IsExpired is strict: in the millisecond of the deadline it is not. *)
IsExpired == clock = "after"

(* Slip: one round too many. *)
SlipOneMore == currentRound > TotalRounds

IsLast == currentRound >= TotalRounds

Award(round) ==
  [p \in Players |-> IF round.answers[p] = "right" THEN score[p] + 1 ELSE score[p]]

(* Slip: no test of Finalized. *)
SlipFinalizeAgain(round) ==
  /\ rounds' = [rounds EXCEPT ![currentRound] = [round EXCEPT !.finalized = TRUE]]
  /\ score' = Award(round)
  /\ state' = IF IsLast THEN "game_over" ELSE "round_end"
  /\ Broadcast

(* finalizeCurrentRoundLocked.  Its first early return is never taken: no  *)
(* action is handled and no timer armed before the first round.            *)
FinalizeCurrentRound(round) ==
  \/ /\ round.finalized
     /\ rounds' = [rounds EXCEPT ![currentRound] = round]
     /\ UNCHANGED <<state, score, told>>
  \/ /\ ~round.finalized
     /\ rounds' = [rounds EXCEPT ![currentRound] = [round EXCEPT !.finalized = TRUE]]
     /\ score' = Award(round)
     /\ state' = IF IsLast THEN "game_over" ELSE "round_end"
     /\ Broadcast

(* Slip: the new round is not announced. *)
SlipSilentRound ==
  /\ currentRound' = currentRound + 1
  /\ rounds' = Append(rounds, NewRound)
  /\ state' = "round_active"
  /\ clock' = "before"
  /\ UNCHANGED <<score, connected, told>>

(* startNextRound; a new round has its whole duration ahead of it. *)
StartNextRound ==
  /\ currentRound' = currentRound + 1
  /\ rounds' = Append(rounds, NewRound)
  /\ state' = "round_active"
  /\ clock' = "before"
  /\ UNCHANGED <<score, connected>>
  /\ Broadcast

--------------------------------------------------------------------------------
(* The end of a game: handleGameEnd of the manager, called with the        *)
(* session's state s.                                                      *)

OutcomeOf(s) == CASE s = "game_over" -> "normal"
                  [] s = "abandoned" -> "abandoned"
                  [] OTHER           -> "unknown"

(* Slip: only a forfeit removes the session. *)
SlipKeepFinished(s) ==
  /\ registered' = (registered /\ s # "abandoned")
  /\ outcome' = IF registered THEN OutcomeOf(s) ELSE outcome

HandleGameEnd(s) ==
  /\ registered' = FALSE
  /\ outcome' = IF registered THEN OutcomeOf(s) ELSE outcome

--------------------------------------------------------------------------------
(* The run() goroutine *)

Start ==
  /\ pc = "start"
  /\ pc' = "announce"
  /\ state' = "countdown"
  /\ UNCHANGED <<currentRound, rounds, score, connected, told, clock, timerVars, mgrVars,
                 actionCh, stopCh, response, callVars>>

(* The first broadcast takes the lock anew. *)
Announce ==
  /\ pc = "announce"
  /\ pc' = "countdown"
  /\ UNCHANGED <<state, currentRound, rounds, score, connected>>
  /\ Broadcast
  /\ UNCHANGED <<clock, timerVars, mgrVars, actionCh, stopCh, response, callVars>>

(* The sleep ends; neither a stop nor an action is looked at until then. *)
EndCountdown ==
  /\ pc = "countdown"
  /\ pc' = "select"
  /\ StartNextRound
  /\ UNCHANGED <<timerVars, mgrVars, actionCh, stopCh, response, callVars>>

TakeStop ==
  /\ pc = "select"
  /\ stopCh
  /\ pc' = "stopped"
  /\ UNCHANGED <<gameVars, clock, timerVars, mgrVars, actionCh, stopCh, response,
                 callVars>>

(* The timer is armed after DeadlineTS was computed, so it fires at the    *)
(* deadline or later.                                                      *)
RoundTimer ==
  /\ pc = "select"
  /\ clock # "before"
  /\ pc' = "finalized"
  /\ UNCHANGED <<currentRound, connected>>
  /\ FinalizeCurrentRound(Current)
  /\ UNCHANGED <<clock, timerVars, mgrVars, actionCh, stopCh, response, callVars>>

(* The unlocked read of s.State after finalizing. *)
CheckOver ==
  /\ pc = "finalized"
  /\ pc' = IF state = "game_over" THEN "cleanup" ELSE "advance"
  /\ UNCHANGED <<gameVars, clock, timerVars, mgrVars, actionCh, stopCh, response,
                 callVars>>

Advance ==
  /\ pc = "advance"
  /\ pc' = "select"
  /\ StartNextRound
  /\ UNCHANGED <<timerVars, mgrVars, actionCh, stopCh, response, callVars>>

(* cleanup stops the timers it can still find. *)
Cleanup ==
  /\ pc = "cleanup"
  /\ pc' = "done"
  /\ tracked' = [p \in Players |-> FALSE]
  /\ HandleGameEnd(state)
  /\ UNCHANGED <<gameVars, clock, orphans, firing, actionCh, stopCh, response,
                 callVars>>

Receive(type) ==
  /\ pc = "select"
  /\ actionCh # <<>>
  /\ Head(actionCh).type = type
  /\ actionCh' = Tail(actionCh)
  /\ UNCHANGED pc

(* Slip: the round an answer names is not looked at. *)
SlipAnyRound(a) ==
  IF state # "round_active" THEN "game_not_active"
  ELSE IF IsExpired THEN "deadline_passed"
  ELSE IF HasAnswer(Current, a.player) THEN "already_answered"
  ELSE "accepted"

(* The checks of processAnswer, in their order. *)
Ruling(a) ==
  IF state # "round_active" THEN "game_not_active"
  ELSE IF a.round # currentRound THEN "wrong_round"
  ELSE IF IsExpired THEN "deadline_passed"
  ELSE IF HasAnswer(Current, a.player) THEN "already_answered"
  ELSE "accepted"

Answered(a) == [Current EXCEPT !.answers[a.player] = Mark(a.right)]

Record(a) ==
  \/ /\ AllAnswered(Answered(a))
     /\ FinalizeCurrentRound(Answered(a))
  \/ /\ ~AllAnswered(Answered(a))
     /\ rounds' = [rounds EXCEPT ![currentRound] = Answered(a)]
     /\ UNCHANGED <<state, score, told>>

(* The send on the ResponseCh of the call that submitted a; after a        *)
(* timeout nobody reads that channel.                                      *)
Respond(a, ruling) ==
  response' = [c \in Calls |-> IF asked[c] = a /\ reply[c] = "pending"
                               THEN ruling ELSE response[c]]

DoAnswer ==
  /\ Receive("answer")
  /\ UNCHANGED <<currentRound, connected>>
  /\ LET a == Head(actionCh)
     IN  /\ Respond(a, Ruling(a))
         /\ \/ Ruling(a) = "accepted" /\ Record(a)
            \/ Ruling(a) # "accepted" /\ UNCHANGED <<rounds, state, score, told>>
  /\ UNCHANGED <<clock, timerVars, mgrVars, stopCh, callVars>>

(* handleDisconnect arms a new timer and forgets the one it replaces. *)
DoDisconnect ==
  /\ Receive("disconnect")
  /\ LET p == Head(actionCh).player
     IN  /\ connected' = [connected EXCEPT ![p] = FALSE]
         /\ tracked' = [tracked EXCEPT ![p] = TRUE]
         /\ orphans' = [orphans EXCEPT ![p] = IF tracked[p] THEN @ + 1 ELSE @]
  /\ UNCHANGED <<state, currentRound, rounds, score>>
  /\ Broadcast
  /\ UNCHANGED <<clock, firing, mgrVars, stopCh, response, callVars>>

(* Slip: the player is not marked as connected again. *)
SlipStillAway ==
  /\ Receive("reconnect")
  /\ tracked' = [tracked EXCEPT ![Head(actionCh).player] = FALSE]
  /\ UNCHANGED <<state, currentRound, rounds, score, connected>>
  /\ Broadcast
  /\ UNCHANGED <<clock, orphans, firing, mgrVars, stopCh, response, callVars>>

(* handleReconnect stops the timer it finds; one that already fired runs on. *)
DoReconnect ==
  /\ Receive("reconnect")
  /\ LET p == Head(actionCh).player
     IN  /\ connected' = [connected EXCEPT ![p] = TRUE]
         /\ tracked' = [tracked EXCEPT ![p] = FALSE]
  /\ UNCHANGED <<state, currentRound, rounds, score>>
  /\ Broadcast
  /\ UNCHANGED <<clock, orphans, firing, mgrVars, stopCh, response, callVars>>

--------------------------------------------------------------------------------
(* Timers and forfeits *)

Tick ==
  /\ pc = "select"
  /\ \/ clock = "before" /\ clock' = "at"
     \/ clock = "at" /\ clock' = "after"
  /\ UNCHANGED <<pc, gameVars, timerVars, mgrVars, actionCh, stopCh, response,
                 callVars>>

(* The grace period of a player is over: forfeitGame is about to run. *)
GraceExpires(p) ==
  /\ \/ /\ tracked[p]
        /\ tracked' = [tracked EXCEPT ![p] = FALSE]
        /\ UNCHANGED orphans
     \/ /\ orphans[p] > 0
        /\ orphans' = [orphans EXCEPT ![p] = @ - 1]
        /\ UNCHANGED tracked
  /\ firing' = [firing EXCEPT ![p] = @ + 1]
  /\ UNCHANGED <<pc, gameVars, clock, mgrVars, actionCh, stopCh, response, callVars>>

(* Slip: a finished game can be forfeited. *)
SlipOnlyAbandoned == state = "abandoned"

AlreadyEnded == state \in {"game_over", "abandoned"}

(* forfeitGame, with the handleGameEnd it calls inside the lock. *)
Forfeit(p) ==
  /\ firing[p] > 0
  /\ firing' = [firing EXCEPT ![p] = @ - 1]
  /\ UNCHANGED <<currentRound, rounds, score, connected>>
  /\ \/ /\ AlreadyEnded
        /\ UNCHANGED <<state, told, mgrVars>>
     \/ /\ ~AlreadyEnded
        /\ state' = "abandoned"
        /\ Broadcast
        /\ HandleGameEnd("abandoned")
  /\ UNCHANGED <<pc, clock, tracked, orphans, actionCh, stopCh, response, callVars>>

--------------------------------------------------------------------------------
(* The callers of GameManager: the readers of the players' connections and *)
(* the hub.                                                                *)

(* SubmitAnswer finds the session.  A reader waits for its call to return, *)
(* but a player may have several readers: of his connection, of the ones   *)
(* it replaced, and listenForRemoteActions.                                *)
BeginAnswer(p, r, right) ==
  LET c == answersSent + 1
      a == [type |-> "answer", player |-> p, round |-> r, right |-> right, call |-> c]
  IN  /\ registered
      /\ answersSent < MaxAnswers
      /\ answersSent' = c
      /\ entering' = entering \union {a}
      /\ asked' = [asked EXCEPT ![c] = a]
      /\ response' = [response EXCEPT ![c] = "none"]
      /\ reply' = [reply EXCEPT ![c] = "pending"]
      /\ UNCHANGED <<pc, gameVars, clock, timerVars, mgrVars, actionCh, stopCh,
                     connEvents>>

BeginConnCall(a) ==
  /\ registered
  /\ connEvents < MaxConnEvents
  /\ connEvents' = connEvents + 1
  /\ entering' = entering \union {a}
  /\ UNCHANGED <<pc, gameVars, clock, timerVars, mgrVars, actionCh, stopCh, response,
                 asked, reply, answersSent>>

(* HandleDisconnect; the hub delivers one disconnect at a time. *)
BeginDisconnect(p) ==
  /\ \A a \in entering : a.type # "disconnect"
  /\ BeginConnCall([type |-> "disconnect", player |-> p])

(* HandleReconnect, up to its IsActive test. *)
BeginReconnect(p) ==
  /\ state \notin {"game_over", "abandoned"}
  /\ [type |-> "reconnect", player |-> p] \notin entering
  /\ BeginConnCall([type |-> "reconnect", player |-> p])

(* SubmitAction: blocks while the channel is full, gives up if stopped. *)
SubmitAction(a) ==
  /\ a \in entering
  /\ entering' = entering \ {a}
  /\ \/ Len(actionCh) < ChanCap /\ actionCh' = Append(actionCh, a)
     \/ stopCh /\ UNCHANGED actionCh
  /\ UNCHANGED <<pc, gameVars, clock, timerVars, mgrVars, stopCh, response, asked,
                 reply, answersSent, connEvents>>

Return(c, result) ==
  /\ reply[c] = "pending"
  /\ asked[c] \notin entering
  /\ reply' = [reply EXCEPT ![c] = result]
  /\ response' = [response EXCEPT ![c] = "none"]
  /\ UNCHANGED <<pc, gameVars, clock, timerVars, mgrVars, actionCh, stopCh, entering,
                 asked, answersSent, connEvents>>

(* The two cases of SubmitAnswer's select; when both are ready either is   *)
(* taken.                                                                  *)
TakeResponse(c) == response[c] # "none" /\ Return(c, response[c])

(* Slip: no time.After case. *)
SlipWaitForever(c) == FALSE /\ Return(c, "timeout")

Timeout(c) == Return(c, "timeout")

(* GracefulShutdown runs out of time: Stop() on every session it holds. *)
Shutdown ==
  /\ MayShutDown
  /\ registered
  /\ ~stopCh
  /\ stopCh' = TRUE
  /\ UNCHANGED <<pc, gameVars, clock, timerVars, mgrVars, actionCh, response, callVars>>

--------------------------------------------------------------------------------

Run == Start \/ Announce \/ EndCountdown \/ RoundTimer \/ CheckOver \/ Advance \/ Cleanup
         \/ TakeStop \/ DoAnswer \/ DoDisconnect \/ DoReconnect

Timers == Tick \/ \E p \in Players : GraceExpires(p) \/ Forfeit(p)

Callers == \/ \E p \in Players :
                \/ \E r \in 1..LastRound, right \in BOOLEAN : BeginAnswer(p, r, right)
                \/ BeginDisconnect(p) \/ BeginReconnect(p)
           \/ \E c \in Calls : TakeResponse(c) \/ Timeout(c)
           \/ \E a \in entering : SubmitAction(a)

Next == Run \/ Timers \/ Callers \/ Shutdown

Spec == Init /\ [][Next]_vars

(* What the Go runtime gives: a goroutine that can go on does, a timer     *)
(* that is armed fires, a sender waiting on a channel with room gets in.   *)
Fairness ==
  /\ WF_vars(Run)
  /\ WF_vars(Tick)
  /\ \A p \in Players : WF_vars(GraceExpires(p)) /\ WF_vars(Forfeit(p))
  /\ \A c \in Calls : WF_vars(TakeResponse(c) \/ Timeout(c))
  /\ WF_vars(\E a \in entering : SubmitAction(a))

FairSpec == Spec /\ Fairness

--------------------------------------------------------------------------------
(* Safety *)

(* Every variable keeps the type its declaration in the code gives it. *)
TypeOK ==
  /\ pc \in PCs
  /\ state \in States
  /\ currentRound \in Nat
  /\ rounds \in Seq(Round)
  /\ score \in [Players -> Nat]
  /\ connected \in [Players -> BOOLEAN]
  /\ clock \in {"before", "at", "after"}
  /\ tracked \in [Players -> BOOLEAN]
  /\ orphans \in [Players -> Nat]
  /\ firing \in [Players -> Nat]
  /\ actionCh \in Seq(AnswerActions \union ConnActions)
  /\ stopCh \in BOOLEAN
  /\ registered \in BOOLEAN
  /\ outcome \in {"none", "normal", "abandoned", "unknown"}
  /\ entering \in SUBSET (AnswerActions \union ConnActions)
  /\ asked \in [Calls -> AnswerActions \union {NoAction}]
  /\ response \in [Calls -> Rulings \union {"none"}]
  /\ reply \in [Calls -> Rulings \union {"none", "pending", "timeout"}]
  /\ answersSent \in Nat
  /\ connEvents \in Nat

(* The rounds a player's score is made of. *)
Won(p) == {r \in 1..currentRound : rounds[r].finalized /\ rounds[r].answers[p] = "right"}

(* A score is the number of closed rounds the player answered right,       *)
(* however the rounds were closed: by the second answer, by the timer, or  *)
(* by both one after the other.                                            *)
ScoreMatchesRounds == \A p \in Players : score[p] = Cardinality(Won(p))

(* Rounds come one after the other: only the last one can be open, it is   *)
(* open whenever answers are taken, and there is none after LastRound.     *)
RoundsInOrder ==
  /\ Len(rounds) = currentRound
  /\ currentRound <= LastRound
  /\ \A r \in 1..(currentRound - 1) : rounds[r].finalized
  /\ state = "round_active" => ~rounds[currentRound].finalized

RoundOpen == currentRound > 0 /\ ~rounds[currentRound].finalized

(* The game is over exactly when its last round is closed: a forfeit that  *)
(* comes in at any moment neither hides the end nor brings it forward.     *)
OverWhenAllPlayed ==
  state = "game_over" <=> currentRound = LastRound /\ ~RoundOpen

(* The answer of a call is in the round it names, as it was sent. *)
Counted(c) == /\ asked[c] # NoAction
              /\ asked[c].round \in 1..currentRound
              /\ rounds[asked[c].round].answers[asked[c].player] = Mark(asked[c].right)

(* An answer its sender was told is accepted is in the round it was sent   *)
(* for, as it was sent.                                                    *)
AckHonest == \A c \in Calls : reply[c] = "accepted" => Counted(c)

(* The manager drops the session once, with the label of the way it ended: *)
(* never "unknown", and "normal" only for a game that was played out.      *)
OutcomeHonest ==
  /\ registered <=> outcome = "none"
  /\ outcome # "unknown"
  /\ outcome = "normal" => OverWhenAllPlayed /\ state = "game_over"
  /\ state = "abandoned" => outcome = "abandoned"

(* Players who see the game over see as winner whoever has more right      *)
(* answers in the rounds, and nobody after a draw.                         *)
WinnerHonest ==
  told.state = "game_over" =>
    told.winner = {p \in Players : \A q \in Players \ {p} :
                                     Cardinality(Won(p)) > Cardinality(Won(q))}

(* From the first broadcast on, between two critical sections, the players *)
(* have been told the current state, round, scores and connections, and    *)
(* who answered a round by the time it is closed: only that someone        *)
(* answered an open round is announced by nobody.                          *)
PlayersUpToDate ==
  pc \notin {"start", "announce"} =>
    /\ \A f \in {"state", "round", "score", "connected", "winner"} : told[f] = Snapshot[f]
    /\ told.answered \subseteq Snapshot.answered
    /\ ~RoundOpen => told.answered = Snapshot.answered

(* While a player is away from a game that still goes on, a clock is       *)
(* running for him: a timer, or the forfeit it started.                    *)
AbsenceIsTimed ==
  \A p \in Players : ~connected[p] /\ registered /\ state # "game_over" =>
    tracked[p] \/ orphans[p] > 0 \/ firing[p] > 0

(* How far run() is, the state and the round it works on go together.      *)
PhaseInv ==
  /\ pc \in {"start", "announce", "countdown"} <=> currentRound = 0
  /\ currentRound = 0 <=> state \in {"waiting", "countdown"}
  /\ currentRound = 0 => \A p \in Players : ~tracked[p] /\ orphans[p] = 0 /\ firing[p] = 0
  /\ pc \in {"finalized", "advance", "cleanup", "done"} => ~RoundOpen
  /\ pc = "advance" => state # "game_over"
  /\ pc \in {"cleanup", "done"} => state = "game_over"

AckInv == \A c \in Calls : response[c] = "accepted" \/ reply[c] = "accepted" => Counted(c)

(* The inductive invariant of the proofs: every step of every goroutine,   *)
(* timer and caller keeps all of these together.                           *)
IInv == /\ TypeOK
        /\ PhaseInv
        /\ RoundsInOrder
        /\ OverWhenAllPlayed
        /\ ScoreMatchesRounds
        /\ OutcomeHonest
        /\ AckInv

(* The result of a finished game is never changed again. *)
GameOverIsFinal ==
  [][state = "game_over" => UNCHANGED <<state, currentRound, rounds, score>>]_vars

(* What the ledger of rounds, answers and points promises is kept,         *)
(* whatever timers, forfeits, disconnects and callers do.                  *)
Ledger == INSTANCE RoundLedger
            WITH round  <- currentRound,
                 open   <- RoundOpen,
                 entry  <- IF currentRound = 0 THEN [p \in Players |-> "none"]
                                               ELSE rounds[currentRound].answers,
                 points <- score

ImplementsLedger == Ledger!Spec

--------------------------------------------------------------------------------
(* Liveness *)

(* run() returns, and then the manager no longer holds the session unless  *)
(* it was told to stop.                                                    *)
SessionEnds == <>[](pc \in {"done", "stopped"} /\ (registered => stopCh))

(* Nobody reads the channel of a session that ended, so a caller that was  *)
(* past the lookup may find it full.                                       *)
Wedged == pc = "done" /\ Len(actionCh) = ChanCap

(* SubmitAnswer returns: with a ruling, or with a timeout. *)
AnswerCallsReturn ==
  \A c \in Calls : reply[c] = "pending" ~> (reply[c] # "pending" \/ Wedged)

--------------------------------------------------------------------------------
(* What tests, comments and clients say and the code does not do.  Each is *)
(* the property of one run that finds it violated.                         *)

(* manager.go:266 calls a forfeited game ended and cleaned up, and the     *)
(* client leaves it: an abandoned session stays abandoned.                 *)
AbandonedIsFinal == [][state = "abandoned" => state' = "abandoned"]_vars

(* session_concurrency_test.go:224: once a player reconnected, no grace    *)
(* timer is armed for him.                                                 *)
ReconnectCancelsGrace ==
  \A p \in Players : connected[p] => ~tracked[p] /\ orphans[p] = 0

================================================================================
