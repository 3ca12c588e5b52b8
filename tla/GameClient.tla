-------------------------------- MODULE GameClient --------------------------------
(***************************************************************************)
(* What one player sees of a game: the state of the app's hook             *)
(* (mobile useGameState.ts, GameSocket.ts), driven by the snapshots and    *)
(* acknowledgements of his session (game/session.go, game/manager.go,      *)
(* ws/hub.go) in the order the server's goroutines put them on his         *)
(* connection.                                                             *)
(*                                                                         *)
(* run() broadcasts while it takes an answer; the ReadPump sends the       *)
(* acknowledgement when it has run()'s answer, and reads the next message  *)
(* only then.  After a loss the app opens a new connection, to any node,   *)
(* and sends RECONNECT: on the game's own node the ReadPump puts           *)
(* ActionReconnect in actionCh, reads a snapshot and sends it, and run()   *)
(* broadcasts one when it takes that action; other nodes do not know the   *)
(* game.  They pass on answers through Redis to listenForRemoteActions,    *)
(* whose acknowledgements go to whatever connection the player has.        *)
(*                                                                         *)
(* Redis passes a message on at once or loses it (Hub has the delayed      *)
(* ones).  Left out: the queue, a forfeit (GameSession), full channels and *)
(* frames (Hub), and what the screens show inside a state.                 *)
(***************************************************************************)
EXTENDS Integers, Sequences
LOCAL INSTANCE SequencesExt

CONSTANTS
  Rounds,       \* TotalRounds
  MaxSubmits,   \* bound on how often the player presses Submit
  MaxLosses     \* bound on how often his connection is lost

ASSUME GameClientAssumption ==
  Rounds \in Nat \ {0} /\ MaxSubmits \in Nat /\ MaxLosses \in Nat

VARIABLES
  game,        \* the session: its state and round
  given,       \* whose answers the round has
  starting,    \* run() is between the end of a round and the next
  submitted,   \* the ANSWERs on their way to run(): their round, connection, whether
               \* that is another node's, and whether SubmitAnswer waits for run()
  judged,      \* what the ReadPump has of run() and has still to send
  relayed,     \* what listenForRemoteActions has of run() and has still to send
  asking,      \* connections, by number, whose RECONNECT is to be handled
  readBack,    \* the snapshot HandleReconnect reads or has read, still to send
  rejoining,   \* how many ActionReconnects are in actionCh
  conn,        \* the connection: opened or registered on the game's node, whose
               \* SendToPlayer finds it when it is registered; or away on another
  wire,        \* what is on its way to the app
  app,         \* the app: connected, uiState, snapshot, the two refs
  accepted,    \* history: the rounds whose acceptance the app was told
  submits, losses

serverVars == <<game, given, starting, judged, relayed, asking, readBack, rejoining>>
clientVars == <<serverVars, submitted, conn, wire, app, accepted, submits, losses>>

None == [type |-> "none"]
Reading == [type |-> "reading"]
Snapshot(g, answered) == [type |-> "snapshot", state |-> g.state, round |-> g.round,
                          has_answered |-> answered]

\* crossed: sent by another goroutine while the ReadPump holds an older snapshot.
Ack(round, ok) == [type |-> "ack", round |-> round, ok |-> ok, crossed |-> FALSE]
Over(state) == state = "game_over"

--------------------------------------------------------------------------------
(* The app *)

SlipNeverWaits(connected, snapshot, hasAnswered) ==
  IF ~connected THEN "disconnected"
  ELSE CASE snapshot.state = "countdown"    -> "countdown"
         [] snapshot.state = "round_active" -> "answering"
         [] snapshot.state = "round_end"    -> "round_result"
         [] snapshot.state = "game_over"    -> "game_over"

DeriveUIState(connected, snapshot, hasAnswered) ==
  IF ~connected THEN "disconnected"
  ELSE CASE snapshot.state = "countdown"    -> "countdown"
         [] snapshot.state = "round_active" -> IF hasAnswered THEN "waiting_for_round"
                                               ELSE "answering"
         [] snapshot.state = "round_end"    -> "round_result"
         [] snapshot.state = "game_over"    -> "game_over"

OnSnapshot(msg) ==
  LET answered == msg.has_answered \/ (msg.round = app.currentRound /\ app.hasAnswered)
  IN  app' = [app EXCEPT !.currentRound = msg.round, !.hasAnswered = answered,
                         !.snapshot = msg,
                         !.uiState = DeriveUIState(app.connected, msg, answered)]

OnAnswerAck(msg) ==
  app' = IF msg.ok THEN [app EXCEPT !.hasAnswered = TRUE, !.uiState = "waiting_for_round"]
         ELSE app

Receive ==
  /\ wire # <<>> /\ wire' = Tail(wire)
  /\ LET msg == Head(wire)
     IN  /\ IF msg.type = "snapshot" THEN OnSnapshot(msg) ELSE OnAnswerAck(msg)
         /\ accepted' = accepted \union
              (IF msg.type = "ack" /\ msg.ok /\ ~msg.crossed THEN {msg.round} ELSE {})
  /\ UNCHANGED <<serverVars, submitted, conn, submits, losses>>

\* The view of a round that is on has the button, until the answer is known
\* to be in.  GameSocket forgets the game when it hears of its end.
PressSubmit ==
  /\ app.uiState = "answering" /\ ~app.hasAnswered /\ submits < MaxSubmits
  /\ submitted' = Append(submitted, [round |-> app.snapshot.round, on |-> losses,
                                     away |-> conn = "away", waited |-> TRUE])
  /\ submits' = submits + 1
  /\ UNCHANGED <<serverVars, conn, wire, app, accepted, losses>>

--------------------------------------------------------------------------------
(* The connection *)

\* SendToPlayer on the game's node, and whatever hears of it through Redis.
Sent(msgs) ==
  \/ app.connected /\ wire' = wire \o msgs
  \/ conn # "registered" /\ UNCHANGED wire

\* Both ends lose it: onclose in the app, an end to the ReadPump.  Of the messages
\* on their way some are read, whose rulings then go nowhere.
Lose ==
  /\ app.connected /\ losses < MaxLosses
  /\ losses' = losses + 1
  /\ app' = [app EXCEPT !.connected = FALSE, !.uiState = "disconnected"]
  /\ \E n \in 0 .. Len(submitted) :
       /\ \A i \in n + 1 .. Len(submitted) : submitted[i].on = losses /\ submitted[i].waited
       /\ submitted' = SubSeq(submitted, 1, n)
  /\ asking' \in {asking, asking \ {losses}}
  /\ wire' = <<>> /\ judged' = None /\ readBack' = None
  /\ conn' = "opened"
  /\ UNCHANGED <<game, given, starting, relayed, rejoining, accepted, submits>>

\* onopen, and RECONNECT unless the app knows that the game is over.  A node that
\* does not have the game answers with an ERROR, which shows no state.
Reopen ==
  /\ ~app.connected
  /\ conn' \in {"opened", "away"}
  /\ asking' = asking \union
       (IF conn' = "away" \/ Over(app.snapshot.state) THEN {} ELSE {losses})
  /\ app' = [app EXCEPT !.connected = TRUE,
                        !.uiState = DeriveUIState(TRUE, app.snapshot, app.hasAnswered)]
  /\ UNCHANGED <<game, given, starting, judged, relayed, readBack, rejoining, submitted,
                 wire, accepted, submits, losses>>

\* handleRegister of the hub.
Register ==
  /\ app.connected /\ conn = "opened"
  /\ conn' = "registered"
  /\ UNCHANGED <<serverVars, submitted, wire, app, accepted, submits, losses>>

\* HandleReconnect of the manager, up to its SubmitAction.
Reconnect ==
  /\ \E c \in asking :
       /\ asking' = asking \ {c}
       /\ \/ Over(game.state) /\ UNCHANGED <<rejoining, readBack>>
          \/ /\ ~Over(game.state)
             /\ rejoining' = rejoining + 1
             /\ readBack' = IF c = losses THEN Reading ELSE readBack
  /\ UNCHANGED <<game, given, starting, judged, relayed, submitted, conn, wire, app,
                 accepted, submits, losses>>

\* Its GetSnapshot, and the Send of Hub.handleReconnect: what it has read goes out,
\* perhaps after newer broadcasts.
GetSnapshot ==
  /\ readBack = Reading
  /\ readBack' = Snapshot(game, "me" \in given)
  /\ UNCHANGED <<game, given, starting, judged, relayed, asking, rejoining, submitted,
                 conn, wire, app, accepted, submits, losses>>

SendReadBack ==
  /\ readBack.type = "snapshot"
  /\ wire' = Append(wire, readBack) /\ readBack' = None
  /\ UNCHANGED <<game, given, starting, judged, relayed, asking, rejoining, submitted,
                 conn, app, accepted, submits, losses>>

SendAck ==
  /\ judged # None
  /\ wire' = Append(wire, judged) /\ judged' = None
  /\ UNCHANGED <<game, given, starting, relayed, asking, readBack, rejoining, submitted,
                 conn, app, accepted, submits, losses>>

SendRelayed ==
  /\ relayed # None
  /\ Sent(<<[relayed EXCEPT !.crossed = readBack.type = "snapshot"]>>)
  /\ relayed' = None
  /\ UNCHANGED <<game, given, starting, judged, asking, readBack, rejoining, submitted,
                 conn, app, accepted, submits, losses>>

--------------------------------------------------------------------------------
(* The session *)

BroadcastSnapshot(g, who) == Sent(<<Snapshot(g, "me" \in who)>>)

Finalized(g) == [g EXCEPT !.state = IF g.round >= Rounds THEN "game_over" ELSE "round_end"]

StartNextRound ==
  /\ game.state \in {"countdown", "round_end"}
  /\ game' = [state |-> "round_active", round |-> game.round + 1]
  /\ given' = {} /\ starting' = FALSE
  /\ BroadcastSnapshot(game', {})
  /\ UNCHANGED <<judged, relayed, asking, readBack, rejoining, submitted, conn, app,
                 accepted, submits, losses>>

\* The round timer closes the round and goes on to the next at once.
RoundTimer ==
  /\ game.state = "round_active"
  /\ game' = Finalized(game) /\ starting' = TRUE
  /\ BroadcastSnapshot(game', given)
  /\ UNCHANGED <<given, judged, relayed, asking, readBack, rejoining, submitted, conn, app,
                 accepted, submits, losses>>

\* processAnswer: the answer of who is in, and may be the last of the round.
SlipCloseSilently(who) ==
  /\ given' = given \union {who}
  /\ game' = IF given' = {"me", "other"} THEN Finalized(game) ELSE game
  /\ UNCHANGED wire

Accept(who) ==
  /\ given' = given \union {who}
  /\ IF given' = {"me", "other"}
     THEN game' = Finalized(game) /\ BroadcastSnapshot(game', given')
     ELSE UNCHANGED <<game, wire>>

OtherAnswers ==
  /\ ~starting /\ game.state = "round_active" /\ "other" \notin given
  /\ Accept("other")
  /\ UNCHANGED <<starting, judged, relayed, asking, readBack, rejoining, submitted, conn,
                 app, accepted, submits, losses>>

\* Each reader, a ReadPump or listenForRemoteActions, goes on with its next message
\* when it has sent what it owes for the one before.
IsNext(i) ==
  LET msg == submitted[i]
  IN  /\ \A j \in 1 .. i - 1 : submitted[j].on # msg.on
      /\ \/ ~msg.waited
         \/ msg.away /\ relayed = None
         \/ /\ ~msg.away /\ msg.on \notin asking
            /\ msg.on = losses => judged = None /\ readBack = None

\* What SubmitAnswer returns, where somebody still waits for it.
Reply(msg, ok) ==
  /\ judged' = IF msg.waited /\ ~msg.away /\ msg.on = losses THEN Ack(msg.round, ok)
               ELSE judged
  /\ relayed' = IF msg.waited /\ msg.away THEN Ack(msg.round, ok) ELSE relayed

\* A wrong state or round, a second answer and a passed deadline are refused; Redis
\* loses an answer, or a game that is over is gone: no acknowledgement.
TakeAnswer ==
  /\ ~starting
  /\ \E i \in 1 .. Len(submitted) :
       LET msg == submitted[i]
       IN  /\ IsNext(i)
           /\ submitted' = RemoveAt(submitted, i)
           /\ \/ /\ game.state = "round_active" /\ msg.round = game.round /\ "me" \notin given
                 /\ Accept("me") /\ Reply(msg, TRUE)
              \/ Reply(msg, FALSE) /\ UNCHANGED <<game, given, wire>>
              \/ /\ msg.away \/ Over(game.state)
                 /\ UNCHANGED <<game, given, wire, judged, relayed>>
  /\ UNCHANGED <<starting, asking, readBack, rejoining, conn, app, accepted, submits,
                 losses>>

\* The time.After of SubmitAnswer: the answer stays in actionCh.
GiveUp ==
  /\ \E i \in 1 .. Len(submitted) :
       /\ IsNext(i) /\ submitted[i].waited
       /\ submitted' = [submitted EXCEPT ![i].waited = FALSE]
       /\ Reply(submitted[i], FALSE)
  /\ UNCHANGED <<game, given, starting, asking, readBack, rejoining, conn, wire, app,
                 accepted, submits, losses>>

Rejoin ==
  /\ rejoining > 0 /\ ~starting
  /\ rejoining' = rejoining - 1 /\ BroadcastSnapshot(game, given)
  /\ UNCHANGED <<game, given, starting, judged, relayed, asking, readBack, submitted, conn,
                 app, accepted, submits, losses>>

--------------------------------------------------------------------------------

ClientInit ==
  /\ game = [state |-> "countdown", round |-> 0]
  /\ given = {} /\ starting = FALSE /\ submitted = <<>>
  /\ judged = None /\ relayed = None
  /\ asking = {} /\ readBack = None /\ rejoining = 0
  /\ conn \in {"registered", "away"}
  /\ wire = <<>>
  /\ app = [connected |-> TRUE, uiState |-> "countdown", hasAnswered |-> FALSE,
            currentRound |-> 0, snapshot |-> Snapshot(game, FALSE)]
  /\ accepted = {} /\ submits = 0 /\ losses = 0

ClientNext ==
  \/ Receive \/ PressSubmit \/ Lose \/ Reopen \/ Register
  \/ Reconnect \/ GetSnapshot \/ SendReadBack \/ SendAck \/ SendRelayed
  \/ StartNextRound \/ RoundTimer \/ OtherAnswers \/ TakeAnswer \/ GiveUp \/ Rejoin

ClientSpec == ClientInit /\ [][ClientNext]_clientVars

--------------------------------------------------------------------------------
(* Properties *)

(* The app does not ask again for an answer it was told is in, through losses,    *)
(* stale snapshots, repeated submits and other nodes (useGameState.ts:144, :167), *)
(* unless that news passed a snapshot which the ReadPump had read before.         *)
NotAskedAgain == app.uiState = "answering" => app.snapshot.round \notin accepted

(* A player whom the game's node finds during a game, on a first connection or    *)
(* a later one, hears of its end or loses that connection (session.go:286,        *)
(* hub.go:229).                                                                   *)
EndArrives ==
  conn = "registered" /\ game.state \in {"round_active", "round_end"} ~>
    Over(app.snapshot.state) \/ conn # "registered"

(* A player who was shown that the game is over sees it as long as he is          *)
(* connected (useGameState.ts:70-72).                                             *)
EndIsShown == app.connected /\ Over(app.snapshot.state) => app.uiState = "game_over"
================================================================================
