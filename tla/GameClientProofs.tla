----------------------------- MODULE GameClientProofs -----------------------------
(***************************************************************************)
(* Proofs about GameClient, for any number of rounds, submits and losses:  *)
(* the app never asks again for an answer it was told is in.               *)
(***************************************************************************)
EXTENDS GameClient, TLAPS
LOCAL INSTANCE SequencesExt

--------------------------------------------------------------------------------
(* The invariant *)

States == {"countdown", "round_active", "round_end", "game_over"}
UiStates == {"disconnected", "countdown", "answering", "waiting_for_round", "round_result",
             "game_over"}
SnapshotMessage ==
  [type : {"snapshot"}, state : States, round : Nat, has_answered : BOOLEAN]
AckMessage == [type : {"ack"}, round : Nat, ok : BOOLEAN, crossed : BOOLEAN]
Message == SnapshotMessage \union AckMessage

GameState == [state : States, round : Nat]

Answer == [round : Nat, on : Nat, away : BOOLEAN, waited : BOOLEAN]

AppState ==
  [connected : BOOLEAN, uiState : UiStates, hasAnswered : BOOLEAN, currentRound : Nat,
   snapshot : SnapshotMessage]

SessionOK ==
  /\ game \in GameState /\ given \subseteq {"me", "other"}
  /\ starting \in BOOLEAN /\ rejoining \in Nat /\ asking \subseteq Nat
  /\ judged \in AckMessage \union {None} /\ relayed \in AckMessage \union {None}
  /\ readBack \in SnapshotMessage \union {None, Reading}

AppOK ==
  /\ submitted \in Seq(Answer) /\ wire \in Seq(Message)
  /\ conn \in {"registered", "opened", "away"}
  /\ app \in AppState
  /\ accepted \subseteq Nat /\ submits \in Nat /\ losses \in Nat

ClientTypeOK == SessionOK /\ AppOK

\* A snapshot that lets the app ask for an answer, and the news that one is in;
\* news that cross a snapshot on its way do not count as told.
Asks(m)  == m.type = "snapshot" /\ m.state = "round_active" /\ ~m.has_answered
News(m)  == m.type = "ack" /\ m.ok
OkAck(m) == News(m) /\ ~m.crossed

\* Without a connection nothing is on its way, and what was submitted or asked is
\* of an earlier one.
ConnectionInv ==
  /\ \A i \in 1 .. Len(submitted) :
       submitted[i].on <= losses /\ (~app.connected => submitted[i].on < losses)
  /\ \A c \in asking : c <= losses
  /\ losses \in asking => app.connected /\ judged = None /\ readBack = None
  /\ ~app.connected => wire = <<>> /\ judged = None /\ readBack = None

\* No snapshot that asks follows the news that the answer is in.
WireInv ==
  \A i \in 1 .. Len(wire) : Asks(wire[i]) =>
    /\ wire[i].round \notin accepted
    /\ \A j \in 1 .. i - 1 : OkAck(wire[j]) => wire[j].round # wire[i].round

\* A ReadPump that has a snapshot to send owes no acknowledgement, and none is on
\* the way that it could contradict.
ReadBackInv ==
  /\ readBack # None => judged = None
  /\ Asks(readBack) =>
       /\ readBack.round \notin accepted
       /\ \A i \in 1 .. Len(wire) : OkAck(wire[i]) => wire[i].round # readBack.round

ViewInv ==
  /\ app.snapshot.state = "round_active" /\ ~app.hasAnswered =>
       app.snapshot.round \notin accepted
  /\ app.uiState = "answering" =>
       app.connected /\ app.snapshot.state = "round_active" /\ ~app.hasAnswered

\* As long as the round lacks the player's answer nobody says that it is in; and
\* nobody says so of a round to come.
Owed == {judged, relayed}
RoundInv ==
  /\ "me" \notin given =>
       /\ game.round \notin accepted
       /\ \A i \in 1 .. Len(wire) : News(wire[i]) => wire[i].round # game.round
       /\ \A m \in Owed : News(m) => m.round # game.round
  /\ \A r \in accepted : r <= game.round
  /\ \A i \in 1 .. Len(wire) : News(wire[i]) => wire[i].round <= game.round
  /\ \A m \in Owed : News(m) => m.round <= game.round

AskingInv == WireInv /\ ReadBackInv /\ ViewInv /\ RoundInv

ClientInv == ClientTypeOK /\ ConnectionInv /\ AskingInv

--------------------------------------------------------------------------------
(* Messages and sequences *)

\* The two kinds of message are told apart by their type, and None is neither.
LEMMA Kinds ==
  /\ \A m \in Message : m \in SnapshotMessage <=> m.type = "snapshot"
  /\ \A m \in Message : m \in AckMessage <=> m.type = "ack"
  /\ \A m \in Message : News(m) => m.round \in Nat
  /\ {None, Reading} \cap Message = {} /\ None # Reading
  /\ \A m \in {None, Reading} : ~News(m) /\ ~Asks(m)
BY DEF Message, SnapshotMessage, AckMessage, None, Reading, News, Asks

\* What Snapshot and Ack make are such messages.
LEMMA Made ==
  /\ \A g \in GameState, b \in BOOLEAN :
       Snapshot(g, b) \in SnapshotMessage
  /\ \A r \in Nat, ok \in BOOLEAN : Ack(r, ok) \in AckMessage
BY DEF Snapshot, Ack, SnapshotMessage, AckMessage, GameState

\* A message that is sent comes last, after all that is on the way, or is lost.
Grows(m) ==
  \/ wire' = wire
  \/ /\ app.connected /\ Len(wire') = Len(wire) + 1 /\ wire'[Len(wire) + 1] = m
     /\ \A i \in 1 .. Len(wire) : wire'[i] = wire[i]

LEMMA WireGrows ==
  ASSUME AppOK, NEW m \in Message, Sent(<<m>>) \/ (app.connected /\ wire' = Append(wire, m))
  PROVE  wire' \in Seq(Message) /\ Grows(m)
<1>1. wire \in Seq(Message)
  BY DEF AppOK
<1>2. CASE app.connected /\ (wire' = wire \o <<m>> \/ wire' = Append(wire, m))
  <2>1. wire' = Append(wire, m)
    BY <1>1, <1>2
  <2>2. wire' \in Seq(Message)
    BY <1>1, <2>1
  <2>3. /\ Len(wire') = Len(wire) + 1 /\ wire'[Len(wire) + 1] = m
        /\ \A i \in 1 .. Len(wire) : wire'[i] = wire[i]
    BY <1>1, <2>1
  <2> QED
    BY <1>2, <2>2, <2>3 DEF Grows
<1>3. CASE wire' = wire
  BY <1>1, <1>3 DEF Grows
<1> QED
  BY <1>2, <1>3 DEF Sent

\* The first message arrives; the others keep their order.
LEMMA WireShrinks ==
  ASSUME AppOK, wire # <<>>, wire' = Tail(wire)
  PROVE  /\ wire' \in Seq(Message) /\ Head(wire) \in Message /\ Head(wire) = wire[1]
         /\ Len(wire) \in Nat \ {0} /\ Len(wire') = Len(wire) - 1
         /\ \A i \in 1 .. Len(wire') : wire'[i] = wire[i + 1]
BY DEF AppOK

\* What remains of a sequence was in it.
LEMMA RemoveAtKeeps ==
  ASSUME NEW S, NEW s \in Seq(S), NEW i \in 1 .. Len(s)
  PROVE  /\ RemoveAt(s, i) \in Seq(S)
         /\ \A j \in 1 .. Len(RemoveAt(s, i)) :
              \E k \in 1 .. Len(s) : RemoveAt(s, i)[j] = s[k]
<1> DEFINE before == SubSeq(s, 1, i - 1)
           after  == SubSeq(s, i + 1, Len(s))
<1>0. /\ before \in Seq(S) /\ Len(before) = i - 1
      /\ after \in Seq(S) /\ Len(after) = Len(s) - i
  OBVIOUS
<1>1. \A j \in 1 .. i - 1 : before[j] = s[j]
  OBVIOUS
<1>2. \A j \in 1 .. Len(s) - i : after[j] = s[j + i]
  OBVIOUS
<1>3. RemoveAt(s, i) = before \o after
  BY DEF RemoveAt
<1> HIDE DEF before, after
<1>4. /\ before \o after \in Seq(S) /\ Len(before \o after) = Len(s) - 1
      /\ \A j \in 1 .. Len(s) - 1 :
           (before \o after)[j] = IF j < i THEN before[j] ELSE after[j - (i - 1)]
  <2>1. before \o after \in Seq(S)
    BY <1>0
  <2>2. Len(before \o after) = Len(s) - 1
    BY <1>0
  <2>3. \A j \in 1 .. Len(before) + Len(after) :
          (before \o after)[j] = IF j <= Len(before) THEN before[j] ELSE after[j - Len(before)]
    BY <1>0
  <2> QED
    BY <2>1, <2>2, <2>3, <1>0
<1>5. ASSUME NEW j \in 1 .. Len(s) - 1
      PROVE  \E k \in 1 .. Len(s) : (before \o after)[j] = s[k]
  <2>1. CASE j < i
    <3>1. j \in 1 .. i - 1 /\ j \in 1 .. Len(s)
      BY <2>1
    <3>2. (before \o after)[j] = before[j]
      BY <2>1, <1>4
    <3> QED
      BY <3>1, <3>2, <1>1
  <2>2. CASE ~(j < i)
    <3>1. (before \o after)[j] = after[j - (i - 1)] /\ j - (i - 1) \in 1 .. Len(s) - i
      BY <2>2, <1>4
    <3>2. after[j - (i - 1)] = s[j + 1] /\ j + 1 \in 1 .. Len(s)
      BY <3>1, <1>2
    <3> QED
      BY <3>1, <3>2
  <2> QED
    BY <2>1, <2>2
<1> QED
  BY <1>3, <1>4, <1>5

\* What the session tells in one step: the new state, to who has a connection.
Announces == BroadcastSnapshot(game', given')

LEMMA Announced ==
  ASSUME AppOK, Announces, game' \in GameState
  PROVE  /\ Sent(<<Snapshot(game', "me" \in given')>>)
         /\ Snapshot(game', "me" \in given') \in Message
<1> DEFINE b == "me" \in given'
<1>1. b \in BOOLEAN
  OBVIOUS
<1>2. Snapshot(game', b) \in SnapshotMessage
  BY <1>1, Made
<1> QED
  BY <1>2 DEF Announces, BroadcastSnapshot, Message

--------------------------------------------------------------------------------
(* Types *)

LEMMA DeriveUIStateType ==
  ASSUME NEW m \in SnapshotMessage, NEW c \in BOOLEAN, NEW b \in BOOLEAN
  PROVE  /\ DeriveUIState(c, m, b) \in UiStates
         /\ DeriveUIState(c, m, b) = "answering" =>
              c /\ m.state = "round_active" /\ ~b
BY DEF DeriveUIState, SnapshotMessage, States, UiStates

LEMMA FinalizedType ==
  ASSUME NEW g \in GameState
  PROVE  /\ Finalized(g) \in GameState /\ Finalized(g).round = g.round
         /\ Finalized(g).state \in {"round_end", "game_over"}
BY GameClientAssumption DEF Finalized, States, GameState

\* What the app makes of a snapshot and of an acknowledgement.
LEMMA AppHears ==
  ASSUME AppOK, NEW m \in Message,
         IF m.type = "snapshot" THEN OnSnapshot(m) ELSE OnAnswerAck(m)
  PROVE  /\ app' \in AppState
         /\ app'.connected = app.connected
         /\ m.type = "snapshot" =>
              /\ app'.snapshot = m /\ (m.has_answered => app'.hasAnswered)
              /\ app'.uiState = "answering" =>
                   app.connected /\ m.state = "round_active" /\ ~app'.hasAnswered
         /\ m.type # "snapshot" =>
              /\ app'.snapshot = app.snapshot /\ (m.ok => app'.hasAnswered)
              /\ app.hasAnswered => app'.hasAnswered
              /\ app'.uiState = "answering" =>
                   app.uiState = "answering" /\ ~m.ok /\ app'.hasAnswered = app.hasAnswered
<1>1. CASE m.type = "snapshot"
  <2> DEFINE b == m.has_answered \/ (m.round = app.currentRound /\ app.hasAnswered)
  <2>1. m \in SnapshotMessage /\ m.round \in Nat /\ m.has_answered \in BOOLEAN
    BY <1>1, Kinds DEF SnapshotMessage
  <2>2. app' = [app EXCEPT !.currentRound = m.round, !.hasAnswered = b, !.snapshot = m,
                           !.uiState = DeriveUIState(app.connected, m, b)]
    BY <1>1 DEF OnSnapshot
  <2>3. b \in BOOLEAN /\ (m.has_answered => b)
    OBVIOUS
  <2> HIDE DEF b
  <2>4. /\ DeriveUIState(app.connected, m, b) \in UiStates
        /\ DeriveUIState(app.connected, m, b) = "answering" =>
             app.connected /\ m.state = "round_active" /\ ~b
    BY <2>1, <2>3, DeriveUIStateType DEF AppOK, AppState
  <2> QED
    BY <1>1, <2>1, <2>2, <2>3, <2>4 DEF AppOK, AppState
<1>2. CASE m.type # "snapshot"
  <2>1. m.ok \in BOOLEAN
    BY <1>2 DEF Message, SnapshotMessage, AckMessage
  <2> QED
    BY <1>2, <2>1 DEF OnAnswerAck, AppOK, AppState, UiStates
<1> QED
  BY <1>1, <1>2

--------------------------------------------------------------------------------
(* The session *)

\* What every step of the session comes to, whoever it is about: it goes on in the
\* round or to the next, and tells its new state if that is another; its answer
\* is for a ReadPump that has nothing else to send, or to be relayed.
Answered(ack) == ack \in AckMessage /\ (News(ack) => ack.round = game.round /\ "me" \in given')

SessionStep ==
  /\ game' \in GameState /\ given' \subseteq {"me", "other"}
  /\ starting' \in BOOLEAN /\ rejoining' \in Nat
  /\ Announces \/ UNCHANGED <<game, wire>>
  /\ \/ game'.round = game.round /\ given \subseteq given'
     \/ game'.round = game.round + 1 /\ judged' = judged /\ relayed' = relayed
  /\ \/ judged' = judged
     \/ /\ readBack = None /\ \E i \in 1 .. Len(submitted) : submitted[i].on = losses
        /\ losses \notin asking /\ Answered(judged')
  /\ relayed' = relayed \/ Answered(relayed')
  /\ submitted' \in Seq(Answer)
  /\ \A j \in 1 .. Len(submitted') :
       \E k \in 1 .. Len(submitted) : submitted'[j].on = submitted[k].on
  /\ UNCHANGED <<asking, readBack, conn, app, accepted, submits, losses>>

\* An answer that is in goes to the round it was given in.
LEMMA Accepts ==
  ASSUME SessionOK, NEW who \in {"me", "other"}, Accept(who), game.state = "round_active"
  PROVE  /\ game' \in GameState /\ given' = given \union {who}
         /\ Announces \/ UNCHANGED <<game, wire>>
         /\ game'.round = game.round
<1>1. game \in GameState
  BY DEF SessionOK
<1>2. Finalized(game) \in GameState /\ Finalized(game).round = game.round
  BY <1>1, FinalizedType DEF GameState
<1>3. given' = given \union {who}
  BY DEF Accept
<1>4. CASE given' = {"me", "other"}
  BY <1>2, <1>3, <1>4 DEF Accept, Announces
<1>5. CASE given' # {"me", "other"}
  <2>1. UNCHANGED <<game, wire>>
    BY <1>5 DEF Accept
  <2> QED
    BY <1>1, <1>3, <2>1
<1> QED
  BY <1>4, <1>5

\* What a reader gets for an answer, or nobody.
LEMMA Replied ==
  ASSUME SessionOK, AppOK, NEW i \in 1 .. Len(submitted), IsNext(i), NEW ok \in BOOLEAN,
         Reply(submitted[i], ok),
         ok => submitted[i].round = game.round /\ "me" \in given'
  PROVE  /\ \/ judged' = judged
            \/ /\ readBack = None /\ \E k \in 1 .. Len(submitted) : submitted[k].on = losses
               /\ losses \notin asking /\ Answered(judged')
         /\ relayed' = relayed \/ Answered(relayed')
<1> DEFINE m == submitted[i]
<1>1. m \in Answer
  BY DEF AppOK
<1>2. m.round \in Nat
  BY <1>1 DEF Answer
<1>3. /\ Ack(m.round, ok) \in AckMessage
      /\ Ack(m.round, ok).ok = ok /\ Ack(m.round, ok).round = m.round
  BY <1>2, Made DEF Ack
<1>4. Answered(Ack(m.round, ok))
  BY <1>3 DEF Answered, News
<1>5. /\ judged' = IF m.waited /\ ~m.away /\ m.on = losses THEN Ack(m.round, ok) ELSE judged
      /\ relayed' = IF m.waited /\ m.away THEN Ack(m.round, ok) ELSE relayed
  BY DEF Reply
<1>6. m.waited /\ ~m.away /\ m.on = losses => losses \notin asking /\ readBack = None
  BY DEF IsNext
<1>7. m.waited /\ ~m.away /\ m.on = losses =>
        \E k \in 1 .. Len(submitted) : submitted[k].on = losses
  OBVIOUS
<1> HIDE DEF m
<1> QED
  BY <1>4, <1>5, <1>6, <1>7

LEMMA SessionSteps ==
  ASSUME SessionOK, AppOK,
         StartNextRound \/ RoundTimer \/ OtherAnswers \/ TakeAnswer \/ GiveUp \/ Rejoin
  PROVE  SessionStep
<1>1. /\ game \in GameState /\ given \subseteq {"me", "other"}
      /\ starting \in BOOLEAN /\ rejoining \in Nat
      /\ submitted \in Seq(Answer)
  BY DEF SessionOK, AppOK
<1>2. game.round \in Nat /\ game.round + 1 \in Nat /\ game.round + 1 # game.round
  BY <1>1 DEF GameState
<1>3. Finalized(game) \in GameState /\ Finalized(game).round = game.round
  BY <1>1, FinalizedType DEF GameState
<1>4. ASSUME UNCHANGED submitted
      PROVE  /\ submitted' \in Seq(Answer)
             /\ \A j \in 1 .. Len(submitted') :
                  \E k \in 1 .. Len(submitted) : submitted'[j].on = submitted[k].on
  BY <1>1, <1>4
<1>5. CASE StartNextRound
  <2>1. /\ game' = [state |-> "round_active", round |-> game.round + 1]
        /\ given' = {} /\ starting' = FALSE
        /\ UNCHANGED <<judged, relayed, asking, readBack, rejoining, submitted, conn, app,
                       accepted, submits, losses>>
    BY <1>5 DEF StartNextRound
  <2>2. Announces
    BY <1>5, <2>1 DEF StartNextRound, Announces
  <2>3. game' \in GameState /\ game'.round = game.round + 1
    BY <2>1, <1>2 DEF GameState, States
  <2> QED
    BY <1>1, <1>4, <2>1, <2>2, <2>3 DEF SessionStep
<1>6. CASE RoundTimer
  <2>1. /\ game' = Finalized(game) /\ starting' = TRUE
        /\ UNCHANGED <<given, judged, relayed, asking, readBack, rejoining, submitted, conn,
                       app, accepted, submits, losses>>
    BY <1>6 DEF RoundTimer
  <2>2. Announces
    BY <1>6, <2>1 DEF RoundTimer, Announces
  <2> QED
    BY <1>1, <1>3, <1>4, <2>1, <2>2 DEF SessionStep
<1>7. CASE OtherAnswers
  <2>1. /\ Accept("other") /\ game.state = "round_active"
        /\ UNCHANGED <<starting, judged, relayed, asking, readBack, rejoining, submitted,
                       conn, app, accepted, submits, losses>>
    BY <1>7 DEF OtherAnswers
  <2>2. /\ game' \in GameState /\ given' = given \union {"other"}
        /\ Announces \/ UNCHANGED <<game, wire>>
        /\ game'.round = game.round
    BY <2>1, Accepts
  <2> QED
    BY <1>1, <1>4, <2>1, <2>2 DEF SessionStep
<1>8. CASE TakeAnswer
  <2>1. PICK i \in 1 .. Len(submitted) :
          /\ IsNext(i)
          /\ submitted' = RemoveAt(submitted, i)
          /\ \/ /\ game.state = "round_active" /\ submitted[i].round = game.round
                /\ Accept("me") /\ Reply(submitted[i], TRUE)
             \/ Reply(submitted[i], FALSE) /\ UNCHANGED <<game, given, wire>>
             \/ UNCHANGED <<game, given, wire, judged, relayed>>
    BY <1>8 DEF TakeAnswer
  <2>2. UNCHANGED <<starting, asking, readBack, rejoining, conn, app, accepted, submits,
                    losses>>
    BY <1>8 DEF TakeAnswer
  <2>3. /\ submitted' \in Seq(Answer)
        /\ \A j \in 1 .. Len(submitted') :
             \E k \in 1 .. Len(submitted) : submitted'[j].on = submitted[k].on
    <3>1. submitted \in Seq(Answer)
      BY <1>1
    <3>2. /\ RemoveAt(submitted, i) \in Seq(Answer)
          /\ \A j \in 1 .. Len(RemoveAt(submitted, i)) :
               \E k \in 1 .. Len(submitted) : RemoveAt(submitted, i)[j] = submitted[k]
      BY <3>1, RemoveAtKeeps
    <3> QED
      BY <2>1, <3>2
  <2>4. CASE /\ game.state = "round_active" /\ submitted[i].round = game.round
             /\ Accept("me") /\ Reply(submitted[i], TRUE)
    <3>1. /\ game' \in GameState /\ given' = given \union {"me"}
          /\ Announces \/ UNCHANGED <<game, wire>>
          /\ game'.round = game.round
      BY <2>4, Accepts
    <3>2. /\ \/ judged' = judged
             \/ /\ readBack = None
                /\ \E k \in 1 .. Len(submitted) : submitted[k].on = losses
                /\ losses \notin asking /\ Answered(judged')
          /\ relayed' = relayed \/ Answered(relayed')
      BY <2>1, <2>4, <3>1, Replied
    <3> QED
      BY <1>1, <2>2, <2>3, <3>1, <3>2 DEF SessionStep
  <2>5. CASE Reply(submitted[i], FALSE) /\ UNCHANGED <<game, given, wire>>
    <3>1. /\ \/ judged' = judged
             \/ /\ readBack = None
                /\ \E k \in 1 .. Len(submitted) : submitted[k].on = losses
                /\ losses \notin asking /\ Answered(judged')
          /\ relayed' = relayed \/ Answered(relayed')
      BY <2>1, <2>5, Replied
    <3> QED
      BY <1>1, <2>2, <2>3, <2>5, <3>1 DEF SessionStep
  <2>6. CASE UNCHANGED <<game, given, wire, judged, relayed>>
    BY <1>1, <2>2, <2>3, <2>6 DEF SessionStep
  <2> QED
    BY <2>1, <2>4, <2>5, <2>6
<1>9. CASE GiveUp
  <2>1. PICK i \in 1 .. Len(submitted) :
          /\ IsNext(i) /\ Reply(submitted[i], FALSE)
          /\ submitted' = [submitted EXCEPT ![i].waited = FALSE]
    BY <1>9 DEF GiveUp
  <2>2. UNCHANGED <<game, given, starting, asking, readBack, rejoining, conn, wire, app,
                    accepted, submits, losses>>
    BY <1>9 DEF GiveUp
  <2>3. submitted[i] \in Answer
    BY <1>1
  <2>4. [submitted[i] EXCEPT !.waited = FALSE] \in Answer
    BY <2>3 DEF Answer
  <2>5. [submitted[i] EXCEPT !.waited = FALSE].on = submitted[i].on
    BY <2>3 DEF Answer
  <2>6. submitted' = [submitted EXCEPT ![i] = [submitted[i] EXCEPT !.waited = FALSE]]
    BY <2>1
  <2>7. /\ submitted' \in Seq(Answer) /\ Len(submitted') = Len(submitted)
        /\ \A j \in 1 .. Len(submitted) : submitted'[j].on = submitted[j].on
    <3> DEFINE a == [submitted[i] EXCEPT !.waited = FALSE]
    <3> a \in Answer /\ a.on = submitted[i].on /\ submitted' = [submitted EXCEPT ![i] = a]
      BY <2>4, <2>5, <2>6
    <3> HIDE DEF a
    <3> QED
      BY <1>1
  <2>8. /\ \/ judged' = judged
           \/ /\ readBack = None /\ \E k \in 1 .. Len(submitted) : submitted[k].on = losses
              /\ losses \notin asking /\ Answered(judged')
        /\ relayed' = relayed \/ Answered(relayed')
    BY <2>1, Replied
  <2> QED
    BY <1>1, <2>2, <2>7, <2>8 DEF SessionStep
<1>10. CASE Rejoin
  <2>1. /\ rejoining > 0 /\ rejoining' = rejoining - 1 /\ BroadcastSnapshot(game, given)
        /\ UNCHANGED <<game, given, starting, judged, relayed, asking, readBack, submitted,
                       conn, app, accepted, submits, losses>>
    BY <1>10 DEF Rejoin
  <2>2. Announces
    BY <2>1 DEF Announces
  <2>3. rejoining' \in Nat
    BY <1>1, <2>1
  <2> QED
    BY <1>1, <1>4, <2>1, <2>2, <2>3 DEF SessionStep
<1> QED
  BY <1>5, <1>6, <1>7, <1>8, <1>9, <1>10

LEMMA StepCases ==
  ASSUME ClientTypeOK, [ClientNext]_clientVars
  PROVE  \/ Receive \/ PressSubmit \/ Lose \/ Reopen \/ Register \/ Reconnect
         \/ GetSnapshot \/ SendReadBack \/ SendAck \/ SendRelayed
         \/ SessionStep \/ UNCHANGED clientVars
BY SessionSteps, Zenon DEF ClientNext, ClientTypeOK

\* What a message of the session, or none, does to the wire.
LEMMA SessionTells ==
  ASSUME SessionOK, AppOK, SessionStep
  PROVE  wire' \in Seq(Message) /\ (~app.connected => wire' = wire)
<1>1. CASE Announces
  <2>1. game' \in GameState
    BY DEF SessionStep
  <2> DEFINE m == Snapshot(game', "me" \in given')
  <2>2. Sent(<<m>>) /\ m \in Message
    BY <1>1, <2>1, Announced
  <2> HIDE DEF m
  <2>3. PICK k \in Message : Sent(<<k>>)
    BY <2>2
  <2>4. wire' \in Seq(Message) /\ Grows(k)
    BY <2>3, WireGrows
  <2> QED
    BY <2>4 DEF Grows
<1>2. CASE UNCHANGED <<game, wire>>
  BY <1>2 DEF SessionOK, AppOK
<1> QED
  BY <1>1, <1>2 DEF SessionStep

(* Every variable of the client keeps its type.                                    *)
THEOREM ClientTypes == ClientSpec => []ClientTypeOK
<1>1. ClientInit => ClientTypeOK
  <2>1. /\ None \in AckMessage \union {None}
        /\ None \in SnapshotMessage \union {None, Reading}
        /\ <<>> \in Seq(Answer) /\ <<>> \in Seq(Message) /\ {} \subseteq Nat
    OBVIOUS
  <2>2. ASSUME ClientInit
        PROVE  /\ game \in GameState /\ Snapshot(game, FALSE) \in SnapshotMessage
               /\ app \in AppState
    BY <2>2 DEF ClientInit, GameState, States, Snapshot, SnapshotMessage, UiStates, AppState
  <2>3. ASSUME ClientInit PROVE SessionOK
    BY <2>1, <2>2, <2>3 DEF ClientInit, SessionOK
  <2>4. ASSUME ClientInit PROVE AppOK
    BY <2>1, <2>2, <2>4 DEF ClientInit, AppOK
  <2> QED
    BY <2>3, <2>4 DEF ClientTypeOK
<1>2. ASSUME ClientTypeOK, [ClientNext]_clientVars
      PROVE  ClientTypeOK'
  <2> USE <1>2
  <2>0. SessionOK /\ AppOK
    BY DEF ClientTypeOK
  <2>1. CASE Receive
    <3>1. /\ wire # <<>> /\ wire' = Tail(wire)
          /\ IF Head(wire).type = "snapshot" THEN OnSnapshot(Head(wire))
             ELSE OnAnswerAck(Head(wire))
          /\ accepted' = accepted \union
               (IF Head(wire).type = "ack" /\ Head(wire).ok /\ ~Head(wire).crossed
                THEN {Head(wire).round} ELSE {})
          /\ UNCHANGED <<serverVars, submitted, conn, submits, losses>>
      BY <2>1 DEF Receive
    <3>2. wire' \in Seq(Message) /\ Head(wire) \in Message
      BY <2>0, <3>1, WireShrinks
    <3>3. Head(wire).round \in Nat
      BY <3>2 DEF Message, SnapshotMessage, AckMessage
    <3>4. accepted' \subseteq Nat
      BY <2>0, <3>1, <3>3 DEF AppOK
    <3>5. app' \in AppState
      BY <2>0, <3>1, <3>2, AppHears
    <3>6. SessionOK'
      BY <2>0, <3>1 DEF serverVars, SessionOK
    <3>7. AppOK'
      BY <2>0, <3>1, <3>2, <3>4, <3>5 DEF AppOK
    <3> QED
      BY <3>6, <3>7 DEF ClientTypeOK
  <2>2. CASE PressSubmit
    <3>1. [round |-> app.snapshot.round, on |-> losses, away |-> conn = "away",
           waited |-> TRUE] \in Answer
      BY <2>0 DEF AppOK, AppState, SnapshotMessage, Answer
    <3>2. submitted' \in Seq(Answer) /\ submits' \in Nat
      BY <2>0, <2>2, <3>1 DEF PressSubmit, AppOK
    <3>3. UNCHANGED <<serverVars, conn, wire, app, accepted, losses>>
      BY <2>2 DEF PressSubmit
    <3>4. SessionOK'
      BY <2>0, <3>3 DEF serverVars, SessionOK
    <3>5. AppOK'
      BY <2>0, <3>2, <3>3 DEF AppOK
    <3> QED
      BY <3>4, <3>5 DEF ClientTypeOK
  <2>3. CASE Lose
    <3>1. PICK n \in 0 .. Len(submitted) : submitted' = SubSeq(submitted, 1, n)
      BY <2>3 DEF Lose
    <3>2. submitted' \in Seq(Answer)
      BY <2>0, <3>1 DEF AppOK
    <3>3. /\ losses' = losses + 1 /\ wire' = <<>> /\ judged' = None /\ readBack' = None
          /\ conn' = "opened" /\ asking' \in {asking, asking \ {losses}}
          /\ app' = [app EXCEPT !.connected = FALSE, !.uiState = "disconnected"]
          /\ UNCHANGED <<game, given, starting, relayed, rejoining, accepted, submits>>
      BY <2>3 DEF Lose
    <3>4. app' \in AppState
      <4>1. app \in AppState /\ "disconnected" \in UiStates
        BY <2>0 DEF AppOK, UiStates
      <4>2. app' = [app EXCEPT !.connected = FALSE, !.uiState = "disconnected"]
        BY <3>3
      <4> QED
        BY <4>1, <4>2 DEF AppState
    <3>5. losses' \in Nat
      BY <2>0, <3>3 DEF AppOK
    <3>6. SessionOK'
      BY <2>0, <3>3 DEF SessionOK
    <3>7. AppOK'
      BY <2>0, <3>2, <3>3, <3>4, <3>5 DEF AppOK
    <3> QED
      BY <3>6, <3>7 DEF ClientTypeOK
  <2>4. CASE Reopen
    <3>1. /\ app' = [app EXCEPT !.connected = TRUE,
                       !.uiState = DeriveUIState(TRUE, app.snapshot, app.hasAnswered)]
          /\ conn' \in {"opened", "away"} /\ asking' \subseteq asking \union {losses}
          /\ UNCHANGED <<game, given, starting, judged, relayed, readBack, rejoining,
                         submitted, wire, accepted, submits, losses>>
      BY <2>4 DEF Reopen
    <3>2. DeriveUIState(TRUE, app.snapshot, app.hasAnswered) \in UiStates
      BY <2>0, DeriveUIStateType DEF AppOK, AppState
    <3>3. app' \in AppState
      <4> DEFINE u == DeriveUIState(TRUE, app.snapshot, app.hasAnswered)
      <4>1. app \in AppState /\ app' = [app EXCEPT !.connected = TRUE, !.uiState = u]
        BY <2>0, <3>1 DEF AppOK
      <4>2. u \in UiStates
        BY <3>2
      <4> HIDE DEF u
      <4> QED
        BY <4>1, <4>2 DEF AppState
    <3>4. asking' \subseteq Nat
      BY <2>0, <3>1 DEF SessionOK, AppOK
    <3>5. SessionOK'
      BY <2>0, <3>1, <3>4 DEF SessionOK
    <3>6. AppOK'
      BY <2>0, <3>1, <3>3 DEF AppOK
    <3> QED
      BY <3>5, <3>6 DEF ClientTypeOK
  <2>5. CASE Register
    <3>1. conn' = "registered"
          /\ UNCHANGED <<serverVars, submitted, wire, app, accepted, submits, losses>>
      BY <2>5 DEF Register
    <3>2. SessionOK' /\ AppOK'
      BY <2>0, <3>1 DEF serverVars, SessionOK, AppOK
    <3> QED
      BY <3>2 DEF ClientTypeOK
  <2>6. CASE Reconnect
    <3>1. /\ asking' \subseteq asking /\ rejoining' \in {rejoining, rejoining + 1}
          /\ readBack' \in {readBack, Reading}
          /\ UNCHANGED <<game, given, starting, judged, relayed, submitted, conn, wire, app,
                         accepted, submits, losses>>
      BY <2>6 DEF Reconnect
    <3>2. SessionOK'
      BY <2>0, <3>1 DEF SessionOK
    <3>3. AppOK'
      BY <2>0, <3>1 DEF AppOK
    <3> QED
      BY <3>2, <3>3 DEF ClientTypeOK
  <2>7. CASE GetSnapshot
    <3>1. /\ readBack' = Snapshot(game, "me" \in given)
          /\ UNCHANGED <<game, given, starting, judged, relayed, asking, rejoining,
                         submitted, conn, wire, app, accepted, submits, losses>>
      BY <2>7 DEF GetSnapshot
    <3>2. Snapshot(game, "me" \in given) \in SnapshotMessage
      <4>1. game \in GameState /\ ("me" \in given) \in BOOLEAN
        BY <2>0 DEF SessionOK
      <4> QED
        BY <4>1, Made, Zenon
    <3>3. readBack' \in SnapshotMessage
      BY <3>1, <3>2
    <3>4. SessionOK'
      BY <2>0, <3>1, <3>3 DEF SessionOK
    <3>5. AppOK'
      BY <2>0, <3>1 DEF AppOK
    <3> QED
      BY <3>4, <3>5 DEF ClientTypeOK
  <2>8. CASE SendReadBack
    <3>1. /\ wire' = Append(wire, readBack) /\ readBack.type = "snapshot"
          /\ readBack' = None
          /\ UNCHANGED <<game, given, starting, judged, relayed, asking, rejoining,
                         submitted, conn, app, accepted, submits, losses>>
      BY <2>8 DEF SendReadBack
    <3>2. readBack \in Message
      BY <2>0, <3>1 DEF SessionOK, Message, None, Reading
    <3>3. wire' \in Seq(Message)
      BY <2>0, <3>1, <3>2 DEF AppOK
    <3>4. SessionOK'
      BY <2>0, <3>1 DEF SessionOK
    <3>5. AppOK'
      BY <2>0, <3>1, <3>3 DEF AppOK
    <3> QED
      BY <3>4, <3>5 DEF ClientTypeOK
  <2>9. CASE SendAck
    <3>1. /\ wire' = Append(wire, judged) /\ judged # None /\ judged' = None
          /\ UNCHANGED <<game, given, starting, relayed, asking, readBack, rejoining,
                         submitted, conn, app, accepted, submits, losses>>
      BY <2>9 DEF SendAck
    <3>2. judged \in Message
      BY <2>0, <3>1 DEF SessionOK, Message
    <3>3. wire' \in Seq(Message)
      BY <2>0, <3>1, <3>2 DEF AppOK
    <3>4. SessionOK'
      BY <2>0, <3>1 DEF SessionOK
    <3>5. AppOK'
      BY <2>0, <3>1, <3>3 DEF AppOK
    <3> QED
      BY <3>4, <3>5 DEF ClientTypeOK
  <2>10. CASE SendRelayed
    <3>1. PICK m : /\ m = [relayed EXCEPT !.crossed = readBack.type = "snapshot"]
                   /\ Sent(<<m>>)
      BY <2>10 DEF SendRelayed
    <3>2. /\ relayed # None /\ relayed' = None
          /\ UNCHANGED <<game, given, starting, judged, asking, readBack, rejoining,
                         submitted, conn, app, accepted, submits, losses>>
      BY <2>10 DEF SendRelayed
    <3>3. relayed \in AckMessage
      BY <2>0, <3>2 DEF SessionOK
    <3>4. m \in Message
      BY <3>1, <3>3 DEF AckMessage, Message
    <3>5. wire' \in Seq(Message)
      BY <2>0, <3>1, <3>4, WireGrows
    <3>6. SessionOK'
      BY <2>0, <3>2 DEF SessionOK
    <3>7. AppOK'
      BY <2>0, <3>2, <3>5 DEF AppOK
    <3> QED
      BY <3>6, <3>7 DEF ClientTypeOK
  <2>11. CASE SessionStep
    <3>1. wire' \in Seq(Message)
      BY <2>0, <2>11, SessionTells
    <3>2. SessionOK'
      BY <2>0, <2>11 DEF SessionStep, Answered, SessionOK
    <3>3. AppOK'
      BY <2>0, <2>11, <3>1 DEF SessionStep, AppOK
    <3> QED
      BY <3>2, <3>3 DEF ClientTypeOK
  <2>12. CASE UNCHANGED clientVars
    BY <2>0, <2>12 DEF clientVars, serverVars, ClientTypeOK, SessionOK, AppOK
  <2> QED
    BY <2>1, <2>2, <2>3, <2>4, <2>5, <2>6, <2>7, <2>8, <2>9, <2>10, <2>11, <2>12, StepCases
<1> QED
  BY <1>1, <1>2, PTL DEF ClientSpec

--------------------------------------------------------------------------------
(* The connection *)

LEMMA ConnectionStep ==
  ASSUME ClientTypeOK, ConnectionInv, ViewInv, [ClientNext]_clientVars
  PROVE  ConnectionInv'
<1> SessionOK /\ AppOK
  BY DEF ClientTypeOK
<1>0. /\ losses \in Nat /\ submitted \in Seq(Answer) /\ app \in AppState
      /\ asking \subseteq Nat
  BY DEF AppOK, SessionOK
<1>1. CASE Receive
  <2>1. /\ wire # <<>>
        /\ IF Head(wire).type = "snapshot" THEN OnSnapshot(Head(wire))
           ELSE OnAnswerAck(Head(wire))
        /\ wire' = Tail(wire) /\ UNCHANGED <<submitted, losses, asking, judged, readBack>>
    BY <1>1 DEF Receive, serverVars
  <2>2. app'.connected = app.connected
    BY <2>1, WireShrinks, AppHears
  <2>3. app.connected
    BY <2>1 DEF ConnectionInv
  <2> QED
    BY <2>1, <2>2, <2>3 DEF ConnectionInv
<1>2. CASE PressSubmit
  <2>1. app.connected /\ UNCHANGED <<app, losses, asking, judged, readBack>>
    BY <1>2 DEF PressSubmit, ViewInv, serverVars
  <2>2. PICK a : a.on = losses /\ submitted' = Append(submitted, a)
    BY <1>2 DEF PressSubmit
  <2>3. /\ Len(submitted') = Len(submitted) + 1 /\ submitted'[Len(submitted) + 1].on = losses
        /\ \A i \in 1 .. Len(submitted) : submitted'[i] = submitted[i]
    BY <1>0, <2>2
  <2>4. ASSUME NEW i \in 1 .. Len(submitted')
        PROVE  submitted'[i].on <= losses
    BY <1>0, <2>3 DEF ConnectionInv
  <2> QED
    BY <2>1, <2>4 DEF ConnectionInv
<1>3. CASE Lose
  <2>1. PICK n \in 0 .. Len(submitted) : submitted' = SubSeq(submitted, 1, n)
    BY <1>3 DEF Lose
  <2>2. /\ losses' = losses + 1 /\ wire' = <<>> /\ judged' = None /\ readBack' = None
        /\ asking' \subseteq asking
    BY <1>3 DEF Lose
  <2>3. Len(submitted') = n /\ \A i \in 1 .. n : submitted'[i] = submitted[i]
    BY <1>0, <2>1
  <2>4. Len(submitted) \in Nat /\ n <= Len(submitted)
    BY <1>0
  <2>5. ASSUME NEW i \in 1 .. n
        PROVE  submitted'[i].on <= losses' /\ submitted'[i].on < losses'
    <3>1. i \in 1 .. Len(submitted)
      BY <2>4
    <3>2. submitted[i] \in Answer
      BY <1>0, <3>1
    <3>3. submitted[i].on \in Nat /\ submitted[i].on <= losses
      BY <3>1, <3>2 DEF ConnectionInv, Answer
    <3> QED
      BY <1>0, <2>2, <2>3, <3>3
  <2>6. \A c \in asking' : c <= losses' /\ c # losses'
    BY <1>0, <2>2 DEF ConnectionInv
  <2> QED
    BY <2>2, <2>3, <2>5, <2>6 DEF ConnectionInv
<1>4. CASE Reopen
  <2>1. /\ ~app.connected /\ asking' \subseteq asking \union {losses}
        /\ app'.connected /\ UNCHANGED <<submitted, losses, judged, readBack>>
    BY <1>0, <1>4 DEF Reopen, AppState
  <2>2. \A c \in asking' : c <= losses
    BY <1>0, <2>1 DEF ConnectionInv
  <2> QED
    BY <2>1, <2>2 DEF ConnectionInv
<1>5. CASE Register
  <2>1. UNCHANGED <<submitted, losses, asking, judged, readBack, app, wire>>
    BY <1>5 DEF Register, serverVars
  <2> QED
    BY <2>1 DEF ConnectionInv
<1>6. CASE Reconnect
  <2>1. PICK c \in asking : /\ asking' = asking \ {c}
                            /\ readBack' = readBack \/ c = losses
    BY <1>6 DEF Reconnect
  <2>2. UNCHANGED <<submitted, losses, judged, app, wire>>
    BY <1>6 DEF Reconnect
  <2>3. c = losses => app.connected /\ losses \notin asking'
    BY <2>1 DEF ConnectionInv
  <2> QED
    BY <2>1, <2>2, <2>3 DEF ConnectionInv
<1>7. CASE GetSnapshot
  <2>1. readBack = Reading /\ UNCHANGED <<submitted, losses, asking, judged, app, wire>>
    BY <1>7 DEF GetSnapshot
  <2>2. app.connected /\ losses \notin asking
    BY <2>1, Kinds DEF ConnectionInv
  <2> QED
    BY <2>1, <2>2 DEF ConnectionInv
<1>8. CASE SendReadBack
  <2>1. /\ readBack.type = "snapshot" /\ readBack' = None
        /\ UNCHANGED <<app, submitted, losses, asking, judged>>
    BY <1>8 DEF SendReadBack
  <2>2. app.connected
    BY <2>1 DEF ConnectionInv, None
  <2> QED
    BY <2>1, <2>2 DEF ConnectionInv
<1>9. CASE SendAck
  <2>1. judged # None /\ judged' = None /\ UNCHANGED <<app, submitted, losses, asking, readBack>>
    BY <1>9 DEF SendAck
  <2>2. app.connected /\ losses \notin asking
    BY <2>1 DEF ConnectionInv
  <2> QED
    BY <2>1, <2>2 DEF ConnectionInv
<1>10. CASE SendRelayed
  <2>1. /\ UNCHANGED <<app, submitted, losses, asking, judged, readBack>>
        /\ app.connected \/ UNCHANGED wire
    BY <1>10 DEF SendRelayed, Sent
  <2> QED
    BY <2>1 DEF ConnectionInv
<1>11. CASE SessionStep
  <2>1. /\ UNCHANGED <<app, losses, asking, readBack>>
        /\ \A j \in 1 .. Len(submitted') :
             \E k \in 1 .. Len(submitted) : submitted'[j].on = submitted[k].on
        /\ \/ judged' = judged
           \/ losses \notin asking /\ \E i \in 1 .. Len(submitted) : submitted[i].on = losses
    BY <1>11 DEF SessionStep
  <2>2. ~app.connected => wire' = wire
    BY <1>11, SessionTells
  <2>3. ASSUME NEW j \in 1 .. Len(submitted')
        PROVE  submitted'[j].on <= losses /\ (~app.connected => submitted'[j].on < losses)
    BY <2>1 DEF ConnectionInv
  <2>4. ~app.connected => judged' = judged
    <3>1. ASSUME NEW i \in 1 .. Len(submitted), submitted[i].on = losses, ~app.connected
          PROVE  FALSE
      BY <1>0, <3>1 DEF ConnectionInv
    <3> QED
      BY <2>1, <3>1
  <2> QED
    BY <2>1, <2>2, <2>3, <2>4 DEF ConnectionInv
<1>12. CASE UNCHANGED clientVars
  BY <1>12 DEF clientVars, serverVars, ConnectionInv
<1> QED
  BY <1>1, <1>2, <1>3, <1>4, <1>5, <1>6, <1>7, <1>8, <1>9, <1>10, <1>11, <1>12, StepCases

--------------------------------------------------------------------------------
(* What the app is asked *)

\* A message that asks for no answer that is in leaves the wire as it should be.
LEMMA AskingGrows ==
  ASSUME AppOK, WireInv, NEW m \in Message, Grows(m), UNCHANGED accepted,
         Asks(m) => /\ m.round \notin accepted
                    /\ \A i \in 1 .. Len(wire) : OkAck(wire[i]) => wire[i].round # m.round
  PROVE  WireInv'
<1>0. Len(wire) \in Nat
  BY DEF AppOK
<1>1. CASE wire' # wire
  <2>1. /\ Len(wire') = Len(wire) + 1 /\ wire'[Len(wire) + 1] = m
        /\ \A i \in 1 .. Len(wire) : wire'[i] = wire[i]
    BY <1>1 DEF Grows
  <2>2. ASSUME NEW i \in 1 .. Len(wire'), Asks(wire'[i])
        PROVE  /\ wire'[i].round \notin accepted
               /\ \A j \in 1 .. i - 1 : OkAck(wire'[j]) => wire'[j].round # wire'[i].round
    <3>1. CASE i \in 1 .. Len(wire)
      <4>1. \A j \in 1 .. i - 1 : wire'[j] = wire[j]
        BY <1>0, <2>1, <3>1
      <4>2. wire'[i] = wire[i]
        BY <2>1, <3>1
      <4> QED
        BY <2>2, <3>1, <4>1, <4>2 DEF WireInv
    <3>2. CASE i = Len(wire) + 1
      <4>1. \A j \in 1 .. i - 1 : wire'[j] = wire[j] /\ j \in 1 .. Len(wire)
        BY <1>0, <2>1, <3>2
      <4>2. wire'[i] = m
        BY <2>1, <3>2
      <4> QED
        BY <2>2, <4>1, <4>2
    <3> QED
      BY <1>0, <2>1, <3>1, <3>2
  <2> QED
    BY <2>2 DEF WireInv, Asks, OkAck, News
<1>2. CASE wire' = wire
  BY <1>2 DEF WireInv, Asks, OkAck, News
<1> QED
  BY <1>1, <1>2

\* What is on the wire then was there before, or is the new message.
LEMMA NewsStay ==
  ASSUME AppOK, NEW m \in Message, Grows(m)
  PROVE  \A i \in 1 .. Len(wire') :
           wire'[i] = m \/ \E k \in 1 .. Len(wire) : wire'[i] = wire[k]
<1>0. Len(wire) \in Nat
  BY DEF AppOK
<1>1. CASE wire' = wire
  BY <1>1
<1>2. CASE wire' # wire
  <2>1. /\ Len(wire') = Len(wire) + 1 /\ wire'[Len(wire) + 1] = m
        /\ \A i \in 1 .. Len(wire) : wire'[i] = wire[i]
    BY <1>2 DEF Grows
  <2> QED
    BY <1>0, <2>1
<1> QED
  BY <1>1, <1>2

LEMMA AskingReceive ==
  ASSUME ClientTypeOK, ConnectionInv, AskingInv, Receive
  PROVE  AskingInv'
<1> SessionOK /\ AppOK
  BY DEF ClientTypeOK
<1> DEFINE m == Head(wire)
<1>1. /\ wire # <<>> /\ wire' = Tail(wire)
      /\ IF m.type = "snapshot" THEN OnSnapshot(m) ELSE OnAnswerAck(m)
      /\ accepted' = accepted \union
           (IF m.type = "ack" /\ m.ok /\ ~m.crossed THEN {m.round} ELSE {})
      /\ UNCHANGED <<game, given, judged, relayed, readBack>>
  BY DEF Receive, serverVars
<1>2. /\ wire' \in Seq(Message) /\ m \in Message /\ m = wire[1]
      /\ Len(wire) \in Nat \ {0} /\ Len(wire') = Len(wire) - 1
      /\ \A i \in 1 .. Len(wire') : wire'[i] = wire[i + 1]
  BY <1>1, WireShrinks
<1>3. /\ app' \in AppState /\ app'.connected = app.connected
      /\ m.type = "snapshot" =>
           /\ app'.snapshot = m /\ (m.has_answered => app'.hasAnswered)
           /\ app'.uiState = "answering" =>
                app.connected /\ m.state = "round_active" /\ ~app'.hasAnswered
      /\ m.type # "snapshot" =>
           /\ app'.snapshot = app.snapshot /\ (m.ok => app'.hasAnswered)
           /\ app.hasAnswered => app'.hasAnswered
           /\ app'.uiState = "answering" =>
                app.uiState = "answering" /\ ~m.ok /\ app'.hasAnswered = app.hasAnswered
  BY <1>1, <1>2, AppHears
<1> HIDE DEF m
<1>4. 1 \in 1 .. Len(wire) /\ \A i \in 1 .. Len(wire') :
        i + 1 \in 1 .. Len(wire) /\ 1 \in 1 .. (i + 1) - 1
        /\ \A j \in 1 .. i - 1 : j \in 1 .. Len(wire') /\ j + 1 \in 1 .. (i + 1) - 1
  BY <1>2
<1>5. m.round \in Nat
  BY <1>2 DEF Message, SnapshotMessage, AckMessage
<1>6. accepted' = IF OkAck(m) THEN accepted \union {m.round} ELSE accepted
  BY <1>1 DEF OkAck, News
<1>7. m.type # "snapshot" => m.type = "ack" /\ m.ok \in BOOLEAN
  BY <1>2 DEF Message, SnapshotMessage, AckMessage
<1>8. WireInv'
  <2>1. ASSUME NEW i \in 1 .. Len(wire'), Asks(wire'[i])
        PROVE  /\ wire'[i].round \notin accepted'
               /\ \A j \in 1 .. i - 1 : OkAck(wire'[j]) => wire'[j].round # wire'[i].round
    <3>1. /\ wire[i + 1].round \notin accepted
          /\ \A j \in 1 .. (i + 1) - 1 : OkAck(wire[j]) => wire[j].round # wire[i + 1].round
      BY <1>2, <1>4, <2>1 DEF AskingInv, WireInv
    <3>2. OkAck(m) => m.round # wire[i + 1].round
      BY <1>2, <1>4, <3>1
    <3>3. wire'[i].round \notin accepted'
      BY <1>2, <1>6, <3>1, <3>2
    <3>4. ASSUME NEW j \in 1 .. i - 1, OkAck(wire'[j])
          PROVE  wire'[j].round # wire'[i].round
      BY <1>2, <1>4, <3>1, <3>4
    <3> QED
      BY <3>3, <3>4
  <2> QED
    BY <2>1 DEF WireInv, Asks, OkAck, News
<1>9. ReadBackInv'
  <2>1. Asks(readBack) => readBack.round \notin accepted'
    BY <1>2, <1>4, <1>6 DEF AskingInv, ReadBackInv
  <2>2. Asks(readBack) => \A i \in 1 .. Len(wire') : OkAck(wire'[i]) =>
                            wire'[i].round # readBack.round
    BY <1>2, <1>4 DEF AskingInv, ReadBackInv
  <2> QED
    BY <1>1, <2>1, <2>2 DEF AskingInv, ReadBackInv, Asks, OkAck, News
<1>10. ViewInv'
  <2>1. CASE m.type = "snapshot"
    <3>1. accepted' = accepted
      BY <1>6, <2>1 DEF OkAck, News
    <3>2. Asks(m) => m.round \notin accepted
      BY <1>2, <1>4 DEF AskingInv, WireInv
    <3>3. m.has_answered \in BOOLEAN
      BY <1>2, <2>1 DEF Message, SnapshotMessage, AckMessage
    <3> QED
      BY <1>3, <2>1, <3>1, <3>2, <3>3 DEF ViewInv, Asks
  <2>2. CASE m.type # "snapshot"
    <3>1. CASE m.ok
      BY <1>3, <2>2, <3>1 DEF ViewInv
    <3>2. CASE ~m.ok
      <4>1. accepted' = accepted
        BY <1>6, <3>2 DEF OkAck, News
      <4> QED
        BY <1>3, <2>2, <3>2, <4>1 DEF AskingInv, ViewInv
    <3> QED
      BY <3>1, <3>2
  <2> QED
    BY <2>1, <2>2
<1>11. RoundInv'
  <2>1. News(m) => m.round <= game.round /\ ("me" \notin given => m.round # game.round)
    BY <1>2, <1>4 DEF AskingInv, RoundInv
  <2>2. \A r \in accepted' : r \in accepted \/ (News(m) /\ r = m.round)
    BY <1>6 DEF OkAck
  <2>3. \A i \in 1 .. Len(wire') : \E k \in 1 .. Len(wire) : wire'[i] = wire[k]
    BY <1>2, <1>4
  <2>4. Owed' = Owed
    BY <1>1 DEF Owed
  <2> QED
    BY <1>1, <2>1, <2>2, <2>3, <2>4 DEF AskingInv, RoundInv, News
<1> QED
  BY <1>8, <1>9, <1>10, <1>11 DEF AskingInv

\* The news there are, told or owed, are of rounds up to the session's.
LEMMA NewsOfRounds ==
  ASSUME ClientTypeOK, RoundInv
  PROVE  /\ \A r \in accepted : r \in Nat /\ r <= game.round
         /\ \A i \in 1 .. Len(wire) : News(wire[i]) =>
              wire[i].round \in Nat /\ wire[i].round <= game.round
         /\ \A m \in Owed : News(m) => m.round \in Nat /\ m.round <= game.round
<1>1. \A i \in 1 .. Len(wire) : wire[i] \in Message
  BY DEF ClientTypeOK, AppOK
<1>2. \A m \in Owed : m \in Message \/ m = None
  BY DEF ClientTypeOK, SessionOK, Owed, Message
<1>3. \A m \in Owed : News(m) => m \in Message
  BY <1>2, Kinds
<1>4. accepted \subseteq Nat
  BY DEF ClientTypeOK, AppOK
<1> QED
  BY <1>1, <1>3, <1>4, Kinds DEF RoundInv

LEMMA AskingSession ==
  ASSUME ClientTypeOK, ConnectionInv, AskingInv, SessionStep
  PROVE  AskingInv'
<1> SessionOK /\ AppOK
  BY DEF ClientTypeOK
<1>1. /\ UNCHANGED <<readBack, app, accepted>>
      /\ game' \in GameState /\ game \in GameState
      /\ \/ game'.round = game.round /\ given \subseteq given'
         \/ game'.round = game.round + 1 /\ judged' = judged /\ relayed' = relayed
      /\ judged' = judged \/ (readBack = None /\ Answered(judged'))
      /\ relayed' = relayed \/ Answered(relayed')
  BY DEF SessionStep, SessionOK
<1>2. game.round \in Nat /\ game'.round \in Nat /\ game.round <= game'.round
  BY <1>1 DEF GameState
<1>3. /\ \A r \in accepted : r \in Nat /\ r <= game.round
      /\ \A i \in 1 .. Len(wire) : News(wire[i]) =>
           wire[i].round \in Nat /\ wire[i].round <= game.round
      /\ \A m \in Owed : News(m) => m.round \in Nat /\ m.round <= game.round
  BY NewsOfRounds DEF AskingInv
\* Of the round the session is in now nothing was said while it lacks the answer.
<1>4. "me" \notin given' =>
        /\ game'.round \notin accepted
        /\ \A i \in 1 .. Len(wire) : News(wire[i]) => wire[i].round # game'.round
        /\ \A m \in Owed : News(m) => m.round # game'.round
  <2>1. CASE game'.round = game.round /\ given \subseteq given'
    BY <2>1 DEF AskingInv, RoundInv
  <2>2. CASE game'.round = game.round + 1
    BY <1>2, <1>3, <2>2
  <2> QED
    BY <1>1, <2>1, <2>2
<1>5. \A m \in Owed' : m \in Owed \/ Answered(m)
  BY <1>1 DEF Owed
<1>6. \A m \in Owed' : News(m) =>
        m.round <= game'.round /\ ("me" \notin given' => m.round # game'.round)
  <2> SUFFICES ASSUME NEW m \in Owed', News(m)
               PROVE  m.round <= game'.round /\ ("me" \notin given' => m.round # game'.round)
    OBVIOUS
  <2>1. CASE m \in Owed
    <3>1. m.round \in Nat /\ m.round <= game.round
      BY <1>3, <2>1
    <3> QED
      BY <1>2, <1>4, <2>1, <3>1
  <2>2. CASE Answered(m)
    BY <1>2, <2>2 DEF Answered
  <2> QED
    BY <1>5, <2>1, <2>2
<1>7. \A r \in accepted : r <= game'.round
  BY <1>2, <1>3
<1>8. \A i \in 1 .. Len(wire) : News(wire[i]) => wire[i].round <= game'.round
  BY <1>2, <1>3
<1>9. ViewInv'
  BY <1>1 DEF AskingInv, ViewInv
<1>10. readBack # None => judged = None /\ judged' = None
  BY <1>1 DEF AskingInv, ReadBackInv
<1>11. CASE Announces
  <2>3. PICK m : m = Snapshot(game', "me" \in given')
    OBVIOUS
  <2>4. m \in Message /\ Grows(m)
    <3>1. Sent(<<m>>) /\ m \in Message
      BY <1>1, <1>11, <2>3, Announced
    <3> QED
      BY <3>1, WireGrows
  <2>5. m.type = "snapshot" /\ ~News(m) /\ (Asks(m) => "me" \notin given')
        /\ m.round = game'.round
    BY <2>3 DEF Snapshot, News, Asks
  <2>6. \A i \in 1 .. Len(wire') :
          wire'[i] = m \/ \E k \in 1 .. Len(wire) : wire'[i] = wire[k]
    BY <2>4, NewsStay
  <2>7. WireInv'
    BY <1>1, <1>4, <2>4, <2>5, AskingGrows DEF AskingInv, OkAck
  <2>8. ReadBackInv'
    BY <1>1, <1>10, <2>5, <2>6 DEF AskingInv, ReadBackInv, Asks, OkAck, News
  <2>9. RoundInv'
    BY <1>1, <1>4, <1>6, <1>7, <1>8, <2>5, <2>6 DEF RoundInv, News
  <2> QED
    BY <1>9, <2>7, <2>8, <2>9 DEF AskingInv
<1>12. CASE UNCHANGED <<game, wire>>
  <2>1. WireInv'
    BY <1>1, <1>12 DEF AskingInv, WireInv, Asks, OkAck, News
  <2>2. ReadBackInv'
    BY <1>1, <1>10, <1>12 DEF AskingInv, ReadBackInv, Asks, OkAck, News
  <2>3. RoundInv'
    BY <1>1, <1>4, <1>6, <1>7, <1>8, <1>12 DEF RoundInv, News
  <2> QED
    BY <1>9, <2>1, <2>2, <2>3 DEF AskingInv
<1> QED
  BY <1>11, <1>12 DEF SessionStep

LEMMA AskingStep ==
  ASSUME ClientTypeOK, ConnectionInv, AskingInv, [ClientNext]_clientVars
  PROVE  AskingInv'
<1> SessionOK /\ AppOK
  BY DEF ClientTypeOK
<1>1. CASE Receive
  BY <1>1, AskingReceive
\* What neither tells nor shows anything.
<1>2. ASSUME UNCHANGED <<game, given, judged, relayed, readBack, wire, app, accepted>>
      PROVE  AskingInv'
  BY <1>2 DEF AskingInv, WireInv, ReadBackInv, ViewInv, RoundInv, Owed, Asks, OkAck, News
<1>3. CASE PressSubmit \/ Register \/ UNCHANGED clientVars
  <2>1. UNCHANGED <<game, given, judged, relayed, readBack, wire, app, accepted>>
    BY <1>3 DEF PressSubmit, Register, serverVars, clientVars
  <2> QED
    BY <1>2, <2>1
<1>4. CASE Lose
  <2>1. /\ wire' = <<>> /\ judged' = None /\ readBack' = None
        /\ app' = [app EXCEPT !.connected = FALSE, !.uiState = "disconnected"]
        /\ UNCHANGED <<game, given, relayed, accepted>>
    BY <1>4 DEF Lose
  <2>2. /\ app'.snapshot = app.snapshot /\ app'.hasAnswered = app.hasAnswered
        /\ app'.uiState = "disconnected"
    BY <2>1 DEF AppOK, AppState
  <2>3. ViewInv'
    BY <2>1, <2>2 DEF AskingInv, ViewInv
  <2>4. 1 .. Len(wire') = {}
    BY <2>1
  <2>5. WireInv'
    BY <2>4 DEF WireInv
  <2>6. ~Asks(readBack')
    BY <2>1, Kinds
  <2>7. ReadBackInv'
    BY <2>1, <2>6 DEF ReadBackInv, Asks
  <2>8. \A m \in Owed' : m \in Owed \/ ~News(m)
    BY <2>1, Kinds DEF Owed
  <2>9. RoundInv'
    BY <2>1, <2>4, <2>8 DEF AskingInv, RoundInv, News
  <2> QED
    BY <2>3, <2>5, <2>7, <2>9 DEF AskingInv
<1>5. CASE Reopen
  <2>1. /\ app' = [app EXCEPT !.connected = TRUE,
                     !.uiState = DeriveUIState(TRUE, app.snapshot, app.hasAnswered)]
        /\ UNCHANGED <<game, given, judged, relayed, readBack, wire, accepted>>
    BY <1>5 DEF Reopen
  <2>2. /\ app'.snapshot = app.snapshot /\ app'.hasAnswered = app.hasAnswered
        /\ app'.connected
        /\ app'.uiState = DeriveUIState(TRUE, app.snapshot, app.hasAnswered)
    BY <2>1 DEF AppOK, AppState
  <2>3. app'.uiState = "answering" =>
          app.snapshot.state = "round_active" /\ ~app.hasAnswered
    BY <2>2, DeriveUIStateType DEF AppOK, AppState
  <2>4. ViewInv'
    <3>1. app.snapshot.state = "round_active" /\ ~app.hasAnswered =>
            app.snapshot.round \notin accepted
      BY DEF AskingInv, ViewInv
    <3>2. accepted' = accepted
      BY <2>1
    <3> QED
      BY <2>2, <2>3, <3>1, <3>2 DEF ViewInv
  <2>5. WireInv' /\ ReadBackInv' /\ RoundInv'
    BY <2>1 DEF AskingInv, WireInv, ReadBackInv, RoundInv, Owed, Asks, OkAck, News
  <2> QED
    BY <2>4, <2>5 DEF AskingInv
<1>6. CASE Reconnect
  <2>1. PICK c \in asking : readBack' = readBack \/ (c = losses /\ readBack' = Reading)
    BY <1>6 DEF Reconnect
  <2>2. UNCHANGED <<game, given, judged, relayed, wire, app, accepted>>
    BY <1>6 DEF Reconnect
  <2>3. CASE readBack' = readBack
    BY <1>2, <2>2, <2>3
  <2>4. CASE c = losses /\ readBack' = Reading
    <3>1. judged = None /\ ~Asks(readBack')
      BY <2>4, Kinds DEF ConnectionInv
    <3>2. ReadBackInv'
      BY <2>2, <3>1 DEF ReadBackInv, Asks
    <3>3. WireInv' /\ ViewInv' /\ RoundInv'
      BY <2>2 DEF AskingInv, WireInv, ViewInv, RoundInv, Owed, Asks, OkAck, News
    <3> QED
      BY <3>2, <3>3 DEF AskingInv
  <2> QED
    BY <2>1, <2>3, <2>4
<1>7. CASE GetSnapshot
  <2>1. PICK m : m = Snapshot(game, "me" \in given)
    OBVIOUS
  <2>2. /\ readBack = Reading /\ readBack' = m
        /\ UNCHANGED <<game, given, judged, relayed, wire, app, accepted>>
    BY <1>7, <2>1 DEF GetSnapshot
  <2>3. m.round = game.round /\ (Asks(m) => "me" \notin given)
    BY <2>1 DEF Snapshot, Asks
  <2>4. Asks(m) => /\ m.round \notin accepted
                   /\ \A i \in 1 .. Len(wire) : OkAck(wire[i]) => wire[i].round # m.round
    BY <2>3 DEF AskingInv, RoundInv, OkAck
  <2>5. judged = None
    BY <2>2, Kinds DEF AskingInv, ReadBackInv
  <2>6. ReadBackInv'
    BY <2>2, <2>4, <2>5 DEF ReadBackInv, Asks, OkAck, News
  <2>7. WireInv' /\ ViewInv' /\ RoundInv'
    BY <2>2 DEF AskingInv, WireInv, ViewInv, RoundInv, Owed, Asks, OkAck, News
  <2> QED
    BY <2>6, <2>7 DEF AskingInv
<1>8. CASE SendReadBack
  <2>1. /\ readBack.type = "snapshot" /\ wire' = Append(wire, readBack) /\ readBack' = None
        /\ UNCHANGED <<game, given, judged, relayed, app, accepted>>
    BY <1>8 DEF SendReadBack
  <2>2. readBack \in Message /\ readBack # None
    BY <2>1 DEF SessionOK, Message, None, Reading
  <2>3. app.connected
    BY <2>2 DEF ConnectionInv
  <2>4. Grows(readBack)
    BY <2>1, <2>2, <2>3, WireGrows
  <2>5. WireInv'
    BY <2>1, <2>2, <2>4, AskingGrows DEF AskingInv, ReadBackInv
  <2>6. \A i \in 1 .. Len(wire') :
          wire'[i] = readBack \/ \E k \in 1 .. Len(wire) : wire'[i] = wire[k]
    BY <2>2, <2>4, NewsStay
  <2>7. ~News(readBack) /\ ~Asks(readBack')
    BY <2>1, Kinds DEF News
  <2>8. ReadBackInv' /\ ViewInv'
    BY <2>1, <2>7 DEF AskingInv, ReadBackInv, ViewInv, Asks
  <2>9. RoundInv'
    BY <2>1, <2>6, <2>7 DEF AskingInv, RoundInv, Owed, News
  <2> QED
    BY <2>5, <2>8, <2>9 DEF AskingInv
<1>9. CASE SendAck
  <2>1. /\ judged # None /\ wire' = Append(wire, judged) /\ judged' = None
        /\ UNCHANGED <<game, given, relayed, readBack, app, accepted>>
    BY <1>9 DEF SendAck
  <2>2. judged \in AckMessage /\ judged \in Message
    BY <2>1 DEF SessionOK, Message
  <2>3. app.connected /\ readBack = None /\ ~Asks(judged)
    BY <2>1, <2>2 DEF ConnectionInv, AskingInv, ReadBackInv, AckMessage, Asks
  <2>4. Grows(judged)
    BY <2>1, <2>2, <2>3, WireGrows
  <2>5. WireInv'
    BY <2>1, <2>2, <2>3, <2>4, AskingGrows DEF AskingInv
  <2>6. \A i \in 1 .. Len(wire') :
          wire'[i] = judged \/ \E k \in 1 .. Len(wire) : wire'[i] = wire[k]
    BY <2>2, <2>4, NewsStay
  <2>7. \A m \in Owed' : m \in Owed \/ ~News(m)
    BY <2>1, Kinds DEF Owed
  <2>8. judged \in Owed
    BY DEF Owed
  <2>9. RoundInv'
    BY <2>1, <2>6, <2>7, <2>8 DEF AskingInv, RoundInv, News
  <2>10. ~Asks(readBack')
    BY <2>1, <2>3, Kinds
  <2>11. ReadBackInv' /\ ViewInv'
    BY <2>1, <2>3, <2>10 DEF AskingInv, ReadBackInv, ViewInv, Asks
  <2> QED
    BY <2>5, <2>9, <2>11 DEF AskingInv
<1>10. CASE SendRelayed
  <2>1. PICK m : m = [relayed EXCEPT !.crossed = readBack.type = "snapshot"] /\ Sent(<<m>>)
    BY <1>10 DEF SendRelayed
  <2>2. /\ relayed # None /\ relayed' = None
        /\ UNCHANGED <<game, given, judged, readBack, app, accepted>>
    BY <1>10 DEF SendRelayed
  <2>3. relayed \in AckMessage
    BY <2>2 DEF SessionOK
  <2>4. /\ m \in Message /\ m.type = "ack" /\ m.round = relayed.round
        /\ (News(m) => News(relayed)) /\ m.crossed = (readBack.type = "snapshot")
    BY <2>1, <2>3 DEF AckMessage, Message, News
  <2>5. ~Asks(m) /\ (OkAck(m) => ~Asks(readBack))
    BY <2>4 DEF Asks, OkAck
  <2>6. Grows(m)
    BY <2>1, <2>4, WireGrows
  <2>7. WireInv'
    BY <2>2, <2>4, <2>5, <2>6, AskingGrows DEF AskingInv
  <2>8. \A i \in 1 .. Len(wire') :
          wire'[i] = m \/ \E k \in 1 .. Len(wire) : wire'[i] = wire[k]
    BY <2>4, <2>6, NewsStay
  <2>9. ReadBackInv' /\ ViewInv'
    BY <2>2, <2>5, <2>8 DEF AskingInv, ReadBackInv, ViewInv, Asks, OkAck, News
  <2>10. /\ relayed \in Owed
         /\ \A k \in Owed' : k \in Owed \/ ~News(k)
    BY <2>2, Kinds DEF Owed
  <2>11. RoundInv'
    BY <2>2, <2>4, <2>8, <2>10 DEF AskingInv, RoundInv, News
  <2> QED
    BY <2>7, <2>9, <2>11 DEF AskingInv
<1>11. CASE SessionStep
  BY <1>11, AskingSession
<1> QED
  BY <1>1, <1>3, <1>4, <1>5, <1>6, <1>7, <1>8, <1>9, <1>10, <1>11, StepCases

--------------------------------------------------------------------------------
(* The theorem *)

LEMMA ClientInvariant == ClientSpec => []ClientInv
<1>1. ClientInit => ConnectionInv /\ AskingInv
  <2> SUFFICES ASSUME ClientInit PROVE ConnectionInv /\ AskingInv
    OBVIOUS
  <2>1. /\ wire = <<>> /\ submitted = <<>> /\ accepted = {} /\ judged = None
        /\ relayed = None /\ readBack = None /\ asking = {}
        /\ app.connected /\ app.uiState = "countdown"
    BY DEF ClientInit
  <2>2. /\ 1 .. Len(wire) = {} /\ 1 .. Len(submitted) = {} /\ ~Asks(readBack)
        /\ \A m \in Owed : ~News(m)
    BY <2>1, Kinds DEF Owed
  <2>3. ConnectionInv
    BY <2>1, <2>2 DEF ConnectionInv
  <2>4. AskingInv
    BY <2>1, <2>2 DEF AskingInv, WireInv, ReadBackInv, ViewInv, RoundInv
  <2> QED
    BY <2>3, <2>4
<1>2. ASSUME ClientTypeOK, ConnectionInv /\ AskingInv, [ClientNext]_clientVars
      PROVE  (ConnectionInv /\ AskingInv)'
  BY <1>2, ConnectionStep, AskingStep DEF AskingInv
<1> QED
  BY <1>1, <1>2, ClientTypes, PTL DEF ClientSpec, ClientInv

(* Through any losses, stale snapshots, repeated submits and answers passed on by *)
(* other nodes the app never asks again for an answer it was told is in.          *)
THEOREM NeverAsksAgain == ClientSpec => []NotAskedAgain
<1>1. ClientInv => NotAskedAgain
  BY DEF ClientInv, AskingInv, ViewInv, NotAskedAgain
<1> QED
  BY <1>1, ClientInvariant, PTL
================================================================================
