--------------------------- MODULE MatchmakingProofs ---------------------------
(***************************************************************************)
(* Proofs about Matchmaking: the type invariant; that playerGames never    *)
(* names a game that is over; and that a player whom nothing harmed is     *)
(* queued once, has his lock unless it lapsed, is not turned away unless   *)
(* queued and is never forgotten, whatever happens to all the others.      *)
(*                                                                         *)
(* None of the last four is inductive.  Sound(p) joins them with what p's  *)
(* handler and the matchLoops rely on between two Redis commands, and      *)
(* every step keeps Sound(p) unless it harms p.                            *)
(***************************************************************************)
EXTENDS Matchmaking, SequenceTheorems, WellFoundedInduction, TLAPS

--------------------------------------------------------------------------------
(* The list mm:queue *)

\* The least index of a nonempty set of indices (LREM takes the first) is in the set.
LEMMA MinIsMember ==
  ASSUME NEW I \in SUBSET Nat, I # {}
  PROVE  Min(I) \in I
<1> DEFINE LessThan == {ss \in Nat \X Nat : ss[1] < ss[2]}
<1>0. IsWellFoundedOn(LessThan, Nat)
  BY NatLessThanWellFounded DEF OpToRel
<1>1. PICK m \in I : \A k \in I : ~(<<k, m>> \in LessThan)
  <2> HIDE DEF LessThan
  <2> QED BY <1>0, WFMin, Zenon
<1>2. \A k \in I : m =< k
  <2> SUFFICES ASSUME NEW k \in I, ~(m =< k) PROVE FALSE
    OBVIOUS
  <2>1. k \in Nat /\ m \in Nat /\ k < m
    BY SMT
  <2>2. <<k, m>> \in LessThan
    BY <2>1
  <2> HIDE DEF LessThan
  <2> QED
    BY <1>1, <2>2, Zenon
<1> QED
  BY <1>2, Zenon DEF Min

\* LREM leaves a list of players, and a shorter one where the player was in it.
LEMMA RemoveFirstIsSeq ==
  ASSUME NEW S, NEW s \in Seq(S), NEW e
  PROVE  RemoveFirst(s, e) \in Seq(S)
<1>1. CASE \E i \in 1 .. Len(s) : s[i] = e
  <2> DEFINE I == {i \in 1 .. Len(s) : s[i] = e}
  <2>1. I # {} /\ I \in SUBSET Nat
    BY <1>1
  <2>2. Min(I) \in 1 .. Len(s)
    BY <2>1, MinIsMember
  <2>3. SelectInSeq(s, LAMBDA v : v = e) = Min(I)
    BY <2>1 DEF SelectInSeq
  <2>4. RemoveFirst(s, e) = RemoveAt(s, Min(I))
    BY <1>1, <2>3 DEF RemoveFirst
  <2> HIDE DEF I
  <2>5. RemoveAt(s, Min(I)) \in Seq(S)
    BY <2>2, SMT DEF RemoveAt
  <2> QED
    BY <2>4, <2>5
<1>2. CASE ~ \E i \in 1 .. Len(s) : s[i] = e
  BY <1>2 DEF RemoveFirst
<1> QED
  BY <1>1, <1>2

\* The script leaves a list of players when it takes two.
LEMMA PopIsSeq ==
  ASSUME NEW S, NEW s \in Seq(S), Len(s) >= 2
  PROVE  /\ Tail(Tail(s)) \in Seq(S)
         /\ Len(Tail(Tail(s))) = Len(s) - 2
         /\ \A i \in 1 .. Len(s) - 2 : Tail(Tail(s))[i] = s[i + 2]
<1>1. s # <<>>
  OBVIOUS
<1>2. /\ Tail(s) \in Seq(S) /\ Len(Tail(s)) = Len(s) - 1
      /\ \A i \in 1 .. Len(s) - 1 : Tail(s)[i] = s[i + 1]
  BY <1>1, HeadTailProperties
<1>3. Tail(s) # <<>>
  <2>1. Len(Tail(s)) # 0
    BY <1>2, LenProperties
  <2> QED
    BY <2>1, EmptySeq, Zenon
<1>4. /\ Tail(Tail(s)) \in Seq(S) /\ Len(Tail(Tail(s))) = Len(Tail(s)) - 1
      /\ \A i \in 1 .. Len(Tail(s)) - 1 : Tail(Tail(s))[i] = Tail(s)[i + 1]
  BY <1>2, <1>3, HeadTailProperties
<1> QED
  BY <1>2, <1>4

--------------------------------------------------------------------------------
(* The type invariant *)

\* A bound that is used up further is still counted.
LEMMA SpendType ==
  ASSUME used \in [Bounds -> Nat], NEW what \in Bounds, Spend(what)
  PROVE  used' \in [Bounds -> Nat]
BY DEF Spend

\* A Redis command that goes wrong uses up one fault and harms players only.
LEMMA MayFailType ==
  ASSUME HistoryOK, NEW S \in SUBSET Players, MayFail(S)
  PROVE  used' \in [Bounds -> Nat] /\ harmed' \subseteq Players
BY SpendType DEF MayFail, Bounds, HistoryOK

\* A matchLoop that goes on with the players it holds keeps its type.
LEMMA StepType ==
  ASSUME MatchersOK, NEW n \in Nodes, NEW pc \in MatcherPCs, Step(n, pc),
         pc \in {"first", "second", "requeue", "delete", "create", "notify"}
           => matcher[n].first \in Players,
         pc \in {"first", "second", "requeue", "clean", "tell", "delete",
                 "create", "notify"} => matcher[n].second \in Players
  PROVE  MatchersOK'
BY DEF MatchersOK, Step

\* A matchLoop that takes other players in hand keeps its type.
LEMMA HoldType ==
  ASSUME MatchersOK, NEW n \in Nodes, NEW pc \in MatcherPCs,
         NEW p \in Players \union {NoPlayer}, NEW q \in Players \union {NoPlayer},
         Hold(n, pc, p, q),
         pc \in {"first", "second", "requeue", "delete", "create", "notify"}
           => p \in Players,
         pc \in {"first", "second", "requeue", "clean", "tell", "delete",
                 "create", "notify"} => q \in Players
  PROVE  MatchersOK'
BY DEF MatchersOK, Hold

\* A handler that goes on to its next command keeps its type.
LEMMA CallType ==
  ASSUME CallsOK, NEW p \in Players, NEW pc \in CallPCs, Goto(p, pc), UNCHANGED <<at, told>>
  PROVE  CallsOK'
BY DEF CallsOK, Goto

\* A handler that answers its player and ends keeps its type.
LEMMA AnswerType ==
  ASSUME CallsOK, NEW p \in Players, NEW reply \in Replies, Answer(p, reply), UNCHANGED at
  PROVE  CallsOK'
BY DEF CallsOK, Answer, Goto, Tell, CallPCs

\* Every variable stays in its type, and a matchLoop past the script holds two
\* players, whatever fails, expires or crashes (every action of Matchmaking).
LEMMA TypeStep ==
  ASSUME TypeOK, [Next]_vars
  PROVE  TypeOK'
<1> USE DEF TypeOK, redisVars, callVars, gameVars, history, Works, DropKeys
<1>1. ASSUME NEW p \in Players, Join(p) PROVE TypeOK'
  <2>1. RedisOK'
    BY <1>1 DEF RedisOK, Join
  <2>2. CallsOK'
    BY <1>1, CallType, AnswerType DEF Join, CallPCs, Replies
  <2>3. MatchersOK'
    BY <1>1 DEF Join, MatchersOK
  <2>4. GamesOK'
    BY <1>1 DEF GamesOK, Join
  <2>5. HistoryOK'
    BY <1>1, SpendType DEF HistoryOK, Join, Bounds
  <2> QED
    BY <2>1, <2>2, <2>3, <2>4, <2>5
<1>2. ASSUME NEW p \in Players, Leave(p) PROVE TypeOK'
  <2>1. RedisOK'
    BY <1>2 DEF RedisOK, Leave
  <2>2. CallsOK'
    BY <1>2, CallType DEF Leave, CallPCs
  <2>3. MatchersOK'
    BY <1>2 DEF Leave, MatchersOK
  <2>4. GamesOK'
    BY <1>2 DEF GamesOK, Leave
  <2>5. HistoryOK'
    BY <1>2, SpendType DEF HistoryOK, Leave, Bounds
  <2> QED
    BY <2>1, <2>2, <2>3, <2>4, <2>5
<1>3. ASSUME NEW p \in Players, TakeLock(p) PROVE TypeOK'
  <2>1. RedisOK'
    BY <1>3 DEF RedisOK, TakeLock
  <2>2. CallsOK'
    BY <1>3, CallType, AnswerType DEF TakeLock, CallPCs, Replies
  <2>3. MatchersOK'
    BY <1>3 DEF TakeLock, MatchersOK
  <2>4. GamesOK'
    BY <1>3 DEF GamesOK, TakeLock
  <2>5. HistoryOK'
    BY <1>3, MayFailType DEF HistoryOK, TakeLock
  <2> QED
    BY <2>1, <2>2, <2>3, <2>4, <2>5
<1>4. ASSUME NEW p \in Players, SetDetails(p) PROVE TypeOK'
  <2>1. RedisOK'
    BY <1>4 DEF RedisOK, SetDetails
  <2>2. CallsOK'
    BY <1>4, CallType DEF SetDetails, CallPCs
  <2>3. MatchersOK'
    BY <1>4 DEF SetDetails, MatchersOK
  <2>4. GamesOK'
    BY <1>4 DEF GamesOK, SetDetails
  <2>5. HistoryOK'
    BY <1>4, MayFailType DEF HistoryOK, SetDetails
  <2> QED
    BY <2>1, <2>2, <2>3, <2>4, <2>5
<1>5. ASSUME NEW p \in Players, Push(p) PROVE TypeOK'
  <2>1. RedisOK'
    BY <1>5 DEF RedisOK, Push
  <2>2. CallsOK'
    BY <1>5, CallType DEF Push, CallPCs, CallsOK
  <2>3. MatchersOK'
    BY <1>5 DEF Push, MatchersOK
  <2>4. GamesOK'
    BY <1>5 DEF GamesOK, Push
  <2>5. HistoryOK'
    BY <1>5, MayFailType DEF HistoryOK, Push
  <2> QED
    BY <2>1, <2>2, <2>3, <2>4, <2>5
<1>6. ASSUME NEW p \in Players, Joined(p) PROVE TypeOK'
  <2>1. RedisOK'
    BY <1>6 DEF RedisOK, Joined
  <2>2. CallsOK'
    BY <1>6, AnswerType DEF Joined, Replies
  <2>3. MatchersOK'
    BY <1>6 DEF Joined, MatchersOK
  <2>4. GamesOK'
    BY <1>6 DEF GamesOK, Joined
  <2>5. HistoryOK'
    BY <1>6 DEF HistoryOK, Joined
  <2> QED
    BY <2>1, <2>2, <2>3, <2>4, <2>5
<1>7. ASSUME NEW p \in Players, Undo(p) PROVE TypeOK'
  <2>1. RedisOK'
    BY <1>7 DEF RedisOK, Undo
  <2>2. CallsOK'
    BY <1>7, AnswerType DEF Undo, Replies, CallsOK
  <2>3. MatchersOK'
    BY <1>7 DEF Undo, MatchersOK
  <2>4. GamesOK'
    BY <1>7 DEF GamesOK, Undo
  <2>5. HistoryOK'
    BY <1>7, MayFailType DEF HistoryOK, Undo
  <2> QED
    BY <2>1, <2>2, <2>3, <2>4, <2>5
<1>8. ASSUME NEW p \in Players, TakeOut(p) PROVE TypeOK'
  <2>1. RedisOK'
    BY <1>8, RemoveFirstIsSeq DEF RedisOK, TakeOut
  <2>2. CallsOK'
    BY <1>8, CallType, AnswerType DEF TakeOut, CallPCs, Replies, CallsOK
  <2>3. MatchersOK'
    BY <1>8 DEF TakeOut, MatchersOK
  <2>4. GamesOK'
    BY <1>8 DEF GamesOK, TakeOut
  <2>5. HistoryOK'
    BY <1>8, MayFailType DEF HistoryOK, TakeOut
  <2> QED
    BY <2>1, <2>2, <2>3, <2>4, <2>5
<1>9. ASSUME NEW p \in Players, Forget(p) PROVE TypeOK'
  <2>1. RedisOK'
    BY <1>9 DEF RedisOK, Forget
  <2>2. CallsOK'
    BY <1>9, AnswerType DEF Forget, Replies, CallsOK
  <2>3. MatchersOK'
    BY <1>9 DEF Forget, MatchersOK
  <2>4. GamesOK'
    BY <1>9 DEF GamesOK, Forget
  <2>5. HistoryOK'
    BY <1>9, MayFailType DEF HistoryOK, Forget, Lapse
  <2> QED
    BY <2>1, <2>2, <2>3, <2>4, <2>5
<1>10. ASSUME NEW p \in Players, LockExpires(p) PROVE TypeOK'
  <2>1. RedisOK'
    BY <1>10 DEF RedisOK, LockExpires
  <2>2. CallsOK'
    BY <1>10 DEF LockExpires, CallsOK
  <2>3. MatchersOK'
    BY <1>10 DEF LockExpires, MatchersOK
  <2>4. GamesOK'
    BY <1>10 DEF GamesOK, LockExpires
  <2>5. HistoryOK'
    BY <1>10, SpendType DEF Bounds, HistoryOK, LockExpires, Lapse
  <2> QED
    BY <2>1, <2>2, <2>3, <2>4, <2>5
<1>11. ASSUME NEW p \in Players, DetailsExpire(p) PROVE TypeOK'
  <2>1. RedisOK'
    BY <1>11 DEF RedisOK, DetailsExpire
  <2>2. CallsOK'
    BY <1>11 DEF DetailsExpire, CallsOK
  <2>3. MatchersOK'
    BY <1>11 DEF DetailsExpire, MatchersOK
  <2>4. GamesOK'
    BY <1>11 DEF GamesOK, DetailsExpire
  <2>5. HistoryOK'
    BY <1>11 DEF HistoryOK, DetailsExpire
  <2> QED
    BY <2>1, <2>2, <2>3, <2>4, <2>5
<1>12. ASSUME NEW p \in Players, NEW n \in Nodes, Dial(p, n) PROVE TypeOK'
  <2>1. RedisOK'
    BY <1>12 DEF RedisOK, Dial
  <2>2. CallsOK'
    BY <1>12 DEF Dial, CallsOK
  <2>3. MatchersOK'
    BY <1>12 DEF Dial, MatchersOK
  <2>4. GamesOK'
    BY <1>12 DEF GamesOK, Dial
  <2>5. HistoryOK'
    BY <1>12 DEF HistoryOK, Dial
  <2> QED
    BY <2>1, <2>2, <2>3, <2>4, <2>5
<1>13. ASSUME NEW n \in Nodes, TryLock(n) PROVE TypeOK'
  <2>1. RedisOK'
    BY <1>13 DEF RedisOK, TryLock
  <2>2. CallsOK'
    BY <1>13 DEF TryLock, CallsOK
  <2>3. MatchersOK'
    BY <1>13, StepType DEF TryLock, MatchersOK, MatcherPCs
  <2>4. GamesOK'
    BY <1>13 DEF GamesOK, TryLock
  <2>5. HistoryOK'
    BY <1>13, MayFailType DEF HistoryOK, TryLock
  <2> QED
    BY <2>1, <2>2, <2>3, <2>4, <2>5
<1>14. ASSUME NEW n \in Nodes, Pop(n) PROVE TypeOK'
  <2>1. RedisOK'
    <3>1. Len(queue) >= 2 => Tail(Tail(queue)) \in Seq(Players)
      BY PopIsSeq DEF RedisOK
    <3>2. queue' \in Seq(Players)
      BY <1>14, <3>1 DEF RedisOK, Pop
    <3> QED
      BY <1>14, <3>2 DEF RedisOK, Pop
  <2>2. CallsOK'
    BY <1>14 DEF Pop, CallsOK
  <2>3. MatchersOK'
    <3>1. CASE Step(n, "release")
      BY <3>1, StepType DEF MatcherPCs
    <3>2. CASE Len(queue) >= 2 /\ Hold(n, "first", queue[1], queue[2])
      <4>1. queue[1] \in Players /\ queue[2] \in Players
        BY <3>2 DEF RedisOK
      <4> QED
        BY <3>2, <4>1, HoldType DEF MatcherPCs
    <3>3. CASE UNCHANGED matcher
      BY <3>3 DEF MatchersOK
    <3> QED
      BY <1>14, <3>1, <3>2, <3>3 DEF Pop
  <2>4. GamesOK'
    BY <1>14 DEF GamesOK, Pop
  <2>5. HistoryOK'
    <3>1. {} \in SUBSET Players /\ (Len(queue) >= 2 => {queue[1], queue[2]} \in SUBSET Players)
      BY DEF RedisOK
    <3>2. used' \in [Bounds -> Nat] /\ harmed' \subseteq Players
      BY <1>14, <3>1, MayFailType DEF Pop, HistoryOK
    <3> QED
      BY <1>14, <3>2 DEF Pop, HistoryOK
  <2> QED
    BY <2>1, <2>2, <2>3, <2>4, <2>5
<1>15. ASSUME NEW n \in Nodes, ReadFirst(n) PROVE TypeOK'
  <2>1. RedisOK'
    BY <1>15 DEF RedisOK, ReadFirst
  <2>2. CallsOK'
    BY <1>15 DEF ReadFirst, CallsOK
  <2>3. MatchersOK'
    BY <1>15, StepType, HoldType DEF ReadFirst, MatchersOK, MatcherPCs, Reject, RedisOK
  <2>4. GamesOK'
    BY <1>15 DEF GamesOK, ReadFirst
  <2>5. HistoryOK'
    <3>1. {matcher[n].first} \in SUBSET Players
      BY <1>15 DEF ReadFirst, MatchersOK
    <3>2. used' \in [Bounds -> Nat] /\ harmed' \subseteq Players
      BY <1>15, <3>1, MayFailType DEF ReadFirst, HistoryOK, Missing
    <3> QED
      BY <1>15, <3>2 DEF ReadFirst, HistoryOK
  <2> QED
    BY <2>1, <2>2, <2>3, <2>4, <2>5
<1>16. ASSUME NEW n \in Nodes, ReadSecond(n) PROVE TypeOK'
  <2>1. RedisOK'
    BY <1>16 DEF RedisOK, ReadSecond
  <2>2. CallsOK'
    BY <1>16 DEF ReadSecond, CallsOK
  <2>3. MatchersOK'
    BY <1>16, StepType, HoldType DEF ReadSecond, MatchersOK, MatcherPCs, Reject, RedisOK
  <2>4. GamesOK'
    BY <1>16 DEF GamesOK, ReadSecond
  <2>5. HistoryOK'
    <3>1. {matcher[n].second} \in SUBSET Players
      BY <1>16 DEF ReadSecond, MatchersOK
    <3>2. used' \in [Bounds -> Nat] /\ harmed' \subseteq Players
      BY <1>16, <3>1, MayFailType DEF ReadSecond, HistoryOK, Missing
    <3> QED
      BY <1>16, <3>2 DEF ReadSecond, HistoryOK
  <2> QED
    BY <2>1, <2>2, <2>3, <2>4, <2>5
<1>17. ASSUME NEW n \in Nodes, Requeue(n) PROVE TypeOK'
  <2>1. RedisOK'
    <3>1. Append(queue, matcher[n].first) \in Seq(Players)
      BY <1>17 DEF RedisOK, MatchersOK, Requeue
    <3> QED
      BY <1>17, <3>1 DEF RedisOK, Requeue
  <2>2. CallsOK'
    BY <1>17 DEF Requeue, CallsOK
  <2>3. MatchersOK'
    BY <1>17, HoldType, ZenonT(40) DEF Requeue, MatchersOK, MatcherPCs
  <2>4. GamesOK'
    BY <1>17 DEF GamesOK, Requeue
  <2>5. HistoryOK'
    <3>1. {matcher[n].first} \in SUBSET Players
      BY <1>17 DEF Requeue, MatchersOK
    <3>2. used' \in [Bounds -> Nat] /\ harmed' \subseteq Players
      BY <1>17, <3>1, MayFailType DEF Requeue, HistoryOK
    <3> QED
      BY <1>17, <3>2 DEF Requeue, HistoryOK
  <2> QED
    BY <2>1, <2>2, <2>3, <2>4, <2>5
<1>18. ASSUME NEW n \in Nodes, Clean(n) PROVE TypeOK'
  <2>1. RedisOK'
    BY <1>18 DEF RedisOK, Clean
  <2>2. CallsOK'
    BY <1>18 DEF Clean, CallsOK
  <2>3. MatchersOK'
    BY <1>18, StepType DEF Clean, MatchersOK, MatcherPCs
  <2>4. GamesOK'
    BY <1>18 DEF GamesOK, Clean
  <2>5. HistoryOK'
    <3>1. {matcher[n].second} \in SUBSET Players
      BY <1>18 DEF Clean, MatchersOK
    <3>2. used' \in [Bounds -> Nat] /\ harmed' \subseteq Players
      BY <1>18, <3>1, MayFailType DEF Clean, HistoryOK
    <3> QED
      BY <1>18, <3>2 DEF Clean, HistoryOK
  <2> QED
    BY <2>1, <2>2, <2>3, <2>4, <2>5
<1>19. ASSUME NEW n \in Nodes, NotifyPlayerError(n) PROVE TypeOK'
  <2>1. RedisOK'
    BY <1>19 DEF RedisOK, NotifyPlayerError
  <2>2. CallsOK'
    BY <1>19 DEF NotifyPlayerError, CallsOK, Tell, Replies, MatchersOK
  <2>3. MatchersOK'
    BY <1>19, HoldType, ZenonT(40) DEF NotifyPlayerError, MatchersOK, MatcherPCs
  <2>4. GamesOK'
    BY <1>19 DEF GamesOK, NotifyPlayerError
  <2>5. HistoryOK'
    BY <1>19 DEF HistoryOK, NotifyPlayerError
  <2> QED
    BY <2>1, <2>2, <2>3, <2>4, <2>5
<1>20. ASSUME NEW n \in Nodes, DeleteKeys(n) PROVE TypeOK'
  <2>1. RedisOK'
    BY <1>20 DEF RedisOK, DeleteKeys
  <2>2. CallsOK'
    BY <1>20 DEF DeleteKeys, CallsOK
  <2>3. MatchersOK'
    BY <1>20, StepType DEF DeleteKeys, MatchersOK, MatcherPCs
  <2>4. GamesOK'
    BY <1>20 DEF GamesOK, DeleteKeys
  <2>5. HistoryOK'
    <3>1. {matcher[n].first, matcher[n].second} \in SUBSET Players
      BY <1>20 DEF DeleteKeys, MatchersOK
    <3>2. used' \in [Bounds -> Nat] /\ harmed' \subseteq Players
      BY <1>20, <3>1, MayFailType DEF DeleteKeys, HistoryOK
    <3> QED
      BY <1>20, <3>2 DEF DeleteKeys, HistoryOK
  <2> QED
    BY <2>1, <2>2, <2>3, <2>4, <2>5
<1>21. ASSUME NEW n \in Nodes, CreateGame(n) PROVE TypeOK'
  <2>1. RedisOK'
    BY <1>21 DEF RedisOK, CreateGame
  <2>2. CallsOK'
    BY <1>21 DEF CreateGame, CallsOK
  <2>3. MatchersOK'
    BY <1>21, StepType DEF CreateGame, MatchersOK, MatcherPCs
  <2>4. GamesOK'
    BY <1>21 DEF GamesOK, CreateGame, Game, MatchersOK
  <2>5. HistoryOK'
    BY <1>21 DEF HistoryOK, CreateGame
  <2> QED
    BY <2>1, <2>2, <2>3, <2>4, <2>5
<1>22. ASSUME NEW n \in Nodes, Notify(n) PROVE TypeOK'
  <2>1. RedisOK'
    BY <1>22 DEF RedisOK, Notify
  <2>2. CallsOK'
    BY <1>22 DEF Notify, CallsOK, Replies
  <2>3. MatchersOK'
    <3>1. Hold(n, "release", NoPlayer, NoPlayer)
      BY <1>22 DEF Notify
    <3> QED
      BY <3>1, HoldType DEF MatcherPCs
  <2>4. GamesOK'
    BY <1>22 DEF GamesOK, Notify
  <2>5. HistoryOK'
    BY <1>22 DEF HistoryOK, Notify
  <2> QED
    BY <2>1, <2>2, <2>3, <2>4, <2>5
<1>23. ASSUME NEW n \in Nodes, Release(n) PROVE TypeOK'
  <2>1. RedisOK'
    BY <1>23 DEF RedisOK, Release
  <2>2. CallsOK'
    BY <1>23 DEF Release, CallsOK
  <2>3. MatchersOK'
    BY <1>23, HoldType DEF Release, MatchersOK, MatcherPCs
  <2>4. GamesOK'
    BY <1>23 DEF GamesOK, Release
  <2>5. HistoryOK'
    BY <1>23, MayFailType DEF HistoryOK, Release
  <2> QED
    BY <2>1, <2>2, <2>3, <2>4, <2>5
<1>24. ASSUME NEW n \in Nodes, Crash(n) PROVE TypeOK'
  <2>1. RedisOK'
    BY <1>24 DEF RedisOK, Crash
  <2>2. CallsOK'
    BY <1>24 DEF Crash, CallsOK, CallPCs, Replies
  <2>3. MatchersOK'
    BY <1>24 DEF Crash, MatchersOK, MatcherPCs, Idle
  <2>4. GamesOK'
    BY <1>24 DEF GamesOK, Crash
  <2>5. HistoryOK'
    BY <1>24, SpendType DEF HistoryOK, Crash, Bounds
  <2> QED
    BY <2>1, <2>2, <2>3, <2>4, <2>5
<1>25. ASSUME NEW g \in games, HandleGameEnd(g) PROVE TypeOK'
  <2>1. RedisOK'
    BY <1>25 DEF RedisOK, HandleGameEnd
  <2>2. CallsOK'
    BY <1>25 DEF HandleGameEnd, CallsOK, Replies
  <2>3. MatchersOK'
    BY <1>25 DEF HandleGameEnd, MatchersOK
  <2>4. GamesOK'
    BY <1>25 DEF GamesOK, HandleGameEnd, Game
  <2>5. HistoryOK'
    BY <1>25 DEF HistoryOK, HandleGameEnd
  <2> QED
    BY <2>1, <2>2, <2>3, <2>4, <2>5
<1>26. ASSUME MatchLockExpires PROVE TypeOK'
  <2>1. RedisOK'
    BY <1>26 DEF RedisOK, MatchLockExpires
  <2>2. CallsOK'
    BY <1>26 DEF MatchLockExpires, CallsOK
  <2>3. MatchersOK'
    BY <1>26 DEF MatchLockExpires, MatchersOK
  <2>4. GamesOK'
    BY <1>26 DEF GamesOK, MatchLockExpires
  <2>5. HistoryOK'
    BY <1>26 DEF HistoryOK, MatchLockExpires
  <2> QED
    BY <2>1, <2>2, <2>3, <2>4, <2>5
<1>27. ASSUME UNCHANGED vars PROVE TypeOK'
  BY <1>27 DEF vars, RedisOK, CallsOK, MatchersOK, GamesOK, HistoryOK
<1> QED
  BY <1>1, <1>2, <1>3, <1>4, <1>5, <1>6, <1>7, <1>8, <1>9, <1>10, <1>11,
     <1>12, <1>13, <1>14, <1>15, <1>16, <1>17, <1>18, <1>19, <1>20, <1>21, <1>22, <1>23, <1>24, <1>25, <1>26, <1>27
     DEF Next, Call, TryMatch

\* Queue, keys, handlers, matchLoops, sessions and playerGames hold what their
\* declarations in matchmaker.go, hub.go and manager.go allow, after any steps.
THEOREM TypeCorrect == Spec => []TypeOK
<1>1. ASSUME Init PROVE TypeOK
  <2>1. RedisOK
    BY <1>1, EmptySeq DEF Init, Fresh, RedisOK
  <2>2. CallsOK
    BY <1>1 DEF Init, Fresh, CallsOK, CallPCs, Replies
  <2>3. MatchersOK
    BY <1>1 DEF Init, Fresh, MatchersOK, MatcherPCs, Idle
  <2>4. GamesOK
    BY <1>1 DEF Init, Fresh, GamesOK
  <2>5. HistoryOK
    BY <1>1 DEF Init, Fresh, HistoryOK
  <2> QED
    BY <2>1, <2>2, <2>3, <2>4, <2>5 DEF TypeOK
<1> QED
  BY <1>1, TypeStep, PTL DEF Spec

--------------------------------------------------------------------------------
(* An entry of playerGames names a live session *)

\* A step keeps PlayerGamesValid: CreateGame, handleGameEnd and a crash write the map.
LEMMA PlayerGamesStep ==
  ASSUME TypeOK, PlayerGamesValid, [Next]_vars
  PROVE  PlayerGamesValid'
<1> SUFFICES ASSUME NEW n \in Nodes, NEW p \in Players, playerGames'[n][p] # 0
             PROVE  \E g \in games' :
                      g.id = playerGames'[n][p] /\ g.node = n /\ InGame(p, g)
  BY DEF PlayerGamesValid, InGame
<1> DEFINE Names(g, k) == g.id = k /\ g.node = n /\ InGame(p, g)
<1>1. ASSUME playerGames[n][p] # 0
      PROVE  \E g \in games : Names(g, playerGames[n][p])
  BY <1>1 DEF PlayerGamesValid
<1>2. ASSUME UNCHANGED <<games, playerGames>>
      PROVE  \E g \in games' : Names(g, playerGames'[n][p])
  BY <1>1, <1>2
<1>3. ASSUME NEW m \in Nodes, CreateGame(m)
      PROVE  \E g \in games' : Names(g, playerGames'[n][p])
  <2> DEFINE new == [id |-> created + 1, node |-> m,
                     first |-> matcher[m].first, second |-> matcher[m].second]
  <2>1. games' = games \union {new}
    BY <1>3 DEF CreateGame
  <2>2. /\ matcher[m].first \in Players /\ matcher[m].second \in Players
        /\ playerGames \in [Nodes -> [Players -> Nat]]
    BY <1>3 DEF CreateGame, TypeOK, MatchersOK, GamesOK
  <2>3. playerGames' = [playerGames EXCEPT ![m][matcher[m].first] = created + 1,
                                           ![m][matcher[m].second] = created + 1]
    BY <1>3 DEF CreateGame
  <2>4. CASE m = n /\ p \in {matcher[m].first, matcher[m].second}
    <3>1. playerGames'[n][p] = created + 1
      BY <2>2, <2>3, <2>4
    <3>2. Names(new, created + 1)
      BY <2>4 DEF InGame
    <3> QED
      BY <2>1, <3>1, <3>2
  <2>5. CASE ~(m = n /\ p \in {matcher[m].first, matcher[m].second})
    <3>1. playerGames'[n][p] = playerGames[n][p]
      BY <2>2, <2>3, <2>5
    <3> HIDE DEF Names
    <3> QED
      BY <1>1, <2>1, <3>1
  <2> QED
    BY <2>4, <2>5
<1>4. ASSUME NEW h \in games, HandleGameEnd(h)
      PROVE  \E g \in games' : Names(g, playerGames'[n][p])
  <2>1. /\ h.node \in Nodes /\ h.first \in Players /\ h.second \in Players
        /\ playerGames \in [Nodes -> [Players -> Nat]]
    BY DEF TypeOK, GamesOK, Game
  <2>2. /\ games' = games \ {h}
        /\ playerGames' = [playerGames EXCEPT ![h.node][h.first] = 0,
                                              ![h.node][h.second] = 0]
    BY <1>4 DEF HandleGameEnd
  <2>3. ~(h.node = n /\ InGame(p, h)) /\ playerGames'[n][p] = playerGames[n][p]
    BY <2>1, <2>2 DEF InGame
  <2>4. PICK g \in games : Names(g, playerGames[n][p])
    BY <1>1, <2>3
  <2>5. g # h
    BY <2>3, <2>4
  <2> HIDE DEF Names
  <2> QED
    BY <2>2, <2>3, <2>4, <2>5
<1>5. ASSUME NEW m \in Nodes, Crash(m)
      PROVE  \E g \in games' : Names(g, playerGames'[n][p])
  <2>1. playerGames \in [Nodes -> [Players -> Nat]]
    BY DEF TypeOK, GamesOK
  <2>2. /\ games' = {g \in games : g.node # m}
        /\ playerGames' = [playerGames EXCEPT ![m] = [q \in Players |-> 0]]
    BY <1>5 DEF Crash
  <2>3. n # m /\ playerGames'[n][p] = playerGames[n][p]
    BY <2>1, <2>2
  <2>4. PICK g \in games : Names(g, playerGames[n][p])
    BY <1>1, <2>3
  <2> QED
    BY <2>2, <2>3, <2>4
<1>6. CASE UNCHANGED <<games, playerGames>>
  BY <1>2, <1>6
<1>7. \/ UNCHANGED <<games, playerGames>>
      \/ \E m \in Nodes : CreateGame(m) \/ Crash(m)
      \/ \E h \in games : HandleGameEnd(h)
  <2> USE DEF redisVars, callVars, gameVars, history
  <2>1. ASSUME NEW q \in Players, Join(q) \/ Leave(q) \/ Call(q) \/ LockExpires(q)
                                  \/ DetailsExpire(q)
        PROVE  UNCHANGED <<games, playerGames>>
    BY <2>1 DEF Call, Join, Leave, TakeLock, SetDetails, Push, Joined, Undo, TakeOut,
                Forget, LockExpires, DetailsExpire
  <2>2. ASSUME NEW m \in Nodes, TryMatch(m)
        PROVE  UNCHANGED <<games, playerGames>> \/ CreateGame(m)
    BY <2>2 DEF TryMatch, TryLock, Pop, ReadFirst, ReadSecond, Requeue, Clean,
                NotifyPlayerError, DeleteKeys, Notify, Release
  <2>3. ASSUME NEW q \in Players, NEW m \in Nodes, Dial(q, m)
        PROVE  UNCHANGED <<games, playerGames>>
    BY <2>3 DEF Dial
  <2>4. CASE MatchLockExpires \/ UNCHANGED vars
    BY <2>4 DEF MatchLockExpires, vars
  <2> QED
    BY <2>1, <2>2, <2>3, <2>4 DEF Next
<1> QED
  BY <1>3, <1>4, <1>5, <1>6, <1>7

\* Whatever fails, expires or crashes, an entry of playerGames names a session that
\* lives on that node and has that player (CreateGame, handleGameEnd).
THEOREM PlayerGamesCorrect == Spec => []PlayerGamesValid
<1>1. Init => PlayerGamesValid
  BY DEF Init, Fresh, PlayerGamesValid
<1> QED
  BY <1>1, TypeCorrect, PlayerGamesStep, PTL DEF Spec

--------------------------------------------------------------------------------
(* The list mm:queue, about one player *)

OnceIn(p, s) == \A i, j \in 1..Len(s) : s[i] = p /\ s[j] = p => i = j

\* RPUSH adds the player at the end and disturbs nobody else.
LEMMA AppendOnce ==
  ASSUME NEW s \in Seq(Players), NEW x \in Players
  PROVE  /\ Range(Append(s, x)) = Range(s) \union {x}
         /\ \A p : OnceIn(p, s) /\ (p = x => p \notin Range(s)) => OnceIn(p, Append(s, x))
<1> DEFINE t == Append(s, x)
<1>1. /\ DOMAIN s = 1 .. Len(s) /\ Len(s) \in Nat
      /\ DOMAIN t = 1 .. Len(s) + 1 /\ Len(t) = Len(s) + 1
      /\ \A i \in 1 .. Len(s) : t[i] = s[i]
      /\ t[Len(s) + 1] = x
  BY AppendProperties, LenProperties
<1> HIDE DEF t
<1>2. Range(t) = Range(s) \union {x}
  BY <1>1 DEF Range
<1>3. ASSUME NEW p, OnceIn(p, s), p = x => p \notin Range(s)
      PROVE  OnceIn(p, t)
  <2> SUFFICES ASSUME NEW i \in 1 .. Len(t), NEW j \in 1 .. Len(t),
                      t[i] = p, t[j] = p, i < j
               PROVE  FALSE
    BY <1>1 DEF OnceIn
  <2>1. i \in 1 .. Len(s) /\ s[i] = p
    BY <1>1
  <2>2. CASE j = Len(s) + 1
    BY <1>1, <1>3, <2>1, <2>2 DEF Range
  <2>3. CASE j # Len(s) + 1
    BY <1>1, <1>3, <2>1, <2>3 DEF OnceIn
  <2> QED
    BY <2>2, <2>3
<1> QED
  BY <1>2, <1>3 DEF t

\* The script takes two from the list: all others stay in it, and whoever was in it
\* once is taken or stays, not both.
LEMMA PopOnce ==
  ASSUME NEW s \in Seq(Players), Len(s) >= 2
  PROVE  /\ s[1] \in Range(s) /\ s[2] \in Range(s)
         /\ Range(s) = Range(Tail(Tail(s))) \union {s[1], s[2]}
         /\ \A p : OnceIn(p, s) =>
              /\ OnceIn(p, Tail(Tail(s)))
              /\ p \in {s[1], s[2]} => s[1] # s[2] /\ p \notin Range(Tail(Tail(s)))
<1> DEFINE t == Tail(Tail(s))
<1>1. /\ DOMAIN s = 1 .. Len(s) /\ Len(s) \in Nat
      /\ DOMAIN t = 1 .. Len(s) - 2 /\ Len(t) = Len(s) - 2
      /\ \A i \in 1 .. Len(s) - 2 : t[i] = s[i + 2]
  BY PopIsSeq, LenProperties
<1> HIDE DEF t
<1>2. s[1] \in Range(s) /\ s[2] \in Range(s)
  BY <1>1 DEF Range
<1>3. ASSUME NEW i \in 1 .. Len(s), i # 1, i # 2 PROVE s[i] \in Range(t)
  <2>1. i - 2 \in 1 .. Len(s) - 2 /\ t[i - 2] = s[i]
    BY <1>1, <1>3
  <2> QED
    BY <1>1, <2>1 DEF Range
<1>4. Range(s) = Range(t) \union {s[1], s[2]}
  <2>1. Range(s) \subseteq Range(t) \union {s[1], s[2]}
    BY <1>1, <1>3 DEF Range
  <2>2. Range(t) \subseteq Range(s)
    BY <1>1 DEF Range
  <2> QED
    BY <1>2, <2>1, <2>2
<1>5. ASSUME NEW p, OnceIn(p, s) PROVE OnceIn(p, t)
  <2> SUFFICES ASSUME NEW i \in 1 .. Len(t), NEW j \in 1 .. Len(t), t[i] = p, t[j] = p
               PROVE  i = j
    BY DEF OnceIn
  <2>1. i + 2 \in 1 .. Len(s) /\ j + 2 \in 1 .. Len(s) /\ s[i + 2] = p /\ s[j + 2] = p
    BY <1>1
  <2>2. i + 2 = j + 2
    BY <1>5, <2>1 DEF OnceIn
  <2> QED
    BY <2>2
<1>6. ASSUME NEW p, OnceIn(p, s), p \in {s[1], s[2]}
      PROVE  s[1] # s[2] /\ p \notin Range(t)
  <2>1. 1 \in 1 .. Len(s) /\ 2 \in 1 .. Len(s)
    BY <1>1
  <2>2. s[1] # s[2]
    BY <1>6, <2>1 DEF OnceIn
  <2>3. \A i \in 1 .. Len(s) - 2 : t[i] # p
    BY <1>1, <1>6, <2>1 DEF OnceIn
  <2> QED
    BY <1>1, <2>2, <2>3 DEF Range
<1> QED
  BY <1>2, <1>4, <1>5, <1>6 DEF t

\* A part of a list.
LEMMA PartIs ==
  ASSUME NEW s \in Seq(Players), NEW l \in Nat \ {0}, NEW h \in 0 .. Len(s), l <= h + 1
  PROVE  /\ SubSeq(s, l, h) \in Seq(Players)
         /\ Len(SubSeq(s, l, h)) = h - l + 1
         /\ \A i \in 1 .. h - l + 1 : SubSeq(s, l, h)[i] = s[l + i - 1]
<1>1. l \in Int /\ h \in Int /\ Len(s) \in Nat
  BY LenProperties
<1>2. \A i \in l .. h : s[i] \in Players
  <2> SUFFICES ASSUME NEW i \in l .. h PROVE s[i] \in Players
    OBVIOUS
  <2>1. i \in 1 .. Len(s)
    BY <1>1
  <2> QED
    BY <2>1, ElementOfSeq
<1>3. /\ SubSeq(s, l, h) \in Seq(Players)
      /\ Len(SubSeq(s, l, h)) = IF l <= h THEN h - l + 1 ELSE 0
      /\ \A i \in 1 .. h - l + 1 : SubSeq(s, l, h)[i] = s[l + i - 1]
  BY <1>1, <1>2, SubSeqProperties
<1>4. (IF l <= h THEN h - l + 1 ELSE 0) = h - l + 1
  BY <1>1
<1> QED
  BY <1>3, <1>4, Zenon

\* LREM takes one entry out: those before it stay where they are, those after it move
\* up by one.
LEMMA RemoveFirstIs ==
  ASSUME NEW s \in Seq(Players), NEW p, \E i \in 1 .. Len(s) : s[i] = p
  PROVE  \E k \in 1 .. Len(s) :
           /\ s[k] = p /\ Len(RemoveFirst(s, p)) = Len(s) - 1
           /\ \A i \in 1 .. k - 1 : RemoveFirst(s, p)[i] = s[i]
           /\ \A i \in k .. Len(s) - 1 : RemoveFirst(s, p)[i] = s[i + 1]
<1> DEFINE I == {i \in 1 .. Len(s) : s[i] = p}
           k == Min(I)
           a == SubSeq(s, 1, k - 1)
           b == SubSeq(s, k + 1, Len(s))
<1>1. I # {} /\ I \in SUBSET Nat
  OBVIOUS
<1>2. k \in I
  BY <1>1, MinIsMember
<1>3. SelectInSeq(s, LAMBDA v : v = p) = k
  BY <1>1 DEF SelectInSeq
<1>4. RemoveFirst(s, p) = a \o b
  BY <1>3 DEF RemoveFirst, RemoveAt
<1>5. k \in 1 .. Len(s) /\ s[k] = p /\ Len(s) \in Nat
  BY <1>2, LenProperties
<1> HIDE DEF I, k
<1>6. a \in Seq(Players) /\ Len(a) = k - 1 /\ \A i \in 1 .. k - 1 : a[i] = s[i]
  <2>1. \A h \in 0 .. Len(s) :
          /\ SubSeq(s, 1, h) \in Seq(Players) /\ Len(SubSeq(s, 1, h)) = h
          /\ \A i \in 1 .. h : SubSeq(s, 1, h)[i] = s[i]
    BY PartIs
  <2>2. k - 1 \in 0 .. Len(s)
    BY <1>5
  <2> QED
    BY <2>1, <2>2, Zenon
<1>7. /\ b \in Seq(Players) /\ Len(b) = Len(s) - k
      /\ \A i \in 1 .. Len(s) - k : b[i] = s[k + i]
  <2>1. k + 1 \in Nat \ {0} /\ Len(s) \in 0 .. Len(s) /\ k + 1 <= Len(s) + 1
    BY <1>5
  <2>2. /\ b \in Seq(Players) /\ Len(b) = Len(s) - (k + 1) + 1
        /\ \A i \in 1 .. Len(s) - (k + 1) + 1 : b[i] = s[k + 1 + i - 1]
    BY <2>1, PartIs
  <2> HIDE DEF b
  <2> QED
    BY <1>5, <2>2
<1> HIDE DEF a, b
<1>8. Len(a \o b) = Len(s) - 1
  <2>1. Len(a \o b) = Len(a) + Len(b)
    BY <1>6, <1>7, ConcatProperties
  <2> QED
    BY <1>5, <1>6, <1>7, <2>1
<1>9. \A i \in 1 .. k - 1 : (a \o b)[i] = s[i]
  BY <1>5, <1>6, <1>7
<1>10. \A i \in k .. Len(s) - 1 : (a \o b)[i] = s[i + 1]
  <2> SUFFICES ASSUME NEW i \in k .. Len(s) - 1 PROVE (a \o b)[i] = s[i + 1]
    OBVIOUS
  <2>1. (a \o b)[i] = b[i - k + 1]
    BY <1>5, <1>6, <1>7
  <2>2. i - k + 1 \in 1 .. Len(s) - k /\ k + (i - k + 1) = i + 1
    BY <1>5
  <2> QED
    BY <1>7, <2>1, <2>2
<1> QED
  BY <1>4, <1>5, <1>8, <1>9, <1>10

\* LREM takes nobody else out and puts nobody in, in one place or in several.
LEMMA RemoveFirstOnce ==
  ASSUME NEW s \in Seq(Players), NEW x
  PROVE  /\ Range(RemoveFirst(s, x)) \subseteq Range(s)
         /\ Range(s) \ {x} \subseteq Range(RemoveFirst(s, x))
         /\ \A p : OnceIn(p, s) => OnceIn(p, RemoveFirst(s, x))
<1>1. CASE \E i \in 1 .. Len(s) : s[i] = x
  <2> DEFINE t == RemoveFirst(s, x)
  <2>1. PICK k \in 1 .. Len(s) :
          /\ s[k] = x /\ Len(t) = Len(s) - 1
          /\ \A i \in 1 .. k - 1 : t[i] = s[i]
          /\ \A i \in k .. Len(s) - 1 : t[i] = s[i + 1]
    BY <1>1, RemoveFirstIs
  <2>2. /\ t \in Seq(Players) /\ DOMAIN t = 1 .. Len(s) - 1
        /\ Len(s) \in Nat /\ DOMAIN s = 1 .. Len(s)
    BY <2>1, RemoveFirstIsSeq, LenProperties
  <2> HIDE DEF t
  <2> DEFINE f(i) == IF i < k THEN i ELSE i + 1
  <2>3. \A i \in 1 .. Len(s) - 1 : f(i) \in 1 .. Len(s) /\ t[i] = s[f(i)]
    <3> SUFFICES ASSUME NEW i \in 1 .. Len(s) - 1
                 PROVE  f(i) \in 1 .. Len(s) /\ t[i] = s[f(i)]
      OBVIOUS
    <3>1. CASE i < k
      BY <2>1, <2>2, <3>1
    <3>2. CASE ~(i < k)
      BY <2>1, <2>2, <3>2
    <3> QED
      BY <3>1, <3>2
  <2>4. Range(t) \subseteq Range(s)
    BY <2>2, <2>3 DEF Range
  <2>5. ASSUME NEW i \in 1 .. Len(s), s[i] # x PROVE s[i] \in Range(t)
    <3>1. CASE i < k
      <4>1. i \in 1 .. Len(s) - 1 /\ t[i] = s[i]
        BY <2>1, <2>2, <3>1
      <4> QED
        BY <2>2, <4>1 DEF Range
    <3>2. CASE ~(i < k)
      <4>1. i # k
        BY <2>1, <2>5
      <4>2. i - 1 \in k .. Len(s) - 1 /\ i - 1 \in 1 .. Len(s) - 1 /\ (i - 1) + 1 = i
        BY <2>2, <3>2, <4>1
      <4>3. t[i - 1] = s[i]
        BY <2>1, <4>2
      <4> QED
        BY <2>2, <4>2, <4>3 DEF Range
    <3> QED
      BY <3>1, <3>2
  <2>6. Range(s) \ {x} \subseteq Range(t)
    BY <2>2, <2>5 DEF Range
  <2>7. ASSUME NEW p, OnceIn(p, s) PROVE OnceIn(p, t)
    <3> SUFFICES ASSUME NEW i \in 1 .. Len(t), NEW j \in 1 .. Len(t), t[i] = p, t[j] = p
                 PROVE  i = j
      BY DEF OnceIn
    <3>1. /\ i \in 1 .. Len(s) - 1 /\ j \in 1 .. Len(s) - 1
          /\ f(i) \in 1 .. Len(s) /\ f(j) \in 1 .. Len(s) /\ s[f(i)] = p /\ s[f(j)] = p
      BY <2>1, <2>3
    <3>2. f(i) = f(j)
      BY <2>7, <3>1, Zenon DEF OnceIn
    <3> QED
      BY <2>2, <3>1, <3>2
  <2> QED
    BY <2>4, <2>6, <2>7 DEF t
<1>2. CASE ~ \E i \in 1 .. Len(s) : s[i] = x
  BY <1>2 DEF RemoveFirst
<1> QED
  BY <1>1, <1>2

--------------------------------------------------------------------------------
(* What holds of a player whom nothing harmed *)

PairPCs == {"first", "second", "requeue", "delete"}

Pair(n) == {matcher[n].first, matcher[n].second}

\* The players of Held(n), as a set.
HeldSet(n) ==
  IF matcher[n].pc \in PairPCs THEN Pair(n)
  ELSE IF matcher[n].pc = "clean" THEN {matcher[n].second} ELSE {}

Waits(p) == p \in Range(queue) \/ \E n \in Nodes : p \in HeldSet(n)

\* In one place, and there once.
Once(p) ==
  /\ OnceIn(p, queue)
  /\ \A n \in Nodes : p \in HeldSet(n) =>
       /\ p \notin Range(queue) /\ matcher[n].first # matcher[n].second
       /\ \A o \in Nodes \ {n} : p \notin HeldSet(o)

\* The lock comes before the entry and goes with it, and the details are there when
\* the entry is.
Entering(p) == call[p] \in {"details", "push"}

KeysInv(p) ==
  /\ Entering(p) => ~Waits(p)
  /\ (Entering(p) \/ Waits(p)) => p \in locks \union lapsed
  /\ p \in locks => (Waits(p) \/ Entering(p) \/ call[p] = "forget")
  /\ call[p] \notin {"undoLock", "undoBoth"}
  /\ (call[p] = "push" \/ (call[p] = "answer" /\ Waits(p))) => p \in details

\* No matchLoop rejects a player whose handler has not answered him yet.
RejectInv(p) ==
  call[p] = "answer" =>
    \A n \in Nodes : matcher[n].pc \in {"requeue", "clean"} => matcher[n].second # p

Placed(p) ==
  \/ Waits(p)
  \/ \E n \in Nodes : matcher[n].pc = "create" /\ p \in Pair(n)
  \/ \E g \in games : InGame(p, g)

Kept(p) ==
  \/ Placed(p)
  \/ \E n \in Nodes : matcher[n].pc = "tell" /\ p = matcher[n].second
  \/ \E n \in Nodes : matcher[n].pc = "notify" /\ p \in Pair(n)

KeptInv(p) ==
  /\ call[p] = "answer" => Placed(p)
  /\ (told[p] = "queue_joined" /\ call[p] \in {"idle", "lock", "remove"}) => Kept(p)

Sound(p) == Once(p) /\ KeysInv(p) /\ RejectInv(p) /\ KeptInv(p)

\* The players of a list of two, one or none.
LEMMA PairRange ==
  ASSUME NEW p, NEW q
  PROVE  Range(<<p, q>>) = {p, q} /\ Range(<<p>>) = {p} /\ Range(<< >>) = {}
BY DEF Range

\* Held, a list, holds the players of HeldSet.
LEMMA HeldRange ==
  ASSUME NEW n \in Nodes
  PROVE  Range(Held(n)) = HeldSet(n)
<1>1. CASE matcher[n].pc \in PairPCs
  <2>1. Held(n) = <<matcher[n].first, matcher[n].second>>
    BY <1>1 DEF Held, PairPCs
  <2> QED
    BY <1>1, <2>1, PairRange, ZenonT(40) DEF HeldSet, Pair
<1>2. CASE matcher[n].pc = "clean"
  <2>1. Held(n) = <<matcher[n].second>> /\ matcher[n].pc \notin PairPCs
    BY <1>2 DEF Held, PairPCs
  <2> QED
    BY <1>2, <2>1, PairRange DEF HeldSet
<1>3. CASE matcher[n].pc \notin PairPCs /\ matcher[n].pc # "clean"
  <2>1. Held(n) = << >>
    BY <1>3 DEF Held, PairPCs
  <2> QED
    BY <1>3, <2>1, PairRange DEF HeldSet
<1> QED
  BY <1>1, <1>2, <1>3

LEMMA WaitsIsInLine ==
  ASSUME NEW p
  PROVE  Waits(p) <=> InLine(p)
BY HeldRange DEF Waits, InLine

\* What the matchLoop of a node does to it, and that it leaves the others alone.
LEMMA StepIs ==
  ASSUME MatchersOK, NEW n \in Nodes, NEW pc, Step(n, pc)
  PROVE  /\ matcher'[n].pc = pc
         /\ matcher'[n].first = matcher[n].first /\ matcher'[n].second = matcher[n].second
         /\ \A o \in Nodes \ {n} : matcher'[o] = matcher[o]
BY DEF MatchersOK, Step

LEMMA HoldIs ==
  ASSUME MatchersOK, NEW n \in Nodes, NEW pc, NEW p, NEW q, Hold(n, pc, p, q)
  PROVE  /\ matcher'[n].pc = pc /\ matcher'[n].first = p /\ matcher'[n].second = q
         /\ \A o \in Nodes \ {n} : matcher'[o] = matcher[o]
BY DEF MatchersOK, Hold

\* A player who moves between the queue and one matchLoop is still in one place.
LEMMA StillOnce ==
  ASSUME NEW n \in Nodes, NEW p, Once(p),
         \A o \in Nodes \ {n} : matcher'[o] = matcher[o],
         OnceIn(p, queue'),
         p \in Range(queue') => (p \in Range(queue) \/ p \in HeldSet(n)),
         p \in HeldSet(n)' =>
           /\ p \in HeldSet(n) \/ p \in Range(queue)
           /\ p \notin Range(queue') /\ matcher'[n].first # matcher'[n].second
  PROVE  Once(p)' /\ (Waits(p)' => Waits(p))
<1>1. \A o \in Nodes \ {n} : HeldSet(o)' = HeldSet(o)
  BY DEF HeldSet, Pair
<1>2. Waits(p)' => Waits(p)
  BY <1>1 DEF Waits
<1>3. ASSUME NEW m \in Nodes, p \in HeldSet(m)'
      PROVE  /\ p \notin Range(queue') /\ matcher'[m].first # matcher'[m].second
             /\ \A o \in Nodes \ {m} : p \notin HeldSet(o)'
  <2>1. CASE m = n
    BY <1>1, <1>3, <2>1 DEF Once
  <2>2. CASE m # n
    <3>1. p \in HeldSet(m) /\ matcher'[m] = matcher[m]
      BY <1>1, <1>3, <2>2
    <3>2. /\ p \notin Range(queue) /\ matcher[m].first # matcher[m].second
          /\ \A o \in Nodes \ {m} : p \notin HeldSet(o)
      BY <3>1 DEF Once
    <3>3. p \notin Range(queue') /\ p \notin HeldSet(n)'
      BY <2>2, <3>2
    <3> QED
      BY <1>1, <3>1, <3>2, <3>3
  <2> QED
    BY <2>1, <2>2
<1>4. Once(p)'
  BY <1>3 DEF Once
<1> QED
  BY <1>2, <1>4

\* A matchLoop deletes the keys of those only whom it lets go of.
LEMMA KeysStand ==
  ASSUME NEW p, KeysInv(p), UNCHANGED <<call, lapsed>>,
         Waits(p)' => Waits(p),
         locks' \subseteq locks, details' \subseteq details,
         (p \in locks \ locks' \/ p \in details \ details') => (Waits(p) /\ ~Waits(p)'),
         (Waits(p) /\ ~Waits(p)') => p \notin locks'
  PROVE  KeysInv(p)'
BY DEF KeysInv, Entering

--------------------------------------------------------------------------------
(* The steps of a matchLoop *)

\* The command of a step that harms nobody else worked for everyone else.
LEMMA HarmGrows ==
  ASSUME NEW S, MayFail(S)
  PROVE  harmed \subseteq harmed' /\ S \subseteq harmed'
BY DEF MayFail

LEMMA MatcherFrame ==
  ASSUME NEW n \in Nodes, TryMatch(n)
  PROVE  /\ UNCHANGED <<call, lapsed>> /\ harmed \subseteq harmed'
         /\ locks' \subseteq locks /\ details' \subseteq details
BY DEF TryMatch, TryLock, Pop, ReadFirst, ReadSecond, Missing, Requeue, Clean,
       NotifyPlayerError, DeleteKeys, CreateGame, Notify, Release, callVars, redisVars,
       history, Works, DropKeys, MayFail

LetsGo(n, p) ==
  /\ Once(p)' /\ (Waits(p)' => Waits(p))
  /\ (p \in locks \ locks' \/ p \in details \ details') => (Waits(p) /\ ~Waits(p)')
  /\ (Waits(p) /\ ~Waits(p)') =>
       /\ p \notin locks'
       /\ \/ /\ matcher[n].pc = "clean" /\ matcher[n].second = p
             /\ matcher'[n].pc = "tell" /\ matcher'[n].second = p
          \/ matcher'[n].pc = "create" /\ p \in Pair(n)'

\* A matchLoop lets go of a player only together with his keys, when it rejects him
\* or is about to create his game; and he is in one place all the time.
LEMMA LineStep ==
  ASSUME TypeOK, NEW n \in Nodes, TryMatch(n),
         NEW p \in Players, p \notin harmed', Once(p)
  PROVE  LetsGo(n, p)
<1> USE DEF redisVars, callVars, gameVars, history, Works
<1>0. /\ queue \in Seq(Players) /\ MatchersOK
      /\ OnceIn(p, queue)
  BY DEF TypeOK, RedisOK, Once
<1>a. \A S : MayFail(S) => S \subseteq harmed'
  BY HarmGrows
\* The keys stay, and he waits in the queue or with this matchLoop as before.
<1>b. ASSUME UNCHANGED <<locks, details>>,
             \A o \in Nodes \ {n} : matcher'[o] = matcher[o],
             OnceIn(p, queue'),
             (p \in Range(queue') \/ p \in HeldSet(n)')
               <=> (p \in Range(queue) \/ p \in HeldSet(n)),
             p \in HeldSet(n)' =>
               p \notin Range(queue') /\ matcher'[n].first # matcher'[n].second
      PROVE  LetsGo(n, p)
  <2>1. Once(p)' /\ (Waits(p)' => Waits(p))
    BY <1>b, StillOnce
  <2>2. Waits(p) => Waits(p)'
    <3>1. \A o \in Nodes \ {n} : HeldSet(o)' = HeldSet(o)
      BY <1>b DEF HeldSet, Pair
    <3> QED
      BY <1>b, <3>1 DEF Waits
  <2> QED
    BY <1>b, <2>1, <2>2 DEF LetsGo
\* Nothing moves.
<1>c. ASSUME UNCHANGED <<locks, details, queue>>,
             \A o \in Nodes \ {n} : matcher'[o] = matcher[o],
             HeldSet(n) = {}, HeldSet(n)' = {}
      PROVE  LetsGo(n, p)
  BY <1>0, <1>b, <1>c
<1>1. CASE TryLock(n)
  <2>1. /\ UNCHANGED <<locks, details, queue>> /\ matcher[n].pc = "idle"
        /\ matcher'[n].pc \in {"idle", "pop"}
        /\ \A o \in Nodes \ {n} : matcher'[o] = matcher[o]
    BY <1>0, <1>1, StepIs DEF TryLock
  <2>2. HeldSet(n) = {} /\ HeldSet(n)' = {}
    BY <2>1 DEF HeldSet, PairPCs
  <2> QED
    BY <1>c, <2>1, <2>2
<1>2. CASE Pop(n)
  <2>1. UNCHANGED <<locks, details>> /\ HeldSet(n) = {}
    BY <1>2 DEF Pop, HeldSet, PairPCs
  <2>2. CASE UNCHANGED queue /\ Step(n, "release")
    <3>1. /\ matcher'[n].pc = "release"
          /\ \A o \in Nodes \ {n} : matcher'[o] = matcher[o]
      BY <1>0, <2>2, StepIs
    <3>2. HeldSet(n)' = {}
      BY <3>1 DEF HeldSet, PairPCs
    <3> QED
      BY <1>c, <2>1, <2>2, <3>1, <3>2
  <2>3. CASE /\ Len(queue) >= 2 /\ queue' = Tail(Tail(queue))
             /\ Hold(n, "first", queue[1], queue[2])
    <3>1. /\ matcher'[n].pc = "first"
          /\ matcher'[n].first = queue[1] /\ matcher'[n].second = queue[2]
          /\ \A o \in Nodes \ {n} : matcher'[o] = matcher[o]
      BY <1>0, <2>3, HoldIs
    <3>2. HeldSet(n)' = {queue[1], queue[2]}
      BY <3>1 DEF HeldSet, PairPCs, Pair
    <3>3. /\ OnceIn(p, queue') /\ Range(queue) = Range(queue') \union {queue[1], queue[2]}
          /\ p \in {queue[1], queue[2]} => queue[1] # queue[2] /\ p \notin Range(queue')
      BY <1>0, <2>3, PopOnce
    <3> QED
      BY <1>b, <2>1, <3>1, <3>2, <3>3
  <2>4. CASE /\ Len(queue) >= 2 /\ queue' = Tail(Tail(queue))
             /\ p \notin {queue[1], queue[2]}
             /\ (Step(n, "release") \/ UNCHANGED matcher)
    <3>1. /\ matcher'[n].pc \in {"release", "pop"}
          /\ \A o \in Nodes \ {n} : matcher'[o] = matcher[o]
      BY <1>0, <1>2, <2>4, StepIs DEF Pop
    <3>2. HeldSet(n)' = {}
      BY <3>1 DEF HeldSet, PairPCs
    <3>3. OnceIn(p, queue') /\ Range(queue) = Range(queue') \union {queue[1], queue[2]}
      BY <1>0, <2>4, PopOnce
    <3> QED
      BY <1>b, <2>1, <2>4, <3>1, <3>2, <3>3
  <2> QED
    BY <1>2, <1>a, <2>2, <2>3, <2>4 DEF Pop
<1>3. CASE ReadFirst(n) \/ ReadSecond(n)
  <2>1. /\ UNCHANGED <<locks, details, queue>>
        /\ matcher[n].pc \in {"first", "second"}
        /\ matcher'[n].pc \in {"second", "delete", "requeue"}
        /\ \/ /\ matcher'[n].first = matcher[n].first
              /\ matcher'[n].second = matcher[n].second
           \/ /\ matcher'[n].first = matcher[n].second
              /\ matcher'[n].second = matcher[n].first
        /\ \A o \in Nodes \ {n} : matcher'[o] = matcher[o]
    BY <1>0, <1>3, StepIs, HoldIs DEF ReadFirst, ReadSecond, Reject
  <2>2. HeldSet(n)' = HeldSet(n) /\ HeldSet(n) = Pair(n)
    BY <2>1 DEF HeldSet, PairPCs, Pair
  <2>3. p \in HeldSet(n) => p \notin Range(queue) /\ matcher[n].first # matcher[n].second
    BY DEF Once
  <2> QED
    BY <1>0, <1>b, <2>1, <2>2, <2>3
<1>4. CASE Requeue(n)
  <2> DEFINE f == matcher[n].first
             s == matcher[n].second
  <2>1. /\ UNCHANGED <<locks, details>> /\ matcher[n].pc = "requeue" /\ f \in Players
        /\ HeldSet(n) = {f, s}
    BY <1>0, <1>4 DEF Requeue, HeldSet, PairPCs, Pair, MatchersOK
  <2>2. p \in {f, s} => p \notin Range(queue) /\ f # s
    BY <2>1 DEF Once
  <2>3. /\ Range(Append(queue, f)) = Range(queue) \union {f}
        /\ OnceIn(p, Append(queue, f))
    BY <1>0, <2>1, <2>2, AppendOnce
  <2>4. CASE queue' = Append(queue, f) /\ Hold(n, "clean", NoPlayer, s)
    <3>1. /\ matcher'[n].pc = "clean" /\ matcher'[n].second = s
          /\ matcher'[n].first = NoPlayer
          /\ \A o \in Nodes \ {n} : matcher'[o] = matcher[o]
      BY <1>0, <2>4, HoldIs
    <3>2. HeldSet(n)' = {s}
      BY <3>1 DEF HeldSet, PairPCs
    <3>3. p \in HeldSet(n)' => p \notin Range(queue') /\ NoPlayer # s
      BY <2>2, <2>3, <2>4, <3>2, ConstantsAssumption
    <3> HIDE DEF f, s
    <3> QED
      BY <1>b, <2>1, <2>3, <2>4, <3>1, <3>2, <3>3
  <2>5. CASE /\ p # f /\ queue' \in {queue, Append(queue, f)}
             /\ (Hold(n, "clean", NoPlayer, s) \/ UNCHANGED matcher)
    <3>1. /\ \/ matcher'[n] = matcher[n]
             \/ /\ matcher'[n].pc = "clean" /\ matcher'[n].second = s
                /\ matcher'[n].first = NoPlayer
          /\ \A o \in Nodes \ {n} : matcher'[o] = matcher[o]
      BY <1>0, <2>5, HoldIs
    <3>2. HeldSet(n)' = {s} \/ HeldSet(n)' = {f, s}
      BY <2>1, <3>1 DEF HeldSet, PairPCs, Pair
    <3>3. p \in HeldSet(n)' =>
            p \notin Range(queue') /\ matcher'[n].first # matcher'[n].second
      BY <2>2, <2>3, <2>5, <3>1, <3>2, ConstantsAssumption
    <3>4. OnceIn(p, queue') /\ (p \in Range(queue') <=> p \in Range(queue))
      BY <1>0, <2>3, <2>5
    <3> HIDE DEF f, s
    <3> QED
      BY <1>b, <2>1, <2>5, <3>1, <3>2, <3>3, <3>4
  <2> QED
    BY <1>4, <1>a, <2>4, <2>5 DEF Requeue
\* The two steps at which it lets go of them.
<1>d. ASSUME NEW S, HeldSet(n) = S, HeldSet(n)' = {}, DropKeys(S), UNCHANGED queue,
             \A o \in Nodes \ {n} : matcher'[o] = matcher[o]
      PROVE  /\ Once(p)' /\ (Waits(p)' => Waits(p))
             /\ p \in S => (Waits(p) /\ ~Waits(p)')
             /\ p \notin S => (Waits(p) => Waits(p)')
             /\ p \in S => p \notin locks'
             /\ p \in locks \ locks' => p \in S
             /\ p \in details \ details' => p \in S
  <2>1. Once(p)' /\ (Waits(p)' => Waits(p))
    BY <1>0, <1>d, StillOnce
  <2>2. \A o \in Nodes \ {n} : HeldSet(o)' = HeldSet(o)
    BY <1>d DEF HeldSet, Pair
  <2>3. p \in S => Waits(p) /\ ~Waits(p)'
    BY <1>d, <2>2 DEF Once, Waits
  <2>4. p \notin S => (Waits(p) => Waits(p)')
    BY <1>d, <2>2 DEF Waits
  <2> QED
    BY <1>d, <2>1, <2>3, <2>4 DEF DropKeys
\* Others than those whose DEL went wrong do not notice it.
<1>e. ASSUME NEW S, p \notin S, HeldSet(n) = S, HeldSet(n)' \in {{}, S},
             DropKeys(S) \/ UNCHANGED <<locks, details>>, UNCHANGED queue,
             \A o \in Nodes \ {n} : matcher'[o] = matcher[o]
      PROVE  LetsGo(n, p)
  <2>1. Once(p)' /\ (Waits(p)' => Waits(p))
    BY <1>0, <1>e, StillOnce
  <2>2. \A o \in Nodes \ {n} : HeldSet(o)' = HeldSet(o)
    BY <1>e DEF HeldSet, Pair
  <2>3. Waits(p) => Waits(p)'
    BY <1>e, <2>2 DEF Waits
  <2> QED
    BY <1>e, <2>1, <2>3 DEF DropKeys, LetsGo
<1>5. CASE Clean(n)
  <2> DEFINE s == matcher[n].second
  <2>1. UNCHANGED queue /\ matcher[n].pc = "clean" /\ HeldSet(n) = {s}
    BY <1>5 DEF Clean, HeldSet, PairPCs
  <2>2. CASE DropKeys({s}) /\ Step(n, "tell")
    <3>1. /\ matcher'[n].pc = "tell" /\ matcher'[n].second = s
          /\ \A o \in Nodes \ {n} : matcher'[o] = matcher[o]
      BY <1>0, <2>2, StepIs
    <3>2. HeldSet(n)' = {}
      BY <3>1 DEF HeldSet, PairPCs
    <3>3. /\ Once(p)' /\ (Waits(p)' => Waits(p))
          /\ p \in {s} => (Waits(p) /\ ~Waits(p)')
          /\ p \notin {s} => (Waits(p) => Waits(p)')
          /\ p \in {s} => p \notin locks'
          /\ p \in locks \ locks' => p \in {s}
          /\ p \in details \ details' => p \in {s}
      BY <1>d, <2>1, <2>2, <3>1, <3>2
    <3> QED
      BY <2>1, <3>1, <3>3 DEF LetsGo
  <2>3. CASE /\ p # s /\ (DropKeys({s}) \/ UNCHANGED <<locks, details>>)
             /\ (Step(n, "tell") \/ UNCHANGED matcher)
    <3>1. /\ matcher'[n].pc = "tell" \/ matcher'[n] = matcher[n]
          /\ \A o \in Nodes \ {n} : matcher'[o] = matcher[o]
      BY <1>0, <2>3, StepIs
    <3>2. HeldSet(n)' \in {{}, {s}}
      BY <2>1, <3>1 DEF HeldSet, PairPCs
    <3> QED
      BY <1>e, <2>1, <2>3, <3>1, <3>2
  <2> QED
    BY <1>5, <1>a, <2>2, <2>3 DEF Clean
<1>6. CASE DeleteKeys(n)
  <2>1. UNCHANGED queue /\ matcher[n].pc = "delete" /\ HeldSet(n) = Pair(n)
    BY <1>6 DEF DeleteKeys, HeldSet, PairPCs
  <2>2. CASE DropKeys(Pair(n)) /\ Step(n, "create")
    <3>1. /\ matcher'[n].pc = "create" /\ Pair(n)' = Pair(n)
          /\ \A o \in Nodes \ {n} : matcher'[o] = matcher[o]
      BY <1>0, <2>2, StepIs DEF Pair
    <3>2. HeldSet(n)' = {}
      BY <3>1 DEF HeldSet, PairPCs
    <3>3. /\ Once(p)' /\ (Waits(p)' => Waits(p))
          /\ p \in Pair(n) => (Waits(p) /\ ~Waits(p)')
          /\ p \notin Pair(n) => (Waits(p) => Waits(p)')
          /\ p \in Pair(n) => p \notin locks'
          /\ p \in locks \ locks' => p \in Pair(n)
          /\ p \in details \ details' => p \in Pair(n)
      BY <1>d, <2>1, <2>2, <3>1, <3>2
    <3> QED
      BY <3>1, <3>3 DEF LetsGo
  <2>3. CASE /\ p \notin Pair(n) /\ (DropKeys(Pair(n)) \/ UNCHANGED <<locks, details>>)
             /\ (Step(n, "create") \/ UNCHANGED matcher)
    <3>1. /\ matcher'[n].pc = "create" \/ matcher'[n] = matcher[n]
          /\ \A o \in Nodes \ {n} : matcher'[o] = matcher[o]
      BY <1>0, <2>3, StepIs
    <3>2. HeldSet(n)' \in {{}, Pair(n)}
      BY <2>1, <3>1 DEF HeldSet, PairPCs, Pair
    <3> QED
      BY <1>e, <2>1, <2>3, <3>1, <3>2
  <2> QED
    BY <1>6, <1>a, <2>2, <2>3 DEF DeleteKeys, Pair
<1>7. CASE NotifyPlayerError(n) \/ CreateGame(n) \/ Notify(n) \/ Release(n)
  <2>1. /\ UNCHANGED <<locks, details, queue>>
        /\ matcher[n].pc \in {"tell", "create", "notify", "release"}
        /\ matcher'[n].pc \in {"release", "notify", "idle"}
        /\ \A o \in Nodes \ {n} : matcher'[o] = matcher[o]
    BY <1>0, <1>7, StepIs, HoldIs DEF NotifyPlayerError, CreateGame, Notify, Release
  <2>2. HeldSet(n) = {} /\ HeldSet(n)' = {}
    BY <2>1 DEF HeldSet, PairPCs
  <2> QED
    BY <1>c, <2>1, <2>2
<1> QED
  BY <1>1, <1>2, <1>3, <1>4, <1>5, <1>6, <1>7 DEF TryMatch

\* A matchLoop rejects a player whose details it does not find: they are there as long
\* as his handler has not answered.
LEMMA RejectStep ==
  ASSUME TypeOK, NEW n \in Nodes, TryMatch(n),
         NEW p \in Players, p \notin harmed', KeysInv(p), RejectInv(p)
  PROVE  RejectInv(p)'
<1> USE DEF redisVars, callVars, gameVars, history, Works
<1>0. MatchersOK /\ UNCHANGED call
  BY MatcherFrame DEF TypeOK
<1> SUFFICES ASSUME call[p] = "answer", NEW m \in Nodes,
                    matcher'[m].pc \in {"requeue", "clean"}, matcher'[m].second = p
             PROVE  FALSE
  BY <1>0 DEF RejectInv
<1>a. \A S : MayFail(S) => S \subseteq harmed'
  BY HarmGrows
<1>1. \A k \in Nodes : matcher[k].pc \in {"requeue", "clean"} => matcher[k].second # p
  BY DEF RejectInv
<1>2. p \in HeldSet(n) => p \in details
  BY DEF KeysInv, Waits
<1>3. CASE ReadFirst(n) \/ ReadSecond(n)
  <2>1. CASE Step(n, "second") \/ Step(n, "delete")
    BY <1>0, <1>1, <2>1, StepIs
  <2>2. ASSUME NEW q, NEW r, Reject(n, q, r), Missing(r), r \in HeldSet(n) PROVE FALSE
    <3>1. r # p
      BY <1>a, <1>2, <2>2 DEF Missing
    <3>2. matcher'[n].second = r /\ \A o \in Nodes \ {n} : matcher'[o] = matcher[o]
      BY <1>0, <2>2, HoldIs DEF Reject
    <3> QED
      BY <1>1, <3>1, <3>2
  <2>3. matcher[n].first \in HeldSet(n) /\ matcher[n].second \in HeldSet(n)
    BY <1>3 DEF ReadFirst, ReadSecond, HeldSet, PairPCs, Pair
  <2> QED
    BY <1>3, <2>1, <2>2, <2>3 DEF ReadFirst, ReadSecond
<1>4. CASE Requeue(n)
  <2>1. /\ \A o \in Nodes \ {n} : matcher'[o] = matcher[o]
        /\ matcher[n].pc = "requeue" /\ matcher'[n].second = matcher[n].second
    BY <1>0, <1>4, HoldIs DEF Requeue
  <2> QED
    BY <1>1, <2>1
<1>5. CASE ~(ReadFirst(n) \/ ReadSecond(n) \/ Requeue(n))
  <2>1. /\ \A o \in Nodes \ {n} : matcher'[o] = matcher[o]
        /\ matcher'[n].pc \in {"requeue", "clean"} => matcher'[n] = matcher[n]
    BY <1>0, <1>5, StepIs, HoldIs
       DEF TryMatch, TryLock, Pop, Clean, NotifyPlayerError, DeleteKeys, CreateGame,
           Notify, Release
  <2> QED
    BY <1>1, <2>1
<1> QED
  BY <1>3, <1>4, <1>5

\* A matchLoop that rejects a player, or tells both of their game, says so.
LEMMA KeptMatcher ==
  ASSUME TypeOK, NEW n \in Nodes, TryMatch(n),
         NEW p \in Players, LetsGo(n, p), RejectInv(p), KeptInv(p)
  PROVE  KeptInv(p)'
<1> USE DEF redisVars, callVars, gameVars, history, Works
<1>0. MatchersOK /\ UNCHANGED call /\ told \in [Players -> Replies]
  BY MatcherFrame DEF TypeOK, CallsOK
<1>1. /\ \A o \in Nodes \ {n} : matcher'[o] = matcher[o]
      /\ matcher[n].pc = "create" => CreateGame(n)
      /\ matcher[n].pc = "tell" => NotifyPlayerError(n)
      /\ matcher[n].pc = "notify" => Notify(n)
  <2>1. \A o \in Nodes \ {n} : matcher'[o] = matcher[o]
    BY <1>0, StepIs, HoldIs
       DEF TryMatch, TryLock, Pop, ReadFirst, ReadSecond, Reject, Requeue, Clean,
           NotifyPlayerError, DeleteKeys, CreateGame, Notify, Release
  <2>2. /\ matcher[n].pc = "create" => CreateGame(n)
        /\ matcher[n].pc = "tell" => NotifyPlayerError(n)
        /\ matcher[n].pc = "notify" => Notify(n)
    BY DEF TryMatch, TryLock, Pop, ReadFirst, ReadSecond, Requeue, Clean,
           NotifyPlayerError, DeleteKeys, CreateGame, Notify, Release
  <2> QED
    BY <2>1, <2>2
<1>2. games \subseteq games'
  <2>1. CreateGame(n) \/ UNCHANGED games
    BY DEF TryMatch, TryLock, Pop, ReadFirst, ReadSecond, Requeue, Clean,
           NotifyPlayerError, DeleteKeys, Notify, Release
  <2>2. CreateGame(n) => games \subseteq games'
    BY DEF CreateGame
  <2> QED
    BY <2>1, <2>2
<1>3. matcher[n].pc = "create" /\ p \in Pair(n) => \E g \in games' : InGame(p, g)
  <2> DEFINE new == [id |-> created + 1, node |-> n,
                     first |-> matcher[n].first, second |-> matcher[n].second]
  <2>1. CreateGame(n) => new \in games'
    BY DEF CreateGame
  <2>2. p \in Pair(n) => InGame(p, new)
    BY DEF Pair, InGame
  <2> HIDE DEF new
  <2> QED
    BY <1>1, <2>1, <2>2
<1>4. told'[p] = "queue_joined" =>
        /\ told[p] = "queue_joined"
        /\ matcher[n].pc = "tell" => p # matcher[n].second
        /\ matcher[n].pc = "notify" => p \notin Pair(n)
  <2>1. CASE NotifyPlayerError(n)
    BY <1>0, <2>1 DEF NotifyPlayerError, Tell
  <2>2. CASE Notify(n)
    BY <1>0, <2>2 DEF Notify, Pair
  <2>3. CASE UNCHANGED told
    BY <1>1, <2>1, <2>2, <2>3
  <2>4. NotifyPlayerError(n) \/ Notify(n) \/ UNCHANGED told
    BY DEF TryMatch, TryLock, Pop, ReadFirst, ReadSecond, Requeue, Clean,
           NotifyPlayerError, DeleteKeys, CreateGame, Notify, Release
  <2> QED
    BY <2>1, <2>2, <2>3, <2>4
<1>5. (\E m \in Nodes : matcher[m].pc = "create" /\ p \in Pair(m)) => Placed(p)'
  <2> SUFFICES ASSUME NEW m \in Nodes, matcher[m].pc = "create", p \in Pair(m)
               PROVE  Placed(p)'
    OBVIOUS
  <2>1. CASE m = n
    BY <1>3, <2>1 DEF Placed, InGame
  <2>2. CASE m # n
    <3>1. matcher'[m].pc = "create" /\ p \in Pair(m)'
      BY <1>1, <2>2 DEF Pair
    <3> QED
      BY <3>1 DEF Placed
  <2> QED
    BY <2>1, <2>2
<1>6. (\E g \in games : InGame(p, g)) => Placed(p)'
  BY <1>2 DEF Placed, InGame
<1>7. Waits(p) => Placed(p)' \/ (/\ matcher[n].pc = "clean" /\ matcher[n].second = p
                                 /\ matcher'[n].pc = "tell" /\ matcher'[n].second = p)
  BY DEF LetsGo, Placed
<1>8. ASSUME call[p] = "answer" PROVE Placed(p)'
  BY <1>5, <1>6, <1>7, <1>8 DEF KeptInv, Placed, RejectInv
<1>9. ASSUME told'[p] = "queue_joined", call[p] \in {"idle", "lock", "remove"}
      PROVE  Kept(p)'
  <2>1. Kept(p)
    BY <1>4, <1>9 DEF KeptInv
  <2>2. CASE Placed(p)
    BY <1>5, <1>6, <1>7, <2>2 DEF Placed, Kept
  <2>3. CASE \E m \in Nodes : matcher[m].pc = "tell" /\ p = matcher[m].second
    BY <1>1, <1>4, <1>9, <2>3 DEF Kept
  <2>4. CASE \E m \in Nodes : matcher[m].pc = "notify" /\ p \in Pair(m)
    BY <1>1, <1>4, <1>9, <2>4 DEF Kept, Pair
  <2> QED
    BY <2>1, <2>2, <2>3, <2>4 DEF Kept
<1> QED
  BY <1>0, <1>8, <1>9 DEF KeptInv

LEMMA MatcherStep ==
  ASSUME TypeOK, NEW n \in Nodes, TryMatch(n),
         NEW p \in Players, p \notin harmed', Sound(p)
  PROVE  Sound(p)'
<1>1. LetsGo(n, p)
  BY LineStep DEF Sound
<1>2. KeysInv(p)'
  BY <1>1, MatcherFrame, KeysStand DEF Sound, LetsGo
<1> QED
  BY <1>1, <1>2, RejectStep, KeptMatcher DEF Sound, LetsGo

--------------------------------------------------------------------------------
(* The steps of the handlers, of the keys and of the games *)

\* Where the queue and the matchLoops stand still, players stay where they are.
LEMMA StandStill ==
  ASSUME NEW p, UNCHANGED <<queue, matcher>>
  PROVE  /\ Once(p)' <=> Once(p)
         /\ Waits(p)' <=> Waits(p)
         /\ UNCHANGED games => (Placed(p)' <=> Placed(p)) /\ (Kept(p)' <=> Kept(p))
<1>1. \A n \in Nodes : HeldSet(n)' = HeldSet(n) /\ Pair(n)' = Pair(n)
  BY DEF HeldSet, Pair
<1>2. Once(p)' <=> Once(p)
  BY <1>1 DEF Once, OnceIn
<1>3. Waits(p)' <=> Waits(p)
  BY <1>1 DEF Waits
<1>4. ASSUME UNCHANGED games
      PROVE  (Placed(p)' <=> Placed(p)) /\ (Kept(p)' <=> Kept(p))
  <2>1. Placed(p)' <=> Placed(p)
    BY <1>1, <1>3, <1>4 DEF Placed, InGame
  <2> QED
    BY <1>1, <2>1 DEF Kept
<1> QED
  BY <1>2, <1>3, <1>4

\* The keys and the handler of a player whom a step leaves alone.
LeftAlone(p) ==
  /\ call'[p] = call[p] /\ told'[p] = told[p]
  /\ (p \in locks' <=> p \in locks) /\ (p \in details' <=> p \in details)
  /\ (p \in lapsed' <=> p \in lapsed)

LEMMA AloneStep ==
  ASSUME NEW p, LeftAlone(p), UNCHANGED <<queue, matcher, games>>, Sound(p)
  PROVE  Sound(p)'
<1>1. Once(p)' /\ KeysInv(p)'
  BY StandStill DEF LeftAlone, Sound, KeysInv, Entering
<1>2. RejectInv(p)'
  BY DEF LeftAlone, Sound, RejectInv
<1>3. KeptInv(p)'
  BY StandStill DEF LeftAlone, Sound, KeptInv
<1> QED
  BY <1>1, <1>2, <1>3 DEF Sound

\* EnqueuePlayer and DequeuePlayer, for the player himself, up to the queue.
LEMMA OwnStep ==
  ASSUME TypeOK, NEW p \in Players, p \notin harmed', Sound(p),
         Join(p) \/ Leave(p) \/ SetDetails(p) \/ Joined(p) \/ Undo(p) \/ Forget(p)
         \/ LockExpires(p) \/ DetailsExpire(p)
  PROVE  Sound(p)'
<1> USE DEF redisVars, callVars, gameVars, history, Works
<1>0. /\ call \in [Players -> CallPCs] /\ told \in [Players -> Replies]
      /\ UNCHANGED <<queue, matcher, games>>
  BY DEF TypeOK, CallsOK, Join, Leave, SetDetails, Joined, Undo, Forget, LockExpires,
         DetailsExpire
<1>1. /\ Once(p)' /\ (Waits(p)' <=> Waits(p))
      /\ (Placed(p)' <=> Placed(p)) /\ (Kept(p)' <=> Kept(p))
      /\ Placed(p) => Kept(p)
  BY <1>0, StandStill DEF Sound, Kept
<1>2. ~MayFail({p})
  BY HarmGrows
<1>3. call'[p] = "answer" => call[p] = "answer"
  BY <1>0, <1>2 DEF Join, Leave, SetDetails, Joined, Undo, Forget, LockExpires,
                    DetailsExpire, Answer, Goto
<1>4. RejectInv(p)'
  BY <1>0, <1>3 DEF Sound, RejectInv
<1>5. KeysInv(p)' /\ KeptInv(p)'
  <2> USE DEF Sound, KeysInv, KeptInv, Entering
  <2>1. CASE Join(p)
    <3>1. /\ UNCHANGED <<locks, details, lapsed>> /\ call[p] = "idle"
          /\ \/ call'[p] = "idle" /\ told'[p] = "already_in_game"
             \/ call'[p] = "lock" /\ told'[p] = told[p]
      BY <1>0, <2>1 DEF Join, Answer, Goto, Tell
    <3> QED
      BY <1>1, <3>1
  <2>2. CASE Leave(p)
    <3>1. /\ UNCHANGED <<locks, details, lapsed>> /\ call[p] = "idle"
          /\ call'[p] = "remove" /\ told'[p] = told[p]
      BY <1>0, <2>2 DEF Leave, Goto
    <3> QED
      BY <1>1, <3>1
  <2>3. CASE SetDetails(p)
    <3>1. /\ UNCHANGED <<locks, lapsed>> /\ p \in details' /\ call[p] = "details"
          /\ call'[p] = "push"
      BY <1>0, <1>2, <2>3 DEF SetDetails, Goto
    <3> QED
      BY <1>1, <3>1
  <2>4. CASE Joined(p)
    <3>1. /\ UNCHANGED <<locks, details, lapsed>> /\ call[p] = "answer"
          /\ call'[p] = "idle"
      BY <1>0, <2>4 DEF Joined, Answer, Goto
    <3> QED
      BY <1>1, <3>1
  <2>5. CASE Undo(p)
    BY <2>5 DEF Undo
  <2>6. CASE Forget(p)
    <3>1. /\ p \notin locks' /\ call'[p] = "idle" /\ told'[p] = "queue_left"
          /\ Waits(p) => p \in lapsed'
      BY <1>0, <1>2, <2>6, WaitsIsInLine DEF Forget, DropKeys, Lapse, Answer, Goto, Tell
    <3> QED
      BY <1>1, <3>1
  <2>7. CASE LockExpires(p)
    <3>1. /\ UNCHANGED <<details, call, told>> /\ p \notin locks'
          /\ (Waits(p) \/ Entering(p)) => p \in lapsed'
      BY <1>0, <2>7, WaitsIsInLine DEF LockExpires, Lapse
    <3> QED
      BY <1>1, <3>1
  <2>8. CASE DetailsExpire(p)
    <3>1. UNCHANGED <<locks, lapsed, call, told>> /\ call[p] = "idle"
      BY <1>0, <2>8 DEF DetailsExpire
    <3> QED
      BY <1>1, <3>1
  <2> QED
    BY <2>1, <2>2, <2>3, <2>4, <2>5, <2>6, <2>7, <2>8
<1> QED
  BY <1>1, <1>4, <1>5 DEF Sound

\* Whoever takes his lock out of line begins afresh, whatever happened to him before;
\* in line he can take it only after it lapsed.
LEMMA LockStep ==
  ASSUME TypeOK, NEW p \in Players, p \notin harmed', (p \notin harmed => Sound(p)),
         TakeLock(p)
  PROVE  Sound(p)'
<1> USE DEF redisVars, callVars, gameVars, history, Works
<1>0. /\ call \in [Players -> CallPCs] /\ told \in [Players -> Replies]
      /\ queue \in Seq(Players) /\ UNCHANGED <<queue, matcher, games>>
  BY DEF TypeOK, CallsOK, RedisOK, TakeLock
<1>1. /\ Once(p)' <=> Once(p)
      /\ Waits(p)' <=> Waits(p)
      /\ (Placed(p)' <=> Placed(p)) /\ (Kept(p)' <=> Kept(p))
  BY <1>0, StandStill
<1>2. ~MayFail({p})
  BY HarmGrows
<1>3. CASE p \notin locks
  <2>1. /\ p \in locks' /\ call'[p] = "details"
        /\ Waits(p) => p \notin harmed /\ p \notin lapsed
    BY <1>0, <1>2, <1>3, WaitsIsInLine DEF TakeLock, Goto
  <2>2. ~Waits(p)
    BY <1>3, <2>1 DEF Sound, KeysInv
  <2>3. Once(p)
    <3>1. \A i \in 1..Len(queue) : queue[i] # p
      BY <1>0, <2>2 DEF Waits, Range
    <3>2. OnceIn(p, queue)
      BY <3>1 DEF OnceIn
    <3> QED
      BY <2>2, <3>2 DEF Once, Waits
  <2>4. KeysInv(p)'
    BY <1>1, <2>1, <2>2 DEF KeysInv, Entering
  <2>5. RejectInv(p)' /\ KeptInv(p)'
    BY <2>1 DEF RejectInv, KeptInv
  <2> QED
    BY <1>1, <2>3, <2>4, <2>5 DEF Sound
<1>4. CASE p \in locks
  <2>1. /\ UNCHANGED <<locks, details, lapsed, harmed>> /\ call[p] = "lock"
        /\ call'[p] = "idle" /\ told'[p] = "queue_error"
    BY <1>0, <1>2, <1>4 DEF TakeLock, Answer, Goto, Tell
  <2>2. Sound(p)
    BY <2>1
  <2>3. KeysInv(p)' /\ KeptInv(p)' /\ RejectInv(p)'
    BY <1>1, <2>1, <2>2 DEF Sound, KeysInv, KeptInv, RejectInv, Entering
  <2> QED
    BY <1>1, <2>2, <2>3 DEF Sound
<1> QED
  BY <1>3, <1>4

\* RPUSH and LREM, for everybody.
LEMMA QueueStep ==
  ASSUME TypeOK, NEW p \in Players, NEW q \in Players, p \notin harmed', Sound(p),
         Push(q) \/ TakeOut(q)
  PROVE  Sound(p)'
<1> USE DEF redisVars, callVars, gameVars, history, Works
<1>0. /\ call \in [Players -> CallPCs] /\ told \in [Players -> Replies]
      /\ queue \in Seq(Players) /\ UNCHANGED <<matcher, games, locks, details, lapsed>>
      /\ OnceIn(p, queue)
  BY DEF TypeOK, CallsOK, RedisOK, Push, TakeOut, Sound, Once
<1>1. /\ \A n \in Nodes : HeldSet(n)' = HeldSet(n) /\ Pair(n)' = Pair(n)
      /\ ~MayFail({p})
  BY <1>0, HarmGrows DEF HeldSet, Pair
\* A player who is not the one put in or taken out.
<1>2. ASSUME OnceIn(p, queue'), p \in Range(queue') <=> p \in Range(queue),
             call'[p] = call[p], told'[p] = told[p]
      PROVE  Sound(p)'
  <2>1. Once(p)' /\ (Waits(p)' <=> Waits(p))
    BY <1>0, <1>1, <1>2 DEF Once, Waits, Sound
  <2>2. (Placed(p)' <=> Placed(p)) /\ (Kept(p)' <=> Kept(p))
    <3>1. Placed(p)' <=> Placed(p)
      BY <1>0, <1>1, <2>1 DEF Placed, InGame
    <3> QED
      BY <1>0, <1>1, <3>1 DEF Kept
  <2>3. KeysInv(p)' /\ KeptInv(p)' /\ RejectInv(p)'
    BY <1>0, <1>2, <2>1, <2>2 DEF Sound, KeysInv, KeptInv, RejectInv, Entering
  <2> QED
    BY <2>1, <2>3 DEF Sound
<1>3. CASE Push(q)
  <2>1. /\ Range(Append(queue, q)) = Range(queue) \union {q}
        /\ (p = q => p \notin Range(queue)) => OnceIn(p, Append(queue, q))
    BY <1>0, AppendOnce
  <2>2. queue' \in {queue, Append(queue, q)}
    BY <1>3 DEF Push
  <2>3. CASE p # q
    <3>1. OnceIn(p, queue') /\ (p \in Range(queue') <=> p \in Range(queue))
      BY <1>0, <2>1, <2>2, <2>3
    <3>2. call'[p] = call[p] /\ told'[p] = told[p]
      BY <1>0, <1>3, <2>3 DEF Push, Goto
    <3> QED
      BY <1>2, <3>1, <3>2
  <2>4. CASE p = q
    <3>1. /\ queue' = Append(queue, p) /\ call[p] = "push" /\ call'[p] = "answer"
          /\ UNCHANGED told
      BY <1>0, <1>1, <1>3, <2>4 DEF Push, Goto
    <3>2. ~Waits(p) /\ p \in locks \union lapsed /\ p \in details
      BY <3>1 DEF Sound, KeysInv, Entering
    <3>3. OnceIn(p, queue') /\ p \in Range(queue') /\ \A n \in Nodes : p \notin HeldSet(n)
      BY <2>1, <2>4, <3>1, <3>2 DEF Waits
    <3>4. Once(p)' /\ Waits(p)'
      BY <1>1, <3>3 DEF Once, Waits
    <3>5. KeysInv(p)'
      BY <1>0, <3>1, <3>2, <3>4 DEF KeysInv, Entering
    <3>6. RejectInv(p)'
      BY <1>0, <3>3 DEF RejectInv, HeldSet, PairPCs, Pair
    <3>7. KeptInv(p)'
      BY <3>1, <3>4 DEF KeptInv, Placed
    <3> QED
      BY <3>4, <3>5, <3>6, <3>7 DEF Sound
  <2> QED
    BY <2>3, <2>4
<1>4. CASE TakeOut(q)
  <2>1. /\ Range(RemoveFirst(queue, q)) \subseteq Range(queue)
        /\ Range(queue) \ {q} \subseteq Range(RemoveFirst(queue, q))
        /\ OnceIn(p, RemoveFirst(queue, q))
    BY <1>0, RemoveFirstOnce
  <2>2. queue' \in {queue, RemoveFirst(queue, q)}
    BY <1>4 DEF TakeOut
  <2>3. CASE p # q
    <3>1. OnceIn(p, queue') /\ (p \in Range(queue') <=> p \in Range(queue))
      BY <1>0, <2>1, <2>2, <2>3
    <3>2. call'[p] = call[p] /\ told'[p] = told[p]
      BY <1>0, <1>4, <2>3 DEF TakeOut, Goto, Answer, Tell
    <3> QED
      BY <1>2, <3>1, <3>2
  <2>4. CASE p = q
    <3>1. call[p] = "remove" /\ call'[p] = "forget"
      BY <1>0, <1>1, <1>4, <2>4 DEF TakeOut, Goto
    <3>2. OnceIn(p, queue') /\ (p \in Range(queue') => p \in Range(queue))
      BY <1>0, <2>1, <2>2
    <3>3. Once(p)' /\ (Waits(p)' => Waits(p))
      BY <1>0, <1>1, <3>2 DEF Sound, Once, Waits
    <3>4. KeysInv(p)'
      BY <1>0, <3>1, <3>3 DEF Sound, KeysInv, Entering
    <3>5. RejectInv(p)' /\ KeptInv(p)'
      BY <3>1 DEF RejectInv, KeptInv
    <3> QED
      BY <3>3, <3>4, <3>5 DEF Sound
  <2> QED
    BY <2>3, <2>4
<1> QED
  BY <1>3, <1>4

\* A game that is over was nobody's who still waits for his answer, and both its
\* players are told.
LEMMA GameEndStep ==
  ASSUME TypeOK, NEW p \in Players, NEW g \in games, HandleGameEnd(g), Sound(p)
  PROVE  Sound(p)'
<1> USE DEF redisVars, callVars, gameVars, history
<1>0. /\ told \in [Players -> Replies] /\ games' = games \ {g}
      /\ UNCHANGED <<queue, matcher, locks, details, lapsed, call>>
  BY DEF TypeOK, CallsOK, HandleGameEnd
<1>1. (Once(p)' <=> Once(p)) /\ (Waits(p)' <=> Waits(p))
  BY <1>0, StandStill
<1>2. KeysInv(p)' /\ RejectInv(p)'
  BY <1>0, <1>1 DEF Sound, KeysInv, RejectInv, Entering
<1>3. InGame(p, g) => call[p] # "answer" /\ told'[p] # "queue_joined"
  BY <1>0 DEF HandleGameEnd, Over
<1>4. told'[p] = "queue_joined" => told[p] = "queue_joined"
  BY <1>0 DEF HandleGameEnd
<1>5. ASSUME ~InGame(p, g) PROVE (Placed(p) => Placed(p)') /\ (Kept(p) => Kept(p)')
  <2>1. (\E h \in games : InGame(p, h)) => \E h \in games' : InGame(p, h)
    BY <1>0, <1>5
  <2>2. \A n \in Nodes : Pair(n)' = Pair(n)
    BY <1>0 DEF Pair
  <2>3. Placed(p) => Placed(p)'
    BY <1>0, <1>1, <2>1, <2>2 DEF Placed, InGame
  <2> QED
    BY <1>0, <2>2, <2>3 DEF Kept
<1>6. KeptInv(p)'
  BY <1>0, <1>3, <1>4, <1>5 DEF Sound, KeptInv
<1> QED
  BY <1>1, <1>2, <1>6 DEF Sound

\* A node that dies takes with it those only who are counted as harmed.
LEMMA CrashStep ==
  ASSUME TypeOK, NEW p \in Players, p \notin harmed', NEW n \in Nodes, Crash(n), Sound(p)
  PROVE  Sound(p)'
<1> USE DEF redisVars, callVars, gameVars, history
<1>0. /\ call \in [Players -> CallPCs] /\ told \in [Players -> Replies] /\ MatchersOK
      /\ UNCHANGED <<queue, locks, details, lapsed>>
  BY DEF TypeOK, CallsOK, Crash
<1>1. /\ at[p] = n => call[p] = "idle"
      /\ p \notin Pair(n)
      /\ \A g \in games : InGame(p, g) => g.node # n
  BY DEF Crash, Pair
<1>2. /\ call'[p] = call[p]
      /\ told'[p] = "queue_joined" => told[p] = "queue_joined"
  BY <1>0, <1>1 DEF Crash
<1>3. /\ matcher'[n] = Idle
      /\ \A o \in Nodes \ {n} : matcher'[o] = matcher[o]
  BY <1>0 DEF Crash, MatchersOK
<1>4. p \notin HeldSet(n) /\ p \notin HeldSet(n)'
  BY <1>1, <1>3 DEF HeldSet, PairPCs, Pair, Idle
<1>5. \A o \in Nodes \ {n} : HeldSet(o)' = HeldSet(o) /\ Pair(o)' = Pair(o)
  BY <1>3 DEF HeldSet, Pair
<1>6. Once(p)' /\ (Waits(p)' => Waits(p))
  <2>1. OnceIn(p, queue')
    BY <1>0 DEF Sound, Once
  <2> QED
    BY <1>0, <1>3, <1>4, <2>1, StillOnce DEF Sound
<1>7. Waits(p) => Waits(p)'
  BY <1>0, <1>4, <1>5 DEF Waits
<1>8. KeysInv(p)'
  BY <1>0, <1>2, <1>6, <1>7 DEF Sound, KeysInv, Entering
<1>9. RejectInv(p)'
  BY <1>2, <1>3 DEF Sound, RejectInv, Idle
<1>10. (Placed(p) => Placed(p)') /\ (Kept(p) => Kept(p)')
  <2>1. (\E g \in games : InGame(p, g)) => \E g \in games' : InGame(p, g)
    BY <1>1 DEF Crash
  <2>2. (\E m \in Nodes : matcher[m].pc = "create" /\ p \in Pair(m)) =>
          \E m \in Nodes : matcher'[m].pc = "create" /\ p \in Pair(m)'
    BY <1>1, <1>3, <1>5
  <2>3. Placed(p) => Placed(p)'
    BY <1>7, <2>1, <2>2 DEF Placed, InGame
  <2>4. (\E m \in Nodes : matcher[m].pc = "tell" /\ p = matcher[m].second) =>
          \E m \in Nodes : matcher'[m].pc = "tell" /\ p = matcher'[m].second
    BY <1>1, <1>3 DEF Pair
  <2>5. (\E m \in Nodes : matcher[m].pc = "notify" /\ p \in Pair(m)) =>
          \E m \in Nodes : matcher'[m].pc = "notify" /\ p \in Pair(m)'
    BY <1>1, <1>3, <1>5
  <2> QED
    BY <2>3, <2>4, <2>5 DEF Kept
<1>11. KeptInv(p)'
  BY <1>2, <1>10 DEF Sound, KeptInv
<1> QED
  BY <1>6, <1>8, <1>9, <1>11 DEF Sound

\* Every step leaves a player sound whom it does not harm.
LEMMA SoundStep ==
  ASSUME TypeOK, [Next]_vars,
         NEW p \in Players, p \notin harmed', (p \notin harmed => Sound(p))
  PROVE  Sound(p)'
<1> USE DEF redisVars, callVars, gameVars, history, Works
<1>0. (\A q \in Players : ~TakeLock(q)) => harmed \subseteq harmed'
  BY HarmGrows, MatcherFrame
     DEF Next, vars, Call, Join, Leave, SetDetails, Push, Joined, Undo, TakeOut, Forget, Dial,
         Crash, HandleGameEnd, LockExpires, DetailsExpire, MatchLockExpires
<1>1. ASSUME NEW q \in Players, TakeLock(q) PROVE Sound(p)'
  <2>1. CASE q = p
    BY <1>1, <2>1, LockStep
  <2>2. CASE q # p
    <3>1. p \notin harmed
      BY <1>1, <2>2 DEF TakeLock, MayFail
    <3>2. LeftAlone(p)
      BY <1>1, <2>2
         DEF LeftAlone, TakeLock, TypeOK, CallsOK, Answer, Goto, Tell
    <3>3. UNCHANGED <<queue, matcher, games>>
      BY <1>1 DEF TakeLock
    <3> QED
      BY <3>1, <3>2, <3>3, AloneStep
  <2> QED
    BY <2>1, <2>2
<1>2. CASE \A q \in Players : ~TakeLock(q)
  <2>0. Sound(p)
    BY <1>0, <1>2
  <2>1. ASSUME NEW q \in Players,
               Join(q) \/ Leave(q) \/ SetDetails(q) \/ Joined(q) \/ Undo(q) \/ Forget(q)
               \/ LockExpires(q) \/ DetailsExpire(q)
        PROVE  Sound(p)'
    <3>1. CASE q = p
      BY <2>0, <2>1, <3>1, OwnStep
    <3>2. CASE q # p
      <4>1. LeftAlone(p)
        BY <2>1, <3>2
           DEF LeftAlone, TypeOK, CallsOK, Join, Leave, SetDetails, Joined, Undo, Forget,
               LockExpires, DetailsExpire, DropKeys, Lapse, Answer, Goto, Tell
      <4>2. UNCHANGED <<queue, matcher, games>>
        BY <2>1 DEF Join, Leave, SetDetails, Joined, Undo, Forget, LockExpires, DetailsExpire
      <4> QED
        BY <2>0, <4>1, <4>2, AloneStep
    <3> QED
      BY <3>1, <3>2
  <2>2. ASSUME NEW q \in Players, Push(q) \/ TakeOut(q) PROVE Sound(p)'
    BY <2>0, <2>2, QueueStep
  <2>3. ASSUME NEW q \in Players, NEW n \in Nodes, Dial(q, n) PROVE Sound(p)'
    BY <2>0, <2>3, AloneStep DEF Dial, LeftAlone
  <2>4. ASSUME NEW n \in Nodes, TryMatch(n) PROVE Sound(p)'
    BY <2>0, <2>4, MatcherStep
  <2>5. ASSUME NEW n \in Nodes, Crash(n) PROVE Sound(p)'
    BY <2>0, <2>5, CrashStep
  <2>6. ASSUME NEW g \in games, HandleGameEnd(g) PROVE Sound(p)'
    BY <2>0, <2>6, GameEndStep
  <2>7. CASE MatchLockExpires \/ UNCHANGED vars
    BY <2>0, <2>7, AloneStep DEF MatchLockExpires, vars, LeftAlone
  <2> QED
    BY <1>2, <2>1, <2>2, <2>3, <2>4, <2>5, <2>6, <2>7 DEF Next, Call
<1> QED
  BY <1>1, <1>2

\* Players whom nothing harmed are sound, in the initial state as after any steps.
SoundInv == \A p \in Players \ harmed : Sound(p)

LEMMA SoundInvariance == Spec => []SoundInv
<1>1. ASSUME Init PROVE SoundInv
  <2>1. /\ queue = <<>> /\ locks = {} /\ call = [p \in Players |-> "idle"]
        /\ told = [p \in Players |-> "nothing"] /\ matcher = [n \in Nodes |-> Idle]
    BY <1>1 DEF Init, Fresh
  <2>2. Range(queue) = {} /\ \A n \in Nodes : HeldSet(n) = {}
    BY <2>1, PairRange DEF HeldSet, PairPCs, Idle
  <2>3. \A p \in Players : Once(p) /\ ~Waits(p)
    BY <2>1, <2>2 DEF Once, OnceIn, Waits
  <2> QED
    BY <2>1, <2>3 DEF SoundInv, Sound, KeysInv, RejectInv, KeptInv, Entering
<1>2. ASSUME TypeOK, SoundInv, [Next]_vars PROVE SoundInv'
  BY <1>2, SoundStep DEF SoundInv
<1> QED
  BY <1>1, <1>2, TypeCorrect, PTL DEF Spec

--------------------------------------------------------------------------------
(* The four properties *)

\* However locks run out, players leave, commands fail and nodes crash: a player whom
\* none of that harmed is queued once, in mm:queue or in the hands of one matchLoop.
THEOREM QueuedOnceCorrect == Spec => []QueuedOnce
<1>1. SoundInv => QueuedOnce
  BY HeldRange DEF SoundInv, Sound, Once, OnceIn, QueuedOnce
<1> QED
  BY <1>1, SoundInvariance, PTL

\* There, his lock is with him as long as it has not lapsed: from the command after
\* SETNX until a matchLoop deletes his keys.
THEOREM LockedCorrect == Spec => []LockedInv
<1>1. SoundInv => LockedInv
  BY WaitsIsInLine DEF SoundInv, Sound, KeysInv, Entering, LockedInv
<1> QED
  BY <1>1, SoundInvariance, PTL

\* There, nobody is turned away as already in the queue who is not queued.
THEOREM RefusedCorrect == Spec => []RefusedIsQueued
<1>1. TypeOK /\ SoundInv => RefusedIsQueued
  BY WaitsIsInLine
     DEF TypeOK, RedisOK, SoundInv, Sound, KeysInv, Entering, RefusedIsQueued
<1> QED
  BY <1>1, TypeCorrect, SoundInvariance, PTL

\* There, a player told QUEUE_JOINED is in the queue, with a matchLoop or in a game.
THEOREM ForgottenCorrect == Spec => []NobodyForgotten
<1>1. SoundInv => NobodyForgotten
  <2> SUFFICES ASSUME SoundInv, NEW p \in Players \ harmed,
                      told[p] = "queue_joined", call[p] = "idle"
               PROVE  \/ p \in Range(queue)
                      \/ \E n \in Nodes : p \in {matcher[n].first, matcher[n].second}
                      \/ \E g \in games : InGame(p, g)
    BY DEF NobodyForgotten
  <2>1. Kept(p)
    BY DEF SoundInv, Sound, KeptInv
  <2>2. \A n \in Nodes : HeldSet(n) \subseteq Pair(n)
    BY DEF HeldSet, Pair
  <2> QED
    BY <2>1, <2>2 DEF Kept, Placed, Waits, Pair
<1> QED
  BY <1>1, SoundInvariance, PTL
================================================================================
