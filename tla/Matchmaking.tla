------------------------------ MODULE Matchmaking ------------------------------
(***************************************************************************)
(* Matchmaking across the nodes of the cluster: the handlers that enqueue  *)
(* and dequeue a player (internal/ws/hub.go, EnqueuePlayer and             *)
(* DequeuePlayer), the matchLoop of every node (internal/matchmaker), the  *)
(* registry of games (internal/game/manager.go) and the Redis keys they    *)
(* share: mm:queue, mm:queue:{player}, lock:match:{player} and mm:lock.    *)
(*                                                                         *)
(* Every Redis command is one action, for the goroutines of all nodes run  *)
(* between any two of them.  A command may fail as its caller sees it (the *)
(* three-second context of redis.Client runs out), done or not done, and   *)
(* go-redis sends one again whose reply was lost, done or not done         *)
(* (MaxRetries, which redis.NewClient leaves at its default).  A node may  *)
(* crash and come back.                                                    *)
(*                                                                         *)
(* Left out: display names and QueuedAt, the position in the queue, what   *)
(* happens inside a game (module GameSession), and how a message finds the *)
(* player's socket: told is the last one the server sent.                  *)
(*                                                                         *)
(* A definition whose name begins with Slip is no part of the model: it is *)
(* the definition after it with a bug, put in its place to see that a      *)
(* property notices.                                                       *)
(***************************************************************************)
EXTENDS Integers, SequencesExt

CONSTANTS
  Players,      \* player ids
  Nodes,        \* the replicas of the server
  NoPlayer,     \* no player at all
  Expiring,     \* bound: which of mm:queue:{player} and mm:lock may run out
  MaxJoins,     \* bound: JOIN_QUEUE messages
  MaxLeaves,    \* bound: LEAVE_QUEUE messages
  MaxLapses,    \* bound: keys lock:match:{player} that run out
  MaxFaults,    \* bound: Redis commands that fail
  MaxCrashes    \* bound: crashes of nodes

Kinds == {"mm:queue:", "mm:lock"}

ASSUME ConstantsAssumption ==
  /\ NoPlayer \notin Players
  /\ Expiring \subseteq Kinds
  /\ MaxJoins \in Nat /\ MaxLeaves \in Nat
  /\ MaxLapses \in Nat /\ MaxFaults \in Nat /\ MaxCrashes \in Nat

VARIABLES
  queue,        \* the list mm:queue
  details,      \* the players whose key mm:queue:{player} exists
  locks,        \* the players whose key lock:match:{player} exists
  mmLock,       \* does the key mm:lock exist?
  at,           \* the node a player's socket is connected to
  call,         \* where the handler of the player's socket is
  told,         \* the last message sent to the player
  matcher,      \* where the matchLoop of a node is, and the two it popped
  games,        \* the sessions of all GameManagers
  playerGames,  \* GameManager.playerGames of each node, 0 for no entry
  created,      \* how many games were created; numbers them
  used,         \* how much of each bound is used up
  harmed,       \* history: the players something went wrong with (below)
  lapsed        \* history: those whose lock:match went while they were in line

redisVars  == <<queue, details, locks, mmLock>>
callVars   == <<at, call>>
gameVars   == <<games, playerGames, created>>
history    == <<harmed, lapsed>>
vars == <<redisVars, callVars, told, matcher, gameVars, used, history>>

--------------------------------------------------------------------------------
(* Values *)

\* EnqueuePlayer (lock to answer), its error paths (undo...), DequeuePlayer.
CallPCs == {"idle", "lock", "details", "push", "answer", "undoLock",
            "undoBoth", "remove", "forget"}

Replies == {"nothing", "queue_joined", "queue_left", "queue_error",
            "already_in_game", "matchmaking_error", "match_found", "game_over"}

MatcherPCs == {"idle", "pop", "first", "second", "requeue", "clean", "tell",
               "delete", "create", "notify", "release"}

Idle == [pc |-> "idle", first |-> NoPlayer, second |-> NoPlayer]

\* A session as the registry knows it: its players and the node it runs on.
Game == [id : Nat \ {0}, node : Nodes, first : Players, second : Players]

InGame(p, g) == p \in {g.first, g.second}

Bounds == {"joins", "leaves", "lapses", "faults", "crashes"}
Spend(what) == used' = [used EXCEPT ![what] = @ + 1]

\* Two histories, which no guard reads.  A player is harmed when a command about him
\* fails or is carried out twice, when a node dies that has him in hand, and when he
\* takes his lock again in line after it lapsed.  Who takes it out of line is not
\* harmed any more.

\* A Redis command about the players S goes wrong; or it works.
MayFail(S) ==
  used.faults < MaxFaults /\ Spend("faults") /\ harmed' = harmed \union S
Works == UNCHANGED <<used, harmed>>

\* The players a node's matchLoop took from the queue and still has to place:
\* until it puts one back, and until it deletes their keys.
Held(n) ==
  IF matcher[n].pc \in {"first", "second", "requeue", "delete"}
    THEN <<matcher[n].first, matcher[n].second>>
  ELSE IF matcher[n].pc = "clean" THEN <<matcher[n].second>> ELSE <<>>

InLine(p) == p \in Range(queue) \/ \E n \in Nodes : p \in Range(Held(n))

\* The keys of the players S go, or only the lock of p while he is in line.
DropKeys(S) == locks' = locks \ S /\ details' = details \ S
Lapse(p) ==
  lapsed' = IF InLine(p) \/ call[p] \in {"details", "push"}
              THEN lapsed \union {p} ELSE lapsed

Fresh ==
  /\ queue = <<>> /\ details = {} /\ locks = {} /\ mmLock = FALSE
  /\ at \in [Players -> Nodes]
  /\ call = [p \in Players |-> "idle"]
  /\ told = [p \in Players |-> "nothing"]
  /\ matcher = [n \in Nodes |-> Idle]
  /\ games = {} /\ created = 0
  /\ playerGames = [n \in Nodes |-> [p \in Players |-> 0]]
  /\ harmed = {} /\ lapsed = {}

Init == Fresh /\ used = [b \in Bounds |-> 0]

--------------------------------------------------------------------------------
(* JOIN_QUEUE: handleJoinQueue and EnqueuePlayer *)

Tell(p, reply) == told' = [told EXCEPT ![p] = reply]
Goto(p, pc)    == call' = [call EXCEPT ![p] = pc]
Answer(p, reply) == Goto(p, "idle") /\ Tell(p, reply)

\* handleJoinQueue asks the GameManager of its own node, and no other, whether
\* the player is in a game.
Join(p) ==
  /\ call[p] = "idle" /\ used.joins < MaxJoins
  /\ Spend("joins")
  /\ IF playerGames[at[p]][p] # 0
       THEN Answer(p, "already_in_game")
       ELSE Goto(p, "lock") /\ UNCHANGED told
  /\ UNCHANGED <<redisVars, at, matcher, gameVars, history>>

SlipLockAnyway(p) ==
  /\ call[p] = "lock"
  /\ locks' = locks \union {p} /\ Goto(p, "details") /\ UNCHANGED told /\ Works
  /\ UNCHANGED <<queue, details, mmLock, at, matcher, gameVars, lapsed>>

\* SETNX lock:match:{player}
TakeLock(p) ==
  /\ call[p] = "lock"
  /\ \/ /\ p \notin locks
        /\ locks' = locks \union {p} /\ Goto(p, "details")
        /\ IF InLine(p)
             THEN harmed' = harmed \union (lapsed \intersect {p}) /\ UNCHANGED lapsed
             ELSE harmed' = harmed \ {p} /\ lapsed' = lapsed \ {p}
        /\ UNCHANGED <<told, used>>
     \/ /\ p \in locks
        /\ Answer(p, "queue_error") /\ Works /\ UNCHANGED <<locks, lapsed>>
     \/ /\ MayFail({p})
        /\ locks' \in {locks, locks \union {p}} /\ Answer(p, "queue_error")
        /\ UNCHANGED lapsed
  /\ UNCHANGED <<queue, details, mmLock, at, matcher, gameVars>>

SetDetails(p) ==
  /\ call[p] = "details"
  /\ \/ details' = details \union {p} /\ Goto(p, "push") /\ Works
     \/ /\ MayFail({p})
        /\ details' \in {details, details \union {p}} /\ Goto(p, "undoLock")
  /\ UNCHANGED <<queue, locks, mmLock, at, told, matcher, gameVars, lapsed>>

Push(p) ==
  /\ call[p] = "push"
  /\ \/ queue' = Append(queue, p) /\ Goto(p, "answer") /\ Works
     \/ /\ MayFail({p})
        /\ \/ queue' \in {queue, Append(queue, p)} /\ Goto(p, "undoBoth")
           \/ queue' = Append(queue, p) /\ UNCHANGED call
  /\ UNCHANGED <<details, locks, mmLock, at, told, matcher, gameVars, lapsed>>

\* The position comes from a command of its own, whose error is ignored; only
\* then does the player hear of it.
Joined(p) ==
  /\ call[p] = "answer"
  /\ Answer(p, "queue_joined")
  /\ UNCHANGED <<redisVars, at, matcher, gameVars, used, history>>

\* Deleting the keys again after an error; whether that worked is not checked.
Undo(p) ==
  /\ call[p] \in {"undoLock", "undoBoth"}
  /\ LET Undone == /\ locks' = locks \ {p}
                   /\ details' = IF call[p] = "undoBoth" THEN details \ {p}
                                                         ELSE details IN
       \/ Undone /\ Works /\ Answer(p, "queue_error")
       \/ MayFail({p}) /\ UNCHANGED <<locks, details>> /\ Answer(p, "queue_error")
       \/ MayFail({p}) /\ Undone /\ UNCHANGED <<call, told>>
  /\ UNCHANGED <<queue, mmLock, at, matcher, gameVars, lapsed>>

--------------------------------------------------------------------------------
(* LEAVE_QUEUE: handleLeaveQueue and DequeuePlayer *)

Leave(p) ==
  /\ call[p] = "idle" /\ used.leaves < MaxLeaves
  /\ Spend("leaves")
  /\ Goto(p, "remove")
  /\ UNCHANGED <<redisVars, at, told, matcher, gameVars, history>>

\* LREM mm:queue 1 p.  handleLeaveQueue answers QUEUE_LEFT after an error, too.
TakeOut(p) ==
  /\ call[p] = "remove"
  /\ \/ /\ queue' = RemoveFirst(queue, p) /\ Works
        /\ Goto(p, "forget") /\ UNCHANGED told
     \/ /\ MayFail({p})
        /\ \/ queue' \in {queue, RemoveFirst(queue, p)} /\ Answer(p, "queue_left")
           \/ queue' = RemoveFirst(queue, p) /\ UNCHANGED <<call, told>>
  /\ UNCHANGED <<details, locks, mmLock, at, matcher, gameVars, lapsed>>

Forget(p) ==
  /\ call[p] = "forget"
  /\ \/ DropKeys({p}) /\ Lapse(p) /\ Works /\ Answer(p, "queue_left")
     \/ /\ MayFail({p}) /\ UNCHANGED <<locks, details, lapsed>>
        /\ Answer(p, "queue_left")
     \/ MayFail({p}) /\ DropKeys({p}) /\ Lapse(p) /\ UNCHANGED <<call, told>>
  /\ UNCHANGED <<queue, mmLock, at, matcher, gameVars>>

\* The app dials again and the load balancer picks any node.
Dial(p, n) ==
  /\ call[p] = "idle" /\ at[p] # n
  /\ at' = [at EXCEPT ![p] = n]
  /\ UNCHANGED <<redisVars, call, told, matcher, gameVars, used, history>>

--------------------------------------------------------------------------------
(* matchLoop: one tryMatch per tick on every node *)

Step(n, pc) == matcher' = [matcher EXCEPT ![n].pc = pc]
Hold(n, pc, p, q) ==
  matcher' = [matcher EXCEPT ![n] = [pc |-> pc, first |-> p, second |-> q]]

\* SETNX mm:lock; when it exists, or the command fails, this tick does nothing.
TryLock(n) ==
  /\ matcher[n].pc = "idle" /\ ~mmLock
  /\ mmLock' = TRUE
  /\ \/ Step(n, "pop") /\ Works
     \/ MayFail({}) /\ UNCHANGED matcher
  /\ UNCHANGED <<queue, details, locks, callVars, told, gameVars, lapsed>>

SlipPopOne(n) ==
  /\ matcher[n].pc = "pop" /\ queue # <<>>
  /\ Hold(n, "first", queue[1], IF Len(queue) = 1 THEN NoPlayer ELSE queue[2])
  /\ queue' = SubSeq(queue, 3, Len(queue))
  /\ UNCHANGED <<details, locks, mmLock, callVars, told, gameVars, used, history>>

\* The Lua script takes the two oldest entries at once, or none.  Its reply may be
\* lost, and the two with it; sent again, the script takes the next two.
Pop(n) ==
  /\ matcher[n].pc = "pop"
  /\ \/ /\ Len(queue) < 2
        /\ Step(n, "release") /\ Works /\ UNCHANGED queue
     \/ /\ Len(queue) >= 2
        /\ Hold(n, "first", queue[1], queue[2]) /\ Works
        /\ queue' = Tail(Tail(queue))
     \/ /\ MayFail({})
        /\ Step(n, "release") /\ UNCHANGED queue
     \/ /\ Len(queue) >= 2 /\ MayFail({queue[1], queue[2]})
        /\ queue' = Tail(Tail(queue))
        /\ Step(n, "release") \/ UNCHANGED matcher
  /\ UNCHANGED <<details, locks, mmLock, callVars, told, gameVars, lapsed>>

\* getPlayerDetails fails for the player bad: good goes back to the queue.
Reject(n, good, bad) == Hold(n, "requeue", good, bad)

Missing(p) == (p \notin details /\ Works) \/ MayFail({p})

ReadFirst(n) ==
  /\ matcher[n].pc = "first"
  /\ LET p == matcher[n].first  q == matcher[n].second IN
       \/ p \in details /\ Step(n, "second") /\ Works
       \/ Missing(p) /\ Reject(n, q, p)
  /\ UNCHANGED <<redisVars, callVars, told, gameVars, lapsed>>

ReadSecond(n) ==
  /\ matcher[n].pc = "second"
  /\ LET p == matcher[n].first  q == matcher[n].second IN
       \/ q \in details /\ Step(n, "delete") /\ Works
       \/ Missing(q) /\ Reject(n, p, q)
  /\ UNCHANGED <<redisVars, callVars, told, gameVars, lapsed>>

SlipDropPartner(n) ==
  /\ matcher[n].pc = "requeue"
  /\ Hold(n, "clean", NoPlayer, matcher[n].second) /\ UNCHANGED queue
  /\ UNCHANGED <<details, locks, mmLock, callVars, told, gameVars, used, history>>

\* The error of this RPUSH is ignored.
Requeue(n) ==
  /\ matcher[n].pc = "requeue"
  /\ LET good == matcher[n].first
         GoOn == Hold(n, "clean", NoPlayer, matcher[n].second) IN
       \/ queue' = Append(queue, good) /\ GoOn /\ Works
       \/ /\ MayFail({good})
          /\ \/ queue' \in {queue, Append(queue, good)} /\ GoOn
             \/ queue' = Append(queue, good) /\ UNCHANGED matcher
  /\ UNCHANGED <<details, locks, mmLock, callVars, told, gameVars, lapsed>>

\* cleanupPlayerKeys
Clean(n) ==
  /\ matcher[n].pc = "clean"
  /\ LET bad == {matcher[n].second} IN
       \/ DropKeys(bad) /\ Works /\ Step(n, "tell")
       \/ MayFail(bad) /\ UNCHANGED <<locks, details>> /\ Step(n, "tell")
       \/ MayFail(bad) /\ DropKeys(bad) /\ UNCHANGED matcher
  /\ UNCHANGED <<queue, mmLock, callVars, told, gameVars, lapsed>>

NotifyPlayerError(n) ==
  /\ matcher[n].pc = "tell"
  /\ Tell(matcher[n].second, "matchmaking_error")
  /\ Hold(n, "release", NoPlayer, NoPlayer)
  /\ UNCHANGED <<redisVars, callVars, gameVars, used, history>>

SlipKeepLocks(n) ==
  /\ matcher[n].pc = "delete"
  /\ details' = details \ {matcher[n].first, matcher[n].second}
  /\ Step(n, "create")
  /\ UNCHANGED <<queue, locks, mmLock, callVars, told, gameVars, used, history>>

\* createMatch begins by deleting the keys of both players.
DeleteKeys(n) ==
  /\ matcher[n].pc = "delete"
  /\ LET both == {matcher[n].first, matcher[n].second} IN
       \/ DropKeys(both) /\ Works /\ Step(n, "create")
       \/ MayFail(both) /\ UNCHANGED <<locks, details>> /\ Step(n, "create")
       \/ MayFail(both) /\ DropKeys(both) /\ UNCHANGED matcher
  /\ UNCHANGED <<queue, mmLock, callVars, told, gameVars, lapsed>>

CreateGame(n) ==
  /\ matcher[n].pc = "create"
  /\ LET p == matcher[n].first  q == matcher[n].second IN
       /\ games' = games \union
            {[id |-> created + 1, node |-> n, first |-> p, second |-> q]}
       /\ playerGames' =
            [playerGames EXCEPT ![n][p] = created + 1, ![n][q] = created + 1]
  /\ created' = created + 1
  /\ Step(n, "notify")
  /\ UNCHANGED <<redisVars, callVars, told, used, history>>

\* Both players hear of the match and the session starts.
Notify(n) ==
  /\ matcher[n].pc = "notify"
  /\ told' = [p \in Players |->
                IF p \in {matcher[n].first, matcher[n].second}
                  THEN "match_found" ELSE told[p]]
  /\ Hold(n, "release", NoPlayer, NoPlayer)
  /\ UNCHANGED <<redisVars, callVars, gameVars, used, history>>

\* The deferred DEL mm:lock, whoever owns the key by now.
Release(n) ==
  /\ matcher[n].pc = "release"
  /\ \/ mmLock' = FALSE /\ Hold(n, "idle", NoPlayer, NoPlayer) /\ Works
     \/ MayFail({}) /\ UNCHANGED mmLock /\ Hold(n, "idle", NoPlayer, NoPlayer)
     \/ MayFail({}) /\ mmLock' = FALSE /\ UNCHANGED matcher
  /\ UNCHANGED <<queue, details, locks, callVars, told, gameVars, lapsed>>

--------------------------------------------------------------------------------
(* Games, keys that expire, nodes that crash *)

\* Has createMatch not come to StartGame yet?  (It is the node's newest game.)
Starting(g) ==
  /\ matcher[g.node].pc = "notify"
  /\ \A h \in games : h.node = g.node => h.id <= g.id

\* A game outlasts the command that a handler which queued one of its players may
\* still be waiting for: until then that player's answers are not even read.
Over(g) == ~Starting(g) /\ \A p \in Players : InGame(p, g) => call[p] # "answer"

SlipForgetFirst(g) ==
  /\ Over(g)
  /\ games' = games \ {g}
  /\ playerGames' = [playerGames EXCEPT ![g.node][g.first] = 0]
  /\ told' = [p \in Players |-> IF InGame(p, g) THEN "game_over" ELSE told[p]]
  /\ UNCHANGED <<redisVars, callVars, matcher, created, used, history>>

\* handleGameEnd, once the session is over: the entries of both players go,
\* whichever game they name by now.
HandleGameEnd(g) ==
  /\ Over(g)
  /\ games' = games \ {g}
  /\ playerGames' =
       [playerGames EXCEPT ![g.node][g.first] = 0, ![g.node][g.second] = 0]
  /\ told' = [p \in Players |-> IF InGame(p, g) THEN "game_over" ELSE told[p]]
  /\ UNCHANGED <<redisVars, callVars, matcher, created, used, history>>

\* Ten seconds after it was set, whether or not the player is still in line.
LockExpires(p) ==
  /\ p \in locks /\ used.lapses < MaxLapses
  /\ locks' = locks \ {p} /\ Lapse(p) /\ Spend("lapses")
  /\ UNCHANGED <<queue, details, mmLock, callVars, told, matcher, gameVars, harmed>>

\* Five minutes after they were set: never while their own handler runs.
DetailsExpire(p) ==
  /\ "mm:queue:" \in Expiring /\ p \in details /\ call[p] = "idle"
  /\ details' = details \ {p}
  /\ UNCHANGED <<queue, locks, mmLock, callVars, told, matcher, gameVars, used,
                 history>>

SlipNeverExpires == FALSE /\ UNCHANGED vars

\* One second after it was set, while its owner may wait for any command.
MatchLockExpires ==
  /\ "mm:lock" \in Expiring /\ mmLock
  /\ mmLock' = FALSE
  /\ UNCHANGED <<queue, details, locks, callVars, told, matcher, gameVars, used,
                 history>>

\* A replica dies with its games, its handlers and whatever its matchLoop held,
\* and a new one takes its place.
Crash(n) ==
  /\ used.crashes < MaxCrashes /\ Spend("crashes")
  /\ matcher' = [matcher EXCEPT ![n] = Idle]
  /\ games' = {g \in games : g.node # n}
  /\ playerGames' = [playerGames EXCEPT ![n] = [p \in Players |-> 0]]
  /\ call' = [p \in Players |-> IF at[p] = n THEN "idle" ELSE call[p]]
  /\ told' = [p \in Players |-> IF at[p] = n THEN "nothing" ELSE told[p]]
  /\ harmed' = harmed \union {p \in Players :
                   \/ at[p] = n /\ call[p] # "idle"
                   \/ p \in {matcher[n].first, matcher[n].second}
                   \/ \E g \in games : g.node = n /\ InGame(p, g)}
  /\ UNCHANGED <<redisVars, at, created, lapsed>>

Call(p) ==
  \/ TakeLock(p) \/ SetDetails(p) \/ Push(p) \/ Joined(p) \/ Undo(p)
  \/ TakeOut(p) \/ Forget(p)

TryMatch(n) ==
  \/ TryLock(n) \/ Pop(n) \/ ReadFirst(n) \/ ReadSecond(n)
  \/ Requeue(n) \/ Clean(n) \/ NotifyPlayerError(n)
  \/ DeleteKeys(n) \/ CreateGame(n) \/ Notify(n) \/ Release(n)

Next ==
  \/ \E p \in Players : Join(p) \/ Leave(p) \/ Call(p)
  \/ \E p \in Players, n \in Nodes : Dial(p, n)
  \/ \E n \in Nodes : TryMatch(n) \/ Crash(n)
  \/ \E g \in games : HandleGameEnd(g)
  \/ \E p \in Players : LockExpires(p) \/ DetailsExpire(p)
  \/ MatchLockExpires

Spec == Init /\ [][Next]_vars

(* Every tick comes, every command returns, and Redis drops expired keys. *)
Fairness ==
  /\ \A n \in Nodes : WF_vars(TryMatch(n))
  /\ \A p \in Players : WF_vars(Call(p))
  /\ WF_vars(MatchLockExpires)

FairSpec == Spec /\ Fairness

--------------------------------------------------------------------------------
(* Properties *)

RedisOK ==
  /\ queue \in Seq(Players) /\ details \subseteq Players /\ locks \subseteq Players
  /\ mmLock \in BOOLEAN

CallsOK ==
  /\ at \in [Players -> Nodes] /\ call \in [Players -> CallPCs]
  /\ told \in [Players -> Replies]

MatchersOK ==
  /\ matcher \in [Nodes -> [pc : MatcherPCs, first : Players \union {NoPlayer},
                            second : Players \union {NoPlayer}]]
  /\ \A n \in Nodes :
       /\ matcher[n].pc \in {"first", "second", "requeue", "delete", "create",
                             "notify"} => matcher[n].first \in Players
       /\ matcher[n].pc \in {"first", "second", "requeue", "clean", "tell",
                             "delete", "create", "notify"}
            => matcher[n].second \in Players

GamesOK ==
  /\ games \subseteq Game /\ created \in Nat
  /\ playerGames \in [Nodes -> [Players -> Nat]]

HistoryOK ==
  used \in [Bounds -> Nat] /\ harmed \subseteq Players /\ lapsed \subseteq Players

\* Every variable stays in its type, and a matchLoop that is past the script holds
\* two players until it lets go of them (Pop and what follows it in tryMatch).
TypeOK == RedisOK /\ CallsOK /\ MatchersOK /\ GamesOK /\ HistoryOK

\* A player whom nothing harmed is queued once: in mm:queue or in the hands of one
\* matchLoop (the script that pops two at a time, EnqueuePlayer's lock), whoever else
\* leaves, fails or crashes, and even when two nodes both believe they hold mm:lock.
QueuedOnce ==
  \A p \in Players \ harmed :
    /\ \A i, j \in 1..Len(queue) : queue[i] = p /\ queue[j] = p => i = j
    /\ \A n \in Nodes : p \in Range(Held(n)) =>
         /\ p \notin Range(queue) /\ matcher[n].first # matcher[n].second
         /\ \A o \in Nodes \ {n} : p \notin Range(Held(o))

\* He has the lock that keeps a second entry out, unless it lapsed, as soon as a
\* handler is about to queue him and until a matchLoop is done with him; and a
\* handler between the lock and the queue has not queued him yet (EnqueuePlayer's
\* order of commands, and createMatch's).
LockedInv ==
  \A p \in Players \ (harmed \union lapsed) :
    /\ call[p] \in {"details", "push"} => p \in locks /\ ~InLine(p)
    /\ InLine(p) => p \in locks

\* A player whom nothing harmed and whose last word was QUEUE_JOINED is being looked
\* after: in the queue, with a matchLoop or in a game (tryMatch puts the partner of
\* a corrupt entry back), unless he has asked for something else meanwhile.
NobodyForgotten ==
  \A p \in Players \ harmed :
    told[p] = "queue_joined" /\ call[p] = "idle" =>
      \/ p \in Range(queue)
      \/ \E n \in Nodes : p \in {matcher[n].first, matcher[n].second}
      \/ \E g \in games : InGame(p, g)

\* A player whom nothing harmed and whom EnqueuePlayer would turn away, "Player
\* already in queue", is in the queue or about to be matched, also when he left
\* while a matchLoop held him (the keys go whenever the entry goes).
RefusedIsQueued ==
  \A p \in locks \ harmed : call[p] \in {"idle", "lock"} => InLine(p)

\* Whatever fails, expires or crashes, an entry of playerGames names a session that
\* lives on that node and has that player, so that HandleDisconnect and the answer
\* already_in_game are never about a game that is over (CreateGame, handleGameEnd).
PlayerGamesValid ==
  \A n \in Nodes, p \in Players : playerGames[n][p] # 0 =>
    \E g \in games : g.id = playerGames[n][p] /\ g.node = n /\ InGame(p, g)

\* Two entries in the queue do not stay there: whatever node crashes while it holds
\* mm:lock, the key runs out and some matchLoop pops them.
QueueDrains == Len(queue) >= 2 ~> Len(queue) < 2

\* A player sits in one seat of one game: a game is played by two different players
\* (README.md:3, "players compete against each other"), and one who is in a game is
\* not put into another (hub.go:137, "Already in game").
OneSeatEach ==
  \A g, h \in games :
    /\ g.first # g.second
    /\ g # h => {g.first, g.second} \cap {h.first, h.second} = {}
================================================================================
