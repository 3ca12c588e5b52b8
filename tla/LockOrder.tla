-------------------------------- MODULE LockOrder --------------------------------
(***************************************************************************)
(* Who waits for whom inside one node: the locks of the hub (h.mu), of the *)
(* game manager (gm.mu) and of a session (s.mu), and the session's bounded *)
(* channel actionCh, taken by the hub's goroutine, the session's run(), a  *)
(* grace timer's forfeitGame and the Others: ReadPumps, the matchLoop and  *)
(* the shutdown, each of which keeps no lock while it waits.               *)
(*                                                                         *)
(* A function of the code is the sequence of its operations on locks and   *)
(* channels, with those of the functions it calls in their places; a       *)
(* goroutine carries out the operations of one function, then rests and    *)
(* begins another.  Locks are Go's sync.RWMutex: a writer that waits keeps *)
(* new readers out.                                                        *)
(*                                                                         *)
(* Left out: everything the functions compute, for which an early return   *)
(* is a shorter sequence, and c.mu of a client, under which nothing else   *)
(* is locked or sent.                                                      *)
(***************************************************************************)
EXTENDS Integers, Sequences

CONSTANTS
  Others,     \* ReadPumps, the matchLoop, the shutdown
  ActionCap    \* capacity of actionCh (100)

ASSUME LockOrderAssumption ==
  /\ ActionCap \in Nat \ {0}
  /\ Others \intersect {"hub", "run", "timer"} = {}

Goroutines == {"hub", "run", "timer"} \union Others
Locks == {"h.mu", "gm.mu", "s.mu"}

VARIABLES
  todo,       \* the operations each goroutine has still to carry out
  writing,    \* who has each lock as its writer,
  reading,    \* and who as a reader
  queued,     \* how many actions actionCh holds
  session     \* the session: "starting", "playing", "ended" (no longer in
              \* GameManager.sessions), "stopped" (stopCh closed), "returned"

orderVars == <<todo, writing, reading, queued, session>>

--------------------------------------------------------------------------------
(* Operations *)

Op(do, on) == <<[do |-> do, on |-> on]>>
Locked(l, ops)  == Op("lock", l) \o ops \o Op("unlock", l)
RLocked(l, ops) == Op("rlock", l) \o ops \o Op("runlock", l)
Do(what)   == Op(what, "none")

--------------------------------------------------------------------------------
(* The functions *)

SendToPlayer == RLocked("h.mu", <<>>)
Broadcast    == SendToPlayer
FindSession  == RLocked("gm.mu", <<>>)
HasPlayer    == RLocked("s.mu", <<>>)

SlipGameEndLocksSession == Locked("gm.mu", RLocked("s.mu", Do("drop")))

HandleGameEnd == Locked("gm.mu", Do("drop"))

\* With no game of that player, or with one that has ended, there is no action.
HandleDisconnect == {FindSession, FindSession \o Do("put")}

HandleRegister   == {Locked("h.mu", <<>>)}
HandleUnregister == {Locked("h.mu", <<>>)} \union {Locked("h.mu", d) : d \in HandleDisconnect}

SubmitAnswer    == FindSession \o HasPlayer \o Do("put")
HandleReconnect == FindSession \o HasPlayer \o HasPlayer \o Do("put") \o HasPlayer
CreateGame      == Locked("gm.mu", <<>>)
CreateMatch     == CreateGame \o Broadcast \o FindSession
StopSession     == FindSession \o Locked("gm.mu", Do("stop"))

Start         == Locked("s.mu", <<>>) \o RLocked("s.mu", Broadcast)
                   \o Locked("s.mu", Broadcast) \o Do("play")
HandleAction  == {Do("take") \o Locked("s.mu", <<>>),
                  Do("take") \o Locked("s.mu", Broadcast)}
FinalizeRound == {Locked("s.mu", <<>>), Locked("s.mu", Broadcast)}
RoundTimers   == {f \o next : f \in FinalizeRound,
                              next \in {Locked("s.mu", Broadcast), HandleGameEnd \o Do("return")}}
ForfeitGame   == {Locked("s.mu", <<>>), Locked("s.mu", Broadcast \o HandleGameEnd)}

\* What a goroutine that rests may begin; run() with an action, with its round
\* timer or with stopCh.
Functions(g) ==
  CASE g = "hub"   -> HandleRegister \union HandleUnregister
    [] g = "timer" -> IF session = "starting" THEN {} ELSE ForfeitGame
    [] g = "run"   -> IF session \in {"starting", "returned"} THEN {} ELSE
                        RoundTimers
                        \union (IF queued > 0 THEN HandleAction ELSE {})
                        \union (IF session = "stopped" THEN {Do("return")} ELSE {})
    [] OTHER       -> {SubmitAnswer, HandleReconnect, FindSession, SendToPlayer, CreateMatch}
                        \union (IF session = "playing" THEN {StopSession} ELSE {})

--------------------------------------------------------------------------------
(* The goroutines *)

Free == [l \in Locks |-> {}]

OrderInit ==
  /\ todo = [g \in Goroutines |-> IF g = "run" THEN Start ELSE <<>>]
  /\ writing = Free /\ reading = Free
  /\ queued = 0 /\ session = "starting"

Begin(g) ==
  /\ todo[g] = <<>>
  /\ \E f \in Functions(g) : todo' = [todo EXCEPT ![g] = f]
  /\ UNCHANGED <<writing, reading, queued, session>>

Wants(g, do) == todo[g] # <<>> /\ Head(todo[g]).do = do
Wanted(g) == Head(todo[g]).on

\* A step carries out one operation, and gives back the locks that the function
\* gives back right after it: w and r are the holders with that operation done.
Proceed(g, w, r) ==
  LET ops == Tail(todo[g])
      n == CHOOSE n \in 0 .. Len(ops) :
             /\ \A i \in 1 .. n : ops[i].do \in {"unlock", "runlock"}
             /\ n = Len(ops) \/ ops[n + 1].do \notin {"unlock", "runlock"}
      back == {ops[i].on : i \in 1 .. n}
      Without(holders) == [l \in Locks |-> IF l \in back THEN holders[l] \ {g} ELSE holders[l]]
  IN  /\ todo' = [todo EXCEPT ![g] = SubSeq(ops, n + 1, Len(ops))]
      /\ writing' = Without(w) /\ reading' = Without(r)

\* A writer that waits keeps new readers out.
WriterWaits(l) == \E g \in Goroutines : Wants(g, "lock") /\ Wanted(g) = l /\ reading[l] # {}

WriteLock(g) ==
  /\ Wants(g, "lock") /\ writing[Wanted(g)] = {} /\ reading[Wanted(g)] = {}
  /\ Proceed(g, [writing EXCEPT ![Wanted(g)] = {g}], reading)
  /\ UNCHANGED <<queued, session>>

ReadLock(g) ==
  /\ Wants(g, "rlock") /\ writing[Wanted(g)] = {} /\ ~WriterWaits(Wanted(g))
  /\ Proceed(g, writing, [reading EXCEPT ![Wanted(g)] = @ \union {g}])
  /\ UNCHANGED <<queued, session>>

\* SubmitAction: room in the channel, or a session that was stopped.
Put(g) ==
  /\ Wants(g, "put") /\ Proceed(g, writing, reading)
  /\ \/ queued < ActionCap /\ queued' = queued + 1
     \/ session = "stopped" /\ UNCHANGED queued
  /\ UNCHANGED session

Take(g) ==
  /\ Wants(g, "take") /\ Proceed(g, writing, reading)
  /\ queued' = queued - 1
  /\ UNCHANGED session

\* How far the session is: run() plays or returns, handleGameEnd drops the
\* session, the shutdown stops one that GameManager.sessions still holds.
Mark(g) ==
  /\ \/ Wants(g, "play") /\ session' = "playing"
     \/ Wants(g, "return") /\ session' = "returned"
     \/ Wants(g, "drop") /\ session' = (IF session = "playing" THEN "ended" ELSE session)
     \/ Wants(g, "stop") /\ session' = (IF session = "playing" THEN "stopped" ELSE session)
  /\ Proceed(g, writing, reading)
  /\ UNCHANGED queued

OrderNext ==
  \E g \in Goroutines :
    Begin(g) \/ WriteLock(g) \/ ReadLock(g) \/ Put(g) \/ Take(g) \/ Mark(g)

OrderSpec == OrderInit /\ [][OrderNext]_orderVars

--------------------------------------------------------------------------------
(* Properties *)

\* Who has to move before g can: who holds the lock it needs, a writer that waits
\* for it and keeps new readers out; run(), for room in the channel.
WaitsFor(g) ==
  IF todo[g] = <<>> THEN {} ELSE
  LET l == Wanted(g) IN
  CASE Wants(g, "lock")  -> writing[l] \union reading[l]
    [] Wants(g, "rlock") -> writing[l] \union
         {w \in Goroutines : reading[l] # {} /\ Wants(w, "lock") /\ Wanted(w) = l}
    [] Wants(g, "put") -> IF queued = ActionCap /\ session # "stopped" THEN {"run"} ELSE {}
    [] OTHER -> {}

\* The hub's goroutine keeps h.mu while it waits for room in actionCh.
HubInFullChannel == Wants("hub", "put") /\ queued = ActionCap

(* Nobody waits in a circle, except one in which the hub's goroutine waits for   *)
(* room in a full actionCh with h.mu in its hand (hub.go:78-87, manager.go:151,  *)
(* session.go:163): its unregister, run()'s broadcast under s.mu and the timer's *)
(* forfeit, that takes h.mu and gm.mu under s.mu, keep one order.                *)
NoCircle ==
  \A D \in (SUBSET Goroutines) \ {{}} :
    \/ \E g \in D : WaitsFor(g) \intersect D = {}
    \/ "hub" \in D /\ HubInFullChannel
================================================================================
