----------------------------------- MODULE Hub -----------------------------------
(***************************************************************************)
(* The connections of the players and how a message finds them             *)
(* (internal/ws): the goroutine of every node's hub that registers and     *)
(* unregisters connections, the two pumps of a connection, SendToPlayer,   *)
(* called by the goroutines of a game, and Redis publish and subscribe     *)
(* between the nodes, for the messages of a player and for the answers     *)
(* that reach a node other than the one the game runs on.                  *)
(*                                                                         *)
(* Each access to the map of clients, to a client's flag and to a channel  *)
(* is an action of its own where other goroutines can get in between.  A   *)
(* send on a channel that Close closed panics: ReadPump recovers, every    *)
(* other goroutine takes its node down.                                    *)
(*                                                                         *)
(* Left out: what the messages say (a broadcast and an acknowledgement     *)
(* have a number), the queue (module Matchmaking), the rounds and the      *)
(* grace clock of the game (module GameSession; here the game only knows   *)
(* which action a player's presence was last reported with), PING, and the *)
(* token bucket, whose refusal is an answer like any other.                *)
(*                                                                         *)
(* A definition whose name begins with Slip is no part of the model: it is *)
(* the definition after it with a bug, put in its place to see that a      *)
(* property notices.                                                       *)
(***************************************************************************)
EXTENDS Integers, Sequences, FiniteSets

CONSTANTS
  Players,        \* the players of the game
  Nodes,          \* the replicas of the server
  Home,           \* the node the game runs on
  NoPlayer,       \* no player at all
  HubCap,         \* capacity of registerCh and unregisterCh (100)
  SendCap,        \* capacity of a client's sendCh (256)
  MaxConns,       \* bound: connections; numbers them
  MaxMessages     \* bound: broadcasts of the session and messages of players

ASSUME HubAssumption ==
  /\ Home \in Nodes /\ NoPlayer \notin Players
  /\ HubCap \in Nat \ {0} /\ SendCap \in Nat \ {0}
  /\ MaxConns \in Nat /\ MaxMessages \in Nat
  /\ {"session", "remote"} \intersect Nodes = {}

Conns  == 1 .. MaxConns
NoConn == 0

VARIABLES
  up,            \* the nodes whose process runs
  client,        \* the Client of a connection: PlayerID, its hub, connected
  sendCh,        \* how many messages its sendCh holds
  socket,        \* is its socket open?
  reader,        \* where its ReadPump is
  writer,        \* does its WritePump run?
  dialled,       \* how many connections there were
  clients,       \* Hub.clients of each node, NoConn for no entry
  registerCh,    \* Hub.registerCh
  unregisterCh,  \* Hub.unregisterCh
  sender,        \* where each goroutine that calls SendToPlayer is
  inbox,         \* messages Redis delivered to listenPubSub of each node
  actions,       \* answers Redis delivered to listenForRemoteActions
  present,       \* the last presence action the session got of each player
  sent,          \* how many broadcasts and messages of players; numbers them
  saw,           \* history: what each hub took of a connection, in order
  stood,         \* history: the connections that reconnected while mapped
  got,           \* history: the messages queued on a connection
  again          \* history: whose message of which number was published twice

connVars    == <<client, sendCh, socket, reader, writer>>
hubVars     == <<clients, registerCh, unregisterCh, saw>>
redisVars   == <<inbox, actions, again>>
gameVars    == <<present, stood>>
vars == <<up, connVars, dialled, hubVars, sender, redisVars, gameVars, sent, got>>

--------------------------------------------------------------------------------
(* Values *)

\* A snapshot, or the acknowledgement of an answer, by its number.
Message == [kind : {"snapshot", "ack"}, number : Nat]
NoMessage == [kind |-> "none", number |-> 0]

\* The goroutines that look up a client of another goroutine: the session's own,
\* listenForRemoteActions, and listenPubSub of each node.
Senders == {"session", "remote"} \union Nodes
NodeOf(s) == IF s \in Nodes THEN s ELSE Home

\* pc, the players not served yet, the one being served, his client, the message
Resting == [pc |-> "idle", to |-> {}, now |-> NoPlayer, conn |-> NoConn,
            msg |-> NoMessage]

Player(c)  == client[c].player
Node(c)    == client[c].node
Mapped(c)  == c \in 1 .. dialled /\ clients[Node(c)][Player(c)] = c
Running(c) == c \in 1 .. dialled /\ Node(c) \in up

Init ==
  /\ up = Nodes
  /\ client = [c \in Conns |->
                 [player |-> NoPlayer, node |-> Home, connected |-> FALSE]]
  /\ sendCh = [c \in Conns |-> 0]
  /\ socket = [c \in Conns |-> FALSE]
  /\ reader = [c \in Conns |-> [pc |-> "none", reply |-> NoMessage]]
  /\ writer = [c \in Conns |-> FALSE]
  /\ dialled = 0
  /\ clients = [n \in Nodes |-> [p \in Players |-> NoConn]]
  /\ registerCh = [n \in Nodes |-> <<>>]
  /\ unregisterCh = [n \in Nodes |-> <<>>]
  /\ sender = [s \in Senders |-> Resting]
  /\ inbox = [n \in Nodes |-> <<>>]
  /\ actions = <<>>
  /\ again = {}
  /\ present = [p \in Players |-> TRUE]
  /\ sent = 0
  /\ saw = [c \in Conns |-> <<>>]
  /\ stood = {}
  /\ got = [c \in Conns |-> <<>>]

--------------------------------------------------------------------------------
(* Connections: ServeHTTP and the hub's goroutine *)

\* The handler upgrades, queues the new client for the hub and starts the pumps,
\* which do not wait for the hub to know it.
Dial(p, n) ==
  LET c == dialled + 1 IN
  /\ dialled < MaxConns /\ n \in up /\ Len(registerCh[n]) < HubCap
  /\ dialled' = c
  /\ client' = [client EXCEPT ![c] =
                  [player |-> p, node |-> n, connected |-> TRUE]]
  /\ socket' = [socket EXCEPT ![c] = TRUE]
  /\ reader' = [reader EXCEPT ![c].pc = "reading"]
  /\ writer' = [writer EXCEPT ![c] = TRUE]
  /\ registerCh' = [registerCh EXCEPT ![n] = Append(@, c)]
  /\ UNCHANGED <<up, sendCh, clients, unregisterCh, saw, sender,
                 redisVars, gameVars, sent, got>>

\* handleRegister, under h.mu: the connection the player had is closed.
Register(n) ==
  /\ n \in up /\ registerCh[n] # <<>>
  /\ LET c == Head(registerCh[n])  existing == clients[n][Player(c)] IN
       /\ clients' = [clients EXCEPT ![n][Player(c)] = c]
       /\ client' = IF existing = NoConn THEN client
                    ELSE [client EXCEPT ![existing].connected = FALSE]
       /\ saw' = [saw EXCEPT ![c] = Append(@, "register")]
  /\ registerCh' = [registerCh EXCEPT ![n] = Tail(@)]
  /\ UNCHANGED <<up, sendCh, socket, reader, writer, dialled,
                 unregisterCh, sender, redisVars, gameVars, sent, got>>

\* HandleDisconnect knows the games of its own node only.
HandleDisconnect(p, n) ==
  present' = IF n = Home
               THEN [present EXCEPT ![p] = FALSE] ELSE present

SlipUnregisterAnyway(n) ==
  /\ n \in up /\ unregisterCh[n] # <<>>
  /\ LET c == Head(unregisterCh[n]) IN
       /\ clients' = [clients EXCEPT ![n][Player(c)] = NoConn]
       /\ client' = [client EXCEPT ![c].connected = FALSE]
       /\ HandleDisconnect(Player(c), n)
       /\ saw' = [saw EXCEPT ![c] = Append(@, "unregister")]
  /\ unregisterCh' = [unregisterCh EXCEPT ![n] = Tail(@)]
  /\ UNCHANGED <<up, sendCh, socket, reader, writer, dialled,
                 registerCh, sender, redisVars, stood, sent, got>>

SlipUnregisterKeepsIt(n) ==
  /\ n \in up /\ unregisterCh[n] # <<>>
  /\ LET c == Head(unregisterCh[n]) IN
       /\ IF clients[n][Player(c)] = c
            THEN /\ client' = [client EXCEPT ![c].connected = FALSE]
                 /\ HandleDisconnect(Player(c), n)
            ELSE UNCHANGED <<client, present>>
       /\ saw' = [saw EXCEPT ![c] = Append(@, "unregister")]
  /\ unregisterCh' = [unregisterCh EXCEPT ![n] = Tail(@)]
  /\ UNCHANGED <<up, sendCh, socket, reader, writer, dialled, clients,
                 registerCh, sender, redisVars, stood, sent, got>>

\* handleUnregister, under h.mu: nothing happens unless the player's connection
\* is still this one.
Unregister(n) ==
  /\ n \in up /\ unregisterCh[n] # <<>>
  /\ LET c == Head(unregisterCh[n]) IN
       /\ IF clients[n][Player(c)] = c
            THEN /\ clients' = [clients EXCEPT ![n][Player(c)] = NoConn]
                 /\ client' = [client EXCEPT ![c].connected = FALSE]
                 /\ HandleDisconnect(Player(c), n)
            ELSE UNCHANGED <<clients, client, present>>
       /\ saw' = [saw EXCEPT ![c] = Append(@, "unregister")]
  /\ unregisterCh' = [unregisterCh EXCEPT ![n] = Tail(@)]
  /\ UNCHANGED <<up, sendCh, socket, reader, writer, dialled,
                 registerCh, sender, redisVars, stood, sent, got>>

--------------------------------------------------------------------------------
(* The pumps *)

\* The player, his network or a missed pong ends the connection.
Lose(c) ==
  /\ socket[c]
  /\ socket' = [socket EXCEPT ![c] = FALSE]
  /\ UNCHANGED <<up, client, sendCh, reader, writer, dialled, hubVars,
                 sender, redisVars, gameVars, sent, got>>

ReadFails(c) ==
  /\ Running(c) /\ reader[c].pc = "reading" /\ ~socket[c]
  /\ reader' = [reader EXCEPT ![c].pc = "leaving"]
  /\ UNCHANGED <<up, client, sendCh, socket, writer, dialled, hubVars,
                 sender, redisVars, gameVars, sent, got>>

SlipLeaveSilently(c) ==
  /\ Running(c) /\ reader[c].pc = "leaving"
  /\ unregisterCh' = IF Len(unregisterCh[Node(c)]) < HubCap
       THEN [unregisterCh EXCEPT ![Node(c)] = Append(@, c)] ELSE unregisterCh
  /\ socket' = [socket EXCEPT ![c] = FALSE]
  /\ reader' = [reader EXCEPT ![c].pc = "done"]
  /\ UNCHANGED <<up, client, sendCh, writer, dialled, clients,
                 registerCh, saw, sender, redisVars, gameVars, sent, got>>

\* ReadPump's deferred function: unregisterCh has to have room.
Leave(c) ==
  /\ Running(c) /\ reader[c].pc = "leaving"
  /\ Len(unregisterCh[Node(c)]) < HubCap
  /\ unregisterCh' = [unregisterCh EXCEPT ![Node(c)] = Append(@, c)]
  /\ socket' = [socket EXCEPT ![c] = FALSE]
  /\ reader' = [reader EXCEPT ![c].pc = "done"]
  /\ UNCHANGED <<up, client, sendCh, writer, dialled, clients,
                 registerCh, saw, sender, redisVars, gameVars, sent, got>>

\* Send on an open channel: a full one drops the message.
Queue(c, m) ==
  IF sendCh[c] < SendCap
    THEN /\ sendCh' = [sendCh EXCEPT ![c] = @ + 1]
         /\ got' = IF m = NoMessage THEN got ELSE [got EXCEPT ![c] = Append(@, m)]
    ELSE UNCHANGED <<sendCh, got>>

\* What a handler run by ReadPump answers; a panic in it is recovered and ends
\* the pump.
Reply(c) ==
  /\ Running(c) /\ reader[c].pc = "replying"
  /\ IF client[c].connected
       THEN /\ Queue(c, reader[c].reply)
            /\ reader' = [reader EXCEPT ![c] =
                            [pc |-> "reading", reply |-> NoMessage]]
       ELSE /\ reader' = [reader EXCEPT ![c] =
                            [pc |-> "leaving", reply |-> NoMessage]]
            /\ UNCHANGED <<sendCh, got>>
  /\ UNCHANGED <<up, client, socket, writer, dialled, hubVars, sender,
                 redisVars, gameVars, sent>>

\* One frame holds everything sendCh held, separated by newlines; the app parses
\* each frame as one message (GameSocket.ts).
WriteFrame(c) ==
  /\ Running(c) /\ writer[c] /\ sendCh[c] > 0
  /\ sendCh' = [sendCh EXCEPT ![c] = 0]
  /\ writer' = [writer EXCEPT ![c] = socket[c]]
  /\ UNCHANGED <<up, client, socket, reader, dialled, hubVars, sender, redisVars,
                 gameVars, sent, got>>

SlipNeverHangUp(c) ==
  /\ Running(c) /\ writer[c] /\ ~socket[c]
  /\ writer' = [writer EXCEPT ![c] = FALSE]
  /\ UNCHANGED <<up, client, sendCh, socket, reader, dialled, hubVars,
                 sender, redisVars, gameVars, sent, got>>

\* A closed and empty sendCh, or a ping the socket does not take any more.
StopWriting(c) ==
  /\ Running(c) /\ writer[c]
  /\ (~client[c].connected /\ sendCh[c] = 0) \/ ~socket[c]
  /\ writer' = [writer EXCEPT ![c] = FALSE]
  /\ socket' = [socket EXCEPT ![c] = FALSE]
  /\ UNCHANGED <<up, client, sendCh, reader, dialled, hubVars, sender,
                 redisVars, gameVars, sent, got>>

--------------------------------------------------------------------------------
(* Messages of the players: handleReconnect and handleAnswer *)

Reads(c) == Running(c) /\ reader[c].pc = "reading" /\ socket[c]

Count == sent < MaxMessages /\ sent' = sent + 1

\* Only the game's own node finds the session; the answer is the snapshot of this
\* moment or an error.
Reconnect(c) ==
  /\ Reads(c) /\ Count
  /\ IF Node(c) = Home
       THEN /\ present' = [present EXCEPT ![Player(c)] = TRUE]
            /\ stood' = IF Mapped(c) THEN stood \union {c} ELSE stood
       ELSE UNCHANGED <<present, stood>>
  /\ reader' = [reader EXCEPT ![c].pc = "replying"]
  /\ UNCHANGED <<up, client, sendCh, socket, writer, dialled, hubVars,
                 sender, redisVars, got>>

\* On the game's node the handler submits the answer and acknowledges it itself;
\* another node publishes it, and Redis delivers it if somebody listens, or not,
\* and twice when its reply is lost.
Answer(c) ==
  /\ Reads(c) /\ Count
  /\ LET ack == [kind |-> "ack", number |-> sent + 1] IN
       \/ /\ Node(c) = Home
          /\ reader' = [reader EXCEPT ![c] = [pc |-> "replying", reply |-> ack]]
          /\ UNCHANGED <<actions, again>>
       \/ /\ Node(c) # Home
          /\ LET e == [player |-> Player(c), msg |-> ack] IN
               \/ UNCHANGED <<actions, again>>
               \/ /\ Home \in up
                  /\ actions' = Append(actions, e)
                  /\ UNCHANGED again
               \/ /\ Home \in up
                  /\ actions' = Append(Append(actions, e), e)
                  /\ again' = again \union {<<Player(c), sent + 1>>}
          /\ UNCHANGED reader
  /\ UNCHANGED <<up, client, sendCh, socket, writer, dialled, hubVars,
                 sender, inbox, gameVars, got>>

\* PING, or a message that is refused: too many, not to be parsed, unknown.
Ping(c) ==
  /\ Reads(c) /\ Count
  /\ reader' = [reader EXCEPT ![c].pc = "replying"]
  /\ UNCHANGED <<up, client, sendCh, socket, writer, dialled, hubVars,
                 sender, redisVars, gameVars, got>>

--------------------------------------------------------------------------------
(* SendToPlayer and the goroutines that send *)

Rests(s) == NodeOf(s) \in up /\ sender[s].pc = "idle"

Serve(s, players, m) ==
  sender' = [sender EXCEPT ![s] =
               [pc |-> "lookup", to |-> players, now |-> NoPlayer,
                conn |-> NoConn, msg |-> m]]

\* The session broadcasts a snapshot to its players, one after the other.
Broadcast ==
  /\ Rests("session") /\ Count
  /\ Serve("session", Players,
           [kind |-> "snapshot", number |-> sent + 1])
  /\ UNCHANGED <<up, connVars, dialled, hubVars, redisVars, gameVars, got>>

\* listenForRemoteActions submits the answer and has the acknowledgement sent.
TakeAction ==
  /\ Rests("remote") /\ actions # <<>>
  /\ Serve("remote", {Head(actions).player}, Head(actions).msg)
  /\ actions' = Tail(actions)
  /\ UNCHANGED <<up, connVars, dialled, hubVars, inbox, again, gameVars, sent, got>>

\* listenPubSub
Receive(n) ==
  /\ Rests(n) /\ inbox[n] # <<>>
  /\ Serve(n, {Head(inbox[n]).player}, Head(inbox[n]).msg)
  /\ inbox' = [inbox EXCEPT ![n] = Tail(@)]
  /\ UNCHANGED <<up, connVars, dialled, hubVars, actions, again, gameVars, sent, got>>

At(s, pc) == NodeOf(s) \in up /\ sender[s].pc = pc

\* The player is served: on to the next, or the goroutine rests.
Served(s) ==
  LET rest == sender[s].to \ {sender[s].now} IN
  sender' = [sender EXCEPT ![s] =
               IF rest = {} THEN Resting
               ELSE [@ EXCEPT !.pc = "lookup", !.to = rest,
                              !.now = NoPlayer, !.conn = NoConn]]

\* Nobody to send to here: SendToPlayer publishes, listenPubSub gives up.
Miss(s, goOn) ==
  IF s \in Nodes THEN Served(s) ELSE sender' = goOn

\* Under h.mu.RLock.
Lookup(s) ==
  /\ At(s, "lookup")
  /\ \E p \in sender[s].to :
       LET c == clients[NodeOf(s)][p]
           found == [sender EXCEPT ![s].pc = "check", ![s].now = p, ![s].conn = c]
           none == [sender EXCEPT ![s].pc = "publish", ![s].now = p]
       IN  sender' = IF c # NoConn THEN found
                     ELSE IF s \in Nodes THEN [sender EXCEPT ![s] = Resting]
                     ELSE none
  /\ UNCHANGED <<up, connVars, dialled, hubVars, redisVars, gameVars, sent, got>>

\* IsConnected, under c.mu.
Check(s) ==
  /\ At(s, "check")
  /\ IF client[sender[s].conn].connected
       THEN sender' = [sender EXCEPT ![s].pc = "send"]
       ELSE Miss(s, [sender EXCEPT ![s].pc = "publish"])
  /\ UNCHANGED <<up, connVars, dialled, hubVars, redisVars, gameVars, sent, got>>

SlipSendAndPublish(s) ==
  /\ At(s, "send") /\ client[sender[s].conn].connected
  /\ Queue(sender[s].conn, sender[s].msg)
  /\ Miss(s, [sender EXCEPT ![s].pc = "publish"])
  /\ UNCHANGED <<up, client, socket, reader, writer, dialled, hubVars,
                 redisVars, gameVars, sent>>

Send(s) ==
  /\ At(s, "send") /\ client[sender[s].conn].connected
  /\ Queue(sender[s].conn, sender[s].msg)
  /\ Served(s)
  /\ UNCHANGED <<up, client, socket, reader, writer, dialled, hubVars,
                 redisVars, gameVars, sent>>

\* Send on a closed channel, in a goroutine that does not recover.
Panic(s) ==
  /\ At(s, "send") /\ ~client[sender[s].conn].connected
  /\ up' = up \ {NodeOf(s)}
  /\ UNCHANGED <<connVars, dialled, hubVars, sender, redisVars, gameVars, sent,
                 got>>

\* Redis delivers the message to each node that subscribed for the player, which
\* a node does while it has a client of his, or it does not.
Deliver(p, m) ==
  \E reached \in SUBSET {n \in up : clients[n][p] # NoConn} :
    inbox' = [n \in Nodes |->
                IF n \in reached THEN Append(inbox[n], [player |-> p, msg |-> m])
                ELSE inbox[n]]

Publish(s) ==
  /\ At(s, "publish")
  /\ Deliver(sender[s].now, sender[s].msg)
  /\ Served(s)
  /\ UNCHANGED <<up, connVars, dialled, hubVars, actions, again, gameVars, sent, got>>

\* The reply to the command is lost and the library sends it again (at most three
\* times; the guard is the bound: once for a message).
PublishAgain(s) ==
  LET copy == <<sender[s].now, sender[s].msg.number>> IN
  /\ At(s, "publish") /\ copy \notin again
  /\ Deliver(sender[s].now, sender[s].msg) /\ inbox' # inbox
  /\ again' = again \union {copy}
  /\ UNCHANGED <<up, connVars, dialled, hubVars, sender, actions, gameVars, sent, got>>

--------------------------------------------------------------------------------

ReadPump(c)  == ReadFails(c) \/ Leave(c) \/ Reply(c)
WritePump(c) == WriteFrame(c) \/ StopWriting(c)
Incoming(c)  == Reconnect(c) \/ Answer(c) \/ Ping(c)
SendToPlayer(s) ==
  Lookup(s) \/ Check(s) \/ Send(s) \/ Panic(s) \/ Publish(s) \/ PublishAgain(s)

Next ==
  \/ \E p \in Players, n \in Nodes : Dial(p, n)
  \/ \E n \in Nodes : Register(n) \/ Unregister(n) \/ Receive(n)
  \/ \E c \in Conns : Lose(c) \/ ReadPump(c) \/ WritePump(c) \/ Incoming(c)
  \/ Broadcast \/ TakeAction
  \/ \E s \in Senders : SendToPlayer(s)

Spec == Init /\ [][Next]_vars

\* The hub's goroutine takes what is in its channels (select is fair between two
\* that are ready), a pump goes on, a ticker makes WritePump notice a dead socket.
Fairness ==
  /\ \A n \in Nodes : WF_vars(Register(n)) /\ WF_vars(Unregister(n))
  /\ \A c \in Conns : WF_vars(ReadPump(c)) /\ WF_vars(WritePump(c))

FairSpec == Spec /\ Fairness

--------------------------------------------------------------------------------
(* Safety *)

(* Every variable keeps the type its declaration in the code gives it, and no   *)
(* channel holds more than it was made for (hub.go:36-37, client.go:43).        *)
TypeOK ==
  /\ up \subseteq Nodes
  /\ client \in [Conns -> [player : Players \union {NoPlayer}, node : Nodes,
                           connected : BOOLEAN]]
  /\ sendCh \in [Conns -> 0 .. SendCap]
  /\ socket \in [Conns -> BOOLEAN]
  /\ reader \in [Conns -> [pc : {"none", "reading", "replying", "leaving", "done"},
                           reply : Message \union {NoMessage}]]
  /\ writer \in [Conns -> BOOLEAN]
  /\ dialled \in 0 .. MaxConns
  /\ clients \in [Nodes -> [Players -> Conns \union {NoConn}]]
  /\ registerCh \in [Nodes -> Seq(Conns)]
  /\ unregisterCh \in [Nodes -> Seq(Conns)]
  /\ \A n \in Nodes : Len(registerCh[n]) <= HubCap /\ Len(unregisterCh[n]) <= HubCap
  /\ sender \in [Senders ->
                   [pc : {"idle", "lookup", "check", "send", "publish"},
                    to : SUBSET Players, now : Players \union {NoPlayer},
                    conn : Conns \union {NoConn}, msg : Message \union {NoMessage}]]
  /\ inbox \in [Nodes -> Seq([player : Players, msg : Message])]
  /\ actions \in Seq([player : Players, msg : Message])
  /\ present \in [Players -> BOOLEAN]
  /\ sent \in Nat
  /\ saw \in [Conns -> Seq({"register", "unregister"})]
  /\ stood \subseteq Conns
  /\ got \in [Conns -> Seq(Message)]
  /\ again \subseteq Players \X Nat

(* What the map holds can be sent to: a client is in the map of its own node,  *)
(* under its own player, and its sendCh is open; Close comes only with its     *)
(* removal or replacement, under the same lock (hub.go:64-89).                 *)
MappedIsOpen ==
  \A n \in Nodes, p \in Players :
    LET c == clients[n][p] IN
    c # NoConn => client[c] = [player |-> p, node |-> n, connected |-> TRUE]

(* A connection the hub took and did not close is the one its player has there: *)
(* a late unregister of an older connection, or of one that was replaced, never *)
(* takes it out of the map (hub.go:81).                                         *)
OpenIsMapped ==
  \A c \in Conns :
    client[c].connected /\ (\E i \in 1 .. Len(saw[c]) : saw[c][i] = "register")
      => Mapped(c)

(* Nothing is queued twice on a connection, though SendToPlayer of one node and *)
(* listenPubSub of each may have it (hub.go:229-266): a message sent directly   *)
(* is not published as well.  Excepted is what the Redis library published      *)
(* twice, for the reply to the first command was lost.                          *)
AtMostOnce ==
  \A c \in Conns : \A i, j \in 1 .. Len(got[c]) :
    got[c][i] = got[c][j] =>
      i = j \/ <<Player(c), got[c][i].number>> \in again

(* A player who came back on a connection in the map stays reported as present  *)
(* as long as that connection is open, whatever the hub still has to do about   *)
(* his older connections (hub.go:81-87, 213).                                   *)
ReconnectStands == \A c \in stood : client[c].connected => present[Player(c)]

--------------------------------------------------------------------------------
(* Liveness *)

Down(c) == Node(c) \notin up
Absent(c) == c <= dialled /\ ~present[Player(c)]

(* A client that was closed, for its player has a newer one, goes away: both    *)
(* pumps end and the socket is closed (client.go:56-62, 106-108).               *)
ClosedGoesAway ==
  \A c \in Conns :
    (c <= dialled /\ ~client[c].connected)
      ~> ((reader[c].pc = "done" /\ ~writer[c] /\ ~socket[c]) \/ Down(c))

(* A player who reconnected and whose connection is lost is reported absent, or *)
(* has been registered on a newer connection (client.go:60, hub.go:77-87).      *)
LossIsNoticed ==
  \A c \in Conns :
    (c \in stood /\ ~socket[c])
      ~> (Absent(c) \/ ~client[c].connected \/ Down(c))

(* A connection whose reader ended leaves the map, unless the hub took its      *)
(* unregistration before its registration: that one stays for ever.             *)
Ghost(c) == Len(saw[c]) = 2 /\ saw[c][1] = "unregister"

GoneIsForgotten ==
  \A c \in Conns :
    (reader[c].pc = "done") ~> (~Mapped(c) \/ Ghost(c) \/ Down(c))

--------------------------------------------------------------------------------
(* What the code says of itself *)

(* A frame holds one message, as the app (GameSocket.ts:138) and the tests      *)
(* (e2e_test.go:317) read it.                                                   *)
FramesAreMessages ==
  [][\A c \in Conns : WriteFrame(c) /\ socket[c] => sendCh[c] = 1]_vars

(* SendToPlayer sends to a client that is connected and publishes for one that  *)
(* is not (hub.go:234-244); it never sends on a channel that is closed.         *)
NobodyPanics == up = Nodes
================================================================================
