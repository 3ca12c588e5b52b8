--------------------------------- MODULE HubProofs ---------------------------------
(***************************************************************************)
(* Proofs about Hub, for any players, nodes, capacities and number of      *)
(* connections: the map of clients holds open connections only, a          *)
(* connection the hub took and did not close is the one in the map, and a  *)
(* player who came back stays reported as present; then every variable     *)
(* keeps its type, no channel overflows, and nothing is queued twice on a  *)
(* connection, whichever goroutines look it up, send to it or publish.     *)
(***************************************************************************)
EXTENDS Hub, SequenceTheorems, TLAPS

--------------------------------------------------------------------------------
(* The inductive invariant *)

CoreOK ==
  /\ client \in [Conns -> [player : Players \union {NoPlayer}, node : Nodes,
                           connected : BOOLEAN]]
  /\ dialled \in 0 .. MaxConns
  /\ clients \in [Nodes -> [Players -> Conns \union {NoConn}]]
  /\ registerCh \in [Nodes -> Seq(Conns)]
  /\ unregisterCh \in [Nodes -> Seq(Conns)]
  /\ saw \in [Conns -> Seq({"register", "unregister"})]
  /\ present \in [Players -> BOOLEAN]
  /\ stood \subseteq Conns

\* The hub has taken the registration of c.
Registered(c) == \E i \in 1 .. Len(saw[c]) : saw[c][i] = "register"

\* A connection that nobody dialled has done nothing; every other has a player.
DialledInv ==
  \A c \in Conns :
    IF c <= dialled THEN Player(c) \in Players
    ELSE ~client[c].connected /\ ~Registered(c)

\* What waits for registration is open, waits once, on its own node, and has not
\* been registered yet.
Waiting(n) ==
  {c \in Conns : c <= dialled /\ Node(c) = n /\ client[c].connected /\ ~Registered(c)}

Distinct(s) == \A i, j \in 1 .. Len(s) : s[i] = s[j] => i = j

WaitingInv ==
  \A n \in Nodes : registerCh[n] \in Seq(Waiting(n)) /\ Distinct(registerCh[n])

\* What waits for its removal is a connection of that node.
DialledAt(n) == {c \in Conns : c <= dialled /\ Node(c) = n}

LeavingInv == \A n \in Nodes : unregisterCh[n] \in Seq(DialledAt(n))

\* A connection in the map was registered.
MappedInv ==
  \A n \in Nodes, p \in Players :
    clients[n][p] # NoConn => Registered(clients[n][p])

\* Who reconnected in the map did so on the game's node.
StoodInv == \A c \in stood : c <= dialled /\ Node(c) = Home /\ Registered(c)

HubInv ==
  /\ CoreOK /\ DialledInv /\ WaitingInv /\ LeavingInv /\ MappedInv /\ StoodInv
  /\ MappedIsOpen /\ OpenIsMapped /\ ReconnectStands

coreVars == <<client, dialled, hubVars, gameVars>>

--------------------------------------------------------------------------------
(* Lemmas *)

\* OpenIsMapped in the words of the invariant.
LEMMA OpenIsMappedMeans ==
  OpenIsMapped <=> \A c \in Conns : client[c].connected /\ Registered(c) => Mapped(c)
BY DEF OpenIsMapped, Registered

\* A connection in the map is open, has a player and a node, and is a connection.
LEMMA InTheMap ==
  ASSUME HubInv, NEW n \in Nodes, NEW p \in Players, clients[n][p] # NoConn
  PROVE  /\ clients[n][p] \in Conns /\ clients[n][p] <= dialled
         /\ Node(clients[n][p]) = n /\ Player(clients[n][p]) = p
         /\ client[clients[n][p]].connected /\ Registered(clients[n][p])
<1> DEFINE c == clients[n][p]
<1>1. c \in Conns /\ dialled \in Int
  BY DEF HubInv, CoreOK
<1>2. client[c] = [player |-> p, node |-> n, connected |-> TRUE]
  BY DEF HubInv, MappedIsOpen
<1>3. Registered(c)
  BY DEF HubInv, MappedInv
<1>4. c <= dialled
  BY <1>1, <1>2, <1>3 DEF HubInv, DialledInv
<1> QED
  BY <1>1, <1>2, <1>3, <1>4 DEF Node, Player

\* An action that touches neither the map, nor its channels, nor what is reported.
LEMMA CoreUnchanged ==
  ASSUME HubInv, UNCHANGED coreVars
  PROVE  HubInv'
<1>1. CoreOK'
  BY DEF HubInv, coreVars, hubVars, gameVars, CoreOK
<1>2. DialledInv' /\ WaitingInv' /\ LeavingInv'
  <2>1. \A n \in Nodes : Waiting(n)' = Waiting(n) /\ DialledAt(n)' = DialledAt(n)
    BY DEF coreVars, hubVars, Waiting, DialledAt, Registered, Node
  <2>2. WaitingInv' /\ LeavingInv'
    BY <2>1 DEF HubInv, coreVars, hubVars, WaitingInv, LeavingInv, Distinct
  <2> QED
    BY <2>2 DEF HubInv, coreVars, hubVars, DialledInv, Registered, Player
<1>3. MappedInv' /\ StoodInv'
  BY DEF HubInv, coreVars, hubVars, gameVars, MappedInv, StoodInv, Registered, Node
<1>4. MappedIsOpen' /\ OpenIsMapped' /\ ReconnectStands'
  BY DEF HubInv, coreVars, hubVars, gameVars, MappedIsOpen, OpenIsMapped,
     ReconnectStands, Mapped, Node, Player
<1> QED
  BY <1>1, <1>2, <1>3, <1>4 DEF HubInv

\* A list stays without repetitions when something new is put at its end.
LEMMA AppendDistinct ==
  ASSUME NEW S, NEW s \in Seq(S), Distinct(s), NEW e, e \notin S
  PROVE  Distinct(Append(s, e))
<1>1. s \in Seq(S \union {e}) /\ Len(s) \in Nat
  BY SeqMonotonic, LenProperties
<1>2. /\ Len(Append(s, e)) = Len(s) + 1
      /\ \A i \in 1 .. Len(s) : Append(s, e)[i] = s[i]
      /\ Append(s, e)[Len(s) + 1] = e
  BY <1>1, AppendProperties
<1>3. \A i \in 1 .. Len(s) : s[i] # e
  BY ElementOfSeq
<1> SUFFICES ASSUME NEW i \in 1 .. Len(Append(s, e)), NEW j \in 1 .. Len(Append(s, e)),
                    Append(s, e)[i] = Append(s, e)[j]
             PROVE  i = j
  BY DEF Distinct
<1>4. (i \in 1 .. Len(s) \/ i = Len(s) + 1) /\ (j \in 1 .. Len(s) \/ j = Len(s) + 1)
  BY <1>1, <1>2
<1> QED
  BY <1>2, <1>3, <1>4 DEF Distinct

\* Removing the head of a channel: what is left was in it.
LEMMA TailOf ==
  ASSUME NEW S, NEW s \in Seq(S), s # <<>>
  PROVE  /\ Head(s) \in S /\ Head(s) = s[1] /\ Tail(s) \in Seq(S)
         /\ Len(s) >= 1 /\ Len(Tail(s)) = Len(s) - 1
         /\ \A i \in 1 .. Len(Tail(s)) : Tail(s)[i] = s[i + 1] /\ i + 1 \in 1 .. Len(s)
<1>1. Len(s) \in Nat /\ Len(s) # 0
  BY EmptySeq, LenProperties
<1> QED
  BY <1>1, HeadTailProperties

\* Without its head, a list without repetitions is one, and the head is gone.
LEMMA TailDistinct ==
  ASSUME NEW S, NEW s \in Seq(S), s # <<>>, Distinct(s)
  PROVE  Distinct(Tail(s)) /\ Tail(s) \in Seq(S \ {Head(s)})
<1>1. /\ Head(s) \in S /\ Head(s) = s[1] /\ Tail(s) \in Seq(S)
      /\ Len(s) >= 1 /\ Len(Tail(s)) = Len(s) - 1 /\ Len(s) \in Nat
      /\ \A i \in 1 .. Len(Tail(s)) : Tail(s)[i] = s[i + 1] /\ i + 1 \in 1 .. Len(s)
  BY TailOf, LenProperties
<1>2. Distinct(Tail(s))
  BY <1>1 DEF Distinct
<1>3. \A i \in 1 .. Len(Tail(s)) : Tail(s)[i] \in S \ {Head(s)}
  <2> SUFFICES ASSUME NEW i \in 1 .. Len(Tail(s)) PROVE Tail(s)[i] \in S /\ Tail(s)[i] # s[1]
    BY <1>1
  <2>1. Tail(s)[i] \in S
    BY <1>1, ElementOfSeq
  <2>2. s[i + 1] # s[1]
    BY <1>1 DEF Distinct
  <2> QED
    BY <1>1, <2>1, <2>2
<1>4. Tail(s) \in [1 .. Len(Tail(s)) -> S \ {Head(s)}] /\ Len(Tail(s)) \in Nat
  BY <1>1, <1>3, LenProperties
<1>5. Tail(s) \in Seq(S \ {Head(s)})
  <2> DEFINE t == Tail(s)
             n == Len(t)
             R == S \ {Head(s)}
  <2>1. n \in Nat /\ t \in [1 .. n -> R]
    BY <1>4
  <2> HIDE DEF t, n, R
  <2>2. t \in Seq(R)
    BY <2>1
  <2> QED
    BY <2>2 DEF t, R
<1> QED
  BY <1>2, <1>5

\* The hub's record of a connection: only a registration makes it registered.
LEMMA Recorded ==
  ASSUME NEW s \in Seq({"register", "unregister"}),
         NEW e \in {"register", "unregister"}
  PROVE  /\ Append(s, e) \in Seq({"register", "unregister"})
         /\ (\E i \in 1 .. Len(Append(s, e)) : Append(s, e)[i] = "register")
              <=> (e = "register" \/ \E i \in 1 .. Len(s) : s[i] = "register")
<1>1. /\ Append(s, e) \in Seq({"register", "unregister"}) /\ Len(s) \in Nat
      /\ Len(Append(s, e)) = Len(s) + 1
      /\ \A i \in 1 .. Len(s) : Append(s, e)[i] = s[i]
      /\ Append(s, e)[Len(s) + 1] = e
  BY AppendProperties, LenProperties
<1> QED
  BY <1>1
--------------------------------------------------------------------------------
(* The actions *)

\* A new connection waits for its registration and is nowhere else (handler.go:82).
LEMMA DialKeeps ==
  ASSUME HubInv, NEW p \in Players, NEW n \in Nodes, Dial(p, n)
  PROVE  HubInv'
<1> DEFINE c == dialled + 1
<1>1. /\ c \in Conns /\ dialled' = c /\ dialled \in 0 .. MaxConns
      /\ client' = [client EXCEPT ![c] = [player |-> p, node |-> n, connected |-> TRUE]]
      /\ registerCh' = [registerCh EXCEPT ![n] = Append(@, c)]
      /\ UNCHANGED <<clients, unregisterCh, saw, gameVars>>
  BY HubAssumption DEF Dial, HubInv, CoreOK, Conns
<1> HIDE DEF c
<1>2. ~client[c].connected /\ ~Registered(c) /\ c = dialled + 1
  BY <1>1 DEF HubInv, DialledInv, c
<1>3. /\ client'[c] = [player |-> p, node |-> n, connected |-> TRUE]
      /\ \A d \in Conns : d # c => client'[d] = client[d]
      /\ \A d \in Conns : Registered(d)' <=> Registered(d)
  BY <1>1 DEF HubInv, CoreOK, Registered
<1>4. CoreOK'
  <2>1. client' \in [Conns -> [player : Players \union {NoPlayer}, node : Nodes,
                               connected : BOOLEAN]]
    BY <1>1 DEF HubInv, CoreOK
  <2>2. registerCh' \in [Nodes -> Seq(Conns)]
    BY <1>1, AppendProperties DEF HubInv, CoreOK
  <2>3. dialled' \in 0 .. MaxConns
    BY <1>1 DEF Conns
  <2> QED
    BY <1>1, <2>1, <2>2, <2>3 DEF HubInv, CoreOK, gameVars
<1>5. DialledInv'
  <2> SUFFICES ASSUME NEW d \in Conns
               PROVE  IF d <= dialled' THEN client'[d].player \in Players
                      ELSE ~client'[d].connected /\ ~Registered(d)'
    BY DEF DialledInv, Player
  <2>1. CASE d = c
    BY <1>1, <1>2, <1>3, <2>1
  <2>2. CASE d # c
    <3>1. d <= dialled' <=> d <= dialled
      BY <1>1, <1>2, <2>2 DEF Conns
    <3> QED
      BY <1>3, <2>2, <3>1 DEF HubInv, DialledInv, Player
  <2> QED
    BY <2>1, <2>2
<1>6. WaitingInv'
  <2> SUFFICES ASSUME NEW m \in Nodes
               PROVE  registerCh'[m] \in Seq(Waiting(m)') /\ Distinct(registerCh'[m])
    BY DEF WaitingInv, Distinct
  <2>0. registerCh[m] \in Seq(Waiting(m)) /\ Distinct(registerCh[m])
    BY DEF HubInv, WaitingInv
  <2>1. c \notin Waiting(m) /\ Waiting(m) \subseteq Waiting(m)'
    BY <1>1, <1>2, <1>3 DEF Waiting, Node, Conns
  <2>2. registerCh[m] \in Seq(Waiting(m)')
    BY <2>0, <2>1, SeqMonotonic
  <2>3. CASE m # n
    BY <1>1, <2>0, <2>2, <2>3 DEF HubInv, CoreOK
  <2>4. CASE m = n
    <3>1. c \in Waiting(n)'
      BY <1>1, <1>2, <1>3 DEF Waiting, Node, Conns
    <3>2. registerCh'[m] = Append(registerCh[m], c)
      BY <1>1, <2>4 DEF HubInv, CoreOK
    <3>3. Distinct(Append(registerCh[m], c))
      BY <2>0, <2>1, AppendDistinct
    <3>4. Append(registerCh[m], c) \in Seq(Waiting(m)')
      BY <2>2, <2>4, <3>1, AppendProperties
    <3> QED
      BY <3>2, <3>3, <3>4
  <2> QED
    BY <2>3, <2>4
<1>7. LeavingInv'
  <2> SUFFICES ASSUME NEW m \in Nodes
               PROVE  unregisterCh[m] \in Seq(DialledAt(m)')
    BY <1>1 DEF LeavingInv
  <2>1. unregisterCh[m] \in Seq(DialledAt(m))
    BY DEF HubInv, LeavingInv
  <2>2. DialledAt(m) \subseteq DialledAt(m)'
    BY <1>1, <1>2, <1>3 DEF DialledAt, Node, Conns
  <2> QED
    BY <2>1, <2>2, SeqMonotonic
<1>8. MappedInv' /\ MappedIsOpen'
  <2>1. \A m \in Nodes, q \in Players : clients[m][q] # NoConn =>
          clients[m][q] \in Conns /\ clients[m][q] # c
    BY <1>2, InTheMap
  <2> QED
    BY <1>1, <1>3, <2>1 DEF HubInv, MappedInv, MappedIsOpen
<1>9. StoodInv' /\ ReconnectStands'
  <2>1. \A d \in stood : d \in Conns /\ d # c /\ d <= dialled'
    BY <1>1, <1>2 DEF HubInv, CoreOK, StoodInv, Conns
  <2> QED
    BY <1>1, <1>3, <2>1 DEF HubInv, StoodInv, ReconnectStands, gameVars, Node, Player
<1>10. OpenIsMapped'
  <2> SUFFICES ASSUME NEW d \in Conns, client'[d].connected, Registered(d)'
               PROVE  /\ d \in 1 .. dialled'
                      /\ clients'[client'[d].node][client'[d].player] = d
    BY DEF OpenIsMapped, Registered, Mapped, Node, Player
  <2>1. d # c
    BY <1>2, <1>3
  <2>2. Mapped(d)
    BY <1>3, <2>1, OpenIsMappedMeans DEF HubInv
  <2> QED
    BY <1>1, <1>2, <1>3, <2>1, <2>2 DEF Mapped, Node, Player, Conns
<1> QED
  BY <1>4, <1>5, <1>6, <1>7, <1>8, <1>9, <1>10 DEF HubInv

\* The hub's goroutine takes a new connection: the older one of the player, if he
\* has one there, is closed and replaced (hub.go:64-75).
LEMMA RegisterKeeps ==
  ASSUME HubInv, NEW n \in Nodes, Register(n)
  PROVE  HubInv'
<1> DEFINE c == Head(registerCh[n])
           p == Player(c)
           e == clients[n][p]
<1>1. /\ c \in Waiting(n) /\ Tail(registerCh[n]) \in Seq(Waiting(n) \ {c})
      /\ Distinct(Tail(registerCh[n])) /\ Tail(registerCh[n]) \in Seq(Conns)
  <2>1. registerCh[n] # <<>> /\ registerCh[n] \in Seq(Waiting(n)) /\ Distinct(registerCh[n])
        /\ registerCh[n] \in Seq(Conns)
    BY DEF Register, HubInv, WaitingInv, CoreOK
  <2>2. Tail(registerCh[n]) \in Seq(Conns)
    BY <2>1, TailOf
  <2> QED
    BY <2>1, <2>2, TailOf, TailDistinct
<1>2. /\ c \in Conns /\ c <= dialled /\ Node(c) = n /\ client[c].connected
      /\ ~Registered(c) /\ p \in Players
  BY <1>1 DEF Waiting, HubInv, DialledInv
<1>3. /\ clients' = [clients EXCEPT ![n][p] = c]
      /\ client' = IF e = NoConn THEN client ELSE [client EXCEPT ![e].connected = FALSE]
      /\ saw' = [saw EXCEPT ![c] = Append(@, "register")]
      /\ registerCh' = [registerCh EXCEPT ![n] = Tail(@)]
      /\ UNCHANGED <<dialled, unregisterCh, gameVars>>
  BY DEF Register
<1>4. e # NoConn => /\ e \in Conns /\ e <= dialled /\ e # c /\ Node(e) = n
                    /\ Player(e) = p /\ Registered(e) /\ client[e].connected
  BY <1>2, InTheMap
<1> HIDE DEF c, p, e
<1>5. /\ \A d \in Conns : d # e => client'[d] = client[d]
      /\ e # NoConn => client'[e] = [player |-> p, node |-> n, connected |-> FALSE]
      /\ \A d \in Conns : Node(d)' = Node(d) /\ Player(d)' = Player(d)
  BY <1>3, <1>4 DEF HubInv, CoreOK, Node, Player
<1>6. \A d \in Conns : Registered(d)' <=> (d = c \/ Registered(d))
  <2> SUFFICES ASSUME NEW d \in Conns PROVE Registered(d)' <=> (d = c \/ Registered(d))
    OBVIOUS
  <2>1. CASE d = c
    <3>1. saw'[d] = Append(saw[d], "register") /\ saw[d] \in Seq({"register", "unregister"})
      BY <1>2, <1>3, <2>1 DEF HubInv, CoreOK
    <3> QED
      BY <2>1, <3>1, Recorded DEF Registered
  <2>2. CASE d # c
    BY <1>2, <1>3, <2>2 DEF HubInv, CoreOK, Registered
  <2> QED
    BY <2>1, <2>2
<1>7. /\ \A m \in Nodes, q \in Players :
           clients'[m][q] = IF m = n /\ q = p THEN c ELSE clients[m][q]
      /\ clients' \in [Nodes -> [Players -> Conns \union {NoConn}]]
  BY <1>2, <1>3 DEF HubInv, CoreOK
<1>8. \A m \in Nodes : registerCh'[m] = IF m = n THEN Tail(registerCh[m]) ELSE registerCh[m]
  BY <1>3 DEF HubInv, CoreOK
<1>9. CoreOK'
  <2>1. client' \in [Conns -> [player : Players \union {NoPlayer}, node : Nodes,
                               connected : BOOLEAN]]
    BY <1>3, <1>4, ZenonT(40) DEF HubInv, CoreOK
  <2>2. registerCh' \in [Nodes -> Seq(Conns)]
    BY <1>1, <1>3 DEF HubInv, CoreOK
  <2>3. saw' \in [Conns -> Seq({"register", "unregister"})]
    BY <1>2, <1>3, Recorded DEF HubInv, CoreOK
  <2> QED
    BY <1>3, <1>7, <2>1, <2>2, <2>3 DEF HubInv, CoreOK, gameVars
<1>10. DialledInv'
  BY <1>2, <1>3, <1>4, <1>5, <1>6 DEF HubInv, DialledInv, Player
<1>11. WaitingInv'
  <2> SUFFICES ASSUME NEW m \in Nodes
               PROVE  registerCh'[m] \in Seq(Waiting(m)') /\ Distinct(registerCh'[m])
    BY DEF WaitingInv, Distinct
  <2>0. registerCh[m] \in Seq(Waiting(m)) /\ Distinct(registerCh[m])
    BY DEF HubInv, WaitingInv
  <2>1. Waiting(m) \ {c} \subseteq Waiting(m)'
    BY <1>3, <1>4, <1>5, <1>6 DEF Waiting
  <2>2. CASE m = n
    <3>1. Tail(registerCh[m]) \in Seq(Waiting(m)')
      BY <1>1, <2>1, <2>2, SeqMonotonic
    <3> QED
      BY <1>1, <1>8, <2>2, <3>1
  <2>3. CASE m # n
    <3>1. Waiting(m) \subseteq Waiting(m)'
      BY <1>2, <2>1, <2>3 DEF Waiting
    <3> QED
      BY <1>8, <2>0, <2>3, <3>1, SeqMonotonic
  <2> QED
    BY <2>2, <2>3
<1>12. LeavingInv'
  <2>1. \A m \in Nodes : DialledAt(m)' = DialledAt(m)
    BY <1>3, <1>5 DEF DialledAt
  <2> QED
    BY <1>3, <2>1 DEF HubInv, LeavingInv
<1>13. MappedInv'
  <2> SUFFICES ASSUME NEW m \in Nodes, NEW q \in Players, NEW d, d = clients'[m][q],
                      d # NoConn
               PROVE  Registered(d)'
    BY DEF MappedInv, Registered
  <2>1. CASE m = n /\ q = p
    BY <1>2, <1>6, <1>7, <2>1
  <2>2. CASE ~(m = n /\ q = p)
    <3>1. d = clients[m][q] /\ d \in Conns /\ Registered(d)
      BY <1>7, <2>2, InTheMap
    <3> QED
      BY <1>6, <3>1
  <2> QED
    BY <2>1, <2>2
<1>14. MappedIsOpen'
  <2> SUFFICES ASSUME NEW m \in Nodes, NEW q \in Players, clients'[m][q] # NoConn
               PROVE  client'[clients'[m][q]] =
                        [player |-> q, node |-> m, connected |-> TRUE]
    BY DEF MappedIsOpen
  <2>1. CASE m = n /\ q = p
    <3>1. c # e
      BY <1>4, <1>2 DEF Conns, NoConn
    <3>2. client[c] = [player |-> p, node |-> n, connected |-> TRUE]
      BY <1>2 DEF HubInv, CoreOK, Node, Player, p
    <3> QED
      BY <1>2, <1>5, <1>7, <2>1, <3>1, <3>2
  <2>2. CASE ~(m = n /\ q = p)
    <3>1. /\ clients'[m][q] = clients[m][q] /\ clients[m][q] \in Conns
          /\ Node(clients[m][q]) = m /\ Player(clients[m][q]) = q
          /\ client[clients[m][q]] = [player |-> q, node |-> m, connected |-> TRUE]
      BY <1>7, <2>2, InTheMap DEF HubInv, MappedIsOpen
    <3>2. clients[m][q] # e
      BY <1>4, <2>2, <3>1 DEF Conns, NoConn
    <3> QED
      BY <1>5, <3>1, <3>2
  <2> QED
    BY <2>1, <2>2
<1>15. StoodInv' /\ ReconnectStands'
  <2>1. \A d \in stood : d \in Conns
    BY DEF HubInv, CoreOK
  <2> QED
    BY <1>3, <1>4, <1>5, <1>6, <2>1
    DEF HubInv, StoodInv, ReconnectStands, gameVars, Node, Player
<1>16. OpenIsMapped'
  <2> SUFFICES ASSUME NEW d \in Conns, client'[d].connected, Registered(d)'
               PROVE  /\ d \in 1 .. dialled
                      /\ clients'[Node(d)][Player(d)] = d
    BY <1>3, <1>5 DEF OpenIsMapped, Registered, Mapped, Node, Player
  <2>1. CASE d = c
    BY <1>2, <1>7, <2>1 DEF HubInv, CoreOK, Conns, p
  <2>2. CASE d # c
    <3>1. d # e
      BY <1>4, <1>5 DEF Conns, NoConn
    <3>2. Mapped(d) /\ Node(d) \in Nodes /\ d <= dialled
      BY <1>5, <1>6, <2>2, <3>1, OpenIsMappedMeans DEF HubInv, CoreOK, Node, Mapped
    <3>3. Player(d) \in Players
      BY <3>2 DEF HubInv, DialledInv
    <3>4. ~(Node(d) = n /\ Player(d) = p)
      BY <3>1, <3>2 DEF Mapped, e
    <3> QED
      BY <1>7, <3>2, <3>3, <3>4 DEF Mapped
  <2> QED
    BY <2>1, <2>2
<1> QED
  BY <1>9, <1>10, <1>11, <1>12, <1>13, <1>14, <1>15, <1>16 DEF HubInv

\* The hub's goroutine takes the end of a connection: only the one that is in the
\* map leaves it and is closed, and its player's absence is reported (hub.go:77-89).
LEMMA UnregisterKeeps ==
  ASSUME HubInv, NEW n \in Nodes, Unregister(n)
  PROVE  HubInv'
<1> DEFINE c == Head(unregisterCh[n])
           p == Player(c)
           gone == clients[n][p] = c
<1>1. c \in DialledAt(n) /\ Tail(unregisterCh[n]) \in Seq(DialledAt(n))
      /\ Tail(unregisterCh[n]) \in Seq(Conns)
  <2>1. unregisterCh[n] # <<>> /\ unregisterCh[n] \in Seq(DialledAt(n))
        /\ unregisterCh[n] \in Seq(Conns)
    BY DEF Unregister, HubInv, LeavingInv, CoreOK
  <2> QED
    BY <2>1, TailOf
<1>2. c \in Conns /\ c <= dialled /\ Node(c) = n /\ p \in Players /\ c # NoConn
  BY <1>1 DEF DialledAt, HubInv, DialledInv, Conns, NoConn
<1>3. /\ IF gone
           THEN /\ clients' = [clients EXCEPT ![n][p] = NoConn]
                /\ client' = [client EXCEPT ![c].connected = FALSE]
                /\ present' = IF n = Home THEN [present EXCEPT ![p] = FALSE] ELSE present
           ELSE UNCHANGED <<clients, client, present>>
      /\ saw' = [saw EXCEPT ![c] = Append(@, "unregister")]
      /\ unregisterCh' = [unregisterCh EXCEPT ![n] = Tail(@)]
      /\ UNCHANGED <<dialled, registerCh, stood>>
  BY DEF Unregister, HandleDisconnect
<1>4. gone => Registered(c)
  BY <1>2, InTheMap DEF NoConn
<1> HIDE DEF c, p, gone
<1>5. /\ \A d \in Conns : d # c \/ ~gone => client'[d] = client[d]
      /\ \A d \in Conns : Node(d)' = Node(d) /\ Player(d)' = Player(d)
      /\ \A d \in Conns : client'[d].connected => client[d].connected /\ ~(gone /\ d = c)
  <2>1. CASE gone
    <3>1. client' = [client EXCEPT ![c].connected = FALSE]
      BY <1>3, <2>1
    <3>2. client \in [Conns -> [player : Players \union {NoPlayer}, node : Nodes,
                                connected : BOOLEAN]]
      BY DEF HubInv, CoreOK
    <3>3. /\ \A d \in Conns : d # c => client'[d] = client[d]
          /\ client'[c].player = client[c].player /\ client'[c].node = client[c].node
          /\ client'[c].connected = FALSE
      BY <1>2, <3>1, <3>2
    <3> QED
      BY <2>1, <3>3 DEF Node, Player
  <2>2. CASE ~gone
    BY <1>2, <1>3, <2>2 DEF HubInv, CoreOK, Node, Player
  <2> QED
    BY <2>1, <2>2
<1>6. \A d \in Conns : Registered(d)' <=> Registered(d)
  <2> SUFFICES ASSUME NEW d \in Conns PROVE Registered(d)' <=> Registered(d)
    OBVIOUS
  <2>1. CASE d = c
    <3>1. saw'[d] = Append(saw[d], "unregister") /\ saw[d] \in Seq({"register", "unregister"})
      BY <1>2, <1>3, <2>1 DEF HubInv, CoreOK
    <3> QED
      BY <2>1, <3>1, Recorded DEF Registered
  <2>2. CASE d # c
    BY <1>2, <1>3, <2>2 DEF HubInv, CoreOK, Registered
  <2> QED
    BY <2>1, <2>2
<1>7. /\ \A m \in Nodes, q \in Players :
           clients'[m][q] = IF gone /\ m = n /\ q = p THEN NoConn ELSE clients[m][q]
      /\ clients' \in [Nodes -> [Players -> Conns \union {NoConn}]]
  <2>1. CASE gone
    <3>1. clients' = [clients EXCEPT ![n][p] = NoConn]
      BY <1>3, <2>1
    <3> QED
      BY <1>2, <2>1, <3>1 DEF HubInv, CoreOK
  <2>2. CASE ~gone
    BY <1>2, <1>3, <2>2 DEF HubInv, CoreOK
  <2> QED
    BY <2>1, <2>2
<1>8. \A m \in Nodes :
        unregisterCh'[m] = IF m = n THEN Tail(unregisterCh[m]) ELSE unregisterCh[m]
  BY <1>3 DEF HubInv, CoreOK
<1>9. CoreOK'
  <2>1. client' \in [Conns -> [player : Players \union {NoPlayer}, node : Nodes,
                               connected : BOOLEAN]]
    <3>1. CASE gone
      <4>1. client' = [client EXCEPT ![c].connected = FALSE]
        BY <1>3, <3>1
      <4> QED
        BY <1>2, <4>1 DEF HubInv, CoreOK
    <3>2. CASE ~gone
      BY <1>3, <3>2 DEF HubInv, CoreOK
    <3> QED
      BY <3>1, <3>2
  <2>2. unregisterCh' \in [Nodes -> Seq(Conns)]
    BY <1>1, <1>3 DEF HubInv, CoreOK
  <2>3. saw' \in [Conns -> Seq({"register", "unregister"})]
    BY <1>2, <1>3, Recorded DEF HubInv, CoreOK
  <2>4. present' \in [Players -> BOOLEAN]
    BY <1>2, <1>3 DEF HubInv, CoreOK
  <2> QED
    BY <1>3, <1>7, <2>1, <2>2, <2>3, <2>4 DEF HubInv, CoreOK
<1>10. DialledInv'
  BY <1>3, <1>5, <1>6 DEF HubInv, DialledInv
<1>11. WaitingInv'
  <2> SUFFICES ASSUME NEW m \in Nodes
               PROVE  registerCh'[m] \in Seq(Waiting(m)') /\ Distinct(registerCh'[m])
    BY DEF WaitingInv, Distinct
  <2>0. registerCh[m] \in Seq(Waiting(m)) /\ Distinct(registerCh[m])
    BY DEF HubInv, WaitingInv
  <2>1. Waiting(m) \subseteq Waiting(m)'
    BY <1>3, <1>4, <1>5, <1>6 DEF Waiting
  <2> QED
    BY <1>3, <2>0, <2>1, SeqMonotonic
<1>12. LeavingInv'
  <2>1. \A m \in Nodes : DialledAt(m)' = DialledAt(m)
    BY <1>3, <1>5 DEF DialledAt
  <2> QED
    BY <1>1, <1>8, <2>1 DEF HubInv, LeavingInv
<1>13. ASSUME NEW m \in Nodes, NEW q \in Players, NEW d, d = clients'[m][q], d # NoConn
       PROVE  d \in Conns /\ d = clients[m][q] /\ (d # c \/ ~gone)
  <2>1. d = clients[m][q]
    BY <1>7, <1>13
  <2>2. d \in Conns /\ Node(d) = m /\ Player(d) = q
    BY <1>13, <2>1, InTheMap
  <2> QED
    BY <1>2, <1>7, <1>13, <2>1, <2>2 DEF p
<1>14. MappedInv'
  <2> SUFFICES ASSUME NEW m \in Nodes, NEW q \in Players, NEW d, d = clients'[m][q],
                      d # NoConn
               PROVE  Registered(d)'
    BY DEF MappedInv, Registered
  <2>1. d \in Conns /\ d = clients[m][q]
    BY <1>13
  <2>2. Registered(d)
    BY <2>1, InTheMap
  <2> QED
    BY <1>6, <2>1, <2>2
<1>15. MappedIsOpen'
  <2> SUFFICES ASSUME NEW m \in Nodes, NEW q \in Players, NEW d, d = clients'[m][q],
                      d # NoConn
               PROVE  client'[d] = [player |-> q, node |-> m, connected |-> TRUE]
    BY Zenon DEF MappedIsOpen
  <2> QED
    BY <1>5, <1>13 DEF HubInv, MappedIsOpen
<1>16. OpenIsMapped'
  <2> SUFFICES ASSUME NEW d \in Conns, client'[d].connected, Registered(d)'
               PROVE  /\ d \in 1 .. dialled
                      /\ clients'[Node(d)][Player(d)] = d
    BY <1>3, <1>5 DEF OpenIsMapped, Registered, Mapped, Node, Player
  <2>1. Mapped(d) /\ Node(d) \in Nodes /\ d <= dialled
    BY <1>5, <1>6, OpenIsMappedMeans DEF HubInv, CoreOK, Node, Mapped
  <2>2. Player(d) \in Players
    BY <2>1 DEF HubInv, DialledInv
  <2>3. ~(gone /\ Node(d) = n /\ Player(d) = p)
    BY <1>5, <2>1 DEF Mapped, gone
  <2> QED
    BY <1>7, <2>1, <2>2, <2>3 DEF Mapped
<1>17. StoodInv'
  <2>1. \A d \in stood : d \in Conns
    BY DEF HubInv, CoreOK
  <2> QED
    BY <1>3, <1>5, <1>6, <2>1 DEF HubInv, StoodInv
<1>18. ReconnectStands'
  <2> SUFFICES ASSUME NEW d \in stood, client'[d].connected
               PROVE  present'[Player(d)]
    BY <1>3, <1>5 DEF ReconnectStands, HubInv, CoreOK, Player
  <2>1. /\ d \in Conns /\ d <= dialled /\ Node(d) = Home /\ Registered(d)
        /\ client[d].connected /\ ~(gone /\ d = c)
    BY <1>5 DEF HubInv, CoreOK, StoodInv
  <2>2. present[Player(d)] /\ Player(d) \in Players
    BY <2>1 DEF HubInv, ReconnectStands, DialledInv
  <2>3. clients[Home][Player(d)] = d
    BY <2>1, OpenIsMappedMeans DEF HubInv, Mapped
  <2>4. ~(gone /\ n = Home /\ Player(d) = p)
    BY <2>1, <2>3 DEF gone
  <2> QED
    BY <1>2, <1>3, <2>2, <2>4 DEF HubInv, CoreOK
<1> QED
  BY <1>9, <1>10, <1>11, <1>12, <1>14, <1>15, <1>16, <1>17, <1>18 DEF HubInv

\* The connections of a node do not change, nor which of them wait.
LEMMA SameConnections ==
  ASSUME HubInv, UNCHANGED <<client, dialled, clients, registerCh, saw>>
  PROVE  /\ DialledInv' /\ WaitingInv' /\ MappedInv' /\ MappedIsOpen' /\ OpenIsMapped'
         /\ \A n \in Nodes : DialledAt(n)' = DialledAt(n)
<1>1. \A n \in Nodes : Waiting(n)' = Waiting(n) /\ DialledAt(n)' = DialledAt(n)
  BY DEF Waiting, DialledAt, Registered, Node
<1>2. WaitingInv'
  BY <1>1 DEF HubInv, WaitingInv, Distinct
<1>3. DialledInv' /\ MappedInv'
  BY DEF HubInv, DialledInv, MappedInv, Registered, Player
<1>4. MappedIsOpen' /\ OpenIsMapped'
  BY DEF HubInv, MappedIsOpen, OpenIsMapped, Mapped, Node, Player
<1> QED
  BY <1>1, <1>2, <1>3, <1>4

\* A pump that ends queues its connection for removal (client.go:60).
LEMMA LeaveKeeps ==
  ASSUME HubInv, NEW c \in Conns, Leave(c)
  PROVE  HubInv'
<1>1. /\ c <= dialled /\ Node(c) \in Nodes
      /\ unregisterCh' = [unregisterCh EXCEPT ![Node(c)] = Append(@, c)]
      /\ UNCHANGED <<client, dialled, clients, registerCh, saw, present, stood>>
  BY DEF Leave, Running, gameVars, HubInv, CoreOK, Node, Conns
<1>2. /\ DialledInv' /\ WaitingInv' /\ MappedInv' /\ MappedIsOpen' /\ OpenIsMapped'
      /\ \A n \in Nodes : DialledAt(n)' = DialledAt(n)
  BY <1>1, SameConnections
<1>3. CoreOK'
  <2>1. unregisterCh' \in [Nodes -> Seq(Conns)]
    BY <1>1, AppendProperties DEF HubInv, CoreOK
  <2> QED
    BY <1>1, <2>1 DEF HubInv, CoreOK
<1>4. LeavingInv'
  <2> SUFFICES ASSUME NEW n \in Nodes PROVE unregisterCh'[n] \in Seq(DialledAt(n))
    BY <1>2 DEF LeavingInv
  <2>1. unregisterCh[n] \in Seq(DialledAt(n))
    BY DEF HubInv, LeavingInv
  <2>2. CASE n = Node(c)
    <3>1. c \in DialledAt(n) /\ unregisterCh'[n] = Append(unregisterCh[n], c)
      BY <1>1, <2>2 DEF DialledAt, HubInv, CoreOK
    <3> QED
      BY <2>1, <3>1, AppendProperties
  <2>3. CASE n # Node(c)
    BY <1>1, <2>1, <2>3 DEF HubInv, CoreOK
  <2> QED
    BY <2>2, <2>3
<1>5. StoodInv' /\ ReconnectStands'
  BY <1>1 DEF HubInv, StoodInv, ReconnectStands, Registered, Node, Player
<1> QED
  BY <1>2, <1>3, <1>4, <1>5 DEF HubInv

\* A player comes back: his presence is reported, and a connection in the map
\* keeps it (hub.go:213).
LEMMA ReconnectKeeps ==
  ASSUME HubInv, NEW c \in Conns, Reconnect(c)
  PROVE  HubInv'
<1>1. /\ c <= dialled /\ c \in 1 .. dialled /\ Player(c) \in Players
      /\ UNCHANGED <<client, dialled, clients, registerCh, unregisterCh, saw>>
      /\ IF Node(c) = Home
           THEN /\ present' = [present EXCEPT ![Player(c)] = TRUE]
                /\ stood' = IF Mapped(c) THEN stood \union {c} ELSE stood
           ELSE UNCHANGED <<present, stood>>
  BY DEF Reconnect, Reads, Running, hubVars, HubInv, CoreOK, DialledInv, Conns
<1>2. /\ DialledInv' /\ WaitingInv' /\ MappedInv' /\ MappedIsOpen' /\ OpenIsMapped'
      /\ \A n \in Nodes : DialledAt(n)' = DialledAt(n)
  BY <1>1, SameConnections
<1>3. CoreOK' /\ LeavingInv'
  <2>1. present' \in [Players -> BOOLEAN] /\ stood' \subseteq Conns
    BY <1>1 DEF HubInv, CoreOK
  <2>2. LeavingInv'
    BY <1>1, <1>2 DEF HubInv, LeavingInv
  <2> QED
    BY <1>1, <2>1, <2>2 DEF HubInv, CoreOK
<1>4. Node(c) = Home /\ Mapped(c) => Registered(c)
  BY <1>1, HubAssumption, InTheMap DEF Mapped, Conns, NoConn
<1>5. StoodInv'
  BY <1>1, <1>4 DEF HubInv, StoodInv, Registered, Node
<1>6. ReconnectStands'
  <2> SUFFICES ASSUME NEW d \in stood', client[d].connected PROVE present'[Player(d)]
    BY <1>1 DEF ReconnectStands, Player
  <2>1. d \in stood \/ d = c
    BY <1>1
  <2>2. d \in stood => present[Player(d)] /\ Player(d) \in Players
    BY DEF HubInv, CoreOK, StoodInv, DialledInv, ReconnectStands
  <2>3. CASE d = c
    BY <1>1, <2>2, <2>3 DEF HubInv, CoreOK
  <2>4. CASE d \in stood
    BY <1>1, <2>2, <2>4 DEF HubInv, CoreOK
  <2> QED
    BY <2>1, <2>3, <2>4
<1> QED
  BY <1>2, <1>3, <1>5, <1>6 DEF HubInv

--------------------------------------------------------------------------------
(* The theorems *)

\* What the pumps, the senders and Redis do is nothing to the map.
LEMMA OthersKeepCore ==
  ASSUME Next,
         \A p \in Players, n \in Nodes : ~Dial(p, n),
         \A n \in Nodes : ~Register(n) /\ ~Unregister(n),
         \A c \in Conns : ~Leave(c) /\ ~Reconnect(c)
  PROVE  UNCHANGED coreVars
<1>1. ASSUME NEW c \in Conns,
             Lose(c) \/ ReadFails(c) \/ Reply(c) \/ WriteFrame(c) \/ StopWriting(c)
               \/ Answer(c) \/ Ping(c)
      PROVE  UNCHANGED coreVars
  BY <1>1 DEF Lose, ReadFails, Reply, WriteFrame, StopWriting, Answer, Ping, coreVars,
     hubVars, gameVars
<1>2. ASSUME NEW s \in Senders, SendToPlayer(s)
      PROVE  UNCHANGED coreVars
  <2>1. /\ UNCHANGED <<client, dialled, hubVars, gameVars>>
    BY <1>2, Zenon DEF SendToPlayer, Lookup, Check, Send, Panic, Publish, PublishAgain,
       connVars
  <2> QED
    BY <2>1 DEF coreVars, hubVars, gameVars
<1>3. ASSUME Broadcast \/ TakeAction \/ \E n \in Nodes : Receive(n)
      PROVE  UNCHANGED coreVars
  BY <1>3 DEF Broadcast, TakeAction, Receive, coreVars, connVars, hubVars, gameVars
<1> QED
  BY <1>1, <1>2, <1>3 DEF Next, ReadPump, WritePump, Incoming

(* The invariant of the hub: every connection is where its goroutine put it,      *)
(* whatever the order of registrations, removals and reconnects (hub.go:40-90).   *)
THEOREM HubInvariance == Spec => []HubInv
<1>1. Init => HubInv
  <2> SUFFICES ASSUME Init PROVE HubInv
    OBVIOUS
  <2>1. /\ CoreOK /\ \A c \in Conns : ~Registered(c)
        /\ dialled = 0 /\ stood = {}
        /\ \A n \in Nodes : registerCh[n] = <<>> /\ unregisterCh[n] = <<>>
        /\ \A n \in Nodes, p \in Players : clients[n][p] = NoConn
        /\ \A c \in Conns : ~client[c].connected
    <3>1. saw = [c \in Conns |-> <<>>]
      BY DEF Init
    <3>2. \A c \in Conns : ~Registered(c)
      BY <3>1 DEF Registered
    <3>3. client \in [Conns -> [player : Players \union {NoPlayer}, node : Nodes,
                                connected : BOOLEAN]]
      BY HubAssumption DEF Init
    <3> QED
      BY <3>2, <3>3, HubAssumption DEF Init, CoreOK, NoConn
  <2>2. DialledInv
    BY <2>1 DEF DialledInv, Conns
  <2>3. WaitingInv /\ LeavingInv
    <3>1. \A S : <<>> \in Seq(S)
      OBVIOUS
    <3>2. Distinct(<<>>)
      BY DEF Distinct
    <3> QED
      BY <2>1, <3>1, <3>2 DEF WaitingInv, LeavingInv
  <2>4. MappedInv /\ StoodInv /\ MappedIsOpen /\ OpenIsMapped /\ ReconnectStands
    BY <2>1, OpenIsMappedMeans DEF MappedInv, StoodInv, MappedIsOpen, ReconnectStands
  <2> QED
    BY <2>1, <2>2, <2>3, <2>4 DEF HubInv
<1>2. HubInv /\ [Next]_vars => HubInv'
  <2> SUFFICES ASSUME HubInv, [Next]_vars PROVE HubInv'
    OBVIOUS
  <2>1. CASE UNCHANGED vars
    <3>1. UNCHANGED coreVars
      BY <2>1 DEF vars, connVars, coreVars
    <3> QED
      BY <3>1, CoreUnchanged
  <2>2. CASE \E p \in Players, n \in Nodes : Dial(p, n)
    BY <2>2, DialKeeps
  <2>3. CASE \E n \in Nodes : Register(n) \/ Unregister(n)
    BY <2>3, RegisterKeeps, UnregisterKeeps
  <2>4. CASE \E c \in Conns : Leave(c) \/ Reconnect(c)
    BY <2>4, LeaveKeeps, ReconnectKeeps
  <2>5. CASE /\ Next
             /\ \A p \in Players, n \in Nodes : ~Dial(p, n)
             /\ \A n \in Nodes : ~Register(n) /\ ~Unregister(n)
             /\ \A c \in Conns : ~Leave(c) /\ ~Reconnect(c)
    BY <2>5, OthersKeepCore, CoreUnchanged
  <2> QED
    BY <2>1, <2>2, <2>3, <2>4, <2>5
<1> QED
  BY <1>1, <1>2, PTL DEF Spec

(* The map of clients holds open connections of its own node only (hub.go:64-89). *)
THEOREM MappedIsOpenCorrect == Spec => []MappedIsOpen
<1>1. HubInv => MappedIsOpen
  BY DEF HubInv
<1> QED
  BY <1>1, HubInvariance, PTL

(* A connection the hub took and did not close stays in the map (hub.go:81).      *)
THEOREM OpenIsMappedCorrect == Spec => []OpenIsMapped
<1>1. HubInv => OpenIsMapped
  BY DEF HubInv
<1> QED
  BY <1>1, HubInvariance, PTL

(* Who came back on a connection in the map stays reported as present while it is *)
(* open: no removal of an older connection undoes it (hub.go:81-87, 213).         *)
THEOREM ReconnectStandsCorrect == Spec => []ReconnectStands
<1>1. HubInv => ReconnectStands
  BY DEF HubInv
<1> QED
  BY <1>1, HubInvariance, PTL

--------------------------------------------------------------------------------
(* Types: the variables that HubProofs leaves out *)

\* What Redis delivers: a message and whom it is for.
Entry == [player : Players, msg : Message]

SenderState ==
  [pc : {"idle", "lookup", "check", "send", "publish"},
   to : SUBSET Players, now : Players \union {NoPlayer},
   conn : Conns \union {NoConn}, msg : Message \union {NoMessage}]

ReaderState ==
  [pc : {"none", "reading", "replying", "leaving", "done"},
   reply : Message \union {NoMessage}]

ConnectionsOK ==
  /\ sendCh \in [Conns -> 0 .. SendCap] /\ socket \in [Conns -> BOOLEAN]
  /\ reader \in [Conns -> ReaderState] /\ writer \in [Conns -> BOOLEAN]
  /\ got \in [Conns -> Seq(Message)]

DeliveryOK ==
  /\ sender \in [Senders -> SenderState]
  /\ inbox \in [Nodes -> Seq(Entry)] /\ actions \in Seq(Entry) /\ sent \in Nat

ChannelsOK ==
  /\ up \subseteq Nodes
  /\ \A n \in Nodes : Len(registerCh[n]) <= HubCap /\ Len(unregisterCh[n]) <= HubCap

\* A goroutine that found a client serves one of its players; only the session's
\* and listenForRemoteActions come to publish.
Own == {"session", "remote"}

SenderFits(s, k) ==
  /\ k.pc = "idle" => k = Resting
  /\ k.pc # "idle" => k.msg \in Message
  /\ k.pc \in {"check", "send", "publish"} => k.now \in k.to
  /\ k.pc \in {"check", "send"} =>
       k.conn \in 1 .. dialled /\ Node(k.conn) = NodeOf(s) /\ Player(k.conn) = k.now
  /\ k.pc = "publish" => s \in Own

SenderInv == \A s \in Senders : SenderFits(s, sender[s])

\* Only a ReadPump that runs a handler has something to answer, and nothing was
\* queued on a connection nobody dialled.
ReaderInv ==
  \A c \in Conns :
    /\ reader[c].pc # "replying" => reader[c].reply = NoMessage
    /\ c > dialled => reader[c].pc = "none" /\ got[c] = <<>>

FlowInv == ConnectionsOK /\ DeliveryOK /\ ChannelsOK /\ SenderInv /\ ReaderInv

--------------------------------------------------------------------------------
(* Lemmas *)

\* These give the type invariant of Hub.
AgainOK == again \subseteq Players \X Nat

LEMMA TypesTogether == HubInv /\ FlowInv /\ AgainOK => TypeOK
BY DEF HubInv, CoreOK, FlowInv, ConnectionsOK, DeliveryOK, ChannelsOK, AgainOK, TypeOK, Entry,
       SenderState, ReaderState

\* No message is the empty answer.
LEMMA NoMessageIsNone == NoMessage \notin Message
BY DEF NoMessage, Message

\* A connection that was dialled keeps its player and its node.
LEMMA ConnectionsStay ==
  ASSUME HubInv, [Next]_vars
  PROVE  /\ dialled \in 0 .. MaxConns /\ dialled' \in Nat /\ dialled <= dialled'
         /\ \A c \in 1 .. dialled : Player(c)' = Player(c) /\ Node(c)' = Node(c)
<1>1. /\ client \in [Conns -> [player : Players \union {NoPlayer}, node : Nodes,
                               connected : BOOLEAN]]
      /\ clients \in [Nodes -> [Players -> Conns \union {NoConn}]]
      /\ dialled \in 0 .. MaxConns /\ 1 .. dialled \subseteq Conns
  BY HubAssumption DEF HubInv, CoreOK, Conns
<1>2. ASSUME NEW p \in Players, NEW n \in Nodes, Dial(p, n)
      PROVE  /\ dialled' = dialled + 1
             /\ \A c \in 1 .. dialled : client'[c] = client[c]
  BY <1>1, <1>2 DEF Dial
<1>3. ASSUME NEW n \in Nodes, Register(n) \/ Unregister(n)
      PROVE  /\ dialled' = dialled
             /\ \A c \in 1 .. dialled : client'[c].player = client[c].player
                                         /\ client'[c].node = client[c].node
  <2>1. \/ UNCHANGED client
        \/ \E c : client' = [client EXCEPT ![c].connected = FALSE]
    BY <1>3 DEF Register, Unregister
  <2>2. dialled' = dialled
    BY <1>3 DEF Register, Unregister
  <2> QED
    BY <1>1, <2>1, <2>2
<1>4. \/ \E p \in Players, n \in Nodes : Dial(p, n)
      \/ \E n \in Nodes : Register(n) \/ Unregister(n)
      \/ UNCHANGED <<client, dialled>>
  BY ZenonT(40)
     DEF Next, ReadPump, WritePump, Incoming, SendToPlayer, Receive, Lose, ReadFails,
         Leave, Reply, WriteFrame, StopWriting, Reconnect, Answer, Ping, Broadcast,
         TakeAction, Lookup, Check, Send, Panic, Publish, PublishAgain, vars, connVars
<1> QED
  BY <1>1, <1>2, <1>3, <1>4, HubAssumption DEF Player, Node

\* A step that moves no goroutine that sends keeps what they found.
LEMMA SendersStand ==
  ASSUME HubInv, FlowInv, [Next]_vars, UNCHANGED sender
  PROVE  SenderInv'
<1>1. ASSUME NEW s \in Senders, sender[s].pc \in {"check", "send"}
      PROVE  /\ sender[s].conn \in 1 .. dialled'
             /\ Node(sender[s].conn)' = NodeOf(s)
             /\ Player(sender[s].conn)' = sender[s].now
  BY <1>1, ConnectionsStay DEF FlowInv, SenderInv, SenderFits, Player, Node
<1> QED
  BY <1>1 DEF FlowInv, SenderInv, SenderFits, Player, Node

\* Queueing a message on an open channel: within its capacity, at the end, or not
\* at all.
LEMMA QueueAppends ==
  ASSUME ConnectionsOK, NEW c \in Conns, NEW m \in Message \union {NoMessage}, Queue(c, m)
  PROVE  /\ sendCh' \in [Conns -> 0 .. SendCap] /\ got' \in [Conns -> Seq(Message)]
         /\ \A d \in Conns \ {c} : got'[d] = got[d]
         /\ \/ got'[c] = got[c]
            \/ m \in Message /\ got'[c] = Append(got[c], m)
<1>1. got \in [Conns -> Seq(Message)] /\ sendCh \in [Conns -> 0 .. SendCap]
  BY DEF ConnectionsOK
<1>2. CASE sendCh[c] < SendCap
  <2>1. sendCh' = [sendCh EXCEPT ![c] = @ + 1]
    BY <1>2 DEF Queue
  <2>2. sendCh' \in [Conns -> 0 .. SendCap]
    BY <1>1, <1>2, <2>1, HubAssumption
  <2>3. CASE m = NoMessage
    BY <1>1, <1>2, <2>2, <2>3 DEF Queue
  <2>4. CASE m # NoMessage
    <3>1. m \in Message /\ got' = [got EXCEPT ![c] = Append(@, m)]
      BY <1>2, <2>4 DEF Queue
    <3>2. Append(got[c], m) \in Seq(Message)
      BY <1>1, <3>1
    <3> QED
      BY <1>1, <2>2, <3>1, <3>2
  <2> QED
    BY <2>3, <2>4
<1>3. CASE ~(sendCh[c] < SendCap)
  BY <1>1, <1>3 DEF Queue
<1> QED
  BY <1>2, <1>3

--------------------------------------------------------------------------------
(* Types: the actions *)

\* A channel that has room holds no more than its capacity with one more in it.
LEMMA RoomForOne ==
  ASSUME NEW S, NEW q \in [Nodes -> Seq(S)], NEW n \in Nodes, NEW e \in S,
         \A m \in Nodes : Len(q[m]) <= HubCap, Len(q[n]) < HubCap
  PROVE  \A m \in Nodes : Len([q EXCEPT ![n] = Append(@, e)][m]) <= HubCap
<1>1. Len(Append(q[n], e)) = Len(q[n]) + 1 /\ Len(q[n]) \in Nat
  BY AppendProperties, LenProperties
<1> QED
  BY <1>1, HubAssumption

\* Taking from a channel leaves less in it.
LEMMA OneLess ==
  ASSUME NEW S, NEW q \in [Nodes -> Seq(S)], NEW n \in Nodes,
         \A m \in Nodes : Len(q[m]) <= HubCap, q[n] # <<>>
  PROVE  \A m \in Nodes : Len([q EXCEPT ![n] = Tail(@)][m]) <= HubCap
<1>1. Len(Tail(q[n])) = Len(q[n]) - 1 /\ Len(q[n]) \in Nat
  BY TailOf, LenProperties
<1> QED
  BY <1>1, HubAssumption

\* The hub's own steps: ServeHTTP, handleRegister and handleUnregister.
LEMMA HubFlow ==
  ASSUME HubInv, FlowInv, [Next]_vars,
         \/ \E p \in Players, n \in Nodes : Dial(p, n)
         \/ \E n \in Nodes : Register(n) \/ Unregister(n)
  PROVE  FlowInv'
<1> USE DEF connVars, redisVars, hubVars
<1>0. /\ dialled \in 0 .. MaxConns
      /\ registerCh \in [Nodes -> Seq(Conns)] /\ unregisterCh \in [Nodes -> Seq(Conns)]
  BY DEF HubInv, CoreOK
<1>1. ASSUME NEW p \in Players, NEW n \in Nodes, Dial(p, n) PROVE FlowInv'
  <2> DEFINE c == dialled + 1
  <2>1. /\ dialled' = c /\ c \in Conns
        /\ socket' = [socket EXCEPT ![c] = TRUE]
        /\ reader' = [reader EXCEPT ![c].pc = "reading"]
        /\ writer' = [writer EXCEPT ![c] = TRUE]
        /\ registerCh' = [registerCh EXCEPT ![n] = Append(@, c)]
        /\ Len(registerCh[n]) < HubCap
        /\ UNCHANGED <<up, sendCh, unregisterCh, sender, inbox, actions, sent, got>>
    BY <1>0, <1>1, HubAssumption DEF Dial, Conns
  <2> HIDE DEF c
  <2>2. ConnectionsOK'
    BY <2>1 DEF FlowInv, ConnectionsOK, ReaderState
  <2>3. DeliveryOK'
    BY <2>1 DEF FlowInv, DeliveryOK, Entry
  <2>4. ChannelsOK'
    BY <1>0, <2>1, RoomForOne DEF FlowInv, ChannelsOK
  <2>5. SenderInv'
    BY <2>1, SendersStand
  <2>6. ReaderInv'
    <3>1. \A d \in Conns : d > c => d > dialled
      BY <1>0, <2>1 DEF Conns, c
    <3>2. reader \in [Conns -> ReaderState] /\ c > dialled
      BY <1>0 DEF FlowInv, ConnectionsOK, c
    <3> QED
      BY <2>1, <3>1, <3>2, HubAssumption DEF FlowInv, ReaderInv, ReaderState, Conns
  <2> QED
    BY <2>2, <2>3, <2>4, <2>5, <2>6 DEF FlowInv
<1>2. ASSUME NEW n \in Nodes, Register(n) \/ Unregister(n) PROVE FlowInv'
  <2>0. UNCHANGED <<up, sendCh, socket, reader, writer, dialled, sender, inbox, actions,
                    sent, got>>
    BY <1>2, Zenon DEF Register, Unregister
  <2>1. \/ /\ registerCh[n] # <<>> /\ registerCh' = [registerCh EXCEPT ![n] = Tail(@)]
           /\ UNCHANGED unregisterCh
        \/ /\ unregisterCh[n] # <<>>
           /\ unregisterCh' = [unregisterCh EXCEPT ![n] = Tail(@)]
           /\ UNCHANGED registerCh
    <3>1. CASE Register(n)
      BY <3>1, Zenon DEF Register
    <3>2. CASE Unregister(n)
      BY <3>2, Zenon DEF Unregister
    <3> QED
      BY <1>2, <3>1, <3>2
  <2>2. ChannelsOK'
    BY <1>0, <2>0, <2>1, OneLess DEF FlowInv, ChannelsOK
  <2>3. ConnectionsOK' /\ DeliveryOK' /\ ReaderInv'
    BY <2>0 DEF FlowInv, ConnectionsOK, DeliveryOK, ReaderInv, Entry, ReaderState
  <2>4. SenderInv'
    BY <2>0, SendersStand
  <2> QED
    BY <2>2, <2>3, <2>4 DEF FlowInv
<1> QED
  BY <1>1, <1>2

\* A step of a pump that sends nothing, and a message of a player.
LEMMA PumpFlow ==
  ASSUME HubInv, FlowInv, [Next]_vars, NEW c \in Conns,
         \/ Lose(c) \/ ReadFails(c) \/ Leave(c) \/ WriteFrame(c) \/ StopWriting(c)
         \/ Reconnect(c) \/ Answer(c) \/ Ping(c) \/ Reply(c)
  PROVE  FlowInv'
<1> USE DEF connVars, redisVars, hubVars
<1>0. /\ dialled \in 0 .. MaxConns /\ UNCHANGED dialled
      /\ unregisterCh \in [Nodes -> Seq(Conns)]
      /\ \A d \in Conns : d <= dialled => Player(d) \in Players /\ Node(d) \in Nodes
  BY DEF HubInv, CoreOK, DialledInv, Node, Lose, ReadFails, Leave, WriteFrame, StopWriting,
         Reconnect, Answer, Ping, Reply
<1>1. SenderInv'
  <2>1. UNCHANGED sender
    BY DEF Lose, ReadFails, Leave, WriteFrame, StopWriting, Reconnect, Answer, Ping, Reply
  <2> QED
    BY <2>1, SendersStand
<1>2. ChannelsOK'
  <2>1. CASE Leave(c)
    <3>1. c <= dialled
      BY <1>0, <2>1 DEF Leave, Running
    <3>2. /\ Len(unregisterCh[Node(c)]) < HubCap /\ Node(c) \in Nodes
          /\ unregisterCh' = [unregisterCh EXCEPT ![Node(c)] = Append(@, c)]
          /\ UNCHANGED <<up, registerCh>>
      BY <1>0, <2>1, <3>1 DEF Leave
    <3> QED
      BY <1>0, <3>2, RoomForOne DEF FlowInv, ChannelsOK
  <2>2. CASE UNCHANGED <<up, registerCh, unregisterCh>>
    BY <2>2 DEF FlowInv, ChannelsOK
  <2> QED
    BY <2>1, <2>2 DEF Lose, ReadFails, WriteFrame, StopWriting, Reconnect, Answer, Ping,
                      Reply
<1>3. ASSUME UNCHANGED <<inbox, actions, sent>> PROVE DeliveryOK'
  <2>1. UNCHANGED sender
    BY DEF Lose, ReadFails, Leave, WriteFrame, StopWriting, Reconnect, Answer, Ping, Reply
  <2> QED
    BY <1>3, <2>1 DEF FlowInv, DeliveryOK, Entry
\* A step that changes neither what was queued nor what is to be answered.
<1>4. ASSUME UNCHANGED got, reader' \in [Conns -> ReaderState],
             sendCh' \in [Conns -> 0 .. SendCap],
             \A d \in Conns : reader'[d] = reader[d] \/ d = c,
             reader'[c].pc # "replying" => reader'[c].reply = NoMessage,
             c <= dialled \/ reader'[c] = reader[c],
             socket' \in [Conns -> BOOLEAN], writer' \in [Conns -> BOOLEAN]
      PROVE  ConnectionsOK' /\ ReaderInv'
  <2>1. ConnectionsOK'
    BY <1>4 DEF FlowInv, ConnectionsOK
  <2>2. ReaderInv'
    BY <1>0, <1>4 DEF FlowInv, ReaderInv, Conns
  <2> QED
    BY <2>1, <2>2
<1>5. /\ reader \in [Conns -> ReaderState] /\ socket \in [Conns -> BOOLEAN]
      /\ writer \in [Conns -> BOOLEAN] /\ sendCh \in [Conns -> 0 .. SendCap]
      /\ sent \in Nat /\ actions \in Seq(Entry)
      /\ \A d \in Conns : reader[d].pc # "replying" => reader[d].reply = NoMessage
  BY DEF FlowInv, ConnectionsOK, DeliveryOK, ReaderInv
<1>6. CASE Lose(c) \/ WriteFrame(c) \/ StopWriting(c)
  <2>1. /\ UNCHANGED <<got, reader, inbox, actions, sent>>
        /\ socket' \in [Conns -> BOOLEAN] /\ writer' \in [Conns -> BOOLEAN]
        /\ sendCh' \in [Conns -> 0 .. SendCap]
    <3>1. CASE Lose(c)
      BY <1>5, <3>1 DEF Lose
    <3>2. CASE WriteFrame(c)
      <4>1. /\ UNCHANGED <<got, reader, inbox, actions, sent, socket>>
            /\ sendCh' = [sendCh EXCEPT ![c] = 0] /\ 0 \in 0 .. SendCap
            /\ writer' = [writer EXCEPT ![c] = socket[c]] /\ socket[c] \in BOOLEAN
        BY <1>5, <3>2, HubAssumption DEF WriteFrame
      <4>2. sendCh' \in [Conns -> 0 .. SendCap]
        BY <1>5, <4>1
      <4>3. writer' \in [Conns -> BOOLEAN]
        BY <1>5, <4>1, Zenon
      <4> QED
        BY <1>5, <4>1, <4>2, <4>3
    <3>3. CASE StopWriting(c)
      BY <1>5, <3>3 DEF StopWriting
    <3> QED
      BY <1>6, <3>1, <3>2, <3>3
  <2> QED
    BY <1>1, <1>2, <1>3, <1>4, <1>5, <2>1 DEF FlowInv
<1>7. CASE ReadFails(c) \/ Leave(c)
  <2>1. /\ UNCHANGED <<got, sendCh, writer, inbox, actions, sent>>
        /\ socket' \in [Conns -> BOOLEAN] /\ c <= dialled
        /\ \E pc \in {"leaving", "done"} : reader' = [reader EXCEPT ![c].pc = pc]
        /\ reader[c].pc \in {"reading", "leaving"}
    <3>1. CASE ReadFails(c)
      BY <1>0, <1>5, <3>1 DEF ReadFails, Running
    <3>2. CASE Leave(c)
      BY <1>0, <1>5, <3>2 DEF Leave, Running
    <3> QED
      BY <1>7, <3>1, <3>2
  <2>2. /\ reader' \in [Conns -> ReaderState]
        /\ \A d \in Conns : reader'[d] = reader[d] \/ d = c
        /\ reader'[c].pc # "replying" => reader'[c].reply = NoMessage
    BY <1>5, <2>1 DEF ReaderState
  <2> QED
    BY <1>1, <1>2, <1>3, <1>4, <1>5, <2>1, <2>2 DEF FlowInv
<1>8. CASE Reconnect(c) \/ Ping(c)
  <2>1. /\ UNCHANGED <<got, sendCh, socket, writer, inbox, actions, sender>>
        /\ sent' = sent + 1 /\ c <= dialled
        /\ reader' = [reader EXCEPT ![c].pc = "replying"]
    BY <1>0, <1>8 DEF Reconnect, Ping, Reads, Running, Count
  <2>2. /\ reader' \in [Conns -> ReaderState]
        /\ \A d \in Conns : reader'[d] = reader[d] \/ d = c
        /\ reader'[c].pc # "replying" => reader'[c].reply = NoMessage
    BY <1>5, <2>1 DEF ReaderState
  <2>3. DeliveryOK'
    BY <1>5, <2>1 DEF FlowInv, DeliveryOK
  <2> QED
    BY <1>1, <1>2, <1>4, <1>5, <2>1, <2>2, <2>3 DEF FlowInv
<1>9. CASE Answer(c)
  <2> DEFINE ack == [kind |-> "ack", number |-> sent + 1]
  <2>1. /\ UNCHANGED <<got, sendCh, socket, writer, inbox, sender>>
        /\ sent' = sent + 1 /\ c \in 1 .. dialled
        /\ \/ reader' = [reader EXCEPT ![c] = [pc |-> "replying", reply |-> ack]]
              /\ UNCHANGED actions
           \/ UNCHANGED <<reader, actions>>
           \/ UNCHANGED reader
              /\ LET e == [player |-> Player(c), msg |-> ack]
                     once == Append(actions, e)
                 IN  actions' \in {once, Append(once, e)}
    BY <1>9 DEF Answer, Reads, Running, Count
  <2>2. ack \in Message /\ Player(c) \in Players
    BY <1>0, <1>5, <2>1 DEF Message
  <2> HIDE DEF ack
  <2>3. actions' \in Seq(Entry)
    <3>1. PICK e \in Entry : e = [player |-> Player(c), msg |-> ack]
      BY <2>2 DEF Entry
    <3>2. Append(actions, e) \in Seq(Entry)
      BY <1>5, AppendProperties, Zenon
    <3>3. Append(Append(actions, e), e) \in Seq(Entry)
      BY <3>2, AppendProperties, Zenon
    <3>4. actions' \in {actions, Append(actions, e), Append(Append(actions, e), e)}
      BY <2>1, <3>1
    <3> QED
      BY <1>5, <3>2, <3>3, <3>4, Zenon
  <2>4. /\ reader' \in [Conns -> ReaderState]
        /\ \A d \in Conns : reader'[d] = reader[d] \/ d = c
        /\ reader'[c].pc # "replying" => reader'[c].reply = NoMessage
    BY <1>5, <2>1, <2>2 DEF ReaderState
  <2>5. DeliveryOK'
    BY <1>5, <2>1, <2>3 DEF FlowInv, DeliveryOK
  <2> QED
    BY <1>0, <1>1, <1>2, <1>4, <1>5, <2>1, <2>4, <2>5 DEF FlowInv
<1>10. CASE Reply(c)
  <2>1. /\ UNCHANGED <<socket, writer, inbox, actions, sent>> /\ c \in 1 .. dialled
        /\ \E pc \in {"reading", "leaving"} :
             reader' = [reader EXCEPT ![c] = [pc |-> pc, reply |-> NoMessage]]
        /\ Queue(c, reader[c].reply) \/ UNCHANGED <<sendCh, got>>
    BY <1>10 DEF Reply, Running
  <2>2. reader[c].reply \in Message \union {NoMessage}
    BY <1>5 DEF ReaderState
  <2>3. /\ sendCh' \in [Conns -> 0 .. SendCap] /\ got' \in [Conns -> Seq(Message)]
        /\ \A d \in Conns \ {c} : got'[d] = got[d]
    BY <2>1, <2>2, QueueAppends DEF FlowInv, ConnectionsOK
  <2>4. /\ reader' \in [Conns -> ReaderState]
        /\ \A d \in Conns \ {c} : reader'[d] = reader[d]
        /\ reader'[c].reply = NoMessage
    BY <1>5, <2>1 DEF ReaderState
  <2>5. ConnectionsOK'
    BY <1>5, <2>1, <2>3, <2>4 DEF ConnectionsOK
  <2>6. ReaderInv'
    BY <1>0, <2>1, <2>3, <2>4 DEF FlowInv, ReaderInv, Conns
  <2> QED
    BY <1>1, <1>2, <1>3, <2>1, <2>5, <2>6 DEF FlowInv
<1> QED
  BY <1>6, <1>7, <1>8, <1>9, <1>10

--------------------------------------------------------------------------------
(* Types: the goroutines that send *)

\* A goroutine that sends goes from where it is to where it fits.
Becomes(s, k) ==
  k \in SenderState /\ SenderFits(s, k) /\ sender' = [sender EXCEPT ![s] = k]

\* It still has to serve some of the players it had, with the message it had.
Serves(k, players, m) == k.to = players /\ (players = {} \/ k.msg = m)

\* A goroutine that begins to serve players.
LEMMA ServeBecomes ==
  ASSUME FlowInv, NEW s \in Senders, NEW players \in SUBSET Players, NEW m \in Message,
         Serve(s, players, m)
  PROVE  \E k : Becomes(s, k) /\ Serves(k, players, m)
<1> DEFINE k == [pc |-> "lookup", to |-> players, now |-> NoPlayer, conn |-> NoConn,
                 msg |-> m]
<1>1. k \in SenderState /\ SenderFits(s, k)
  BY DEF SenderState, SenderFits
<1>2. sender' = [sender EXCEPT ![s] = k]
  BY DEF Serve
<1>3. Serves(k, players, m)
  BY DEF Serves
<1> QED
  BY <1>1, <1>2, <1>3 DEF Becomes

\* A goroutine that rests serves nobody.
LEMMA RestingFits ==
  ASSUME NEW s PROVE Resting \in SenderState /\ SenderFits(s, Resting)
BY DEF Resting, SenderState, SenderFits, NoMessage, NoConn

\* A goroutine that is done with one player has the others left.
LEMMA ServedBecomes ==
  ASSUME FlowInv, NEW s \in Senders, sender[s].pc # "idle", Served(s)
  PROVE  \E k : Becomes(s, k)
                /\ Serves(k, sender[s].to \ {sender[s].now}, sender[s].msg)
<1> DEFINE rest == sender[s].to \ {sender[s].now}
           next == [sender[s] EXCEPT !.pc = "lookup", !.to = rest, !.now = NoPlayer,
                                     !.conn = NoConn]
<1>1. sender[s] \in SenderState /\ sender[s].msg \in Message /\ s \in DOMAIN sender
  BY DEF FlowInv, DeliveryOK, SenderInv, SenderFits
<1>2. CASE rest = {}
  <2>1. sender' = [sender EXCEPT ![s] = Resting]
    BY <1>2 DEF Served
  <2>2. Serves(Resting, rest, sender[s].msg)
    BY <1>2 DEF Serves, Resting
  <2> QED
    BY <2>1, <2>2, RestingFits DEF Becomes
<1>3. CASE rest # {}
  <2>1. sender' = [sender EXCEPT ![s] = next]
    BY <1>1, <1>3 DEF Served
  <2>2. next \in SenderState /\ SenderFits(s, next) /\ Serves(next, rest, sender[s].msg)
    BY <1>1 DEF SenderState, SenderFits, Serves
  <2> QED
    BY <2>1, <2>2 DEF Becomes
<1> QED
  BY <1>2, <1>3

\* Looking a client up, and asking whether it is connected, serves nobody else.
LEMMA LookupBecomes ==
  ASSUME HubInv, FlowInv, NEW s \in Senders, Lookup(s) \/ Check(s)
  PROVE  \E k, players : /\ Becomes(s, k) /\ players \subseteq sender[s].to
                         /\ Serves(k, players, sender[s].msg)
<1>1. /\ sender[s] \in SenderState /\ sender[s].msg \in Message /\ s \in DOMAIN sender
      /\ sender[s].pc \in {"lookup", "check"} /\ SenderFits(s, sender[s])
  <2>1. sender[s].pc = "lookup" \/ sender[s].pc = "check"
    BY Zenon DEF Lookup, Check, At
  <2>2. SenderFits(s, sender[s])
    BY DEF FlowInv, SenderInv
  <2> QED
    BY <2>1, <2>2 DEF FlowInv, DeliveryOK, SenderFits
<1>2. s \in Senders /\ NodeOf(s) \in Nodes /\ (s \in Nodes \/ s \in Own)
  BY HubAssumption DEF Senders, NodeOf, Own
<1>3. CASE Lookup(s)
  <2>1. PICK p \in sender[s].to :
          sender' = IF clients[NodeOf(s)][p] # NoConn
                      THEN [sender EXCEPT ![s].pc = "check", ![s].now = p,
                                          ![s].conn = clients[NodeOf(s)][p]]
                    ELSE IF s \in Nodes THEN [sender EXCEPT ![s] = Resting]
                    ELSE [sender EXCEPT ![s].pc = "publish", ![s].now = p]
    BY <1>3, Zenon DEF Lookup
  <2> DEFINE c == clients[NodeOf(s)][p]
             found == [sender[s] EXCEPT !.pc = "check", !.now = p, !.conn = c]
             none == [sender[s] EXCEPT !.pc = "publish", !.now = p]
  <2>2. p \in Players
    BY <1>1, <2>1 DEF SenderState
  <2>3. CASE c # NoConn
    <3>1. /\ c \in Conns /\ c \in 1 .. dialled /\ Node(c) = NodeOf(s) /\ Player(c) = p
      BY <1>2, <2>2, <2>3, InTheMap DEF HubInv, CoreOK, Conns
    <3>2. sender' = [sender EXCEPT ![s] = found]
      BY <1>1, <2>1, <2>3
    <3> HIDE DEF c
    <3>3. found \in SenderState /\ Serves(found, sender[s].to, sender[s].msg)
      BY <1>1, <2>2, <3>1 DEF SenderState, Serves
    <3>4. SenderFits(s, found)
      BY <1>1, <2>1, <3>1 DEF SenderState, SenderFits
    <3> QED
      BY <3>2, <3>3, <3>4 DEF Becomes
  <2>4. CASE c = NoConn /\ s \in Nodes
    <3>1. sender' = [sender EXCEPT ![s] = Resting]
      BY <2>1, <2>4
    <3>2. Serves(Resting, {}, sender[s].msg)
      BY DEF Serves, Resting
    <3> QED
      BY <3>1, <3>2, RestingFits DEF Becomes
  <2>5. CASE c = NoConn /\ s \notin Nodes
    <3>1. sender' = [sender EXCEPT ![s] = none]
      BY <1>1, <2>1, <2>5
    <3>2. /\ none \in SenderState /\ Serves(none, sender[s].to, sender[s].msg)
          /\ SenderFits(s, none)
      BY <1>1, <1>2, <2>1, <2>2, <2>5 DEF SenderState, Serves, SenderFits
    <3> QED
      BY <3>1, <3>2 DEF Becomes
  <2> QED
    BY <2>3, <2>4, <2>5
<1>4. CASE Check(s)
  <2> DEFINE send == [sender[s] EXCEPT !.pc = "send"]
             publish == [sender[s] EXCEPT !.pc = "publish"]
  <2>1. CASE sender' = [sender EXCEPT ![s].pc = "send"]
    <3>1. sender' = [sender EXCEPT ![s] = send]
      BY <1>1, <2>1
    <3>2. /\ send \in SenderState /\ Serves(send, sender[s].to, sender[s].msg)
          /\ SenderFits(s, send)
      BY <1>1, <1>4 DEF SenderState, Serves, SenderFits, Check, At
    <3> QED
      BY <3>1, <3>2 DEF Becomes
  <2>2. CASE sender' = [sender EXCEPT ![s].pc = "publish"] /\ s \notin Nodes
    <3>1. sender' = [sender EXCEPT ![s] = publish]
      BY <1>1, <2>2
    <3>2. /\ publish \in SenderState /\ Serves(publish, sender[s].to, sender[s].msg)
          /\ SenderFits(s, publish)
      BY <1>1, <1>2, <1>4, <2>2 DEF SenderState, Serves, SenderFits, Check, At
    <3> QED
      BY <3>1, <3>2 DEF Becomes
  <2>3. CASE Served(s)
    BY <1>1, <2>3, ServedBecomes
  <2> QED
    BY <1>4, <2>1, <2>2, <2>3 DEF Check, Miss
<1> QED
  BY <1>3, <1>4

\* The types and places of all that send, after a step of one of them.
LEMMA SenderMoves ==
  ASSUME HubInv, FlowInv, NEW s \in Senders, NEW k, Becomes(s, k),
         UNCHANGED <<client, dialled>>
  PROVE  sender' \in [Senders -> SenderState] /\ SenderInv'
<1>1. sender \in [Senders -> SenderState]
  BY DEF FlowInv, DeliveryOK
<1>2. \A t \in Senders : sender'[t] = IF t = s THEN k ELSE sender[t]
  BY <1>1 DEF Becomes
<1>3. \A t, j : SenderFits(t, j) => SenderFits(t, j)'
  BY DEF SenderFits, Node, Player
<1> QED
  BY <1>1, <1>2, <1>3 DEF FlowInv, SenderInv, SenderFits, Becomes

\* The message a goroutine serves, and the player and client it found.
LEMMA Serving ==
  ASSUME HubInv, FlowInv, NEW s \in Senders, sender[s].pc # "idle"
  PROVE  /\ sender[s].msg \in Message /\ sender[s].to \subseteq Players
         /\ sender[s].pc \in {"check", "send", "publish"} => sender[s].now \in sender[s].to
         /\ sender[s].pc = "send" =>
              /\ sender[s].conn \in Conns /\ sender[s].conn \in 1 .. dialled
              /\ Node(sender[s].conn) = NodeOf(s)
              /\ Player(sender[s].conn) = sender[s].now
         /\ sender[s].pc = "publish" => s \in Own
<1>1. SenderFits(s, sender[s]) /\ sender[s] \in SenderState
  BY DEF FlowInv, DeliveryOK, SenderInv
<1>2. 1 .. dialled \subseteq Conns
  BY HubAssumption DEF HubInv, CoreOK, Conns
<1> QED
  BY <1>1, <1>2 DEF SenderFits, SenderState

\* What becomes of the goroutine of a step that broadcasts, takes an answer off
\* the channel, or is one of SendToPlayer's that serves its player.
LEMMA SendBecomes ==
  ASSUME HubInv, FlowInv, NEW s \in Senders, Send(s) \/ Publish(s)
  PROVE  \E k : Becomes(s, k)
                /\ Serves(k, sender[s].to \ {sender[s].now}, sender[s].msg)
<1>1. Served(s) /\ sender[s].pc # "idle"
  BY DEF Send, Publish, At
<1> QED
  BY <1>1, ServedBecomes

LEMMA BroadcastBecomes ==
  ASSUME HubInv, FlowInv, Broadcast
  PROVE  /\ sent' = sent + 1 /\ sent \in Nat
         /\ \E k : Becomes("session", k)
                   /\ Serves(k, Players, [kind |-> "snapshot", number |-> sent + 1])
<1>1. sent \in Nat /\ "session" \in Senders
  BY DEF FlowInv, DeliveryOK, Senders
<1>2. [kind |-> "snapshot", number |-> sent + 1] \in Message
  BY <1>1 DEF Message
<1> QED
  BY <1>1, <1>2, ServeBecomes DEF Broadcast, Count

\* Taking the head of what Redis delivered: the rest stays.
LEMMA TakeBecomes ==
  ASSUME HubInv, FlowInv, TakeAction
  PROVE  /\ actions # <<>> /\ actions' = Tail(actions) /\ sender["remote"].pc = "idle"
         /\ \E k : Becomes("remote", k)
                   /\ Serves(k, {Head(actions).player}, Head(actions).msg)
<1>1. Head(actions) \in Entry /\ "remote" \in Senders
  BY TailOf DEF FlowInv, DeliveryOK, Senders, TakeAction
<1>2. Head(actions).msg \in Message /\ {Head(actions).player} \in SUBSET Players
  BY <1>1 DEF Entry
<1> QED
  BY <1>1, <1>2, ServeBecomes DEF TakeAction, Rests

LEMMA ReceiveBecomes ==
  ASSUME HubInv, FlowInv, NEW n \in Nodes, Receive(n)
  PROVE  /\ inbox[n] # <<>> /\ inbox' = [inbox EXCEPT ![n] = Tail(inbox[n])]
         /\ sender[n].pc = "idle"
         /\ \E k : Becomes(n, k)
                   /\ Serves(k, {Head(inbox[n]).player}, Head(inbox[n]).msg)
<1>1. Head(inbox[n]) \in Entry /\ n \in Senders
  BY TailOf DEF FlowInv, DeliveryOK, Senders, Receive
<1>2. Head(inbox[n]).msg \in Message /\ {Head(inbox[n]).player} \in SUBSET Players
  BY <1>1 DEF Entry
<1> QED
  BY <1>1, <1>2, ServeBecomes DEF Receive, Rests

\* What the inboxes hold after a message was published: what they held, or that and
\* the message.
LEMMA PublishDelivers ==
  ASSUME HubInv, FlowInv, NEW s \in Senders, Publish(s) \/ PublishAgain(s)
  PROVE  LET e == [player |-> sender[s].now, msg |-> sender[s].msg] IN
         /\ e \in Entry /\ inbox' \in [Nodes -> Seq(Entry)]
         /\ \A n \in Nodes : inbox'[n] = inbox[n] \/ inbox'[n] = Append(inbox[n], e)
<1> DEFINE e == [player |-> sender[s].now, msg |-> sender[s].msg]
<1>1. sender[s].pc = "publish"
  BY DEF Publish, PublishAgain, At
<1>2. e \in Entry
  BY <1>1, Serving DEF Entry
<1>3. \E reached : inbox' = [n \in Nodes |-> IF n \in reached THEN Append(inbox[n], e)
                                             ELSE inbox[n]]
  BY Zenon DEF Publish, PublishAgain, Deliver
<1> HIDE DEF e
<1>4. inbox \in [Nodes -> Seq(Entry)]
  BY DEF FlowInv, DeliveryOK
<1>5. \A n \in Nodes : Append(inbox[n], e) \in Seq(Entry)
  BY <1>2, <1>4, AppendProperties
<1>6. \A n \in Nodes : inbox'[n] = inbox[n] \/ inbox'[n] = Append(inbox[n], e)
  BY <1>3
<1>7. inbox' \in [Nodes -> Seq(Entry)]
  BY <1>3, <1>4, <1>5
<1> QED
  BY <1>2, <1>6, <1>7 DEF e

\* A step of a goroutine that sends.
LEMMA SenderFlow ==
  ASSUME HubInv, FlowInv, [Next]_vars,
         \/ Broadcast \/ TakeAction \/ \E n \in Nodes : Receive(n)
         \/ \E s \in Senders : SendToPlayer(s)
  PROVE  FlowInv'
<1> USE DEF connVars, redisVars, hubVars
\* Whoever moves, the rest of DeliveryOK is what is left to show.
<1>1. ASSUME NEW s \in Senders, NEW k, Becomes(s, k), UNCHANGED <<client, dialled>>,
             inbox' \in [Nodes -> Seq(Entry)], actions' \in Seq(Entry), sent' \in Nat
      PROVE  DeliveryOK' /\ SenderInv'
  BY <1>1, SenderMoves DEF DeliveryOK
<1>2. /\ inbox \in [Nodes -> Seq(Entry)] /\ actions \in Seq(Entry) /\ sent \in Nat
      /\ Nodes \subseteq Senders /\ {"session", "remote"} \subseteq Senders
  BY DEF FlowInv, DeliveryOK, Senders
<1>3. ASSUME UNCHANGED <<connVars, dialled, got>> PROVE ConnectionsOK' /\ ReaderInv'
  BY <1>3 DEF FlowInv, ConnectionsOK, ReaderInv, ReaderState
<1>4. ASSUME UNCHANGED <<up, hubVars>> PROVE ChannelsOK'
  BY <1>4 DEF FlowInv, ChannelsOK
<1>5. CASE Broadcast
  <2>1. UNCHANGED <<up, connVars, dialled, hubVars, inbox, actions, got>>
    BY <1>5 DEF Broadcast
  <2> QED
    BY <1>1, <1>2, <1>3, <1>4, <1>5, <2>1, BroadcastBecomes DEF FlowInv
<1>6. CASE TakeAction
  <2>1. /\ UNCHANGED <<up, connVars, dialled, hubVars, inbox, sent, got>>
        /\ actions' \in Seq(Entry)
    BY <1>2, <1>6, TakeBecomes, TailOf DEF TakeAction
  <2> QED
    BY <1>1, <1>2, <1>3, <1>4, <1>6, <2>1, TakeBecomes DEF FlowInv
<1>7. ASSUME NEW n \in Nodes, Receive(n) PROVE FlowInv'
  <2>1. /\ UNCHANGED <<up, connVars, dialled, hubVars, actions, sent, got>>
        /\ inbox' = [inbox EXCEPT ![n] = Tail(inbox[n])] /\ Tail(inbox[n]) \in Seq(Entry)
    BY <1>2, <1>7, ReceiveBecomes, TailOf DEF Receive
  <2>2. inbox' \in [Nodes -> Seq(Entry)]
    BY <1>2, <2>1
  <2> QED
    BY <1>1, <1>2, <1>3, <1>4, <1>7, <2>1, <2>2, ReceiveBecomes DEF FlowInv
<1>8. ASSUME NEW s \in Senders, Lookup(s) \/ Check(s) PROVE FlowInv'
  <2>1. UNCHANGED <<up, connVars, dialled, hubVars, inbox, actions, sent, got>>
    BY <1>8, Zenon DEF Lookup, Check
  <2> QED
    BY <1>1, <1>2, <1>3, <1>4, <1>8, <2>1, LookupBecomes DEF FlowInv
<1>9. ASSUME NEW s \in Senders, Publish(s) PROVE FlowInv'
  <2>1. UNCHANGED <<up, connVars, dialled, hubVars, actions, sent, got>>
    BY <1>9, Zenon DEF Publish
  <2> QED
    BY <1>1, <1>2, <1>3, <1>4, <1>9, <2>1, PublishDelivers, SendBecomes DEF FlowInv
<1>12. ASSUME NEW s \in Senders, PublishAgain(s) PROVE FlowInv'
  <2>1. UNCHANGED <<up, connVars, dialled, hubVars, sender, actions, sent, got>>
    BY <1>12, Zenon DEF PublishAgain
  <2>2. SenderInv'
    BY <2>1, SendersStand
  <2>3. DeliveryOK'
    BY <1>12, <2>1, PublishDelivers DEF FlowInv, DeliveryOK
  <2> QED
    BY <1>3, <1>4, <2>1, <2>2, <2>3 DEF FlowInv
<1>10. ASSUME NEW s \in Senders, Panic(s) PROVE FlowInv'
  <2>1. UNCHANGED <<connVars, dialled, hubVars, sender, inbox, actions, sent, got>>
        /\ up' \subseteq up
    BY <1>10 DEF Panic
  <2>2. SenderInv'
    BY <2>1, SendersStand
  <2>3. DeliveryOK' /\ ChannelsOK'
    BY <2>1 DEF FlowInv, DeliveryOK, ChannelsOK
  <2> QED
    BY <1>3, <2>1, <2>2, <2>3 DEF FlowInv
<1>11. ASSUME NEW s \in Senders, Send(s) PROVE FlowInv'
  <2> DEFINE c == sender[s].conn
  <2>1. /\ UNCHANGED <<up, client, socket, reader, writer, dialled, hubVars, inbox, actions,
                       sent>>
        /\ Queue(c, sender[s].msg) /\ sender[s].pc = "send"
    BY <1>11 DEF Send, At
  <2>2. /\ sender[s].msg \in Message /\ c \in Conns /\ c \in 1 .. dialled
    BY <2>1, Serving
  <2> HIDE DEF c
  <2>3. /\ sendCh' \in [Conns -> 0 .. SendCap] /\ got' \in [Conns -> Seq(Message)]
        /\ \A d \in Conns \ {c} : got'[d] = got[d]
    BY <2>1, <2>2, QueueAppends DEF FlowInv
  <2>4. ConnectionsOK'
    <3>1. UNCHANGED <<socket, reader, writer>>
      BY <2>1
    <3> QED
      BY <2>3, <3>1 DEF FlowInv, ConnectionsOK
  <2>5. ~(c > dialled)
    BY <2>2, HubAssumption DEF HubInv, CoreOK
  <2>6. ReaderInv'
    BY <2>1, <2>3, <2>5 DEF FlowInv, ReaderInv
  <2>7. ChannelsOK'
    BY <1>4, <2>1
  <2> QED
    BY <1>1, <1>2, <1>11, <2>1, <2>4, <2>6, <2>7, SendBecomes DEF FlowInv
<1> QED
  BY <1>5, <1>6, <1>7, <1>8, <1>9, <1>10, <1>11, <1>12 DEF SendToPlayer

\* The initial state is in order, and every step keeps it so.
LEMMA FlowInit == Init => FlowInv
<1> SUFFICES ASSUME Init PROVE FlowInv
  OBVIOUS
<1>1. ConnectionsOK
  <2>1. /\ sendCh \in [Conns -> 0 .. SendCap] /\ socket \in [Conns -> BOOLEAN]
        /\ writer \in [Conns -> BOOLEAN] /\ got \in [Conns -> Seq(Message)]
    BY HubAssumption DEF Init
  <2>2. [pc |-> "none", reply |-> NoMessage] \in ReaderState
    BY DEF ReaderState
  <2>3. reader \in [Conns -> ReaderState]
    BY <2>2 DEF Init
  <2> QED
    BY <2>1, <2>3 DEF ConnectionsOK
<1>2. DeliveryOK
  <2>1. sender \in [Senders -> SenderState]
    BY RestingFits, Zenon DEF Init
  <2> QED
    BY <2>1 DEF Init, DeliveryOK
<1>3. ChannelsOK
  BY HubAssumption DEF Init, ChannelsOK
<1>4. SenderInv
  BY RestingFits DEF Init, SenderInv
<1>5. ReaderInv
  BY DEF Init, ReaderInv
<1> QED
  BY <1>1, <1>2, <1>3, <1>4, <1>5 DEF FlowInv

LEMMA FlowStands ==
  ASSUME HubInv, FlowInv, UNCHANGED vars
  PROVE  FlowInv'
<1>1. UNCHANGED <<up, client, sendCh, socket, reader, writer, dialled, registerCh,
                  unregisterCh, sender, inbox, actions, sent, got>>
  BY DEF vars, connVars, hubVars, redisVars
<1>2. ConnectionsOK' /\ DeliveryOK' /\ ChannelsOK' /\ ReaderInv'
  BY <1>1 DEF FlowInv, ConnectionsOK, DeliveryOK, ChannelsOK, ReaderInv
<1>3. SenderInv'
  BY <1>1, SendersStand
<1> QED
  BY <1>2, <1>3 DEF FlowInv

LEMMA FlowNext ==
  ASSUME HubInv, FlowInv, [Next]_vars
  PROVE  FlowInv'
<1>1. CASE \/ \E p \in Players, n \in Nodes : Dial(p, n)
           \/ \E n \in Nodes : Register(n) \/ Unregister(n)
  BY <1>1, HubFlow
<1>2. ASSUME NEW c \in Conns, Lose(c) \/ ReadPump(c) \/ WritePump(c) \/ Incoming(c)
      PROVE  FlowInv'
  BY <1>2, PumpFlow, Zenon DEF ReadPump, WritePump, Incoming
<1>3. CASE \/ Broadcast \/ TakeAction \/ \E n \in Nodes : Receive(n)
           \/ \E s \in Senders : SendToPlayer(s)
  BY <1>3, SenderFlow
<1> QED
  BY <1>1, <1>2, <1>3, FlowStands, Zenon DEF Next

\* What is known as published twice only grows.
LEMMA AgainGrows ==
  ASSUME HubInv, FlowInv, AgainOK, [Next]_vars
  PROVE  AgainOK' /\ again \subseteq again'
<1>1. ASSUME NEW c \in Conns, Answer(c) PROVE AgainOK' /\ again \subseteq again'
  <2>1. Player(c) \in Players
    BY <1>1, HubAssumption DEF Answer, Reads, Running, HubInv, DialledInv, Conns, CoreOK, Player
  <2>2. sent + 1 \in Nat
    BY DEF FlowInv, DeliveryOK
  <2>3. again' \in {again, again \union {<<Player(c), sent + 1>>}}
    BY <1>1 DEF Answer
  <2> QED
    BY <2>1, <2>2, <2>3 DEF AgainOK
<1>2. ASSUME NEW s \in Senders, PublishAgain(s) PROVE AgainOK' /\ again \subseteq again'
  <2>1. sender[s].pc = "publish"
    BY <1>2 DEF PublishAgain, At
  <2>2. sender[s].now \in Players /\ sender[s].msg.number \in Nat
    BY <2>1, Serving DEF Message
  <2>3. again' = again \union {<<sender[s].now, sender[s].msg.number>>}
    BY <1>2 DEF PublishAgain
  <2> QED
    BY <2>2, <2>3 DEF AgainOK
<1>3. (\E c \in Conns : Answer(c)) \/ (\E s \in Senders : PublishAgain(s)) \/ UNCHANGED again
  BY ZenonT(40)
     DEF Next, ReadPump, WritePump, Incoming, SendToPlayer, Dial, Register, Unregister,
         Receive, Lose, ReadFails, Leave, Reply, WriteFrame, StopWriting, Reconnect, Ping,
         Broadcast, TakeAction, Lookup, Check, Send, Panic, Publish, vars, redisVars
<1>4. CASE UNCHANGED again
  BY <1>4 DEF AgainOK
<1> QED
  BY <1>1, <1>2, <1>3, <1>4

THEOREM FlowInvariance == Spec => [](HubInv /\ FlowInv /\ AgainOK)
<1>1. Init => FlowInv
  BY FlowInit
<1>2. HubInv /\ FlowInv /\ [Next]_vars => FlowInv'
  BY FlowNext
<1>3. Init => AgainOK
  BY DEF Init, AgainOK
<1>4. HubInv /\ FlowInv /\ AgainOK /\ [Next]_vars => AgainOK'
  BY AgainGrows
<1> QED
  BY <1>1, <1>2, <1>3, <1>4, HubInvariance, PTL DEF Spec

(* Every variable of the connections and of the goroutines that send keeps the *)
(* type of its declaration, and no registerCh, unregisterCh or sendCh holds    *)
(* more than it was made for (hub.go:36-37, client.go:43), with any players,   *)
(* nodes and capacities.                                                       *)
THEOREM HubTypeCorrect == Spec => []TypeOK
BY FlowInvariance, TypesTogether, PTL

--------------------------------------------------------------------------------
(* Nothing twice: where the message of number k for player p is *)

\* Redis holds it for listenForRemoteActions or for listenPubSub of n, a goroutine
\* has it to send, a ReadPump has it to answer, a connection had it queued.
Carries(q, p, k) == \E i \in 1 .. Len(q) : q[i].player = p /\ q[i].msg.number = k

Waits(p, k)      == Carries(actions, p, k)
Lies(n, p, k)    == Carries(inbox[n], p, k)
Sends(s, p, k)   == p \in sender[s].to /\ sender[s].msg.number = k
Replies(c, p, k) ==
  reader[c].reply # NoMessage /\ Player(c) = p /\ reader[c].reply.number = k
Has(c, p, k) ==
  Player(c) = p /\ \E i \in 1 .. Len(got[c]) : got[c][i].number = k

\* The game still has to send it, or it was published or queued.
Pends(p, k) ==
  Waits(p, k) \/ (\E s \in Own : Sends(s, p, k)) \/ (\E c \in Conns : Replies(c, p, k))
Arrived(p, k) ==
  \/ \E n \in Nodes : Lies(n, p, k) \/ Sends(n, p, k)
  \/ \E c \in Conns : Has(c, p, k)

\* One goroutine has it until it is published or queued, each node gets it once,
\* and a node's listenPubSub has nothing that a connection of the node had queued.
Alone(p, k) ==
  /\ Pends(p, k) => ~Arrived(p, k)
  /\ \A s \in Own : Sends(s, p, k) => ~Waits(p, k) /\ \A c \in Conns : ~Replies(c, p, k)
  /\ \A c \in Conns : Replies(c, p, k) => ~Waits(p, k)
  /\ \A s, t \in Own : Sends(s, p, k) /\ Sends(t, p, k) => s = t
  /\ \A c, d \in Conns : Replies(c, p, k) /\ Replies(d, p, k) => c = d
  /\ \A n \in Nodes : Sends(n, p, k) => ~Lies(n, p, k)
  /\ \A c \in Conns :
       Has(c, p, k) => ~Lies(Node(c), p, k) /\ ~Sends(Node(c), p, k)

\* What has no number yet is nowhere; what was not published twice is alone.
Twice(p, k) == <<p, k>> \in again
Single(p, k) ==
  /\ k > sent => ~Pends(p, k) /\ ~Arrived(p, k)
  /\ Twice(p, k) \/ Alone(p, k)

SingleInv == \A p \in Players, k \in Nat : Single(p, k)

\* No channel and no connection has it twice.
Once(q) ==
  \A i, j \in 1 .. Len(q) :
    q[i].player = q[j].player /\ q[i].msg.number = q[j].msg.number =>
      i = j \/ Twice(q[i].player, q[i].msg.number)
OnceGot(p, g) ==
  \A i, j \in 1 .. Len(g) : g[i].number = g[j].number => i = j \/ Twice(p, g[i].number)

OnceInv ==
  /\ Once(actions) /\ \A n \in Nodes : Once(inbox[n])
  /\ \A c \in Conns : OnceGot(Player(c), got[c])

NumberInv == SingleInv /\ OnceInv

\* What a step does that brings the message nowhere it was not.
Shrinks(p, k) ==
  /\ Waits(p, k)' => Waits(p, k)
  /\ \A s \in Senders : Sends(s, p, k)' => Sends(s, p, k)
  /\ \A c \in Conns : Replies(c, p, k)' => Replies(c, p, k)
  /\ \A n \in Nodes : Lies(n, p, k)' => Lies(n, p, k)
  /\ \A c \in Conns : Has(c, p, k)' => Has(c, p, k)

--------------------------------------------------------------------------------
(* Nothing twice: lemmas *)

\* What a channel carries when a message comes in and when its first one is taken.
LEMMA AppendCarries ==
  ASSUME NEW q \in Seq(Entry), NEW e \in Entry
  PROVE  /\ \A p, k : Carries(Append(q, e), p, k)
                        <=> Carries(q, p, k) \/ (p = e.player /\ k = e.msg.number)
         /\ Once(q) /\ (~Carries(q, e.player, e.msg.number) \/ Twice(e.player, e.msg.number))
              => Once(Append(q, e))
<1> DEFINE r == Append(q, e)
<1>1. /\ Len(r) = Len(q) + 1 /\ Len(q) \in Nat /\ r[Len(q) + 1] = e
      /\ \A i \in 1 .. Len(q) : r[i] = q[i]
  BY AppendProperties, LenProperties
<1> HIDE DEF r
<1>2. \A i \in 1 .. Len(r) : i \in 1 .. Len(q) \/ i = Len(q) + 1
  BY <1>1
<1>3. ASSUME NEW p, NEW k
      PROVE  Carries(r, p, k) <=> Carries(q, p, k) \/ (p = e.player /\ k = e.msg.number)
  BY <1>1, <1>2 DEF Carries
<1>4. Once(q) /\ (~Carries(q, e.player, e.msg.number) \/ Twice(e.player, e.msg.number))
        => Once(r)
  BY <1>1, <1>2 DEF Carries, Once
<1> QED
  BY <1>3, <1>4 DEF r

LEMMA AppendTwice ==
  ASSUME NEW q \in Seq(Entry), NEW e \in Entry,
         Once(q)', Twice(e.player, e.msg.number)'
  PROVE  \A r : r = Append(q, e) => Once(r)'
<1> SUFFICES ASSUME NEW r, r = Append(q, e) PROVE Once(r)'
  OBVIOUS
<1>1. /\ Len(r) = Len(q) + 1 /\ Len(q) \in Nat /\ r[Len(q) + 1] = e
      /\ \A i \in 1 .. Len(q) : r[i] = q[i]
  BY AppendProperties, LenProperties
<1>2. \A i \in 1 .. Len(r) : i \in 1 .. Len(q) \/ i = Len(q) + 1
  BY <1>1
<1> QED
  BY <1>1, <1>2 DEF Once

LEMMA TailCarries ==
  ASSUME NEW q \in Seq(Entry), q # <<>>, Once(q)
  PROVE  /\ Once(Tail(q))
         /\ \A p, k : Carries(Tail(q), p, k) => Carries(q, p, k)
         /\ Carries(q, Head(q).player, Head(q).msg.number)
         /\ \/ ~Carries(Tail(q), Head(q).player, Head(q).msg.number)
            \/ Twice(Head(q).player, Head(q).msg.number)
<1> DEFINE r == Tail(q)
<1>1. /\ Head(q) = q[1] /\ Len(q) \in Nat /\ Len(q) >= 1 /\ Len(r) = Len(q) - 1
      /\ \A i \in 1 .. Len(r) : r[i] = q[i + 1] /\ i + 1 \in 1 .. Len(q)
  BY TailOf, LenProperties
<1> HIDE DEF r
<1>2. Once(r)
  BY <1>1 DEF Once
<1>3. \A p, k : Carries(r, p, k) => Carries(q, p, k)
  BY <1>1 DEF Carries
<1>4. Carries(q, Head(q).player, Head(q).msg.number)
  BY <1>1 DEF Carries
<1>5. ~Carries(r, Head(q).player, Head(q).msg.number)
        \/ Twice(Head(q).player, Head(q).msg.number)
  <2> SUFFICES ASSUME NEW i \in 1 .. Len(r), r[i].player = q[1].player,
                      r[i].msg.number = q[1].msg.number, ~Twice(q[1].player, q[1].msg.number)
               PROVE  FALSE
    BY <1>1 DEF Carries
  <2>1. i + 1 \in 1 .. Len(q) /\ 1 \in 1 .. Len(q) /\ i \in 1 .. Len(r) /\ r[i] = q[i + 1]
    BY <1>1
  <2>2. i + 1 = 1
    BY <2>1 DEF Once
  <2> QED
    BY <1>1, <2>1, <2>2
<1> QED
  BY <1>2, <1>3, <1>4, <1>5 DEF r

\* What a connection had queued when a message comes in.
LEMMA AppendGot ==
  ASSUME NEW p, NEW g \in Seq(Message), NEW m \in Message
  PROVE  /\ \A k : (\E i \in 1 .. Len(Append(g, m)) : Append(g, m)[i].number = k)
                     <=> (\E i \in 1 .. Len(g) : g[i].number = k) \/ k = m.number
         /\ OnceGot(p, g) /\ (~(\E i \in 1 .. Len(g) : g[i].number = m.number)
                               \/ Twice(p, m.number))
              => OnceGot(p, Append(g, m))
<1> DEFINE r == Append(g, m)
<1>1. /\ Len(r) = Len(g) + 1 /\ Len(g) \in Nat /\ r[Len(g) + 1] = m
      /\ \A i \in 1 .. Len(g) : r[i] = g[i]
  BY AppendProperties, LenProperties
<1> HIDE DEF r
<1>2. \A i \in 1 .. Len(r) : i \in 1 .. Len(g) \/ i = Len(g) + 1
  BY <1>1
<1>3. ASSUME NEW k
      PROVE  (\E i \in 1 .. Len(r) : r[i].number = k)
               <=> (\E i \in 1 .. Len(g) : g[i].number = k) \/ k = m.number
  BY <1>1, <1>2
<1>4. OnceGot(p, g) /\ (~(\E i \in 1 .. Len(g) : g[i].number = m.number)
                        \/ Twice(p, m.number))
        => OnceGot(p, r)
  BY <1>1, <1>2 DEF OnceGot
<1> QED
  BY <1>3, <1>4 DEF r

\* What a step leaves alone carries what it carried.
LEMMA Standing ==
  ASSUME HubInv, FlowInv, [Next]_vars, NEW p \in Players, NEW k \in Nat
  PROVE  /\ UNCHANGED actions => (Waits(p, k)' <=> Waits(p, k))
         /\ \A s \in Senders : sender'[s] = sender[s] => (Sends(s, p, k)' <=> Sends(s, p, k))
         /\ \A n \in Nodes : inbox'[n] = inbox[n] => (Lies(n, p, k)' <=> Lies(n, p, k))
         /\ \A c \in Conns :
              reader'[c].reply \in {reader[c].reply, NoMessage}
                => (Replies(c, p, k)' => Replies(c, p, k))
         /\ \A c \in Conns : got'[c] = got[c] => (Has(c, p, k)' => Has(c, p, k))
<1>1. \A c \in Conns : Player(c)' = Player(c) \/ (reader[c].reply = NoMessage /\ got[c] = <<>>)
  <2>1. \A c \in Conns : c > dialled \/ c \in 1 .. dialled
    BY HubAssumption DEF HubInv, CoreOK, Conns
  <2> QED
    BY <2>1, ConnectionsStay DEF FlowInv, ReaderInv
<1>2. ASSUME NEW c \in Conns, reader'[c].reply \in {reader[c].reply, NoMessage},
             Replies(c, p, k)'
      PROVE  Replies(c, p, k)
  BY <1>1, <1>2 DEF Replies
<1>3. ASSUME NEW c \in Conns, got'[c] = got[c], Has(c, p, k)' PROVE Has(c, p, k)
  <2>1. got[c] # <<>>
    BY <1>3 DEF Has
  <2> QED
    BY <1>1, <1>3, <2>1 DEF Has
<1> QED
  BY <1>2, <1>3 DEF Waits, Sends, Lies

\* A message that comes nowhere stays in one place.
LEMMA ShrinkKeeps ==
  ASSUME HubInv, FlowInv, AgainOK, [Next]_vars, NEW p \in Players, NEW k \in Nat,
         Single(p, k), Shrinks(p, k), sent' \in {sent, sent + 1}
  PROVE  Single(p, k)'
<1>1. /\ sent \in Nat /\ Nodes \subseteq Senders /\ Own \subseteq Senders
      /\ \A c \in Conns : Has(c, p, k) => Node(c)' = Node(c) /\ Node(c) \in Nodes
  <2>1. \A c \in Conns : Has(c, p, k) => c \in 1 .. dialled
    <3>1. \A c \in Conns : c > dialled \/ c \in 1 .. dialled
      BY HubAssumption DEF HubInv, CoreOK, Conns
    <3> QED
      BY <3>1 DEF FlowInv, ReaderInv, Has
  <2>2. \A c \in Conns : Node(c) \in Nodes
    BY DEF HubInv, CoreOK, Node
  <2> QED
    BY <2>1, <2>2, ConnectionsStay DEF FlowInv, DeliveryOK, Senders, Own
<1>2. /\ Pends(p, k)' => Pends(p, k)
      /\ Arrived(p, k)' => Arrived(p, k)
  BY <1>1 DEF Pends, Arrived, Shrinks
<1>3. (k > sent)' => k > sent
  BY <1>1
<1>4. Alone(p, k) => Alone(p, k)'
  BY <1>1, <1>2 DEF Alone, Shrinks
<1>5. Twice(p, k) => Twice(p, k)'
  BY AgainGrows DEF Twice
<1> QED
  BY <1>2, <1>3, <1>4, <1>5 DEF Single

\* Of what was published twice it only has to be known that it has its number.
LEMMA TwiceKeeps ==
  ASSUME NEW p, NEW k, Single(p, k), Pends(p, k) \/ Arrived(p, k), UNCHANGED sent,
         Twice(p, k)'
  PROVE  Single(p, k)'
BY DEF Single

\* What a connection had queued, when nothing is queued on it.
LEMMA OnceStands ==
  ASSUME HubInv, FlowInv, AgainOK, [Next]_vars, NEW c \in Conns, got'[c] = got[c],
         OnceGot(Player(c), got[c])
  PROVE  OnceGot(Player(c), got[c])'
<1>1. Player(c)' = Player(c) \/ got[c] = <<>>
  <2>1. c > dialled \/ c \in 1 .. dialled
    BY HubAssumption DEF HubInv, CoreOK, Conns
  <2> QED
    BY <2>1, ConnectionsStay DEF FlowInv, ReaderInv
<1>2. \A p, k : Twice(p, k) => Twice(p, k)'
  BY AgainGrows DEF Twice
<1> QED
  BY <1>1, <1>2 DEF OnceGot

\* What a channel holds, when nothing comes in.
LEMMA OnceLasts ==
  ASSUME HubInv, FlowInv, AgainOK, [Next]_vars
  PROVE  \A q : Once(q) => Once(q)'
<1>2. \A p, k : Twice(p, k) => Twice(p, k)'
  BY AgainGrows DEF Twice
<1> QED
  BY <1>2 DEF Once

\* What is left alone, and what was added with care, has nothing twice.
LEMMA OnceTogether ==
  ASSUME HubInv, FlowInv, AgainOK, OnceInv, [Next]_vars,
         Once(actions'), \A n \in Nodes : Once(inbox'[n]),
         \A c \in Conns :
           got'[c] = got[c] \/ (UNCHANGED client /\ OnceGot(Player(c), got'[c]))
  PROVE  OnceInv'
<1>1. Once(actions)' /\ \A n \in Nodes : Once(inbox[n])'
  BY OnceLasts
<1>2. ASSUME NEW c \in Conns PROVE OnceGot(Player(c), got[c])'
  <2>1. CASE got'[c] = got[c]
    BY <2>1, OnceStands DEF OnceInv
  <2>2. CASE UNCHANGED client /\ OnceGot(Player(c), got'[c])
    <3>1. \A p, k : Twice(p, k) => Twice(p, k)'
      BY AgainGrows DEF Twice
    <3> QED
      BY <2>2, <3>1 DEF OnceGot, Player
  <2> QED
    BY <2>1, <2>2
<1> QED
  BY <1>1, <1>2 DEF OnceInv

\* What a goroutine has to send after a step of its own.
LEMMA Becoming ==
  ASSUME FlowInv, NEW s \in Senders, NEW players, NEW m,
         \E k : Becomes(s, k) /\ Serves(k, players, m)
  PROVE  /\ \A p, k : Sends(s, p, k)' <=> p \in players /\ m.number = k
         /\ \A t \in Senders : t # s => sender'[t] = sender[t]
<1>1. PICK k : Becomes(s, k) /\ Serves(k, players, m)
  OBVIOUS
<1>2. sender'[s] = k /\ \A t \in Senders : t # s => sender'[t] = sender[t]
  BY <1>1 DEF FlowInv, DeliveryOK, Becomes
<1> QED
  BY <1>1, <1>2 DEF Serves, Sends

\* A step that only takes from what is to be sent and to be answered.
LEMMA QuietNumbers ==
  ASSUME HubInv, FlowInv, AgainOK, NumberInv, [Next]_vars, UNCHANGED <<actions, inbox, got>>,
         sent' \in {sent, sent + 1},
         \A c \in Conns : reader'[c].reply \in {reader[c].reply, NoMessage},
         \A s \in Senders, p \in Players, k \in Nat : Sends(s, p, k)' => Sends(s, p, k)
  PROVE  NumberInv'
<1>1. ASSUME NEW p \in Players, NEW k \in Nat PROVE Single(p, k)'
  <2>1. Shrinks(p, k)
    BY Standing DEF Shrinks
  <2> QED
    BY <2>1, ShrinkKeeps DEF NumberInv, SingleInv
<1>2. OnceInv'
  BY OnceTogether DEF NumberInv, OnceInv
<1> QED
  BY <1>1, <1>2 DEF NumberInv, SingleInv

\* The hub's goroutine, the pumps that answer nothing, looking a client up.
LEMMA OthersNumbers ==
  ASSUME HubInv, FlowInv, AgainOK, NumberInv, [Next]_vars,
         \/ \E p \in Players, n \in Nodes : Dial(p, n)
         \/ \E n \in Nodes : Register(n) \/ Unregister(n)
         \/ \E c \in Conns :
              \/ Lose(c) \/ ReadFails(c) \/ Leave(c) \/ WriteFrame(c) \/ StopWriting(c)
              \/ Reconnect(c) \/ Ping(c)
         \/ \E s \in Senders : Lookup(s) \/ Check(s) \/ Panic(s)
         \/ UNCHANGED vars
  PROVE  NumberInv'
<1> USE DEF connVars, redisVars, hubVars
<1>1. reader \in [Conns -> ReaderState]
  BY DEF FlowInv, ConnectionsOK
<1>2. ASSUME UNCHANGED sender
      PROVE  \A s \in Senders, p \in Players, k \in Nat : Sends(s, p, k)' => Sends(s, p, k)
  BY <1>2 DEF Sends
<1>3. CASE \/ \E n \in Nodes : Register(n) \/ Unregister(n)
           \/ \E c \in Conns : Lose(c) \/ WriteFrame(c) \/ StopWriting(c)
           \/ \E s \in Senders : Panic(s)
           \/ UNCHANGED vars
  <2>1. UNCHANGED <<actions, inbox, got, sent, reader, sender>>
    BY <1>3, Zenon DEF Register, Unregister, Lose, WriteFrame, StopWriting, Panic, vars
  <2> QED
    BY <1>2, <2>1, QuietNumbers
<1>4. CASE \/ \E p \in Players, n \in Nodes : Dial(p, n)
           \/ \E c \in Conns : ReadFails(c) \/ Leave(c) \/ Reconnect(c) \/ Ping(c)
  <2>1. /\ UNCHANGED <<actions, inbox, got, sender>> /\ sent' \in {sent, sent + 1}
        /\ \E c, pc : reader' = [reader EXCEPT ![c].pc = pc]
    BY <1>4, ZenonT(40) DEF Dial, ReadFails, Leave, Reconnect, Ping, Count
  <2>2. \A c \in Conns : reader'[c].reply = reader[c].reply
    BY <1>1, <2>1 DEF ReaderState
  <2> QED
    BY <1>2, <2>1, <2>2, QuietNumbers
<1>5. ASSUME NEW s \in Senders, Lookup(s) \/ Check(s) PROVE NumberInv'
  <2>1. UNCHANGED <<actions, inbox, got, sent, reader>>
    BY <1>5, Zenon DEF Lookup, Check
  <2>2. PICK k, players : /\ Becomes(s, k) /\ players \subseteq sender[s].to
                          /\ Serves(k, players, sender[s].msg)
    BY <1>5, LookupBecomes
  <2>3. /\ \A p, j : Sends(s, p, j)' <=> p \in players /\ sender[s].msg.number = j
        /\ \A t \in Senders : t # s => sender'[t] = sender[t]
    BY <2>2, Becoming
  <2>4. \A t \in Senders, p \in Players, j \in Nat : Sends(t, p, j)' => Sends(t, p, j)
    BY <2>2, <2>3 DEF Sends
  <2> QED
    BY <2>1, <2>4, QuietNumbers
<1> QED
  BY <1>3, <1>4, <1>5


\* What is numbered is new, and what rests sends nothing.
LEMMA Unheard ==
  ASSUME FlowInv, NumberInv, NEW p \in Players, NEW k \in Nat, k > sent
  PROVE  /\ ~Waits(p, k) /\ \A s \in Senders : ~Sends(s, p, k)
         /\ \A c \in Conns : ~Replies(c, p, k) /\ ~Has(c, p, k)
         /\ \A n \in Nodes : ~Lies(n, p, k)
BY DEF NumberInv, SingleInv, Single, Pends, Arrived, Senders, Own

LEMMA RestsSendsNothing ==
  ASSUME FlowInv, NEW s \in Senders, sender[s].pc = "idle"
  PROVE  \A p, k : ~Sends(s, p, k)
BY DEF FlowInv, SenderInv, SenderFits, Resting, Sends

\* The goroutine of the session numbers its message.
LEMMA BroadcastNumbers ==
  ASSUME HubInv, FlowInv, AgainOK, NumberInv, [Next]_vars, Broadcast
  PROVE  NumberInv'
<1>1. /\ UNCHANGED <<actions, inbox, got, reader>> /\ sent' = sent + 1 /\ sent \in Nat
      /\ "session" \in Own /\ Own \subseteq Senders /\ Nodes \subseteq Senders
      /\ "session" \notin Nodes
  BY BroadcastBecomes, HubAssumption
     DEF Broadcast, connVars, redisVars, Own, Senders
<1>2. /\ \A p, k : Sends("session", p, k)' <=> p \in Players /\ k = sent + 1
      /\ \A t \in Senders : t # "session" => sender'[t] = sender[t]
  <2>0. PICK players, m : /\ players = Players
                          /\ m = [kind |-> "snapshot", number |-> sent + 1]
    OBVIOUS
  <2>1. \E k : Becomes("session", k) /\ Serves(k, players, m)
    BY <2>0, BroadcastBecomes
  <2>2. /\ \A p, k : Sends("session", p, k)' <=> p \in players /\ m.number = k
        /\ \A t \in Senders : t # "session" => sender'[t] = sender[t]
    BY <1>1, <2>1, Becoming
  <2> QED
    BY <2>0, <2>2
<1>3. ASSUME NEW p \in Players, NEW k \in Nat PROVE Single(p, k)'
  <2>1. CASE k # sent + 1
    <3>1. \A s \in Senders : Sends(s, p, k)' => Sends(s, p, k)
      BY <1>2, <2>1, Standing
    <3>2. Shrinks(p, k)
      BY <1>1, <3>1, Standing DEF Shrinks
    <3> QED
      BY <1>1, <3>2, ShrinkKeeps DEF NumberInv, SingleInv
  <2>2. CASE k = sent + 1
    <3>1. /\ ~Waits(p, k)' /\ \A s \in Senders : s # "session" => ~Sends(s, p, k)'
          /\ \A c \in Conns : ~Replies(c, p, k)' /\ ~Has(c, p, k)'
          /\ \A n \in Nodes : ~Lies(n, p, k)'
      BY <1>1, <1>2, <2>2, Unheard, Standing
    <3> QED
      BY <1>1, <2>2, <3>1 DEF Single, Alone, Pends, Arrived
  <2> QED
    BY <2>1, <2>2
<1>4. OnceInv'
  BY <1>1, OnceTogether DEF NumberInv, OnceInv
<1> QED
  BY <1>3, <1>4 DEF NumberInv, SingleInv

\* handleAnswer numbers its acknowledgement.
LEMMA AnswerNumbers ==
  ASSUME HubInv, FlowInv, AgainOK, NumberInv, [Next]_vars, NEW c \in Conns, Answer(c)
  PROVE  NumberInv'
<1> DEFINE ack == [kind |-> "ack", number |-> sent + 1]
           e == [player |-> Player(c), msg |-> ack]
<1>1. /\ UNCHANGED <<sender, inbox, got, client>> /\ sent' = sent + 1 /\ sent \in Nat
      /\ Own \subseteq Senders /\ Nodes \subseteq Senders
      /\ reader \in [Conns -> ReaderState] /\ actions \in Seq(Entry)
      /\ \/ UNCHANGED actions /\ \A d \in Conns \ {c} : reader'[d] = reader[d]
         \/ /\ UNCHANGED reader
            /\ \/ actions' \in {actions, Append(actions, e)}
               \/ /\ actions' = Append(Append(actions, e), e)
                  /\ again' = again \union {<<Player(c), sent + 1>>}
  BY DEF Answer, Count, FlowInv, DeliveryOK, ConnectionsOK, Own, Senders
<1>2. UNCHANGED reader \/ reader'[c] = [pc |-> "replying", reply |-> ack]
  BY <1>1 DEF Answer
<1>3. e \in Entry /\ Player(c) \in Players
  <2>1. Player(c) \in Players
    BY HubAssumption DEF Answer, Reads, Running, HubInv, DialledInv, Conns, CoreOK, Player
  <2> QED
    BY <1>1, <2>1 DEF Entry, Message
<1>4. /\ \A p, k : Waits(p, k)' => Waits(p, k) \/ (p = Player(c) /\ k = sent + 1)
      /\ \A p, k : Replies(c, p, k)' => Replies(c, p, k) \/ (p = Player(c) /\ k = sent + 1)
      /\ UNCHANGED actions \/ UNCHANGED reader
      /\ \A d \in Conns : d # c => reader'[d] = reader[d]
  <2> HIDE DEF e
  <2>1. \A p, k : Carries(Append(actions, e), p, k)
                    <=> Carries(actions, p, k) \/ (p = e.player /\ k = e.msg.number)
    BY <1>1, <1>3, AppendCarries
  <2>5. Append(actions, e) \in Seq(Entry)
    BY <1>1, <1>3, AppendProperties, Zenon
  <2>6. \A p, k : Carries(Append(Append(actions, e), e), p, k)
                    <=> Carries(Append(actions, e), p, k) \/ (p = e.player /\ k = e.msg.number)
    BY <1>3, <2>5, AppendCarries
  <2>2. e.player = Player(c) /\ e.msg.number = sent + 1 /\ Player(c)' = Player(c)
    BY <1>1 DEF e, Player
  <2>3. \A p, k : Waits(p, k)' => Waits(p, k) \/ (p = Player(c) /\ k = sent + 1)
    BY <1>1, <2>1, <2>2, <2>6 DEF Waits
  <2>4. \A p, k : Replies(c, p, k)' => Replies(c, p, k) \/ (p = Player(c) /\ k = sent + 1)
    BY <1>2, <2>2 DEF Replies
  <2> QED
    BY <1>1, <2>3, <2>4
<1> HIDE DEF ack
<1>5. ASSUME NEW p \in Players, NEW k \in Nat PROVE Single(p, k)'
  <2>1. CASE ~(p = Player(c) /\ k = sent + 1)
    <3>1. Shrinks(p, k)
      BY <1>1, <1>4, <2>1, Standing DEF Shrinks
    <3> QED
      BY <1>1, <3>1, ShrinkKeeps DEF NumberInv, SingleInv
  <2>2. CASE k = sent + 1
    <3>1. /\ \A s \in Senders : ~Sends(s, p, k)' /\ \A n \in Nodes : ~Lies(n, p, k)'
          /\ \A d \in Conns : ~Has(d, p, k)' /\ (d # c => ~Replies(d, p, k)')
          /\ ~Waits(p, k)' \/ ~Replies(c, p, k)'
      BY <1>1, <1>4, <2>2, Unheard, Standing
    <3> QED
      BY <1>1, <2>2, <3>1 DEF Single, Alone, Pends, Arrived
  <2> QED
    BY <2>1, <2>2
<1>6. OnceInv'
  <2>1. ~Carries(actions, Player(c), sent + 1)
    BY <1>1, <1>3, Unheard DEF Waits
  <2>2. e.player = Player(c) /\ e.msg.number = sent + 1
    BY DEF ack
  <2> HIDE DEF e
  <2>3. Once(actions) /\ Once(Append(actions, e)) /\ Append(actions, e) \in Seq(Entry)
    <3>1. Once(actions)
      BY DEF NumberInv, OnceInv
    <3> QED
      BY <1>1, <1>3, <2>1, <2>2, <3>1, AppendCarries, AppendProperties
  <2>4. CASE actions' \in {actions, Append(actions, e)}
    BY <1>1, <2>3, <2>4, OnceTogether DEF NumberInv, OnceInv
  <2>5. CASE /\ actions' = Append(Append(actions, e), e)
             /\ again' = again \union {<<Player(c), sent + 1>>}
    <3>1. Once(actions)'
      <4>0. PICK x \in Entry, q \in Seq(Entry) : x = e /\ q = Append(actions, e)
        BY <1>3, <2>3
      <4>1. Once(q)'
        BY <2>3, <4>0, OnceLasts
      <4>2. Twice(x.player, x.msg.number)'
        BY <2>2, <2>5, <4>0 DEF Twice
      <4>3. actions' = Append(q, x)
        BY <2>5, <4>0
      <4>4. PICK r : r = Append(q, x)
        OBVIOUS
      <4>5. Once(r)'
        BY <4>1, <4>2, <4>4, AppendTwice
      <4> QED
        BY <4>3, <4>4, <4>5 DEF Once
    <3>2. \A n \in Nodes : Once(inbox[n])'
      BY <1>1, OnceLasts DEF NumberInv, OnceInv
    <3>3. \A d \in Conns : OnceGot(Player(d), got[d])'
      BY <1>1, OnceStands DEF NumberInv, OnceInv
    <3> QED
      BY <3>1, <3>2, <3>3 DEF OnceInv
  <2> QED
    BY <1>1, <2>4, <2>5
<1> QED
  BY <1>5, <1>6 DEF NumberInv, SingleInv


\* listenForRemoteActions takes an answer off its channel.
LEMMA TakeActionNumbers ==
  ASSUME HubInv, FlowInv, AgainOK, NumberInv, [Next]_vars, TakeAction
  PROVE  NumberInv'
<1>1. /\ UNCHANGED <<inbox, got, reader, sent>> /\ actions \in Seq(Entry)
      /\ actions # <<>> /\ actions' = Tail(actions) /\ Once(actions)
      /\ "remote" \in Own /\ Own \subseteq Senders /\ Nodes \subseteq Senders
      /\ "remote" \notin Nodes /\ sent \in Nat
  BY TakeBecomes, HubAssumption
     DEF TakeAction, connVars, FlowInv, DeliveryOK, NumberInv, OnceInv, Own, Senders
<1>0. PICK e \in Entry : e = Head(actions)
  BY <1>1, TailOf
<1>2. /\ \A p, k : Sends("remote", p, k)' <=> p \in {e.player} /\ e.msg.number = k
      /\ \A t \in Senders : t # "remote" => sender'[t] = sender[t]
      /\ \A p, k : ~Sends("remote", p, k)
  <2>0. PICK players, m : players = {e.player} /\ m = e.msg
    OBVIOUS
  <2>1. sender["remote"].pc = "idle" /\ \E k : Becomes("remote", k) /\ Serves(k, players, m)
    BY <1>0, <2>0, TakeBecomes
  <2>2. /\ \A p, k : Sends("remote", p, k)' <=> p \in players /\ m.number = k
        /\ \A t \in Senders : t # "remote" => sender'[t] = sender[t]
    BY <1>1, <2>1, Becoming
  <2> QED
    BY <1>1, <2>0, <2>1, <2>2, RestsSendsNothing
<1>3. /\ Once(actions') /\ \A p, k : Waits(p, k)' => Waits(p, k)
      /\ Waits(e.player, e.msg.number)
      /\ ~Waits(e.player, e.msg.number)' \/ Twice(e.player, e.msg.number)
  <2>1. /\ Once(Tail(actions))
        /\ \A p, k : Carries(Tail(actions), p, k) => Carries(actions, p, k)
        /\ Carries(actions, e.player, e.msg.number)
        /\ \/ ~Carries(Tail(actions), e.player, e.msg.number)
           \/ Twice(e.player, e.msg.number)
    BY <1>0, <1>1, TailCarries
  <2> QED
    BY <1>1, <2>1 DEF Waits
<1>4. ASSUME NEW p \in Players, NEW k \in Nat PROVE Single(p, k)'
  <2>1. CASE ~(p = e.player /\ k = e.msg.number)
    <3>1. \A s \in Senders : Sends(s, p, k)' => Sends(s, p, k)
      BY <1>2, <2>1, Standing
    <3>2. Shrinks(p, k)
      BY <1>1, <1>3, <3>1, Standing DEF Shrinks
    <3> QED
      BY <1>1, <3>2, ShrinkKeeps DEF NumberInv, SingleInv
  <2>3. CASE p = e.player /\ k = e.msg.number /\ Twice(p, k)
    <3>1. Single(p, k) /\ Pends(p, k) /\ Twice(p, k)'
      BY <1>3, <2>3, AgainGrows DEF NumberInv, SingleInv, Pends, Twice
    <3> QED
      BY <1>1, <3>1, TwiceKeeps
  <2>2. CASE p = e.player /\ k = e.msg.number /\ ~Twice(p, k)
    <3>1. /\ Pends(p, k) /\ ~Arrived(p, k) /\ ~(k > sent)
          /\ \A c \in Conns : ~Replies(c, p, k)
          /\ \A s \in Own : ~Sends(s, p, k)
      BY <1>1, <1>3, <2>2 DEF NumberInv, SingleInv, Single, Alone, Pends
    <3>2. /\ ~Waits(p, k)' /\ \A c \in Conns : ~Replies(c, p, k)' /\ ~Has(c, p, k)'
          /\ \A s \in Senders : s # "remote" => ~Sends(s, p, k)'
          /\ \A n \in Nodes : ~Lies(n, p, k)'
      <4>1. /\ \A s \in Senders : ~Sends(s, p, k) /\ \A n \in Nodes : ~Lies(n, p, k)
            /\ \A c \in Conns : ~Has(c, p, k)
        <5>1. Senders = Own \union Nodes
          BY DEF Senders, Own
        <5> QED
          BY <3>1, <5>1 DEF Arrived
      <4>2. ~Waits(p, k)'
        BY <1>3, <2>2
      <4>3. \A s \in Senders : s # "remote" => ~Sends(s, p, k)'
        BY <1>2, <4>1, Standing
      <4> QED
        BY <1>1, <3>1, <4>1, <4>2, <4>3, Standing
    <3> QED
      BY <1>1, <3>1, <3>2 DEF Single, Alone, Pends, Arrived
  <2> QED
    BY <2>1, <2>2, <2>3
<1>5. OnceInv'
  BY <1>1, <1>3, OnceTogether DEF NumberInv, OnceInv
<1> QED
  BY <1>4, <1>5 DEF NumberInv, SingleInv

\* listenPubSub takes a message off its channel.
LEMMA ReceiveNumbers ==
  ASSUME HubInv, FlowInv, AgainOK, NumberInv, [Next]_vars, NEW n \in Nodes, Receive(n)
  PROVE  NumberInv'
<1>1. /\ UNCHANGED <<actions, got, reader, sent, client>> /\ inbox \in [Nodes -> Seq(Entry)]
      /\ inbox[n] # <<>> /\ inbox' = [inbox EXCEPT ![n] = Tail(inbox[n])]
      /\ Once(inbox[n]) /\ n \in Senders /\ Own \subseteq Senders /\ Nodes \subseteq Senders
      /\ n \notin Own /\ sent \in Nat
  BY ReceiveBecomes, HubAssumption
     DEF Receive, connVars, FlowInv, DeliveryOK, NumberInv, OnceInv, Own, Senders
<1>0. PICK e \in Entry : e = Head(inbox[n])
  BY <1>1, TailOf
<1>2. /\ \A p, k : Sends(n, p, k)' <=> p \in {e.player} /\ e.msg.number = k
      /\ \A t \in Senders : t # n => sender'[t] = sender[t]
      /\ \A p, k : ~Sends(n, p, k)
  <2>0. PICK players, m : players = {e.player} /\ m = e.msg
    OBVIOUS
  <2>1. sender[n].pc = "idle" /\ \E k : Becomes(n, k) /\ Serves(k, players, m)
    BY <1>0, <2>0, ReceiveBecomes
  <2>2. /\ \A p, k : Sends(n, p, k)' <=> p \in players /\ m.number = k
        /\ \A t \in Senders : t # n => sender'[t] = sender[t]
    BY <1>1, <2>1, Becoming
  <2> QED
    BY <1>1, <2>0, <2>1, <2>2, RestsSendsNothing
<1>3. /\ Once(inbox'[n]) /\ \A p, k : Lies(n, p, k)' => Lies(n, p, k)
      /\ Lies(n, e.player, e.msg.number)
      /\ ~Lies(n, e.player, e.msg.number)' \/ Twice(e.player, e.msg.number)
      /\ \A m \in Nodes : m # n => inbox'[m] = inbox[m]
  <2>1. /\ Once(Tail(inbox[n]))
        /\ \A p, k : Carries(Tail(inbox[n]), p, k) => Carries(inbox[n], p, k)
        /\ Carries(inbox[n], e.player, e.msg.number)
        /\ \/ ~Carries(Tail(inbox[n]), e.player, e.msg.number)
           \/ Twice(e.player, e.msg.number)
    BY <1>0, <1>1, TailCarries
  <2>2. inbox'[n] = Tail(inbox[n]) /\ \A m \in Nodes : m # n => inbox'[m] = inbox[m]
    BY <1>1
  <2> QED
    BY <2>1, <2>2 DEF Lies
<1>4. ASSUME NEW p \in Players, NEW k \in Nat PROVE Single(p, k)'
  <2>0. Single(p, k) /\ \A m \in Nodes : Lies(m, p, k)' => Lies(m, p, k)
    BY <1>3, Standing DEF NumberInv, SingleInv
  <2>1. CASE ~(p = e.player /\ k = e.msg.number)
    <3>1. \A s \in Senders : Sends(s, p, k)' => Sends(s, p, k)
      BY <1>2, <2>1, Standing
    <3>2. Shrinks(p, k)
      BY <1>1, <2>0, <3>1, Standing DEF Shrinks
    <3> QED
      BY <1>1, <2>0, <3>2, ShrinkKeeps
  <2>3. CASE p = e.player /\ k = e.msg.number /\ Twice(p, k)
    <3>1. Arrived(p, k) /\ Twice(p, k)'
      BY <1>3, <2>3, AgainGrows DEF Arrived, Twice
    <3> QED
      BY <1>1, <2>0, <3>1, TwiceKeeps
  <2>2. CASE p = e.player /\ k = e.msg.number /\ ~Twice(p, k)
    <3>1. /\ ~Pends(p, k) /\ ~(k > sent)
          /\ \A c \in Conns : Has(c, p, k) => Node(c) # n
      BY <1>3, <2>0, <2>2 DEF Single, Alone, Pends, Arrived
    <3>2. /\ ~Pends(p, k)' /\ ~Lies(n, p, k)'
          /\ \A c \in Conns : Has(c, p, k)' => Has(c, p, k)
          /\ \A s \in Senders : s # n => (Sends(s, p, k)' <=> Sends(s, p, k))
      <4>1. \A s \in Senders : s # n => (Sends(s, p, k)' <=> Sends(s, p, k))
        BY <1>2, Standing
      <4>2. \A c \in Conns : (Has(c, p, k)' => Has(c, p, k)) /\ ~Replies(c, p, k)'
        BY <1>1, <3>1, Standing DEF Pends
      <4>3. ~Waits(p, k)' /\ \A s \in Own : ~Sends(s, p, k)'
        BY <1>1, <3>1, <4>1, Standing DEF Pends
      <4> QED
        BY <1>3, <2>2, <4>1, <4>2, <4>3 DEF Pends
    <3>3. \A c \in Conns : Node(c)' = Node(c)
      BY <1>1 DEF Node
    <3> QED
      <4>1. \A m \in Nodes : Sends(m, p, k)' => ~Lies(m, p, k)'
        BY <1>1, <2>0, <2>2, <3>2 DEF Single, Alone
      <4>2. \A c \in Conns : Node(c) \in Nodes
        BY DEF HubInv, CoreOK, Node
      <4>3. \A c \in Conns, m \in Nodes :
              m = Node(c) /\ Has(c, p, k)' => ~Lies(m, p, k)' /\ ~Sends(m, p, k)'
        BY <1>1, <2>0, <2>2, <3>1, <3>2 DEF Single, Alone
      <4> QED
        BY <1>1, <3>1, <3>2, <3>3, <4>1, <4>2, <4>3 DEF Single, Alone, Pends
  <2> QED
    BY <2>1, <2>2, <2>3
<1>5. OnceInv'
  BY <1>1, <1>3, OnceTogether DEF NumberInv, OnceInv
<1> QED
  BY <1>4, <1>5 DEF NumberInv, SingleInv

\* Once it is published or queued, nobody in the game has it left to send.
LEMMA Leaves ==
  ASSUME NEW p, NEW k, Single(p, k), Pends(p, k), ~Pends(p, k)', UNCHANGED sent,
         \A n \in Nodes : ~Sends(n, p, k)',
         (\A n \in Nodes : ~Lies(n, p, k)') \/ (\A c \in Conns : ~Has(c, p, k)'),
         \A c \in Conns : client'[c].node \in Nodes
  PROVE  Single(p, k)'
<1>1. ~(k > sent)'
  BY DEF Single
<1> QED
  <2>1. ASSUME NEW c \in Conns
        PROVE  Has(c, p, k)' => ~Lies(Node(c), p, k)' /\ ~Sends(Node(c), p, k)'
    BY DEF Node
  <2> QED
    BY <1>1, <2>1 DEF Single, Alone, Pends


\* What a connection had queued after Queue: at most that message more.
LEMMA QueueHas ==
  ASSUME FlowInv, NEW c \in Conns, NEW m \in Message, Queue(c, m), UNCHANGED client
  PROVE  /\ \A d \in Conns \ {c} : got'[d] = got[d]
         /\ \A p, k : Has(c, p, k)' => Has(c, p, k) \/ (p = Player(c) /\ k = m.number)
         /\ /\ OnceGot(Player(c), got[c])
            /\ ~Has(c, Player(c), m.number) \/ Twice(Player(c), m.number)
            => OnceGot(Player(c), got'[c])
<1> DEFINE pl == Player(c)
<1>1. /\ got[c] \in Seq(Message) /\ \A d \in Conns \ {c} : got'[d] = got[d]
      /\ got'[c] = got[c] \/ got'[c] = Append(got[c], m)
  BY QueueAppends DEF FlowInv, ConnectionsOK
<1>2. /\ \A k : (\E i \in 1 .. Len(got'[c]) : got'[c][i].number = k)
                  => (\E i \in 1 .. Len(got[c]) : got[c][i].number = k) \/ k = m.number
      /\ /\ OnceGot(pl, got[c])
         /\ ~(\E i \in 1 .. Len(got[c]) : got[c][i].number = m.number) \/ Twice(pl, m.number)
         => OnceGot(pl, got'[c])
  <2>1. CASE got'[c] = got[c]
    BY <2>1
  <2>2. CASE got'[c] = Append(got[c], m)
    BY <1>1, <2>2, AppendGot
  <2> QED
    BY <1>1, <2>1, <2>2
<1> QED
  BY <1>1, <1>2 DEF Has, Player

\* A ReadPump queues its answer.
LEMMA ReplyNumbers ==
  ASSUME HubInv, FlowInv, AgainOK, NumberInv, [Next]_vars, NEW c \in Conns, Reply(c)
  PROVE  NumberInv'
<1>1. /\ UNCHANGED <<actions, inbox, sender, sent, client>>
      /\ \E pc : reader' = [reader EXCEPT ![c] = [pc |-> pc, reply |-> NoMessage]]
      /\ Queue(c, reader[c].reply) \/ UNCHANGED got
  BY Zenon DEF Reply, redisVars
<1>2. /\ reader \in [Conns -> ReaderState] /\ sent \in Nat
      /\ Own \subseteq Senders /\ Nodes \subseteq Senders
      /\ got \in [Conns -> Seq(Message)]
  BY DEF FlowInv, DeliveryOK, ConnectionsOK, Own, Senders
<1>3. /\ reader'[c].reply = NoMessage
      /\ \A d \in Conns : reader'[d].reply \in {reader[d].reply, NoMessage}
  BY <1>1, <1>2
<1>4. CASE UNCHANGED got
  <2>1. \A s \in Senders, p \in Players, k \in Nat : Sends(s, p, k)' => Sends(s, p, k)
    BY <1>1 DEF Sends
  <2> QED
    BY <1>1, <1>3, <1>4, <2>1, QuietNumbers
<1>5. CASE reader[c].reply = NoMessage /\ Queue(c, reader[c].reply)
  <2>1. UNCHANGED got
    BY <1>5 DEF Queue
  <2> QED
    BY <1>4, <2>1
<1>6. CASE reader[c].reply # NoMessage /\ Queue(c, reader[c].reply)
  <2>0. PICK m \in Message : m = reader[c].reply
    BY <1>2, <1>6 DEF ReaderState
  <2>1. PICK pl \in Players, j \in Nat : pl = Player(c) /\ j = m.number
    <3>1. Player(c) \in Players
      BY HubAssumption DEF Reply, Running, HubInv, DialledInv, Conns, CoreOK, Player
    <3> QED
      BY <2>0, <3>1 DEF Message
  <2>2. /\ Single(pl, j) /\ Replies(c, pl, j) /\ Pends(pl, j)
        /\ ~Twice(pl, j) => Alone(pl, j) /\ ~Arrived(pl, j) /\ ~Has(c, pl, j)
    <3>1. Single(pl, j) /\ Replies(c, pl, j)
      BY <1>6, <2>0, <2>1 DEF Replies, NumberInv, SingleInv
    <3> QED
      BY <3>1 DEF Single, Alone, Pends, Arrived
  <2>3. /\ \A d \in Conns \ {c} : got'[d] = got[d]
        /\ \A p, k : Has(c, p, k)' => Has(c, p, k) \/ (p = pl /\ k = j)
        /\ OnceGot(Player(c), got'[c])
    BY <1>1, <1>6, <2>0, <2>1, <2>2, QueueHas DEF NumberInv, OnceInv
  <2>4. ASSUME NEW p \in Players, NEW k \in Nat, ~(p = pl /\ k = j) PROVE Single(p, k)'
    <3>1. \A d \in Conns : Has(d, p, k)' => Has(d, p, k)
      BY <2>3, <2>4, Standing
    <3>2. Shrinks(p, k)
      BY <1>1, <1>3, <3>1, Standing DEF Shrinks
    <3> QED
      BY <1>1, <3>2, ShrinkKeeps DEF NumberInv, SingleInv
  <2>7. ASSUME Twice(pl, j) PROVE Single(pl, j)'
    BY <1>1, <2>2, <2>7, TwiceKeeps, AgainGrows DEF Twice
  <2>5. ASSUME ~Twice(pl, j) PROVE Single(pl, j)'
    <3>1. ~Pends(pl, j)'
      <4>1. /\ ~Waits(pl, j) /\ \A s \in Own : ~Sends(s, pl, j)
            /\ \A d \in Conns : d # c => ~Replies(d, pl, j)
        BY <2>2, <2>5 DEF Alone
      <4>2. ~Replies(c, pl, j)'
        BY <1>3 DEF Replies
      <4>3. \A d \in Conns : ~Replies(d, pl, j)'
        BY <1>3, <4>1, <4>2, Standing
      <4>4. ~Waits(pl, j)' /\ \A s \in Own : ~Sends(s, pl, j)'
        BY <1>1, <1>2, <4>1, Standing
      <4> QED
        BY <4>3, <4>4 DEF Pends
    <3>2. \A n \in Nodes : ~Sends(n, pl, j)' /\ ~Lies(n, pl, j)'
      BY <1>1, <1>2, <2>2, <2>5, Standing DEF Arrived
    <3>3. \A d \in Conns : client'[d].node \in Nodes
      BY <1>1 DEF HubInv, CoreOK
    <3> QED
      BY <1>1, <2>2, <3>1, <3>2, <3>3, Leaves
  <2>6. OnceInv'
    BY <1>1, <2>3, OnceTogether DEF NumberInv, OnceInv
  <2> QED
    BY <2>4, <2>5, <2>6, <2>7 DEF NumberInv, SingleInv
<1> QED
  BY <1>1, <1>4, <1>5, <1>6


\* What a goroutine that serves a player has left to send.
LEMMA ServedSends ==
  ASSUME HubInv, FlowInv, NEW s \in Senders, Send(s) \/ Publish(s)
  PROVE  /\ \A p, k : Sends(s, p, k)' => Sends(s, p, k) /\ p # sender[s].now
         /\ \A t \in Senders : t # s => sender'[t] = sender[t]
         /\ Sends(s, sender[s].now, sender[s].msg.number)
         /\ sender[s].now \in Players /\ sender[s].msg \in Message
<1>1. PICK k : Becomes(s, k)
               /\ Serves(k, sender[s].to \ {sender[s].now}, sender[s].msg)
  BY SendBecomes
<1>2. sender'[s] = k /\ \A t \in Senders : t # s => sender'[t] = sender[t]
  BY <1>1 DEF FlowInv, DeliveryOK, Becomes
<1>3. /\ sender[s].now \in sender[s].to /\ sender[s].to \subseteq Players
      /\ sender[s].msg \in Message
  <2>1. sender[s].pc \in {"send", "publish"}
    BY DEF Send, Publish, At
  <2> QED
    BY <2>1, Serving
<1> QED
  BY <1>1, <1>2, <1>3 DEF Serves, Sends

\* SendToPlayer publishes for a player the node has nobody connected for.
LEMMA PublishNumbers ==
  ASSUME HubInv, FlowInv, AgainOK, NumberInv, [Next]_vars, NEW s \in Senders, Publish(s)
  PROVE  NumberInv'
<1>1. /\ UNCHANGED <<actions, got, reader, sent, client>> /\ s \in Own /\ s \notin Nodes
      /\ Own \subseteq Senders /\ Nodes \subseteq Senders /\ inbox \in [Nodes -> Seq(Entry)]
  <2>1. sender[s].pc = "publish"
    BY DEF Publish, At
  <2>2. s \in Own
    BY <2>1, Serving
  <2> QED
    BY <2>2, HubAssumption, Zenon
       DEF Publish, connVars, FlowInv, DeliveryOK, Own, Senders
<1>2. PICK pl \in Players, m \in Message : pl = sender[s].now /\ m = sender[s].msg
  BY ServedSends
<1>3. /\ \A p, k : Sends(s, p, k)' => Sends(s, p, k) /\ p # pl
      /\ \A t \in Senders : t # s => sender'[t] = sender[t]
      /\ Sends(s, pl, m.number) /\ m.number \in Nat
      /\ \A p, k : p # pl \/ k # m.number => (Sends(s, p, k)' => Sends(s, p, k))
  BY <1>2, ServedSends DEF Message
<1>4. PICK e \in Entry : e.player = pl /\ e.msg = m /\
        \A n \in Nodes : inbox'[n] = inbox[n] \/ inbox'[n] = Append(inbox[n], e)
  BY <1>2, PublishDelivers
<1>5. /\ Single(pl, m.number) /\ Pends(pl, m.number)
      /\ \/ Twice(pl, m.number)
         \/ /\ Alone(pl, m.number) /\ ~Arrived(pl, m.number)
            /\ \A n \in Nodes : ~Lies(n, pl, m.number)
  <2>1. Single(pl, m.number) /\ Pends(pl, m.number)
    BY <1>1, <1>3 DEF NumberInv, SingleInv, Pends
  <2> QED
    BY <2>1 DEF Single, Alone, Arrived
<1>6. ASSUME NEW n \in Nodes
      PROVE  /\ \A p, k : Lies(n, p, k)' => Lies(n, p, k) \/ (p = pl /\ k = m.number)
             /\ Once(inbox'[n])
  <2>1. /\ inbox[n] \in Seq(Entry) /\ Once(inbox[n])
        /\ ~Carries(inbox[n], e.player, e.msg.number) \/ Twice(e.player, e.msg.number)
    BY <1>1, <1>4, <1>5 DEF NumberInv, OnceInv, Lies
  <2>2. CASE inbox'[n] = inbox[n]
    BY <2>1, <2>2 DEF Lies
  <2>3. CASE inbox'[n] = Append(inbox[n], e)
    BY <1>4, <2>1, <2>3, AppendCarries DEF Lies
  <2> QED
    BY <1>4, <2>2, <2>3
<1>7. ASSUME NEW p \in Players, NEW k \in Nat, ~(p = pl /\ k = m.number)
      PROVE  Single(p, k)'
  <2>1. /\ \A t \in Senders : Sends(t, p, k)' => Sends(t, p, k)
        /\ \A n \in Nodes : Lies(n, p, k)' => Lies(n, p, k)
    BY <1>3, <1>6, <1>7, Standing
  <2>2. Shrinks(p, k)
    BY <1>1, <2>1, Standing DEF Shrinks
  <2> QED
    BY <1>1, <2>2, ShrinkKeeps DEF NumberInv, SingleInv
<1>10. ASSUME Twice(pl, m.number) PROVE Single(pl, m.number)'
  BY <1>1, <1>5, <1>10, TwiceKeeps, AgainGrows DEF Twice
<1>8. ASSUME ~Twice(pl, m.number) PROVE Single(pl, m.number)'
  <2>1. ~Pends(pl, m.number)'
    <3>1. /\ ~Waits(pl, m.number) /\ \A t \in Own : t # s => ~Sends(t, pl, m.number)
          /\ \A c \in Conns : ~Replies(c, pl, m.number)
      BY <1>1, <1>3, <1>5, <1>8 DEF Alone
    <3>2. \A t \in Own : ~Sends(t, pl, m.number)'
      BY <1>1, <1>3, <3>1, Standing
    <3>3. ~Waits(pl, m.number)' /\ \A c \in Conns : ~Replies(c, pl, m.number)'
      BY <1>1, <1>3, <3>1, Standing
    <3> QED
      BY <3>2, <3>3 DEF Pends
  <2>2. /\ \A n \in Nodes : ~Sends(n, pl, m.number)'
        /\ \A c \in Conns : ~Has(c, pl, m.number)'
    <3>1. \A n \in Nodes : ~Sends(n, pl, m.number) /\ n # s
      BY <1>1, <1>5, <1>8 DEF Arrived
    <3>2. \A c \in Conns : ~Has(c, pl, m.number)
      BY <1>5, <1>8 DEF Arrived
    <3> QED
      BY <1>1, <1>3, <3>1, <3>2, Standing
  <2>3. \A c \in Conns : client'[c].node \in Nodes
    BY <1>1 DEF HubInv, CoreOK
  <2> QED
    BY <1>1, <1>5, <2>1, <2>2, <2>3, Leaves
<1>9. OnceInv'
  BY <1>1, <1>6, OnceTogether DEF NumberInv, OnceInv
<1> QED
  BY <1>7, <1>8, <1>9, <1>10 DEF NumberInv, SingleInv

\* The library publishes it once more: it is known as published twice from then on.
LEMMA PublishAgainNumbers ==
  ASSUME HubInv, FlowInv, AgainOK, NumberInv, [Next]_vars, NEW s \in Senders, PublishAgain(s)
  PROVE  NumberInv'
<1>1. /\ UNCHANGED <<actions, got, reader, sent, client, sender>> /\ s \in Own
      /\ inbox \in [Nodes -> Seq(Entry)]
  <2>1. sender[s].pc = "publish"
    BY DEF PublishAgain, At
  <2>2. s \in Own
    BY <2>1, Serving
  <2> QED
    BY <2>2, HubAssumption, Zenon DEF PublishAgain, connVars, FlowInv, DeliveryOK
<1>2. PICK e \in Entry : /\ e.player = sender[s].now /\ e.msg = sender[s].msg
                          /\ \A n \in Nodes : inbox'[n] = inbox[n] \/ inbox'[n] = Append(inbox[n], e)
  BY PublishDelivers
<1>3. PICK pl \in Players, j \in Nat : pl = e.player /\ j = e.msg.number
  BY DEF Entry, Message
<1>4. Twice(pl, j)' /\ Sends(s, pl, j)
  <2>1. sender[s].pc = "publish" /\ again' = again \union {<<sender[s].now, sender[s].msg.number>>}
    BY DEF PublishAgain, At
  <2> QED
    BY <1>2, <1>3, <2>1, Serving DEF Twice, Sends
<1>5. ASSUME NEW n \in Nodes
      PROVE  /\ \A p, k : Lies(n, p, k)' => Lies(n, p, k) \/ (p = pl /\ k = j)
             /\ Once(inbox[n])'
  <2>1. PICK q \in Seq(Entry), r \in Seq(Entry) : q = inbox[n] /\ r = Append(q, e)
    <3>1. PICK q \in Seq(Entry) : q = inbox[n]
      BY <1>1
    <3>2. Append(q, e) \in Seq(Entry)
      OBVIOUS
    <3> QED
      BY <3>1, <3>2
  <2>2. /\ \A p, k : Carries(r, p, k) <=> Carries(q, p, k) \/ (p = pl /\ k = j)
        /\ inbox'[n] = q \/ inbox'[n] = r
    BY <1>2, <1>3, <2>1, AppendCarries
  <2>3. Once(q)' /\ Once(r)'
    <3>1. Once(q)'
      BY <2>1, OnceLasts DEF NumberInv, OnceInv
    <3>2. Twice(e.player, e.msg.number)'
      BY <1>3, <1>4
    <3> QED
      BY <2>1, <3>1, <3>2, AppendTwice
  <2>4. Once(inbox[n])'
    BY <2>2, <2>3 DEF Once
  <2>5. ASSUME NEW p, NEW k, Lies(n, p, k)' PROVE Lies(n, p, k) \/ (p = pl /\ k = j)
    <3>1. Carries(q, p, k) \/ Carries(r, p, k)
      BY <2>2, <2>5 DEF Lies, Carries
    <3> QED
      BY <2>1, <2>2, <3>1 DEF Lies
  <2> QED
    BY <2>4, <2>5
<1>6. ASSUME NEW p \in Players, NEW k \in Nat, ~(p = pl /\ k = j) PROVE Single(p, k)'
  <2>1. /\ \A t \in Senders : Sends(t, p, k)' => Sends(t, p, k)
        /\ \A n \in Nodes : Lies(n, p, k)' => Lies(n, p, k)
    BY <1>1, <1>5, <1>6 DEF Sends
  <2>2. Shrinks(p, k)
    BY <1>1, <2>1, Standing DEF Shrinks
  <2> QED
    BY <1>1, <2>2, ShrinkKeeps DEF NumberInv, SingleInv
<1>7. Single(pl, j)'
  <2>1. Single(pl, j) /\ Pends(pl, j)
    BY <1>1, <1>4 DEF NumberInv, SingleInv, Pends
  <2> QED
    BY <1>1, <1>4, <2>1, TwiceKeeps
<1>8. OnceInv'
  <2>1. Once(actions)' /\ \A c \in Conns : OnceGot(Player(c), got[c])'
    BY <1>1, OnceLasts, OnceStands DEF NumberInv, OnceInv
  <2> QED
    BY <1>5, <2>1 DEF OnceInv
<1> QED
  BY <1>6, <1>7, <1>8 DEF NumberInv, SingleInv


\* SendToPlayer, or listenPubSub, queues the message on the client it found.
LEMMA SendNumbers ==
  ASSUME HubInv, FlowInv, AgainOK, NumberInv, [Next]_vars, NEW s \in Senders, Send(s)
  PROVE  NumberInv'
<1>1. /\ UNCHANGED <<actions, inbox, reader, sent, client>>
      /\ Own \subseteq Senders /\ Nodes \subseteq Senders /\ Own \intersect Nodes = {}
      /\ Senders = Own \union Nodes /\ \A n \in Nodes : NodeOf(n) = n
  BY HubAssumption DEF Send, redisVars, Own, Senders, NodeOf
<1>2. PICK c \in Conns, pl \in Players, m \in Message :
        /\ c = sender[s].conn /\ pl = sender[s].now /\ m = sender[s].msg
        /\ Queue(c, m) /\ Node(c) = NodeOf(s) /\ Player(c) = pl
  <2>1. sender[s].pc = "send" /\ Queue(sender[s].conn, sender[s].msg)
    BY DEF Send, At
  <2> QED
    BY <2>1, Serving, ServedSends
<1>3. PICK j \in Nat : j = m.number
  BY DEF Message
<1>4. /\ \A p, k : Sends(s, p, k)' => Sends(s, p, k) /\ p # pl
      /\ \A t \in Senders : t # s => sender'[t] = sender[t]
      /\ Sends(s, pl, j)
  BY <1>2, <1>3, ServedSends
<1>5. Single(pl, j) /\ (Twice(pl, j) \/ (Alone(pl, j) /\ ~Has(c, pl, j)))
  <2>1. Single(pl, j)
    BY DEF NumberInv, SingleInv
  <2>2. CASE s \in Own
    BY <1>4, <2>1, <2>2 DEF Single, Alone, Pends, Arrived
  <2>3. CASE s \in Nodes
    BY <1>1, <1>2, <1>4, <2>1, <2>3 DEF Single, Alone
  <2> QED
    BY <1>1, <2>1, <2>2, <2>3
<1>6. /\ \A d \in Conns \ {c} : got'[d] = got[d]
      /\ \A p, k : Has(c, p, k)' => Has(c, p, k) \/ (p = pl /\ k = j)
      /\ OnceGot(Player(c), got'[c])
  BY <1>1, <1>2, <1>3, <1>5, QueueHas DEF NumberInv, OnceInv
<1>7. ASSUME NEW p \in Players, NEW k \in Nat, ~(p = pl /\ k = j) PROVE Single(p, k)'
  <2>1. /\ \A t \in Senders : Sends(t, p, k)' => Sends(t, p, k)
        /\ \A d \in Conns : Has(d, p, k)' => Has(d, p, k)
    BY <1>4, <1>6, <1>7, Standing
  <2>2. Shrinks(p, k)
    BY <1>1, <2>1, Standing DEF Shrinks
  <2> QED
    BY <1>1, <2>2, ShrinkKeeps DEF NumberInv, SingleInv
<1>8. ~Sends(s, pl, j)' /\ \A d \in Conns : client'[d].node \in Nodes
  BY <1>1, <1>4 DEF HubInv, CoreOK
<1>11. OnceInv'
  BY <1>1, <1>6, OnceTogether DEF NumberInv, OnceInv
<1>12. CASE Twice(pl, j)
  <2>1. Pends(pl, j) \/ Arrived(pl, j)
    BY <1>1, <1>4 DEF Pends, Arrived
  <2>2. Single(pl, j)'
    BY <1>1, <1>5, <1>12, <2>1, TwiceKeeps, AgainGrows DEF Twice
  <2> QED
    BY <1>7, <1>11, <2>2 DEF NumberInv, SingleInv
<1>9. CASE s \in Own /\ ~Twice(pl, j)
  <2>1. Pends(pl, j) /\ ~Arrived(pl, j) /\ s \notin Nodes
    BY <1>1, <1>4, <1>5, <1>9 DEF Alone, Pends
  <2>2. ~Pends(pl, j)'
    <3>1. /\ ~Waits(pl, j) /\ \A t \in Own : t # s => ~Sends(t, pl, j)
          /\ \A d \in Conns : ~Replies(d, pl, j)
      BY <1>4, <1>5, <1>9 DEF Alone
    <3>2. \A t \in Own : ~Sends(t, pl, j)'
      BY <1>1, <1>4, <1>8, <3>1, Standing
    <3>3. ~Waits(pl, j)' /\ \A d \in Conns : ~Replies(d, pl, j)'
      BY <1>1, <3>1, Standing
    <3> QED
      BY <3>2, <3>3 DEF Pends
  <2>3. \A n \in Nodes : ~Sends(n, pl, j) /\ ~Lies(n, pl, j) /\ n # s
    BY <2>1 DEF Arrived
  <2>4. \A n \in Nodes : ~Sends(n, pl, j)' /\ ~Lies(n, pl, j)'
    BY <1>1, <1>4, <2>3, Standing
  <2> QED
    <3>1. Single(pl, j)'
      BY <1>1, <1>5, <1>8, <2>1, <2>2, <2>4, Leaves
    <3> QED
      BY <1>7, <1>11, <3>1 DEF NumberInv, SingleInv
<1>10. CASE s \in Nodes /\ ~Twice(pl, j)
  <2>1. ~Pends(pl, j) /\ ~(j > sent) /\ Node(c) = s /\ s \notin Own /\ ~Lies(s, pl, j)
    BY <1>1, <1>2, <1>4, <1>5, <1>10 DEF Single, Alone, Arrived
  <2>2. ~Pends(pl, j)'
    <3>1. /\ ~Waits(pl, j) /\ \A t \in Own : ~Sends(t, pl, j) /\ t # s
          /\ \A d \in Conns : ~Replies(d, pl, j)
      BY <2>1 DEF Pends
    <3>2. /\ ~Waits(pl, j)' /\ \A t \in Own : ~Sends(t, pl, j)'
          /\ \A d \in Conns : ~Replies(d, pl, j)'
      BY <1>1, <1>4, <3>1, Standing
    <3> QED
      BY <3>2 DEF Pends
  <2>3. /\ \A n \in Nodes : (Lies(n, pl, j)' => Lies(n, pl, j))
                             /\ (Sends(n, pl, j)' => Sends(n, pl, j) /\ n # s)
        /\ \A d \in Conns : Has(d, pl, j)' => Has(d, pl, j) \/ d = c
    BY <1>1, <1>4, <1>6, <1>8, Standing
  <2>4. Single(pl, j)'
    <3>1. \A n \in Nodes : Sends(n, pl, j)' => ~Lies(n, pl, j)'
      BY <1>5, <1>10, <2>3 DEF Alone
    <3>2. ASSUME NEW d \in Conns, NEW n \in Nodes, n = Node(d), Has(d, pl, j)'
          PROVE  ~Lies(n, pl, j)' /\ ~Sends(n, pl, j)'
      BY <1>5, <1>10, <2>1, <2>3, <3>2 DEF Alone
    <3>3. \A d \in Conns : Node(d)' = Node(d) /\ Node(d) \in Nodes
      BY <1>1 DEF Node, HubInv, CoreOK
    <3> QED
      BY <1>1, <2>1, <2>2, <3>1, <3>2, <3>3 DEF Single, Alone, Pends
  <2> QED
    BY <1>7, <1>11, <2>4 DEF NumberInv, SingleInv
<1> QED
  BY <1>1, <1>9, <1>10, <1>12

--------------------------------------------------------------------------------
(* Nothing twice: the theorem *)

LEMMA NumberInit == Init => NumberInv
<1> SUFFICES ASSUME Init PROVE NumberInv
  OBVIOUS
<1>1. /\ \A s \in Senders : sender[s] = Resting /\ s \in DOMAIN sender
      /\ actions = <<>> /\ \A n \in Nodes : inbox[n] = <<>>
      /\ \A c \in Conns : got[c] = <<>> /\ reader[c].reply = NoMessage
      /\ Own \subseteq Senders /\ Nodes \subseteq Senders
  BY DEF Init, Own, Senders
<1>2. ASSUME NEW p \in Players, NEW k \in Nat PROVE Single(p, k)
  <2>1. /\ ~Waits(p, k) /\ \A s \in Senders : ~Sends(s, p, k)
        /\ \A n \in Nodes : ~Lies(n, p, k)
        /\ \A c \in Conns : ~Replies(c, p, k) /\ ~Has(c, p, k)
    BY <1>1 DEF Waits, Sends, Lies, Replies, Has, Carries, Resting
  <2> QED
    BY <1>1, <2>1 DEF Single, Alone, Pends, Arrived
<1>3. OnceInv
  BY <1>1 DEF OnceInv, Once, OnceGot
<1> QED
  BY <1>2, <1>3 DEF NumberInv, SingleInv

LEMMA NumberNext ==
  ASSUME HubInv, FlowInv, AgainOK, NumberInv, [Next]_vars
  PROVE  NumberInv'
<1>1. ASSUME NEW c \in Conns, Lose(c) \/ ReadPump(c) \/ WritePump(c) \/ Incoming(c)
      PROVE  NumberInv'
  BY <1>1, OthersNumbers, ReplyNumbers, AnswerNumbers, Zenon
     DEF ReadPump, WritePump, Incoming
<1>2. ASSUME NEW s \in Senders, SendToPlayer(s) PROVE NumberInv'
  BY <1>2, OthersNumbers, SendNumbers, PublishNumbers, PublishAgainNumbers, Zenon
     DEF SendToPlayer
<1>3. ASSUME NEW n \in Nodes, Register(n) \/ Unregister(n) \/ Receive(n) PROVE NumberInv'
  BY <1>3, OthersNumbers, ReceiveNumbers, Zenon
<1>4. CASE (\E p \in Players, n \in Nodes : Dial(p, n)) \/ UNCHANGED vars
  BY <1>4, OthersNumbers
<1> QED
  BY <1>1, <1>2, <1>3, <1>4, BroadcastNumbers, TakeActionNumbers, Zenon DEF Next

(* Whatever the goroutines of all nodes do between looking a player up and      *)
(* sending to him, no connection has a broadcast or an acknowledgement queued   *)
(* twice that was not published twice: what one sends itself it does not        *)
(* publish, and each node that Redis reaches gets it once (hub.go:229-266),     *)
(* with any players and nodes.                                                  *)
THEOREM AtMostOnceCorrect == Spec => []AtMostOnce
<1>1. Init => NumberInv
  BY NumberInit
<1>2. HubInv /\ FlowInv /\ AgainOK /\ NumberInv /\ [Next]_vars => NumberInv'
  BY NumberNext
<1>3. NumberInv => AtMostOnce
  BY DEF NumberInv, OnceInv, OnceGot, Twice, AtMostOnce
<1> QED
  BY <1>1, <1>2, <1>3, FlowInvariance, PTL DEF Spec

================================================================================
