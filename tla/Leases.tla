---------------------------------- MODULE Leases ----------------------------------
(***************************************************************************)
(* Who owns a game in the cluster (cluster/cluster.go): the Redis key      *)
(* session:owner:{game}, set with SETNX for five minutes, refreshed by the *)
(* owner's heartbeat and deleted by it, and what each node believes in its *)
(* own map sessions.  The two are changed in separate steps, a reply of    *)
(* Redis may be lost, a node may crash, and a key may expire under an      *)
(* owner whose heartbeats do not come through.                             *)
(*                                                                         *)
(* One game.  A node releases only what it believes it owns.  Left out:    *)
(* the keys cluster:node, route:player and route:game, that hold an        *)
(* address or a node and guard nothing, and ConsistentHash.                *)
(***************************************************************************)
EXTENDS Integers

CONSTANTS
  Nodes,     \* the servers
  NoNode,    \* the key does not exist
  LeaseTTL   \* five minutes, in ticks

ASSUME LeasesAssumption == LeaseTTL \in Nat \ {0} /\ NoNode \notin Nodes

VARIABLES
  owner,     \* value of session:owner:{game}
  ttl,       \* ticks until it expires
  sessions,  \* does ClusterManager.sessions of each node hold the game?
  doing,     \* a node between two steps: "acquired", "releasing", or "nothing"
  beating,   \* does the heartbeatLoop of each node run?
  lapsed     \* history: the key expired under a node that had it

leasesVars == <<owner, ttl, sessions, doing, beating, lapsed>>

Has(n) == sessions[n] \/ doing[n] # "nothing"

LeasesInit ==
  /\ owner = NoNode /\ ttl = 0
  /\ sessions = [n \in Nodes |-> FALSE]
  /\ doing = [n \in Nodes |-> "nothing"]
  /\ beating = [n \in Nodes |-> TRUE]
  /\ lapsed = FALSE

SlipSetsAnyway(n) ==
  /\ doing[n] = "nothing"
  /\ owner' = n /\ ttl' = LeaseTTL
  /\ doing' = [doing EXCEPT ![n] = "acquired"]
  /\ UNCHANGED <<sessions, beating, lapsed>>

\* AcquireSession, SETNX: the reply arrives or is lost.
Acquire(n) ==
  /\ doing[n] = "nothing" /\ owner = NoNode
  /\ owner' = n /\ ttl' = LeaseTTL
  /\ \/ doing' = [doing EXCEPT ![n] = "acquired"]
     \/ UNCHANGED doing
  /\ UNCHANGED <<sessions, beating, lapsed>>

Believe(n) ==
  /\ doing[n] = "acquired"
  /\ sessions' = [sessions EXCEPT ![n] = TRUE]
  /\ doing' = [doing EXCEPT ![n] = "nothing"]
  /\ UNCHANGED <<owner, ttl, beating, lapsed>>

\* ReleaseSession: first the map, then the key, whoever has it by then.
Release(n) ==
  /\ doing[n] = "nothing" /\ sessions[n]
  /\ sessions' = [sessions EXCEPT ![n] = FALSE]
  /\ doing' = [doing EXCEPT ![n] = "releasing"]
  /\ UNCHANGED <<owner, ttl, beating, lapsed>>

Delete(n) ==
  /\ doing[n] = "releasing"
  /\ \/ owner' = NoNode /\ ttl' = 0
     \/ UNCHANGED <<owner, ttl>>
  /\ doing' = [doing EXCEPT ![n] = "nothing"]
  /\ UNCHANGED <<sessions, beating, lapsed>>

\* The heartbeat of a node that no longer has the game refreshes it.
SlipRefreshesAnyKey(n) ==
  /\ beating[n] /\ owner # NoNode
  /\ ttl' = LeaseTTL
  /\ UNCHANGED <<owner, sessions, doing, beating, lapsed>>

\* RefreshSessionOwnership, when EXPIRE comes through: whoever has the key.
Refresh(n) ==
  /\ beating[n] /\ sessions[n] /\ owner # NoNode
  /\ ttl' = LeaseTTL
  /\ UNCHANGED <<owner, sessions, doing, beating, lapsed>>

\* Stop, under cm.mu: DEL may fail.
StopNode(n) ==
  /\ beating[n]
  /\ beating' = [beating EXCEPT ![n] = FALSE]
  /\ \/ sessions[n] /\ owner' = NoNode /\ ttl' = 0
     \/ UNCHANGED <<owner, ttl>>
  /\ sessions' = [sessions EXCEPT ![n] = FALSE]
  /\ UNCHANGED <<doing, lapsed>>

\* The node dies and comes back with an empty map.
Crash(n) ==
  /\ sessions' = [sessions EXCEPT ![n] = FALSE]
  /\ doing' = [doing EXCEPT ![n] = "nothing"]
  /\ beating' = [beating EXCEPT ![n] = TRUE]
  /\ UNCHANGED <<owner, ttl, lapsed>>

\* Time passes; the key that is not refreshed expires.
Age ==
  /\ owner # NoNode
  /\ ttl' = ttl - 1
  /\ IF ttl = 1
     THEN owner' = NoNode /\ lapsed' = (lapsed \/ Has(owner))
     ELSE UNCHANGED <<owner, lapsed>>
  /\ UNCHANGED <<sessions, doing, beating>>

LeasesNext ==
  \/ Age
  \/ \E n \in Nodes : \/ Acquire(n) \/ Believe(n) \/ Release(n) \/ Delete(n)
                      \/ Refresh(n) \/ StopNode(n) \/ Crash(n)

LeasesSpec == LeasesInit /\ [][LeasesNext]_leasesVars /\ WF_leasesVars(Age)

--------------------------------------------------------------------------------
(* Properties *)

LeasesTypeOK ==
  /\ owner \in Nodes \union {NoNode}
  /\ ttl \in 0 .. LeaseTTL /\ (owner = NoNode <=> ttl = 0)
  /\ sessions \in [Nodes -> BOOLEAN] /\ beating \in [Nodes -> BOOLEAN]
  /\ doing \in [Nodes -> {"nothing", "acquired", "releasing"}]
  /\ lapsed \in BOOLEAN

(* Until a key has expired under the node that had it, the key belongs to who    *)
(* believes so: no two nodes own the game, whatever replies are lost and         *)
(* whoever crashes, stops or releases it (cluster.go:58, :76, :129).             *)
OneOwner ==
  ~lapsed => \A n \in Nodes : Has(n) => owner = n

(* A key that nobody knows to have, after a crash, a lost reply or a failed DEL,  *)
(* does not keep the game for ever: it expires, or a node has it again            *)
(* (cluster.go:61, :98).                                                          *)
OrphanLapses ==
  (owner # NoNode /\ \A n \in Nodes : ~Has(n)) ~> (owner = NoNode \/ \E n \in Nodes : Has(n))
================================================================================
