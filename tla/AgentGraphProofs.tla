-------------------------- MODULE AgentGraphProofs --------------------------
(***************************************************************************)
(* The agent graph is safe for any identities, limits and turns.           *)
(***************************************************************************)
EXTENDS AgentGraph, FiniteSetTheorems, TLAPS

\* The links lead downwards, so that no node is below itself, and a node that
\* is gone leaves no link behind.
Downwards ==
    /\ \A n, m \in Agent : m \in children[n] => depth[m] = depth[n] + 1
    /\ \A n \in Agent : lc[n] = "Absent" => parent[n] = NoAgent

\* What a node and its actor are like while its spawner is at work and after.
Unborn(n) ==
    /\ lc[n] = "Absent" /\ root # n /\ ~held[n]
    /\ actor[n] = "none" /\ run[n] = "none" /\ turn[n] = 0 /\ phase[n] = "idle" /\ ~slot[n]
Uncommitted(n) ==
    /\ lc[n] \in {"Reserved", "Closing", "Closed"} /\ ~held[n] /\ children[n] = {}
    /\ phase[n] = "idle" /\ ~slot[n]

SpawnerInv ==
    \A n \in Agent :
       /\ pending[n] <=> pc[n] \notin {"unborn", "done"}
       /\ pc[n] = "unborn" => Unborn(n)
       /\ pc[n] \in {"factory", "spawned", "orphan"} => Uncommitted(n)
       /\ pc[n] = "factory" => actor[n] = "none" /\ run[n] = "none"
       /\ pending[n] => lc[n] \in {"Reserved", "Closing", "Closed"}
       /\ lc[n] = "Reserved" => pending[n]
       /\ pc[n] \in {"orphan", "failed"} => actor[n] # "Open"
       /\ pc[n] \in {"closing", "failed"} => lc[n] # "Reserved"
       /\ pc[n] = "orphan" => lc[n] = "Closed"
       /\ pc[n] \in {"cancelling", "closing", "failed"} => held[n]

\* A runner belongs to a node that is present; it holds its task, or the
\* wrapper is through.
RunnerInv ==
    \A n \in Agent :
       /\ actor[n] = "none" <=> run[n] = "none"
       /\ actor[n] = "Open" => run[n] = "running"
       /\ run[n] \in {"running", "exited"} => lc[n] # "Absent"
       /\ lc[n] # "Absent" /\ pc[n] # "factory" => run[n] # "none"
       /\ lc[n] = "Closed" => run[n] \in {"marked", "finished"}
       /\ lc[n] # "Absent" /\ ~pending[n] => held[n] \/ run[n] \in {"marked", "finished"}

\* Open actors are those of nodes that are not closed.  Only the root's actor
\* may close without the graph's knowledge (a dropped start signal).
ActorInv ==
    \A n \in Agent :
       /\ actor[n] = "Open" => lc[n] \in Capacity /\ (pc[n] = "done" => lc[n] = "Live")
       /\ lc[n] \in {"Reserved", "Live"} /\ n # root /\ pc[n] # "factory" => actor[n] = "Open"

\* A closing node, and a closed one unless it is the root, has only closing
\* and closed children.
Below ==
    \A n, m \in Agent :
       m \in children[n] /\ (lc[n] = "Closing" \/ (lc[n] = "Closed" /\ n # root)) =>
          lc[m] \in {"Closing", "Closed"}

\* Without a root there are no nodes, below an uncommitted one no others.
RootInv ==
    /\ root = NoAgent => Nodes = {}
    /\ root # NoAgent => /\ parent[root] = NoAgent
                         /\ pc[root] \in {"factory", "spawned", "orphan"} => Nodes \subseteq {root}

\* Reservation keeps the retained nodes within the limit.
NodeLimit == IsFiniteSet(Nodes) /\ Cardinality(Nodes) <= MaxLive

\* Turns are numbered upwards, and one that was revoked has neither slot nor
\* authority, and no children that are not closing.
TurnInv ==
    /\ \A n \in Agent : slot[n] \/ phase[n] # "idle" => turn[n] # 0
    /\ \A n \in Agent, t \in Turn : <<n, t>> \in revoked \cup cutTurns => t <= turn[n]
    /\ \A n \in Agent : <<n, turn[n]>> \in revoked => ~slot[n]
    /\ \A a \in revoked : a \notin active
    /\ \A n \in Agent : lc[n] # "Absent" /\ <<parent[n], owner[n]>> \in revoked =>
          lc[n] \in {"Closing", "Closed"}

\* A spawner or runner that shutdown has to wait for.
Busy(n) == pc[n] \notin {"unborn", "done"} \/ run[n] \in {"running", "exited"}

ShutdownInv ==
    /\ shuttingDown <=> sd # "idle"
    /\ shuttingDown => \A n \in Agent : lc[n] \notin {"Reserved", "Live"}
    /\ sd = "polling" => \A n \in Agent : Busy(n) => n \in sdIds
    /\ sd \in {"taking", "reported", "reaped"} => \A n \in Agent : ~Busy(n)
    /\ sd = "reapTake" => \A n \in sdIds : ~Busy(n)

GraphInv ==
    /\ Typed /\ Topology /\ Downwards /\ SpawnerInv /\ RunnerInv /\ ActorInv
    /\ Below /\ RootInv /\ NodeLimit /\ TurnInv /\ ShutdownInv

-----------------------------------------------------------------------------
(* Subtrees and what a reclaim removes. *)

LEMMA SubtreeSelf == ASSUME NEW n \in Agent PROVE n \in Subtree(n)
  BY DEF Subtree

LEMMA SubtreeClosed ==
    ASSUME Typed, NEW n \in Agent, NEW m \in Subtree(n), NEW k \in children[m]
    PROVE  k \in Subtree(n)
  BY DEF Subtree, Typed

LEMMA SubtreeLeast ==
    ASSUME NEW n \in Agent, NEW S \in SUBSET Agent, n \in S,
           \A m \in S : children[m] \subseteq S
    PROVE  Subtree(n) \subseteq S
  BY DEF Subtree

LEMMA SubtreeBelow ==
    ASSUME Typed, NEW n \in Agent, NEW m \in children[n]
    PROVE  m \in Agent /\ Subtree(m) \subseteq Subtree(n)
<1>1. m \in Agent /\ Subtree(n) \in SUBSET Agent /\ m \in Subtree(n)
  BY SubtreeSelf, SubtreeClosed DEF Typed, Subtree
<1>2. \A k \in Subtree(n) : children[k] \subseteq Subtree(n)
  BY SubtreeClosed
<1> QED  BY <1>1, <1>2, SubtreeLeast

\* Nothing is below itself.
LEMMA NotBelowItself ==
    ASSUME Typed, Downwards, NEW n \in Agent, NEW m \in Subtree(n)
    PROVE  n \notin children[m]
<1> DEFINE S == {k \in Agent : depth[k] >= depth[n]}
<1>1. n \in S /\ S \in SUBSET Agent
  BY DEF Typed
<1>2. \A k \in S : children[k] \subseteq S
  BY GraphAssumption DEF Typed, Downwards
<1>3. m \in S
  BY <1>1, <1>2, SubtreeLeast
<1> QED  BY <1>3, GraphAssumption DEF Typed, Downwards

\* A reclaim takes finished nodes, and with a node everything below it.
LEMMA RetiredFacts ==
    ASSUME Typed, NEW l, NEW p, NEW n \in Retired(l, p)
    PROVE  n \in Agent /\ Finished(l, p, n) /\ children[n] \subseteq Retired(l, p)
<1>1. n \in Agent /\ Finished(l, p, n)
  BY SubtreeSelf DEF Retired
<1>2. \A m \in children[n] : m \in Retired(l, p)
  BY <1>1, SubtreeBelow DEF Retired
<1> QED  BY <1>1, <1>2

LEMMA FewerNodes == ASSUME NodeLimit, Nodes' \subseteq Nodes, Typed PROVE NodeLimit'
<1>1. IsFiniteSet(Nodes') /\ Cardinality(Nodes') <= Cardinality(Nodes)
  BY FS_Subset DEF NodeLimit
<1>2. Cardinality(Nodes') \in Nat /\ Cardinality(Nodes) \in Nat
  BY <1>1, FS_CardinalityType DEF NodeLimit
<1> QED  BY <1>1, <1>2, GraphAssumption DEF NodeLimit

\* What a reclaim does, for some set of nodes that it takes.
Reclaimed(gone, l, p) ==
    /\ \A n \in gone : Finished(l, p, n) /\ children[n] \subseteq gone
    /\ Drop(gone, l, children)
    /\ parent' = Placed(gone, parent, NoAgent)
    /\ depth' = Placed(gone, depth, 0)
    /\ owner' = Placed(gone, owner, 0)
    /\ active' = {t \in active : t[1] \notin gone}
    /\ pending' = p

LEMMA ReclaimFacts ==
    ASSUME Typed, NEW l, NEW p, Reclaim(l, p)
    PROVE  \E gone \in SUBSET Agent : Reclaimed(gone, l, p)
<1> DEFINE gone == Retired(l, p)
<1>1. gone \in SUBSET Agent
  BY DEF Retired
<1>2. \A n \in gone : Finished(l, p, n) /\ children[n] \subseteq gone
  BY RetiredFacts
<1>3. Reclaimed(gone, l, p)
  BY <1>2 DEF Reclaim, Reclaimed
<1> QED  BY <1>1, <1>3

LEMMA FactoryReturnsStep == ASSUME GraphInv, NEW n \in Agent, FactoryReturns(n) PROVE GraphInv'
<1> USE GraphAssumption DEF GraphInv, FactoryReturns, nodeVars, actorVars, callVars
<1>1. Typed'
  BY DEF Typed
<1>2. Topology'
  BY DEF Typed, Topology, Downwards, SpawnerInv, Unborn, Uncommitted
<1>3. Downwards'
  BY DEF Typed, Topology, Downwards, SpawnerInv, Unborn, Uncommitted
<1>4. SpawnerInv'
  BY DEF Typed, Topology, SpawnerInv, RunnerInv, ShutdownInv, Busy, ActorInv, Unborn, Uncommitted, Capacity
<1>5. RunnerInv'
  BY DEF Typed, SpawnerInv, RunnerInv, ActorInv, ShutdownInv, Busy, Unborn, Uncommitted, Capacity
<1>6. ActorInv'
  BY DEF Typed, SpawnerInv, RunnerInv, ActorInv, RootInv, ShutdownInv, Unborn, Uncommitted, Capacity
<1>7. Below'
  BY DEF Typed, Topology, SpawnerInv, RunnerInv, ActorInv, Below, RootInv, Unborn, Uncommitted, Capacity
<1>8. RootInv'
  BY DEF Typed, Downwards, SpawnerInv, RootInv, Nodes, Unborn, Uncommitted, Capacity
<1>9. NodeLimit'
  BY FewerNodes DEF Nodes, Capacity
<1>10. TurnInv'
  BY DEF Typed, Topology, Downwards, SpawnerInv, TurnInv, Turn, Unborn
<1>11. ShutdownInv'
  BY DEF Typed, Nodes, SpawnerInv, RunnerInv, ShutdownInv, Busy, Unborn, Capacity
<1> QED  BY <1>1, <1>2, <1>3, <1>4, <1>5, <1>6, <1>7, <1>8, <1>9, <1>10, <1>11

LEMMA CommitActorStep == ASSUME GraphInv, NEW n \in Agent, CommitActor(n) PROVE GraphInv'
<1> USE GraphAssumption DEF GraphInv, CommitActor, CanCommit, nodeVars, actorVars, callVars
<1>1. Typed'
  BY DEF Typed
<1>2. Topology'
  BY DEF Typed, Topology, Downwards, SpawnerInv, Unborn, Uncommitted
<1>3. Downwards'
  BY DEF Typed, Topology, Downwards, SpawnerInv, Unborn, Uncommitted
<1>4. SpawnerInv'
  BY DEF Typed, Topology, SpawnerInv, RunnerInv, ShutdownInv, Busy, ActorInv, Unborn, Uncommitted, Capacity
<1>5. RunnerInv'
  BY DEF Typed, SpawnerInv, RunnerInv, ActorInv, ShutdownInv, Busy, Unborn, Uncommitted, Capacity
<1>6. ActorInv'
  BY DEF Typed, SpawnerInv, RunnerInv, ActorInv, RootInv, ShutdownInv, Unborn, Uncommitted, Capacity
<1>7. Below'
  BY DEF Typed, Topology, SpawnerInv, RunnerInv, ActorInv, Below, RootInv, Unborn, Uncommitted, Capacity
<1>8. RootInv'
  BY DEF Typed, Downwards, SpawnerInv, RootInv, Nodes, Unborn, Uncommitted, Capacity
<1>9. NodeLimit'
  BY FewerNodes DEF Nodes, Capacity
<1>10. TurnInv'
  BY DEF Typed, Topology, Downwards, SpawnerInv, TurnInv, Turn, Unborn
<1>11. ShutdownInv'
  BY DEF Typed, Nodes, SpawnerInv, RunnerInv, ShutdownInv, Busy, Unborn, Capacity
<1> QED  BY <1>1, <1>2, <1>3, <1>4, <1>5, <1>6, <1>7, <1>8, <1>9, <1>10, <1>11

LEMMA CommitRefusedStep == ASSUME GraphInv, NEW n \in Agent, CommitRefused(n) PROVE GraphInv'
<1> USE GraphAssumption DEF GraphInv, CommitRefused, CanCommit, CaptureClose, nodeVars, actorVars, callVars
<1>1. Typed'
  BY DEF Typed
<1>2. Topology'
  BY DEF Typed, Topology, Downwards, SpawnerInv, Unborn, Uncommitted
<1>3. Downwards'
  BY DEF Typed, Topology, Downwards, SpawnerInv, Unborn, Uncommitted
<1>4. SpawnerInv'
  BY DEF Typed, Topology, SpawnerInv, RunnerInv, ShutdownInv, Busy, ActorInv, Unborn, Uncommitted, Capacity
<1>5. RunnerInv'
  BY DEF Typed, SpawnerInv, RunnerInv, ActorInv, ShutdownInv, Busy, Unborn, Uncommitted, Capacity
<1>6. ActorInv'
  BY DEF Typed, SpawnerInv, RunnerInv, ActorInv, RootInv, ShutdownInv, Unborn, Uncommitted, Capacity
<1>7. Below'
  BY DEF Typed, Topology, SpawnerInv, RunnerInv, ActorInv, Below, RootInv, Unborn, Uncommitted, Capacity
<1>8. RootInv'
  BY DEF Typed, Downwards, SpawnerInv, RootInv, Nodes, Unborn, Uncommitted, Capacity
<1>9. NodeLimit'
  BY FewerNodes DEF Nodes, Capacity
<1>10. TurnInv'
  BY DEF Typed, Topology, Downwards, SpawnerInv, TurnInv, Turn, Unborn
<1>11. ShutdownInv'
  BY DEF Typed, Nodes, SpawnerInv, RunnerInv, ShutdownInv, Busy, Unborn, Capacity
<1> QED  BY <1>1, <1>2, <1>3, <1>4, <1>5, <1>6, <1>7, <1>8, <1>9, <1>10, <1>11

LEMMA CloseCommittedStep == ASSUME GraphInv, NEW n \in Agent, CloseCommitted(n) PROVE GraphInv'
<1> USE GraphAssumption DEF GraphInv, CloseCommitted, CaptureClose, nodeVars, actorVars, callVars
<1>1. Typed'
  BY DEF Typed
<1>2. Topology'
  BY DEF Typed, Topology, Downwards, SpawnerInv, Unborn, Uncommitted
<1>3. Downwards'
  BY DEF Typed, Topology, Downwards, SpawnerInv, Unborn, Uncommitted
<1>4. SpawnerInv'
  BY DEF Typed, Topology, SpawnerInv, RunnerInv, ShutdownInv, Busy, ActorInv, Unborn, Uncommitted, Capacity
<1>5. RunnerInv'
  BY DEF Typed, SpawnerInv, RunnerInv, ActorInv, ShutdownInv, Busy, Unborn, Uncommitted, Capacity
<1>6. ActorInv'
  BY DEF Typed, SpawnerInv, RunnerInv, ActorInv, RootInv, ShutdownInv, Unborn, Uncommitted, Capacity
<1>7. Below'
  BY DEF Typed, Topology, SpawnerInv, RunnerInv, ActorInv, Below, RootInv, Unborn, Uncommitted, Capacity
<1>8. RootInv'
  BY DEF Typed, Downwards, SpawnerInv, RootInv, Nodes, Unborn, Uncommitted, Capacity
<1>9. NodeLimit'
  BY FewerNodes DEF Nodes, Capacity
<1>10. TurnInv'
  BY DEF Typed, Topology, Downwards, SpawnerInv, TurnInv, Turn, Unborn
<1>11. ShutdownInv'
  BY DEF Typed, Nodes, SpawnerInv, RunnerInv, ShutdownInv, Busy, Unborn, Capacity
<1> QED  BY <1>1, <1>2, <1>3, <1>4, <1>5, <1>6, <1>7, <1>8, <1>9, <1>10, <1>11

LEMMA PublishCancelledStep == ASSUME GraphInv, NEW n \in Agent, PublishCancelled(n) PROVE GraphInv'
<1> USE GraphAssumption DEF GraphInv, PublishCancelled, CanPublish, nodeVars, actorVars, callVars
<1>1. Typed'
  BY DEF Typed
<1>2. Topology'
  BY DEF Typed, Topology, Downwards, SpawnerInv, Unborn, Uncommitted
<1>3. Downwards'
  BY DEF Typed, Topology, Downwards, SpawnerInv, Unborn, Uncommitted
<1>4. SpawnerInv'
  BY DEF Typed, Topology, SpawnerInv, RunnerInv, ShutdownInv, Busy, ActorInv, Unborn, Uncommitted, Capacity
<1>5. RunnerInv'
  BY DEF Typed, SpawnerInv, RunnerInv, ActorInv, ShutdownInv, Busy, Unborn, Uncommitted, Capacity
<1>6. ActorInv'
  BY DEF Typed, SpawnerInv, RunnerInv, ActorInv, RootInv, ShutdownInv, Unborn, Uncommitted, Capacity
<1>7. Below'
  BY DEF Typed, Topology, SpawnerInv, RunnerInv, ActorInv, Below, RootInv, Unborn, Uncommitted, Capacity
<1>8. RootInv'
  BY DEF Typed, Downwards, SpawnerInv, RootInv, Nodes, Unborn, Uncommitted, Capacity
<1>9. NodeLimit'
  BY FewerNodes DEF Nodes, Capacity
<1>10. TurnInv'
  BY DEF Typed, Topology, Downwards, SpawnerInv, TurnInv, Turn, Unborn
<1>11. ShutdownInv'
  BY DEF Typed, Nodes, SpawnerInv, RunnerInv, ShutdownInv, Busy, Unborn, Capacity
<1> QED  BY <1>1, <1>2, <1>3, <1>4, <1>5, <1>6, <1>7, <1>8, <1>9, <1>10, <1>11

LEMMA PublishRefusedStep == ASSUME GraphInv, NEW n \in Agent, PublishRefused(n) PROVE GraphInv'
<1> USE GraphAssumption DEF GraphInv, PublishRefused, CanPublish, nodeVars, actorVars, callVars
<1>1. Typed'
  BY DEF Typed
<1>2. Topology'
  BY DEF Typed, Topology, Downwards, SpawnerInv, Unborn, Uncommitted
<1>3. Downwards'
  BY DEF Typed, Topology, Downwards, SpawnerInv, Unborn, Uncommitted
<1>4. SpawnerInv'
  BY DEF Typed, Topology, SpawnerInv, RunnerInv, ShutdownInv, Busy, ActorInv, Unborn, Uncommitted, Capacity
<1>5. RunnerInv'
  BY DEF Typed, SpawnerInv, RunnerInv, ActorInv, ShutdownInv, Busy, Unborn, Uncommitted, Capacity
<1>6. ActorInv'
  BY DEF Typed, SpawnerInv, RunnerInv, ActorInv, RootInv, ShutdownInv, Unborn, Uncommitted, Capacity
<1>7. Below'
  BY DEF Typed, Topology, SpawnerInv, RunnerInv, ActorInv, Below, RootInv, Unborn, Uncommitted, Capacity
<1>8. RootInv'
  BY DEF Typed, Downwards, SpawnerInv, RootInv, Nodes, Unborn, Uncommitted, Capacity
<1>9. NodeLimit'
  BY FewerNodes DEF Nodes, Capacity
<1>10. TurnInv'
  BY DEF Typed, Topology, Downwards, SpawnerInv, TurnInv, Turn, Unborn
<1>11. ShutdownInv'
  BY DEF Typed, Nodes, SpawnerInv, RunnerInv, ShutdownInv, Busy, Unborn, Capacity
<1> QED  BY <1>1, <1>2, <1>3, <1>4, <1>5, <1>6, <1>7, <1>8, <1>9, <1>10, <1>11

LEMMA StartDroppedStep == ASSUME GraphInv, NEW n \in Agent, StartDropped(n) PROVE GraphInv'
<1> USE GraphAssumption DEF GraphInv, StartDropped, CaptureClose, nodeVars, actorVars, callVars
<1>1. Typed'
  BY DEF Typed
<1>2. Topology'
  BY DEF Typed, Topology, Downwards, SpawnerInv, Unborn, Uncommitted
<1>3. Downwards'
  BY DEF Typed, Topology, Downwards, SpawnerInv, Unborn, Uncommitted
<1>4. SpawnerInv'
  BY DEF Typed, Topology, SpawnerInv, RunnerInv, ShutdownInv, Busy, ActorInv, Unborn, Uncommitted, Capacity
<1>5. RunnerInv'
  BY DEF Typed, SpawnerInv, RunnerInv, ActorInv, ShutdownInv, Busy, Unborn, Uncommitted, Capacity
<1>6. ActorInv'
  BY DEF Typed, SpawnerInv, RunnerInv, ActorInv, RootInv, ShutdownInv, Unborn, Uncommitted, Capacity
<1>7. Below'
  BY DEF Typed, Topology, SpawnerInv, RunnerInv, ActorInv, Below, RootInv, Unborn, Uncommitted, Capacity
<1>8. RootInv'
  BY DEF Typed, Downwards, SpawnerInv, RootInv, Nodes, Unborn, Uncommitted, Capacity
<1>9. NodeLimit'
  BY FewerNodes DEF Nodes, Capacity
<1>10. TurnInv'
  BY DEF Typed, Topology, Downwards, SpawnerInv, TurnInv, Turn, Unborn
<1>11. ShutdownInv'
  BY DEF Typed, Nodes, SpawnerInv, RunnerInv, ShutdownInv, Busy, Unborn, Capacity
<1> QED  BY <1>1, <1>2, <1>3, <1>4, <1>5, <1>6, <1>7, <1>8, <1>9, <1>10, <1>11

LEMMA RunnerExitsStep == ASSUME GraphInv, NEW n \in Agent, RunnerExits(n) PROVE GraphInv'
<1> USE GraphAssumption DEF GraphInv, RunnerExits, nodeVars, actorVars, callVars
<1>1. Typed'
  BY DEF Typed
<1>2. Topology'
  BY DEF Typed, Topology, Downwards, SpawnerInv, Unborn, Uncommitted
<1>3. Downwards'
  BY DEF Typed, Topology, Downwards, SpawnerInv, Unborn, Uncommitted
<1>4. SpawnerInv'
  BY DEF Typed, Topology, SpawnerInv, RunnerInv, ShutdownInv, Busy, ActorInv, Unborn, Uncommitted, Capacity
<1>5. RunnerInv'
  BY DEF Typed, SpawnerInv, RunnerInv, ActorInv, ShutdownInv, Busy, Unborn, Uncommitted, Capacity
<1>6. ActorInv'
  BY DEF Typed, SpawnerInv, RunnerInv, ActorInv, RootInv, ShutdownInv, Unborn, Uncommitted, Capacity
<1>7. Below'
  BY DEF Typed, Topology, SpawnerInv, RunnerInv, ActorInv, Below, RootInv, Unborn, Uncommitted, Capacity
<1>8. RootInv'
  BY DEF Typed, Downwards, SpawnerInv, RootInv, Nodes, Unborn, Uncommitted, Capacity
<1>9. NodeLimit'
  BY FewerNodes DEF Nodes, Capacity
<1>10. TurnInv'
  BY DEF Typed, Topology, Downwards, SpawnerInv, TurnInv, Turn, Unborn
<1>11. ShutdownInv'
  BY DEF Typed, Nodes, SpawnerInv, RunnerInv, ShutdownInv, Busy, Unborn, Capacity
<1> QED  BY <1>1, <1>2, <1>3, <1>4, <1>5, <1>6, <1>7, <1>8, <1>9, <1>10, <1>11

LEMMA WrapperReturnsStep == ASSUME GraphInv, NEW n \in Agent, WrapperReturns(n) PROVE GraphInv'
<1> USE GraphAssumption DEF GraphInv, WrapperReturns, nodeVars, actorVars, callVars
<1>1. Typed'
  BY DEF Typed
<1>2. Topology'
  BY DEF Typed, Topology, Downwards, SpawnerInv, Unborn, Uncommitted
<1>3. Downwards'
  BY DEF Typed, Topology, Downwards, SpawnerInv, Unborn, Uncommitted
<1>4. SpawnerInv'
  BY DEF Typed, Topology, SpawnerInv, RunnerInv, ShutdownInv, Busy, ActorInv, Unborn, Uncommitted, Capacity
<1>5. RunnerInv'
  BY DEF Typed, SpawnerInv, RunnerInv, ActorInv, ShutdownInv, Busy, Unborn, Uncommitted, Capacity
<1>6. ActorInv'
  BY DEF Typed, SpawnerInv, RunnerInv, ActorInv, RootInv, ShutdownInv, Unborn, Uncommitted, Capacity
<1>7. Below'
  BY DEF Typed, Topology, SpawnerInv, RunnerInv, ActorInv, Below, RootInv, Unborn, Uncommitted, Capacity
<1>8. RootInv'
  BY DEF Typed, Downwards, SpawnerInv, RootInv, Nodes, Unborn, Uncommitted, Capacity
<1>9. NodeLimit'
  BY FewerNodes DEF Nodes, Capacity
<1>10. TurnInv'
  BY DEF Typed, Topology, Downwards, SpawnerInv, TurnInv, Turn, Unborn
<1>11. ShutdownInv'
  BY DEF Typed, Nodes, SpawnerInv, RunnerInv, ShutdownInv, Busy, Unborn, Capacity
<1> QED  BY <1>1, <1>2, <1>3, <1>4, <1>5, <1>6, <1>7, <1>8, <1>9, <1>10, <1>11

LEMMA TurnStartsStep == ASSUME GraphInv, NEW n \in Agent, TurnStarts(n) PROVE GraphInv'
<1> USE GraphAssumption DEF GraphInv, TurnStarts, nodeVars, actorVars, callVars
<1>1. Typed'
  BY DEF Typed
<1>2. Topology'
  BY DEF Typed, Topology, Downwards, SpawnerInv, Unborn, Uncommitted
<1>3. Downwards'
  BY DEF Typed, Topology, Downwards, SpawnerInv, Unborn, Uncommitted
<1>4. SpawnerInv'
  BY DEF Typed, Topology, SpawnerInv, RunnerInv, ShutdownInv, Busy, ActorInv, Unborn, Uncommitted, Capacity
<1>5. RunnerInv'
  BY DEF Typed, SpawnerInv, RunnerInv, ActorInv, ShutdownInv, Busy, Unborn, Uncommitted, Capacity
<1>6. ActorInv'
  BY DEF Typed, SpawnerInv, RunnerInv, ActorInv, RootInv, ShutdownInv, Unborn, Uncommitted, Capacity
<1>7. Below'
  BY DEF Typed, Topology, SpawnerInv, RunnerInv, ActorInv, Below, RootInv, Unborn, Uncommitted, Capacity
<1>8. RootInv'
  BY DEF Typed, Downwards, SpawnerInv, RootInv, Nodes, Unborn, Uncommitted, Capacity
<1>9. NodeLimit'
  BY FewerNodes DEF Nodes, Capacity
<1>10. TurnInv'
  BY DEF Typed, Topology, Downwards, SpawnerInv, TurnInv, Turn, Unborn
<1>11. ShutdownInv'
  BY DEF Typed, Nodes, SpawnerInv, RunnerInv, ShutdownInv, Busy, Unborn, Capacity
<1> QED  BY <1>1, <1>2, <1>3, <1>4, <1>5, <1>6, <1>7, <1>8, <1>9, <1>10, <1>11

LEMMA EnterManagedTurnStep == ASSUME GraphInv, NEW n \in Agent, EnterManagedTurn(n) PROVE GraphInv'
<1> USE GraphAssumption DEF GraphInv, EnterManagedTurn, CanRegister, nodeVars, actorVars, callVars
<1>1. Typed'
  BY DEF Typed, TurnInv, Turn
<1>2. Topology'
  BY DEF Typed, Topology, Downwards, SpawnerInv, Unborn, Uncommitted
<1>3. Downwards'
  BY DEF Typed, Topology, Downwards, SpawnerInv, Unborn, Uncommitted
<1>4. SpawnerInv'
  BY DEF Typed, Topology, SpawnerInv, RunnerInv, ShutdownInv, Busy, ActorInv, Unborn, Uncommitted, Capacity
<1>5. RunnerInv'
  BY DEF Typed, SpawnerInv, RunnerInv, ActorInv, ShutdownInv, Busy, Unborn, Uncommitted, Capacity
<1>6. ActorInv'
  BY DEF Typed, SpawnerInv, RunnerInv, ActorInv, RootInv, ShutdownInv, Unborn, Uncommitted, Capacity
<1>7. Below'
  BY DEF Typed, Topology, SpawnerInv, RunnerInv, ActorInv, Below, RootInv, Unborn, Uncommitted, Capacity
<1>8. RootInv'
  BY DEF Typed, Downwards, SpawnerInv, RootInv, Nodes, Unborn, Uncommitted, Capacity
<1>9. NodeLimit'
  BY FewerNodes DEF Nodes, Capacity
<1>10. TurnInv'
  BY DEF Typed, Topology, Downwards, SpawnerInv, TurnInv, Turn, Unborn
<1>11. ShutdownInv'
  BY DEF Typed, Nodes, SpawnerInv, RunnerInv, ShutdownInv, Busy, Unborn, Capacity
<1> QED  BY <1>1, <1>2, <1>3, <1>4, <1>5, <1>6, <1>7, <1>8, <1>9, <1>10, <1>11

LEMMA EnterRefusedStep == ASSUME GraphInv, NEW n \in Agent, EnterRefused(n) PROVE GraphInv'
<1> USE GraphAssumption DEF GraphInv, EnterRefused, CanRegister, nodeVars, actorVars, callVars
<1>1. Typed'
  BY DEF Typed
<1>2. Topology'
  BY DEF Typed, Topology, Downwards, SpawnerInv, Unborn, Uncommitted
<1>3. Downwards'
  BY DEF Typed, Topology, Downwards, SpawnerInv, Unborn, Uncommitted
<1>4. SpawnerInv'
  BY DEF Typed, Topology, SpawnerInv, RunnerInv, ShutdownInv, Busy, ActorInv, Unborn, Uncommitted, Capacity
<1>5. RunnerInv'
  BY DEF Typed, SpawnerInv, RunnerInv, ActorInv, ShutdownInv, Busy, Unborn, Uncommitted, Capacity
<1>6. ActorInv'
  BY DEF Typed, SpawnerInv, RunnerInv, ActorInv, RootInv, ShutdownInv, Unborn, Uncommitted, Capacity
<1>7. Below'
  BY DEF Typed, Topology, SpawnerInv, RunnerInv, ActorInv, Below, RootInv, Unborn, Uncommitted, Capacity
<1>8. RootInv'
  BY DEF Typed, Downwards, SpawnerInv, RootInv, Nodes, Unborn, Uncommitted, Capacity
<1>9. NodeLimit'
  BY FewerNodes DEF Nodes, Capacity
<1>10. TurnInv'
  BY DEF Typed, Topology, Downwards, SpawnerInv, TurnInv, Turn, Unborn
<1>11. ShutdownInv'
  BY DEF Typed, Nodes, SpawnerInv, RunnerInv, ShutdownInv, Busy, Unborn, Capacity
<1> QED  BY <1>1, <1>2, <1>3, <1>4, <1>5, <1>6, <1>7, <1>8, <1>9, <1>10, <1>11

LEMMA CancellationObservedStep == ASSUME GraphInv, NEW n \in Agent, CancellationObserved(n) PROVE GraphInv'
<1> USE GraphAssumption DEF GraphInv, CancellationObserved, nodeVars, actorVars, callVars
<1>1. Typed'
  BY DEF Typed
<1>2. Topology'
  BY DEF Typed, Topology, Downwards, SpawnerInv, Unborn, Uncommitted
<1>3. Downwards'
  BY DEF Typed, Topology, Downwards, SpawnerInv, Unborn, Uncommitted
<1>4. SpawnerInv'
  BY DEF Typed, Topology, SpawnerInv, RunnerInv, ShutdownInv, Busy, ActorInv, Unborn, Uncommitted, Capacity
<1>5. RunnerInv'
  BY DEF Typed, SpawnerInv, RunnerInv, ActorInv, ShutdownInv, Busy, Unborn, Uncommitted, Capacity
<1>6. ActorInv'
  BY DEF Typed, SpawnerInv, RunnerInv, ActorInv, RootInv, ShutdownInv, Unborn, Uncommitted, Capacity
<1>7. Below'
  BY DEF Typed, Topology, SpawnerInv, RunnerInv, ActorInv, Below, RootInv, Unborn, Uncommitted, Capacity
<1>8. RootInv'
  BY DEF Typed, Downwards, SpawnerInv, RootInv, Nodes, Unborn, Uncommitted, Capacity
<1>9. NodeLimit'
  BY FewerNodes DEF Nodes, Capacity
<1>10. TurnInv'
  BY DEF Typed, Topology, Downwards, SpawnerInv, TurnInv, Turn, Unborn
<1>11. ShutdownInv'
  BY DEF Typed, Nodes, SpawnerInv, RunnerInv, ShutdownInv, Busy, Unborn, Capacity
<1> QED  BY <1>1, <1>2, <1>3, <1>4, <1>5, <1>6, <1>7, <1>8, <1>9, <1>10, <1>11

LEMMA TurnLeavesStep == ASSUME GraphInv, NEW n \in Agent, TurnLeaves(n) PROVE GraphInv'
<1> USE GraphAssumption DEF GraphInv, TurnLeaves, nodeVars, actorVars, callVars
<1>1. Typed'
  BY DEF Typed
<1>2. Topology'
  BY DEF Typed, Topology, Downwards, SpawnerInv, Unborn, Uncommitted
<1>3. Downwards'
  BY DEF Typed, Topology, Downwards, SpawnerInv, Unborn, Uncommitted
<1>4. SpawnerInv'
  BY DEF Typed, Topology, SpawnerInv, RunnerInv, ShutdownInv, Busy, ActorInv, Unborn, Uncommitted, Capacity
<1>5. RunnerInv'
  BY DEF Typed, SpawnerInv, RunnerInv, ActorInv, ShutdownInv, Busy, Unborn, Uncommitted, Capacity
<1>6. ActorInv'
  BY DEF Typed, SpawnerInv, RunnerInv, ActorInv, RootInv, ShutdownInv, Unborn, Uncommitted, Capacity
<1>7. Below'
  BY DEF Typed, Topology, SpawnerInv, RunnerInv, ActorInv, Below, RootInv, Unborn, Uncommitted, Capacity
<1>8. RootInv'
  BY DEF Typed, Downwards, SpawnerInv, RootInv, Nodes, Unborn, Uncommitted, Capacity
<1>9. NodeLimit'
  BY FewerNodes DEF Nodes, Capacity
<1>10. TurnInv'
  BY DEF Typed, Topology, Downwards, SpawnerInv, TurnInv, Turn, Unborn
<1>11. ShutdownInv'
  BY DEF Typed, Nodes, SpawnerInv, RunnerInv, ShutdownInv, Busy, Unborn, Capacity
<1> QED  BY <1>1, <1>2, <1>3, <1>4, <1>5, <1>6, <1>7, <1>8, <1>9, <1>10, <1>11

LEMMA TurnRetiresStep == ASSUME GraphInv, NEW n \in Agent, TurnRetires(n) PROVE GraphInv'
<1> USE GraphAssumption DEF GraphInv, TurnRetires, nodeVars, actorVars, callVars
<1>1. Typed'
  BY DEF Typed, TurnInv, Turn
<1>2. Topology'
  BY DEF Typed, Topology, Downwards, SpawnerInv, Unborn, Uncommitted
<1>3. Downwards'
  BY DEF Typed, Topology, Downwards, SpawnerInv, Unborn, Uncommitted
<1>4. SpawnerInv'
  BY DEF Typed, Topology, SpawnerInv, RunnerInv, ShutdownInv, Busy, ActorInv, Unborn, Uncommitted, Capacity
<1>5. RunnerInv'
  BY DEF Typed, SpawnerInv, RunnerInv, ActorInv, ShutdownInv, Busy, Unborn, Uncommitted, Capacity
<1>6. ActorInv'
  BY DEF Typed, SpawnerInv, RunnerInv, ActorInv, RootInv, ShutdownInv, Unborn, Uncommitted, Capacity
<1>7. Below'
  BY DEF Typed, Topology, SpawnerInv, RunnerInv, ActorInv, Below, RootInv, Unborn, Uncommitted, Capacity
<1>8. RootInv'
  BY DEF Typed, Downwards, SpawnerInv, RootInv, Nodes, Unborn, Uncommitted, Capacity
<1>9. NodeLimit'
  BY FewerNodes DEF Nodes, Capacity
<1>10. TurnInv'
  BY DEF Typed, Topology, Downwards, SpawnerInv, TurnInv, Turn, Unborn
<1>11. ShutdownInv'
  BY DEF Typed, Nodes, SpawnerInv, RunnerInv, ShutdownInv, Busy, Unborn, Capacity
<1> QED  BY <1>1, <1>2, <1>3, <1>4, <1>5, <1>6, <1>7, <1>8, <1>9, <1>10, <1>11

LEMMA CancelExistingStep == ASSUME GraphInv, NEW n \in Agent, CancelExisting(n) PROVE GraphInv'
<1> USE GraphAssumption DEF GraphInv, CancelExisting, Published, nodeVars, actorVars, callVars
<1>1. Typed'
  BY DEF Typed
<1>2. Topology'
  BY DEF Typed, Topology, Downwards, SpawnerInv, Unborn, Uncommitted
<1>3. Downwards'
  BY DEF Typed, Topology, Downwards, SpawnerInv, Unborn, Uncommitted
<1>4. SpawnerInv'
  BY DEF Typed, Topology, SpawnerInv, RunnerInv, ShutdownInv, Busy, ActorInv, Unborn, Uncommitted, Capacity
<1>5. RunnerInv'
  BY DEF Typed, SpawnerInv, RunnerInv, ActorInv, ShutdownInv, Busy, Unborn, Uncommitted, Capacity
<1>6. ActorInv'
  BY DEF Typed, SpawnerInv, RunnerInv, ActorInv, RootInv, ShutdownInv, Unborn, Uncommitted, Capacity
<1>7. Below'
  BY DEF Typed, Topology, SpawnerInv, RunnerInv, ActorInv, Below, RootInv, Unborn, Uncommitted, Capacity
<1>8. RootInv'
  BY DEF Typed, Downwards, SpawnerInv, RootInv, Nodes, Unborn, Uncommitted, Capacity
<1>9. NodeLimit'
  BY FewerNodes DEF Nodes, Capacity
<1>10. TurnInv'
  BY DEF Typed, Topology, Downwards, SpawnerInv, TurnInv, Turn, Unborn
<1>11. ShutdownInv'
  BY DEF Typed, Nodes, SpawnerInv, RunnerInv, ShutdownInv, Busy, Unborn, Capacity
<1> QED  BY <1>1, <1>2, <1>3, <1>4, <1>5, <1>6, <1>7, <1>8, <1>9, <1>10, <1>11

LEMMA LocalCancelStep == ASSUME GraphInv, NEW n \in Agent, LocalCancel(n) PROVE GraphInv'
<1> USE GraphAssumption DEF GraphInv, LocalCancel, Published, nodeVars, actorVars, callVars
<1>1. Typed'
  BY DEF Typed
<1>2. Topology'
  BY DEF Typed, Topology, Downwards, SpawnerInv, Unborn, Uncommitted
<1>3. Downwards'
  BY DEF Typed, Topology, Downwards, SpawnerInv, Unborn, Uncommitted
<1>4. SpawnerInv'
  BY DEF Typed, Topology, SpawnerInv, RunnerInv, ShutdownInv, Busy, ActorInv, Unborn, Uncommitted, Capacity
<1>5. RunnerInv'
  BY DEF Typed, SpawnerInv, RunnerInv, ActorInv, ShutdownInv, Busy, Unborn, Uncommitted, Capacity
<1>6. ActorInv'
  BY DEF Typed, SpawnerInv, RunnerInv, ActorInv, RootInv, ShutdownInv, Unborn, Uncommitted, Capacity
<1>7. Below'
  BY DEF Typed, Topology, SpawnerInv, RunnerInv, ActorInv, Below, RootInv, Unborn, Uncommitted, Capacity
<1>8. RootInv'
  BY DEF Typed, Downwards, SpawnerInv, RootInv, Nodes, Unborn, Uncommitted, Capacity
<1>9. NodeLimit'
  BY FewerNodes DEF Nodes, Capacity
<1>10. TurnInv'
  BY DEF Typed, Topology, Downwards, SpawnerInv, TurnInv, Turn, Unborn
<1>11. ShutdownInv'
  BY DEF Typed, Nodes, SpawnerInv, RunnerInv, ShutdownInv, Busy, Unborn, Capacity
<1> QED  BY <1>1, <1>2, <1>3, <1>4, <1>5, <1>6, <1>7, <1>8, <1>9, <1>10, <1>11

LEMMA CreateRootStep == ASSUME GraphInv, NEW n \in Agent, CreateRoot(n) PROVE GraphInv'
<1> USE GraphAssumption DEF GraphInv, CreateRoot, nodeVars, actorVars, callVars
<1>1. Typed'
  BY DEF Typed
<1>2. Topology'
  BY DEF Typed, Topology, Downwards, SpawnerInv, Unborn, Uncommitted
<1>3. Downwards'
  BY DEF Typed, Topology, Downwards, SpawnerInv, Unborn, Uncommitted
<1>4. SpawnerInv'
  BY DEF Typed, Topology, SpawnerInv, RunnerInv, ShutdownInv, Busy, ActorInv, Unborn, Uncommitted, Capacity
<1>5. RunnerInv'
  BY DEF Typed, SpawnerInv, RunnerInv, ActorInv, ShutdownInv, Busy, Unborn, Uncommitted, Capacity
<1>6. ActorInv'
  BY DEF Typed, SpawnerInv, RunnerInv, ActorInv, RootInv, ShutdownInv, Unborn, Uncommitted, Capacity
<1>7. Below'
  BY DEF Typed, Topology, SpawnerInv, RunnerInv, ActorInv, Below, RootInv, Unborn, Uncommitted, Capacity
<1>8. RootInv'
  BY DEF Typed, Downwards, SpawnerInv, RootInv, Nodes, Unborn, Uncommitted, Capacity
<1>9. NodeLimit'
  <2>1. Nodes = {} /\ Nodes' = {n}
    BY DEF Nodes, RootInv, Typed
  <2>2. IsFiniteSet({n}) /\ Cardinality({n}) = 1
    BY FS_Singleton
  <2>3. IsFiniteSet(Nodes') /\ Cardinality(Nodes') = 1
    BY <2>1, <2>2
  <2> QED  BY <2>3 DEF NodeLimit
<1>10. TurnInv'
  BY DEF Typed, Topology, Downwards, SpawnerInv, TurnInv, Turn, Unborn
<1>11. ShutdownInv'
  BY DEF Typed, Nodes, SpawnerInv, RunnerInv, ShutdownInv, Busy, Unborn, Capacity
<1> QED  BY <1>1, <1>2, <1>3, <1>4, <1>5, <1>6, <1>7, <1>8, <1>9, <1>10, <1>11

LEMMA RemoveStep ==
    ASSUME GraphInv, NEW n \in Agent, pc[n] \in {"factory", "orphan"}, RemoveReservation(n),
           pc' = [pc EXCEPT ![n] = "done"], UNCHANGED <<active, shuttingDown, actorVars, revoked, sd, sdIds>>
    PROVE  GraphInv'
<1> USE GraphAssumption DEF GraphInv, RemoveReservation, Drop, Placed, actorVars
<1>1. Typed'
  BY DEF Typed
<1>2. Topology'
  BY DEF Typed, Topology, Downwards, SpawnerInv, Unborn, Uncommitted
<1>3. Downwards'
  BY DEF Typed, Topology, Downwards, SpawnerInv, Unborn, Uncommitted
<1>4. SpawnerInv'
  BY DEF Typed, Topology, SpawnerInv, RunnerInv, ShutdownInv, Busy, ActorInv, Unborn, Uncommitted, Capacity
<1>5. RunnerInv'
  BY DEF Typed, SpawnerInv, RunnerInv, ActorInv, ShutdownInv, Busy, Unborn, Uncommitted, Capacity
<1>6. ActorInv'
  BY DEF Typed, SpawnerInv, RunnerInv, ActorInv, RootInv, ShutdownInv, Unborn, Uncommitted, Capacity
<1>7. Below'
  BY DEF Typed, Topology, SpawnerInv, RunnerInv, ActorInv, Below, RootInv, Unborn, Uncommitted, Capacity
<1>8. RootInv'
  BY DEF Typed, Downwards, SpawnerInv, RootInv, Nodes, Unborn, Uncommitted, Capacity
<1>9. NodeLimit'
  BY FewerNodes DEF Nodes, Capacity
<1>10. TurnInv'
  BY DEF Typed, Topology, Downwards, SpawnerInv, TurnInv, Turn, Unborn
<1>11. ShutdownInv'
  BY DEF Typed, Nodes, SpawnerInv, RunnerInv, ShutdownInv, Busy, Unborn, Capacity
<1> QED  BY <1>1, <1>2, <1>3, <1>4, <1>5, <1>6, <1>7, <1>8, <1>9, <1>10, <1>11

LEMMA RollbackSteps ==
    ASSUME GraphInv, NEW n \in Agent, FactoryFails(n) \/ RollbackOrphan(n) PROVE GraphInv'
<1>1. CASE FactoryFails(n)
  BY <1>1, RemoveStep DEF FactoryFails
<1>2. CASE RollbackOrphan(n)
  <2>1. lc[n] # "Absent" /\ pending[n]
    BY <1>2 DEF GraphInv, SpawnerInv, RollbackOrphan
  <2> QED  BY <1>2, <2>1, RemoveStep DEF RollbackOrphan
<1> QED  BY <1>1, <1>2

LEMMA CancelCutStep == ASSUME GraphInv, NEW n \in Agent, NEW s \in BOOLEAN, CancelCut(n, s) PROVE GraphInv'
<1> USE GraphAssumption DEF GraphInv, CancelCut, nodeVars, actorVars, callVars
<1>1. Typed'
  BY DEF Typed
<1>2. Topology'
  BY DEF Typed, Topology, Downwards, SpawnerInv, Unborn, Uncommitted
<1>3. Downwards'
  BY DEF Typed, Topology, Downwards, SpawnerInv, Unborn, Uncommitted
<1>4. SpawnerInv'
  BY DEF Typed, Topology, SpawnerInv, RunnerInv, ShutdownInv, Busy, ActorInv, Unborn, Uncommitted, Capacity
<1>5. RunnerInv'
  BY DEF Typed, SpawnerInv, RunnerInv, ActorInv, ShutdownInv, Busy, Unborn, Uncommitted, Capacity
<1>6. ActorInv'
  BY DEF Typed, SpawnerInv, RunnerInv, ActorInv, RootInv, ShutdownInv, Unborn, Uncommitted, Capacity
<1>7. Below'
  BY DEF Typed, Topology, SpawnerInv, RunnerInv, ActorInv, Below, RootInv, Unborn, Uncommitted, Capacity
<1>8. RootInv'
  BY DEF Typed, Downwards, SpawnerInv, RootInv, Nodes, Unborn, Uncommitted, Capacity
<1>9. NodeLimit'
  BY FewerNodes DEF Nodes, Capacity
<1>10. TurnInv'
  BY DEF Typed, Topology, Downwards, SpawnerInv, TurnInv, Turn, Unborn
<1>11. ShutdownInv'
  BY DEF Typed, Nodes, SpawnerInv, RunnerInv, ShutdownInv, Busy, Unborn, Capacity
<1> QED  BY <1>1, <1>2, <1>3, <1>4, <1>5, <1>6, <1>7, <1>8, <1>9, <1>10, <1>11

LEMMA TakeTasksStep == ASSUME GraphInv, TakeTasks PROVE GraphInv'
<1> USE GraphAssumption DEF GraphInv, TakeTasks, nodeVars, actorVars, callVars
<1>1. Typed'
  BY DEF Typed
<1>2. Topology'
  BY DEF Typed, Topology, Downwards, SpawnerInv, Unborn, Uncommitted
<1>3. Downwards'
  BY DEF Typed, Topology, Downwards, SpawnerInv, Unborn, Uncommitted
<1>4. SpawnerInv'
  BY DEF Typed, Topology, SpawnerInv, RunnerInv, ShutdownInv, Busy, ActorInv, Unborn, Uncommitted, Capacity
<1>5. RunnerInv'
  BY DEF Typed, SpawnerInv, RunnerInv, ActorInv, ShutdownInv, Busy, Unborn, Uncommitted, Capacity
<1>6. ActorInv'
  BY DEF Typed, SpawnerInv, RunnerInv, ActorInv, RootInv, ShutdownInv, Unborn, Uncommitted, Capacity
<1>7. Below'
  BY DEF Typed, Topology, SpawnerInv, RunnerInv, ActorInv, Below, RootInv, Unborn, Uncommitted, Capacity
<1>8. RootInv'
  BY DEF Typed, Downwards, SpawnerInv, RootInv, Nodes, Unborn, Uncommitted, Capacity
<1>9. NodeLimit'
  BY FewerNodes DEF Nodes, Capacity
<1>10. TurnInv'
  BY DEF Typed, Topology, Downwards, SpawnerInv, TurnInv, Turn, Unborn
<1>11. ShutdownInv'
  BY DEF Typed, Nodes, SpawnerInv, RunnerInv, ShutdownInv, Busy, Unborn, Capacity
<1> QED  BY <1>1, <1>2, <1>3, <1>4, <1>5, <1>6, <1>7, <1>8, <1>9, <1>10, <1>11

LEMMA ReapScanStep == ASSUME GraphInv, ReapScan PROVE GraphInv'
<1> USE GraphAssumption DEF GraphInv, ReapScan, Nodes, nodeVars, actorVars, callVars
<1>1. Typed'
  BY DEF Typed
<1>2. Topology'
  BY DEF Typed, Topology, Downwards, SpawnerInv, Unborn, Uncommitted
<1>3. Downwards'
  BY DEF Typed, Topology, Downwards, SpawnerInv, Unborn, Uncommitted
<1>4. SpawnerInv'
  BY DEF Typed, Topology, SpawnerInv, RunnerInv, ShutdownInv, Busy, ActorInv, Unborn, Uncommitted, Capacity
<1>5. RunnerInv'
  BY DEF Typed, SpawnerInv, RunnerInv, ActorInv, ShutdownInv, Busy, Unborn, Uncommitted, Capacity
<1>6. ActorInv'
  BY DEF Typed, SpawnerInv, RunnerInv, ActorInv, RootInv, ShutdownInv, Unborn, Uncommitted, Capacity
<1>7. Below'
  BY DEF Typed, Topology, SpawnerInv, RunnerInv, ActorInv, Below, RootInv, Unborn, Uncommitted, Capacity
<1>8. RootInv'
  BY DEF Typed, Downwards, SpawnerInv, RootInv, Nodes, Unborn, Uncommitted, Capacity
<1>9. NodeLimit'
  BY FewerNodes DEF Nodes, Capacity
<1>10. TurnInv'
  BY DEF Typed, Topology, Downwards, SpawnerInv, TurnInv, Turn, Unborn
<1>11. ShutdownInv'
  BY DEF Typed, Nodes, SpawnerInv, RunnerInv, ShutdownInv, Busy, Unborn, Capacity
<1> QED  BY <1>1, <1>2, <1>3, <1>4, <1>5, <1>6, <1>7, <1>8, <1>9, <1>10, <1>11

LEMMA CloseSubtreeStep == ASSUME GraphInv, NEW n \in Agent, NEW r \in BOOLEAN, CloseSubtree(n, r) PROVE GraphInv'
<1> USE GraphAssumption DEF GraphInv, CloseSubtree, CloseNodes, CaptureClose, Published, nodeVars, actorVars, callVars
<1>1. Typed'
  BY DEF Typed
<1>2. Topology'
  BY DEF Typed, Topology, Downwards, SpawnerInv, Unborn, Uncommitted
<1>3. Downwards'
  BY DEF Typed, Topology, Downwards, SpawnerInv, Unborn, Uncommitted
<1>4. SpawnerInv'
  BY DEF Typed, Topology, SpawnerInv, RunnerInv, ShutdownInv, Busy, ActorInv, Unborn, Uncommitted, Capacity
<1>5. RunnerInv'
  BY DEF Typed, SpawnerInv, RunnerInv, ActorInv, ShutdownInv, Busy, Unborn, Uncommitted, Capacity
<1>6. ActorInv'
  BY DEF Typed, SpawnerInv, RunnerInv, ActorInv, RootInv, ShutdownInv, Unborn, Uncommitted, Capacity
<1>7. Below'
  <2>1. ASSUME NEW m \in Subtree(n), NEW k \in children[m] PROVE k \in Subtree(n) /\ k # n
    <3>1. k \in Subtree(n)
      BY SubtreeClosed
    <3>2. n \notin children[m]
      BY NotBelowItself
    <3> QED  BY <3>1, <3>2
  <2> QED  BY <2>1, SubtreeSelf DEF Typed, Topology, Below, Capacity
<1>8. RootInv'
  BY DEF Typed, Downwards, SpawnerInv, RootInv, Nodes, Unborn, Uncommitted, Capacity
<1>9. NodeLimit'
  BY FewerNodes DEF Nodes, Capacity
<1>10. TurnInv'
  BY DEF Typed, Topology, Downwards, SpawnerInv, TurnInv, Turn, Unborn
<1>11. ShutdownInv'
  BY DEF Typed, Nodes, SpawnerInv, RunnerInv, ShutdownInv, Busy, Unborn, Capacity
<1> QED  BY <1>1, <1>2, <1>3, <1>4, <1>5, <1>6, <1>7, <1>8, <1>9, <1>10, <1>11

LEMMA CancelTurnStep == ASSUME GraphInv, NEW n \in Agent, NEW t \in Turn, CancelTurn(n, t) PROVE GraphInv'
<1> USE GraphAssumption DEF GraphInv, CancelTurn, Published, nodeVars, actorVars, callVars
<1>1. Typed'
  BY DEF Typed
<1>2. Topology'
  BY DEF Typed, Topology, Downwards, SpawnerInv, Unborn, Uncommitted
<1>3. Downwards'
  BY DEF Typed, Topology, Downwards, SpawnerInv, Unborn, Uncommitted
<1>4. SpawnerInv'
  BY DEF Typed, Topology, SpawnerInv, RunnerInv, ShutdownInv, Busy, ActorInv, Unborn, Uncommitted, Capacity
<1>5. RunnerInv'
  BY DEF Typed, SpawnerInv, RunnerInv, ActorInv, ShutdownInv, Busy, Unborn, Uncommitted, Capacity
<1>6. ActorInv'
  BY DEF Typed, SpawnerInv, RunnerInv, ActorInv, RootInv, ShutdownInv, Unborn, Uncommitted, Capacity
<1>7. Below'
  <2>1. ASSUME NEW m \in TurnChildren(n, t) PROVE m \in Agent /\ children[m] \subseteq TurnChildren(n, t)
    <3>1. PICK c \in children[n] : owner[c] = t /\ lc[c] \in Capacity /\ m \in Subtree(c)
      BY DEF TurnChildren
    <3>2. c \in Agent
      BY DEF Typed
    <3>3. children[m] \subseteq Subtree(c) /\ m \in Agent
      BY <3>1, <3>2, SubtreeClosed DEF Subtree
    <3> QED  BY <3>1, <3>3 DEF TurnChildren
  <2> QED  BY <2>1 DEF Typed, Topology, Below, Capacity
<1>8. RootInv'
  BY DEF Typed, Downwards, SpawnerInv, RootInv, Nodes, Unborn, Uncommitted, Capacity
<1>9. NodeLimit'
  BY FewerNodes DEF Nodes, Capacity
<1>10. TurnInv'
  <2>1. \A m \in children[n] : owner[m] = t /\ lc[m] \in Capacity => m \in TurnChildren(n, t)
    BY SubtreeSelf DEF TurnChildren, Typed
  <2>2. \A m \in Agent : lc'[m] # "Absent" /\ <<parent'[m], owner'[m]>> \in revoked' => lc'[m] \in {"Closing", "Closed"}
    BY <2>1 DEF Typed, Topology, TurnInv, Capacity
  <2>3. \A m \in Agent, u \in Turn : <<m, u>> \in revoked' \cup cutTurns' => u <= turn'[m]
    BY DEF Typed, TurnInv, Turn
  <2>4. \A m \in Agent : <<m, turn'[m]>> \in revoked' => ~slot'[m]
    BY DEF Typed, TurnInv
  <2> QED  BY <2>2, <2>3, <2>4 DEF Typed, TurnInv
<1>11. ShutdownInv'
  BY DEF Typed, Nodes, SpawnerInv, RunnerInv, ShutdownInv, Busy, Unborn, Capacity
<1> QED  BY <1>1, <1>2, <1>3, <1>4, <1>5, <1>6, <1>7, <1>8, <1>9, <1>10, <1>11

LEMMA ShutdownStep == ASSUME GraphInv, Shutdown PROVE GraphInv'
<1> USE GraphAssumption DEF GraphInv, Shutdown, Nodes, CaptureClose, Published, TaskFinished, nodeVars, actorVars, callVars
<1>1. Typed'
  BY DEF Typed
<1>2. Topology'
  BY DEF Typed, Topology, Downwards, SpawnerInv, Unborn, Uncommitted
<1>3. Downwards'
  BY DEF Typed, Topology, Downwards, SpawnerInv, Unborn, Uncommitted
<1>4. SpawnerInv'
  BY DEF Typed, Topology, SpawnerInv, RunnerInv, ShutdownInv, Busy, ActorInv, Unborn, Uncommitted, Capacity
<1>5. RunnerInv'
  BY DEF Typed, SpawnerInv, RunnerInv, ActorInv, ShutdownInv, Busy, Unborn, Uncommitted, Capacity
<1>6. ActorInv'
  BY DEF Typed, SpawnerInv, RunnerInv, ActorInv, RootInv, ShutdownInv, Unborn, Uncommitted, Capacity
<1>7. Below'
  BY DEF Typed, Topology, SpawnerInv, RunnerInv, ActorInv, Below, RootInv, Unborn, Uncommitted, Capacity
<1>8. RootInv'
  BY DEF Typed, Downwards, SpawnerInv, RootInv, Nodes, Unborn, Uncommitted, Capacity
<1>9. NodeLimit'
  BY FewerNodes DEF Nodes, Capacity
<1>10. TurnInv'
  BY DEF Typed, Topology, Downwards, SpawnerInv, TurnInv, Turn, Unborn
<1>11. ShutdownInv'
  BY DEF Typed, Nodes, SpawnerInv, RunnerInv, ShutdownInv, Busy, Unborn, Capacity
<1> QED  BY <1>1, <1>2, <1>3, <1>4, <1>5, <1>6, <1>7, <1>8, <1>9, <1>10, <1>11

LEMMA RunnerFinishedStep == ASSUME GraphInv, RunnerFinished PROVE GraphInv'
<1> USE GraphAssumption DEF GraphInv, Reclaimed, Finished, TaskFinished, Drop, Placed, nodeVars, actorVars, callVars
<1>0. PICK gone \in SUBSET Agent : Reclaimed(gone, lc, pending)
  BY ReclaimFacts DEF RunnerFinished
<1> USE DEF RunnerFinished
<1>1. Typed'
  BY <1>0 DEF Typed
<1>2. Topology'
  BY <1>0 DEF Typed, Topology, Downwards, SpawnerInv, Unborn, Uncommitted
<1>3. Downwards'
  BY <1>0 DEF Typed, Topology, Downwards, SpawnerInv, Unborn, Uncommitted
<1>4. SpawnerInv'
  BY <1>0 DEF Typed, Topology, SpawnerInv, RunnerInv, ShutdownInv, Busy, ActorInv, Unborn, Uncommitted, Capacity
<1>5. RunnerInv'
  BY <1>0 DEF Typed, SpawnerInv, RunnerInv, ActorInv, ShutdownInv, Busy, Unborn, Uncommitted, Capacity
<1>6. ActorInv'
  BY <1>0 DEF Typed, SpawnerInv, RunnerInv, ActorInv, RootInv, ShutdownInv, Unborn, Uncommitted, Capacity
<1>7. Below'
  BY <1>0 DEF Typed, Topology, SpawnerInv, RunnerInv, ActorInv, Below, RootInv, Unborn, Uncommitted, Capacity
<1>8. RootInv'
  BY <1>0 DEF Typed, Downwards, SpawnerInv, RootInv, Nodes, Unborn, Uncommitted, Capacity
<1>9. NodeLimit'
  BY <1>0, FewerNodes DEF Nodes, Capacity
<1>10. TurnInv'
  BY <1>0 DEF Typed, Topology, Downwards, SpawnerInv, TurnInv, Turn, Unborn
<1>11. ShutdownInv'
  BY <1>0 DEF Typed, Nodes, SpawnerInv, RunnerInv, ShutdownInv, Busy, Unborn, Capacity
<1> QED  BY <1>1, <1>2, <1>3, <1>4, <1>5, <1>6, <1>7, <1>8, <1>9, <1>10, <1>11

LEMMA FinishFailedCommitStep == ASSUME GraphInv, NEW n \in Agent, FinishFailedCommit(n) PROVE GraphInv'
<1> USE GraphAssumption DEF GraphInv, Reclaimed, Finished, TaskFinished, Drop, Placed, nodeVars, actorVars, callVars
<1>0. PICK gone \in SUBSET Agent : Reclaimed(gone, lc, [pending EXCEPT ![n] = FALSE])
  BY ReclaimFacts DEF FinishFailedCommit
<1> USE DEF FinishFailedCommit
<1>1. Typed'
  BY <1>0 DEF Typed
<1>2. Topology'
  BY <1>0 DEF Typed, Topology, Downwards, SpawnerInv, Unborn, Uncommitted
<1>3. Downwards'
  BY <1>0 DEF Typed, Topology, Downwards, SpawnerInv, Unborn, Uncommitted
<1>4. SpawnerInv'
  BY <1>0 DEF Typed, Topology, SpawnerInv, RunnerInv, ShutdownInv, Busy, ActorInv, Unborn, Uncommitted, Capacity
<1>5. RunnerInv'
  BY <1>0 DEF Typed, SpawnerInv, RunnerInv, ActorInv, ShutdownInv, Busy, Unborn, Uncommitted, Capacity
<1>6. ActorInv'
  BY <1>0 DEF Typed, SpawnerInv, RunnerInv, ActorInv, RootInv, ShutdownInv, Unborn, Uncommitted, Capacity
<1>7. Below'
  BY <1>0 DEF Typed, Topology, SpawnerInv, RunnerInv, ActorInv, Below, RootInv, Unborn, Uncommitted, Capacity
<1>8. RootInv'
  BY <1>0 DEF Typed, Downwards, SpawnerInv, RootInv, Nodes, Unborn, Uncommitted, Capacity
<1>9. NodeLimit'
  BY <1>0, FewerNodes DEF Nodes, Capacity
<1>10. TurnInv'
  BY <1>0 DEF Typed, Topology, Downwards, SpawnerInv, TurnInv, Turn, Unborn
<1>11. ShutdownInv'
  BY <1>0 DEF Typed, Nodes, SpawnerInv, RunnerInv, ShutdownInv, Busy, Unborn, Capacity
<1> QED  BY <1>1, <1>2, <1>3, <1>4, <1>5, <1>6, <1>7, <1>8, <1>9, <1>10, <1>11

LEMMA WrapperMarksStep == ASSUME GraphInv, NEW n \in Agent, WrapperMarks(n) PROVE GraphInv'
<1> USE GraphAssumption DEF GraphInv, Reclaimed, Finished, TaskFinished, Drop, Placed, nodeVars, actorVars, callVars
<1> DEFINE l == [lc EXCEPT ![n] = IF @ = "Absent" THEN @ ELSE "Closed"]
<1>a. /\ Reclaim(l, pending) /\ run[n] = "exited" /\ run' = [run EXCEPT ![n] = "marked"]
      /\ UNCHANGED <<root, shuttingDown, actor, turn, phase, slot, cutTurns, callVars>>
  BY DEF WrapperMarks
<1>b. /\ l \in [Agent -> {"Absent", "Reserved", "Live", "Closing", "Closed"}]
      /\ \A m \in Agent : l[m] = IF m = n /\ lc[m] # "Absent" THEN "Closed" ELSE lc[m]
  BY DEF Typed
<1> HIDE DEF l
<1>0. PICK gone \in SUBSET Agent : Reclaimed(gone, l, pending)
  BY <1>a, ReclaimFacts
<1>1. Typed'
  BY <1>0, <1>a, <1>b DEF Typed
<1>2. Topology'
  BY <1>0, <1>a, <1>b DEF Typed, Topology, Downwards, SpawnerInv, Unborn, Uncommitted
<1>3. Downwards'
  BY <1>0, <1>a, <1>b DEF Typed, Topology, Downwards, SpawnerInv, Unborn, Uncommitted
<1>4. SpawnerInv'
  BY <1>0, <1>a, <1>b DEF Typed, Topology, SpawnerInv, RunnerInv, ShutdownInv, Busy, ActorInv, Unborn, Uncommitted, Capacity
<1>5. RunnerInv'
  BY <1>0, <1>a, <1>b DEF Typed, SpawnerInv, RunnerInv, ActorInv, ShutdownInv, Busy, Unborn, Uncommitted, Capacity
<1>6. ActorInv'
  BY <1>0, <1>a, <1>b DEF Typed, SpawnerInv, RunnerInv, ActorInv, RootInv, ShutdownInv, Unborn, Uncommitted, Capacity
<1>7. Below'
  BY <1>0, <1>a, <1>b DEF Typed, Topology, SpawnerInv, RunnerInv, ActorInv, Below, RootInv, Unborn, Uncommitted, Capacity
<1>8. RootInv'
  BY <1>0, <1>a, <1>b DEF Typed, Downwards, SpawnerInv, RootInv, Nodes, Unborn, Uncommitted, Capacity
<1>9. NodeLimit'
  BY <1>0, <1>a, <1>b, FewerNodes DEF Nodes, Capacity
<1>10. TurnInv'
  BY <1>0, <1>a, <1>b DEF Typed, Topology, Downwards, SpawnerInv, TurnInv, Turn, Unborn
<1>11. ShutdownInv'
  BY <1>0, <1>a, <1>b DEF Typed, Nodes, SpawnerInv, RunnerInv, ShutdownInv, Busy, Unborn, Capacity
<1> QED  BY <1>1, <1>2, <1>3, <1>4, <1>5, <1>6, <1>7, <1>8, <1>9, <1>10, <1>11

LEMMA FinishNodesStep == 
    ASSUME GraphInv, ShutdownPoll \/ ShutdownTimeout \/ ReapFinish PROVE GraphInv'
<1> USE GraphAssumption DEF GraphInv, Reclaimed, Finished, TaskFinished, Drop, Placed, nodeVars, actorVars, callVars
<1> DEFINE l == [n \in Agent |-> IF n \in Done(sdIds) /\ lc[n] # "Absent" THEN "Closed" ELSE lc[n]]
<1>a. /\ Reclaim(l, pending) /\ UNCHANGED <<root, shuttingDown, actorVars, pc, revoked>>
      /\ \/ sd = "polling" /\ sd' \in {"polling", "reap"} /\ sdIds' = sdIds
         \/ sd = "polling" /\ sd' = "taking" /\ Done(sdIds) = sdIds /\ sdIds' = sdIds
         \/ sd = "reapFinish" /\ sd' \in {"reap", "reapTake"} /\ sdIds' = Done(sdIds)
  BY DEF ShutdownPoll, ShutdownTimeout, ReapFinish, FinishNodes
<1>b. /\ l \in [Agent -> {"Absent", "Reserved", "Live", "Closing", "Closed"}]
      /\ \A m \in Agent : l[m] = IF m \in Done(sdIds) /\ lc[m] # "Absent" THEN "Closed" ELSE lc[m]
  BY DEF Typed
<1>c. \A n \in Done(sdIds) : /\ n \in sdIds /\ n \in Agent /\ ~Busy(n)
                             /\ lc[n] # "Absent" => run[n] \in {"marked", "finished"} /\ ~pending[n]
  BY DEF Done, Typed, SpawnerInv, RunnerInv, Busy
<1> HIDE DEF l
<1>0. PICK gone \in SUBSET Agent : Reclaimed(gone, l, pending)
  BY <1>a, ReclaimFacts
<1>1. Typed'
  BY <1>0, <1>a, <1>b, <1>c DEF Typed
<1>2. Topology'
  BY <1>0, <1>a, <1>b, <1>c DEF Typed, Topology, Downwards, SpawnerInv, Unborn, Uncommitted
<1>3. Downwards'
  BY <1>0, <1>a, <1>b, <1>c DEF Typed, Topology, Downwards, SpawnerInv, Unborn, Uncommitted
<1>4. SpawnerInv'
  BY <1>0, <1>a, <1>b, <1>c DEF Typed, Topology, SpawnerInv, RunnerInv, ShutdownInv, Busy, ActorInv, Unborn, Uncommitted, Capacity
<1>5. RunnerInv'
  BY <1>0, <1>a, <1>b, <1>c DEF Typed, SpawnerInv, RunnerInv, ActorInv, ShutdownInv, Busy, Unborn, Uncommitted, Capacity
<1>6. ActorInv'
  BY <1>0, <1>a, <1>b, <1>c DEF Typed, SpawnerInv, RunnerInv, ActorInv, RootInv, ShutdownInv, Unborn, Uncommitted, Capacity
<1>7. Below'
  BY <1>0, <1>a, <1>b, <1>c, SMTT(30) DEF Typed, Topology, SpawnerInv, RunnerInv, ActorInv, Below, RootInv, Unborn, Uncommitted, Capacity
<1>8. RootInv'
  BY <1>0, <1>a, <1>b, <1>c DEF Typed, Downwards, SpawnerInv, RootInv, Nodes, Unborn, Uncommitted, Capacity
<1>9. NodeLimit'
  BY <1>0, <1>a, <1>b, <1>c, FewerNodes DEF Nodes, Capacity
<1>10. TurnInv'
  BY <1>0, <1>a, <1>b, <1>c DEF Typed, Topology, Downwards, SpawnerInv, TurnInv, Turn, Unborn
<1>11. ShutdownInv'
  BY <1>0, <1>a, <1>b, <1>c DEF Typed, Nodes, SpawnerInv, RunnerInv, ShutdownInv, Busy, Unborn, Capacity
<1> QED  BY <1>1, <1>2, <1>3, <1>4, <1>5, <1>6, <1>7, <1>8, <1>9, <1>10, <1>11

LEMMA SpawnChildStep ==
    ASSUME GraphInv, NEW p \in Agent, NEW n \in Agent, NEW t \in 0..MaxTurn, SpawnChild(p, n, t) PROVE GraphInv'
<1> USE GraphAssumption DEF GraphInv, Reclaimed, Finished, TaskFinished, Drop, Placed, nodeVars, actorVars, callVars
<1> DEFINE gone == Retired(lc, pending)
<1>0. /\ pc[n] = "unborn" /\ ~shuttingDown /\ lc[p] = "Live" /\ actor[p] = "Open"
      /\ t = 0 \/ <<p, t>> \in active
      /\ depth[p] + 1 <= MaxDepth /\ Cardinality(Nodes \ gone) < MaxLive
      /\ Drop(gone, [lc EXCEPT ![n] = "Reserved"], [children EXCEPT ![p] = @ \cup {n}])
      /\ active' = {a \in active : a[1] \notin gone}
      /\ pending' = [pending EXCEPT ![n] = TRUE]
      /\ parent' = [Placed(gone, parent, NoAgent) EXCEPT ![n] = p]
      /\ depth' = [Placed(gone, depth, 0) EXCEPT ![n] = depth[p] + 1]
      /\ owner' = [Placed(gone, owner, 0) EXCEPT ![n] = t]
      /\ pc' = [pc EXCEPT ![n] = "factory"]
      /\ UNCHANGED <<root, shuttingDown, actorVars, revoked, sd, sdIds>>
  BY DEF SpawnChild, WithinLimits
<1>b. gone \in SUBSET Agent /\ \A m \in gone : Finished(lc, pending, m) /\ children[m] \subseteq gone
  BY RetiredFacts DEF Retired
<1> HIDE DEF gone
<1>c. n \notin gone /\ p \notin gone /\ n # p /\ lc[n] = "Absent" /\ Unborn(n)
  BY <1>0, <1>b DEF SpawnerInv, Unborn
<1>1. Typed'
  BY <1>0, <1>b, <1>c DEF Typed
<1>2. Topology'
  BY <1>0, <1>b, <1>c DEF Typed, Topology, Downwards, SpawnerInv, Unborn, Uncommitted
<1>3. Downwards'
  BY <1>0, <1>b, <1>c DEF Typed, Topology, Downwards, SpawnerInv, Unborn, Uncommitted
<1>4. SpawnerInv'
  BY <1>0, <1>b, <1>c DEF Typed, Topology, SpawnerInv, RunnerInv, ShutdownInv, Busy, ActorInv, Unborn, Uncommitted, Capacity
<1>5. RunnerInv'
  BY <1>0, <1>b, <1>c DEF Typed, SpawnerInv, RunnerInv, ActorInv, ShutdownInv, Busy, Unborn, Uncommitted, Capacity
<1>6. ActorInv'
  BY <1>0, <1>b, <1>c DEF Typed, SpawnerInv, RunnerInv, ActorInv, RootInv, ShutdownInv, Unborn, Uncommitted, Capacity
<1>7. Below'
  BY <1>0, <1>b, <1>c DEF Typed, Topology, SpawnerInv, RunnerInv, ActorInv, Below, RootInv, Unborn, Uncommitted, Capacity
<1>8. RootInv'
  <2>1. root # NoAgent /\ root \in Agent /\ root # n
    BY <1>0, <1>c DEF Typed, RootInv, Nodes, Unborn
  <2>2. pc[root] \notin {"factory", "spawned", "orphan"}
    BY <1>0, <2>1 DEF RootInv, Nodes, SpawnerInv, Uncommitted
  <2>3. parent'[root] = NoAgent /\ pc'[root] = pc[root]
    BY <1>0, <2>1 DEF Typed, RootInv
  <2> QED  BY <1>0, <2>1, <2>2, <2>3 DEF RootInv
<1>9. NodeLimit'
  <2>1. Nodes' = (Nodes \ gone) \cup {n} /\ n \notin Nodes \ gone
    BY <1>0, <1>b, <1>c DEF Typed, Nodes
  <2>2. IsFiniteSet(Nodes \ gone) /\ Cardinality(Nodes \ gone) < MaxLive
    BY <1>0, FS_Subset DEF NodeLimit
  <2>3. IsFiniteSet(Nodes') /\ Cardinality(Nodes') = Cardinality(Nodes \ gone) + 1
    BY <2>1, <2>2, FS_AddElement
  <2> QED  BY <2>2, <2>3, FS_CardinalityType DEF NodeLimit
<1>10. TurnInv'
  <2>1. \A m \in Agent : lc'[m] # "Absent" /\ <<parent'[m], owner'[m]>> \in revoked' => lc'[m] \in {"Closing", "Closed"}
    <3> SUFFICES ASSUME NEW m \in Agent, lc'[m] # "Absent", <<parent'[m], owner'[m]>> \in revoked'
                 PROVE  lc'[m] \in {"Closing", "Closed"}
      OBVIOUS
    <3>1. CASE m = n
      <4>1. <<p, t>> \in revoked
        BY <1>0, <1>b, <1>c, <3>1 DEF Typed
      <4>2. t # 0
        BY <4>1 DEF Typed, Turn
      <4> QED  BY <1>0, <4>1, <4>2 DEF TurnInv
    <3>2. CASE m # n
      BY <1>0, <1>b, <1>c, <3>2 DEF Typed, TurnInv
    <3> QED  BY <3>1, <3>2
  <2>2. \A a \in revoked' : a \notin active'
    BY <1>0 DEF TurnInv
  <2> QED  BY <1>0, <2>1, <2>2 DEF TurnInv
<1>11. ShutdownInv'
  BY <1>0, <1>b, <1>c DEF Typed, Nodes, SpawnerInv, RunnerInv, ShutdownInv, Busy, Unborn, Capacity
<1> QED  BY <1>1, <1>2, <1>3, <1>4, <1>5, <1>6, <1>7, <1>8, <1>9, <1>10, <1>11

-----------------------------------------------------------------------------
LEMMA InitGraph == ASSUME Init PROVE GraphInv
<1> USE GraphAssumption DEF Init
<1>1. Typed
  <2>1. 0 \in 0..MaxDepth /\ 0 \in 0..MaxTurn
    BY SMT
  <2>2. /\ depth \in [Agent -> 0..MaxDepth] /\ owner \in [Agent -> 0..MaxTurn]
        /\ turn \in [Agent -> 0..MaxTurn]
    BY <2>1
  <2>3. /\ pending \in [Agent -> BOOLEAN] /\ held \in [Agent -> BOOLEAN]
        /\ cancelOnCommit \in [Agent -> BOOLEAN] /\ slot \in [Agent -> BOOLEAN]
        /\ shuttingDown \in BOOLEAN
    BY Zenon
  <2> QED  BY <2>2, <2>3 DEF Typed
<1>6. Topology /\ Downwards
  BY DEF Topology, Downwards
<1>2. SpawnerInv /\ RunnerInv /\ ActorInv
  BY DEF SpawnerInv, RunnerInv, ActorInv, Unborn
<1>3. Below /\ RootInv
  BY DEF Below, RootInv, Nodes
<1>4. NodeLimit
  <2>1. Nodes = {}
    BY DEF Nodes
  <2> QED  BY <2>1, FS_EmptySet DEF NodeLimit
<1>5. TurnInv /\ ShutdownInv
  BY DEF TurnInv, ShutdownInv
<1> QED  BY <1>1, <1>2, <1>3, <1>4, <1>5, <1>6 DEF GraphInv

LEMMA StutterGraph == ASSUME GraphInv, UNCHANGED vars PROVE GraphInv'
  BY DEF vars, nodeVars, actorVars, callVars, GraphInv, Typed, Topology, Downwards, SpawnerInv, Unborn, Uncommitted,
         RunnerInv, ActorInv, Below, RootInv, NodeLimit, Nodes, TurnInv, ShutdownInv, Busy

LEMMA StepGraph == ASSUME GraphInv, [Next]_vars PROVE GraphInv'
<1>1. ASSUME NEW n \in Agent, Spawning(n) PROVE GraphInv'
  BY <1>1, CreateRootStep, RollbackSteps, FactoryReturnsStep, CommitActorStep, CommitRefusedStep,
     CloseCommittedStep, PublishCancelledStep, PublishRefusedStep, FinishFailedCommitStep DEF Spawning
<1>2. ASSUME NEW n \in Agent, Executing(n) PROVE GraphInv'
  BY <1>2, StartDroppedStep, RunnerExitsStep, WrapperMarksStep, WrapperReturnsStep, TurnStartsStep,
     EnterManagedTurnStep, EnterRefusedStep, CancellationObservedStep, TurnLeavesStep, TurnRetiresStep
     DEF Executing
<1>3. ASSUME NEW n \in Agent, Cutting(n) PROVE GraphInv'
  <2>1. CASE CancelCorrelation(n)
    <3>1. turn[n] \in Turn
      BY <2>1 DEF CancelCorrelation, GraphInv, TurnInv, Typed, Turn
    <3> QED  BY <2>1, <3>1, CancelTurnStep DEF CancelCorrelation
  <2> QED  BY <1>3, <2>1, CancelCutStep, CancelExistingStep, CloseSubtreeStep, CancelTurnStep, LocalCancelStep
           DEF Cutting
<1>4. ASSUME NEW p \in Agent, NEW n \in Agent, NEW t \in 0..MaxTurn, SpawnChild(p, n, t) PROVE GraphInv'
  BY <1>4, SpawnChildStep
<1>5. CASE RunnerFinished \/ Ending
  BY <1>5, RunnerFinishedStep, ShutdownStep, FinishNodesStep, TakeTasksStep, ReapScanStep DEF Ending
<1> QED  BY <1>1, <1>2, <1>3, <1>4, <1>5, StutterGraph DEF Next

LEMMA GraphAlways == Spec => []GraphInv
  BY InitGraph, StepGraph, PTL DEF Spec

-----------------------------------------------------------------------------
\* For any identities and limits: the graph is well typed, its children lists
\* and parent links agree, and no parent leaves before its children.
THEOREM GraphTypeCorrect == Spec => []TypeOK
<1>1. GraphInv => TypeOK
  BY DEF GraphInv, TypeOK
<1> QED  BY GraphAlways, <1>1, PTL

\* A closing cut reaches the whole subtree, at any depth, and no reservation,
\* commit or spawn that races it leaves a live node below.
THEOREM ClosingCorrect == Spec => []NoLiveBelowClosing
<1>1. ASSUME GraphInv PROVE NoLiveBelowClosing
  <2> SUFFICES ASSUME NEW n \in Agent, lc[n] = "Closing", NEW m \in Subtree(n)
               PROVE  lc[m] \in {"Closing", "Closed"}
    BY DEF NoLiveBelowClosing
  <2> DEFINE S == {k \in Agent : lc[k] \in {"Closing", "Closed"} /\ (k = root => k = n)}
  <2>1. n \in S /\ S \in SUBSET Agent
    OBVIOUS
  <2>2. ASSUME NEW k \in S, NEW c \in children[k] PROVE c \in S
    <3>1. c \in Agent /\ parent[c] = k
      BY <1>1 DEF GraphInv, Typed, Topology
    <3>2. c # root
      BY <1>1, <3>1, GraphAssumption DEF GraphInv, RootInv, Typed
    <3>3. k # root \/ lc[k] = "Closing"
      OBVIOUS
    <3> QED  BY <1>1, <3>1, <3>2, <3>3 DEF GraphInv, Below
  <2>3. Subtree(n) \subseteq S
    BY <2>1, <2>2, SubtreeLeast
  <2> QED  BY <2>3
<1> QED  BY GraphAlways, <1>1, PTL

\* No open actor and no runner outlives its node: the agents that run are
\* bounded by max_live_agents whatever commits, cuts and reclaims race.
THEOREM OrphanCorrect == Spec => []NoOrphanActor
<1>1. ASSUME GraphInv PROVE NoOrphanActor
  <2> DEFINE R == {n \in Agent : run[n] \in {"running", "exited"}}
  <2>1. R \subseteq Nodes
    BY <1>1 DEF GraphInv, RunnerInv, Nodes
  <2>2. IsFiniteSet(R) /\ Cardinality(R) <= Cardinality(Nodes)
    BY <1>1, <2>1, FS_Subset DEF GraphInv, NodeLimit
  <2>3. Cardinality(R) \in Nat /\ Cardinality(Nodes) \in Nat
    BY <1>1, <2>2, FS_CardinalityType DEF GraphInv, NodeLimit
  <2>4. Cardinality(R) <= MaxLive
    BY <1>1, <2>2, <2>3, GraphAssumption DEF GraphInv, NodeLimit
  <2> QED  BY <1>1, <2>4 DEF GraphInv, ActorInv, NoOrphanActor
<1> QED  BY GraphAlways, <1>1, PTL

\* A turn cancelled by id or correlation leaves no delegated agent behind, at
\* any depth below its children, and nothing is spawned in its name later.
THEOREM RevocationCorrect == Spec => []RevokedTurnHasNoChildren
<1>1. ASSUME GraphInv PROVE RevokedTurnHasNoChildren
  <2> SUFFICES ASSUME NEW n \in Agent, lc[n] # "Absent", <<parent[n], owner[n]>> \in revoked,
                      NEW m \in Subtree(n)
               PROVE  lc[m] \notin {"Reserved", "Live"}
    BY DEF RevokedTurnHasNoChildren
  <2> DEFINE S == {k \in Agent : lc[k] \in {"Closing", "Closed"} /\ k # root}
  <2>1. n \in S /\ S \in SUBSET Agent
    <3>1. parent[n] \in Agent
      BY <1>1 DEF GraphInv, Typed
    <3>2. n # root
      BY <1>1, <3>1, GraphAssumption DEF GraphInv, RootInv, Typed
    <3> QED  BY <1>1, <3>2 DEF GraphInv, TurnInv
  <2>2. ASSUME NEW k \in S, NEW c \in children[k] PROVE c \in S
    <3>1. c \in Agent /\ parent[c] = k
      BY <1>1 DEF GraphInv, Typed, Topology
    <3>2. c # root
      BY <1>1, <3>1, GraphAssumption DEF GraphInv, RootInv, Typed
    <3> QED  BY <1>1, <3>1, <3>2 DEF GraphInv, Below
  <2>3. Subtree(n) \subseteq S
    BY <2>1, <2>2, SubtreeLeast
  <2> QED  BY <2>3
<1> QED  BY GraphAlways, <1>1, PTL

\* When shutdown reports, or its reaper ends, no runner is running and no
\* spawner is between its critical sections.
THEOREM ShutdownCorrect == Spec => []ShutdownLeavesNoRunner
<1>1. GraphInv => ShutdownLeavesNoRunner
  BY DEF GraphInv, ShutdownInv, ShutdownLeavesNoRunner, Busy
<1> QED  BY GraphAlways, <1>1, PTL

\* What one step may do to the lifecycle of a node.
KeepsClosed ==
    \A n \in Agent :
       /\ lc[n] \in {"Closing", "Closed"} => lc'[n] \in {"Closing", "Closed", "Absent"}
       /\ lc[n] = "Absent" /\ pc[n] # "unborn" => lc'[n] = "Absent"

LEMMA ReclaimKeepsClosed ==
    ASSUME Typed, NEW l, NEW p, Reclaim(l, p),
           \A n \in Agent : l[n] = lc[n] \/ (lc[n] # "Absent" /\ l[n] = "Closed")
    PROVE  KeepsClosed
  BY DEF Reclaim, Drop, KeepsClosed, Typed

LEMMA SpawningKeepsClosed == ASSUME GraphInv, NEW n \in Agent, Spawning(n) PROVE KeepsClosed
<1> USE DEF GraphInv
<1>1. CASE CreateRoot(n)
  BY <1>1 DEF CreateRoot, KeepsClosed, Typed, SpawnerInv, Unborn
<1>2. CASE FactoryFails(n) \/ RollbackOrphan(n)
  BY <1>2 DEF FactoryFails, RollbackOrphan, RemoveReservation, Drop, nodeVars, KeepsClosed, Typed
<1>3. CASE CommitActor(n) \/ PublishCancelled(n)
  BY <1>3 DEF CommitActor, CanCommit, PublishCancelled, CanPublish, KeepsClosed, Typed
<1>4. CASE FinishFailedCommit(n)
  BY <1>4, ReclaimKeepsClosed DEF FinishFailedCommit
<1>5. CASE FactoryReturns(n) \/ CommitRefused(n) \/ CloseCommitted(n) \/ PublishRefused(n)
  BY <1>5 DEF FactoryReturns, CommitRefused, CloseCommitted, PublishRefused, nodeVars, KeepsClosed
<1> QED  BY <1>1, <1>2, <1>3, <1>4, <1>5 DEF Spawning

LEMMA ExecutingKeepsClosed == ASSUME GraphInv, NEW n \in Agent, Executing(n) PROVE KeepsClosed
<1> USE DEF GraphInv
<1>1. CASE WrapperMarks(n)
  <2> DEFINE l == [lc EXCEPT ![n] = IF @ = "Absent" THEN @ ELSE "Closed"]
  <2>1. \A m \in Agent : l[m] = lc[m] \/ (lc[m] # "Absent" /\ l[m] = "Closed")
    BY DEF Typed
  <2>2. Reclaim(l, pending)
    BY <1>1 DEF WrapperMarks
  <2> HIDE DEF l
  <2> QED  BY <2>1, <2>2, ReclaimKeepsClosed
<1>2. CASE ~WrapperMarks(n)
  BY <1>2 DEF Executing, StartDropped, RunnerExits, WrapperReturns, TurnStarts, EnterManagedTurn,
     EnterRefused, CancellationObserved, TurnLeaves, TurnRetires, nodeVars, KeepsClosed
<1> QED  BY <1>1, <1>2

LEMMA CuttingKeepsClosed == ASSUME GraphInv, NEW n \in Agent, Cutting(n) PROVE KeepsClosed
<1> USE DEF GraphInv
<1>1. ASSUME NEW subtree \in BOOLEAN, CancelCut(n, subtree) PROVE KeepsClosed
  BY <1>1 DEF CancelCut, KeepsClosed
<1>2. ASSUME NEW includeRoot \in BOOLEAN, CloseSubtree(n, includeRoot) PROVE KeepsClosed
  BY <1>2 DEF CloseSubtree, CloseNodes, Capacity, KeepsClosed
<1>3. ASSUME NEW t, CancelTurn(n, t) PROVE KeepsClosed
  BY <1>3 DEF CancelTurn, Capacity, KeepsClosed
<1>4. CASE CancelExisting(n) \/ LocalCancel(n)
  BY <1>4 DEF CancelExisting, LocalCancel, nodeVars, KeepsClosed
<1> QED  BY <1>1, <1>2, <1>3, <1>4 DEF Cutting, CancelCorrelation

LEMMA EndingKeepsClosed == ASSUME GraphInv, RunnerFinished \/ Ending PROVE KeepsClosed
<1> USE DEF GraphInv
<1>1. CASE RunnerFinished
  BY <1>1, ReclaimKeepsClosed DEF RunnerFinished
<1>2. CASE Shutdown
  BY <1>2 DEF Shutdown, Capacity, KeepsClosed
<1>3. CASE ShutdownPoll \/ ShutdownTimeout \/ ReapFinish
  <2> DEFINE l == [m \in Agent |-> IF m \in Done(sdIds) /\ lc[m] # "Absent" THEN "Closed" ELSE lc[m]]
  <2>1. \A m \in Agent : l[m] = lc[m] \/ (lc[m] # "Absent" /\ l[m] = "Closed")
    OBVIOUS
  <2>2. Reclaim(l, pending)
    BY <1>3 DEF ShutdownPoll, ShutdownTimeout, ReapFinish, FinishNodes
  <2> HIDE DEF l
  <2> QED  BY <2>1, <2>2, ReclaimKeepsClosed
<1>4. CASE TakeTasks \/ ReapScan
  BY <1>4 DEF TakeTasks, ReapScan, nodeVars, KeepsClosed
<1> QED  BY <1>1, <1>2, <1>3, <1>4 DEF Ending

LEMMA StepKeepsClosed == ASSUME GraphInv, [Next]_vars PROVE KeepsClosed
<1>1. ASSUME NEW p \in Agent, NEW n \in Agent, NEW t \in 0..MaxTurn, SpawnChild(p, n, t) PROVE KeepsClosed
  BY <1>1 DEF SpawnChild, Drop, KeepsClosed, GraphInv, Typed, SpawnerInv, Unborn
<1>2. CASE UNCHANGED vars
  BY <1>2 DEF vars, nodeVars, KeepsClosed
<1> QED  BY <1>1, <1>2, SpawningKeepsClosed, ExecutingKeepsClosed, CuttingKeepsClosed,
            EndingKeepsClosed DEF Next

\* shutting_down is never reset.
LEMMA ShutdownIsFinal == ASSUME shuttingDown, [Next]_vars PROVE shuttingDown'
<1>1. ASSUME NEW n \in Agent, Spawning(n) PROVE shuttingDown'
  BY <1>1 DEF Spawning, CreateRoot, FactoryFails, FactoryReturns, CommitActor, CommitRefused,
     RollbackOrphan, CloseCommitted, PublishCancelled, PublishRefused, FinishFailedCommit
<1>2. ASSUME NEW n \in Agent, Executing(n) PROVE shuttingDown'
  BY <1>2 DEF Executing, StartDropped, RunnerExits, WrapperMarks, WrapperReturns, TurnStarts,
     EnterManagedTurn, EnterRefused, CancellationObserved, TurnLeaves, TurnRetires
<1>3. ASSUME NEW n \in Agent, Cutting(n) PROVE shuttingDown'
  BY <1>3 DEF Cutting, CancelCut, CancelExisting, CloseSubtree, CancelTurn, CancelCorrelation,
     LocalCancel
<1>4. ASSUME NEW p \in Agent, NEW n \in Agent, NEW t \in 0..MaxTurn, SpawnChild(p, n, t) PROVE shuttingDown'
  BY <1>4 DEF SpawnChild
<1>5. CASE RunnerFinished \/ Ending
  BY <1>5 DEF RunnerFinished, Ending, Shutdown, ShutdownPoll, ShutdownTimeout, TakeTasks, ReapScan,
     ReapFinish
<1>6. CASE UNCHANGED vars
  BY <1>6 DEF vars
<1> QED  BY <1>1, <1>2, <1>3, <1>4, <1>5, <1>6 DEF Next

\* Nothing that was closed comes back, and nothing turns live once the manager
\* shuts down, whatever commit is still under way.
THEOREM RevivalCorrect == Spec => NoRevival
<1> DEFINE Step == \A n \in Agent :
        /\ lc[n] \in {"Closing", "Closed"} => lc'[n] \in {"Closing", "Closed", "Absent"}
        /\ lc[n] = "Absent" /\ pc[n] # "unborn" => lc'[n] = "Absent"
        /\ shuttingDown /\ lc[n] # "Live" => lc'[n] # "Live"
<1>1. ASSUME GraphInv, GraphInv', [Next]_vars PROVE Step
  <2>1. KeepsClosed
    BY <1>1, StepKeepsClosed
  <2>2. ASSUME NEW n \in Agent, shuttingDown PROVE lc'[n] # "Live"
    <3>1. shuttingDown'
      BY <1>1, <2>2, ShutdownIsFinal
    <3> QED  BY <1>1, <3>1 DEF GraphInv, ShutdownInv
  <2> QED  BY <2>1, <2>2 DEF KeepsClosed
<1>2. GraphInv /\ GraphInv' /\ [Next]_vars => [Step]_vars
  BY <1>1
<1> QED  BY GraphAlways, <1>2, PTL DEF Spec, NoRevival
=============================================================================
