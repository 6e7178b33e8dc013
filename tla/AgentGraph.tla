----------------------------- MODULE AgentGraph -----------------------------
(***************************************************************************)
(* The rooted graph of one agent manager (maki-agent/src/manager/mod.rs):  *)
(* reservation of a node under the limits, construction of its actor       *)
(* outside the graph lock, commit, rollback, cancellation and closing cuts *)
(* over a subtree, the children of a cancelled turn, reclaiming of closed  *)
(* nodes, shutdown and the reaper that takes over when it times out.       *)
(*                                                                         *)
(* One action is one critical section of the graph lock, or one step of a  *)
(* runner task.  What a thread keeps between two critical sections is      *)
(* `pc' (a spawner) and `sd', `sdIds' (the shutdown call and its reaper).   *)
(* Agent identities are generated fresh, so a reservation number always belongs to the node *)
(* it was drawn for and is not modelled.  The turn an actor executes is    *)
(* reduced to its slot (`state.active'), which cuts take, and its phase;   *)
(* AgentActor and TurnPermits have the detail.                             *)
(***************************************************************************)
EXTENDS Integers, FiniteSets

CONSTANTS
    Agent,        \* identities AgentId::generate may return
    NoAgent,      \* the parent of the root
    MaxDepth,     \* max_agent_depth
    MaxChildren,  \* max_children_per_agent
    MaxLive,      \* max_live_agents
    MaxTurn,      \* bound on the turns one actor executes
    MaxShutdown   \* bound on the calls of shutdown: 0 or 1

ASSUME GraphAssumption ==
    /\ NoAgent \notin Agent
    /\ MaxDepth \in Nat \ {0} /\ MaxChildren \in Nat \ {0}
    /\ MaxLive \in Nat \ {0} /\ MaxTurn \in Nat /\ MaxShutdown \in 0..1

VARIABLES
    lc,           \* lifecycle of the node; "Absent" when it is not in `nodes'
    parent, depth, children, owner,
    pending,      \* reservation_pending
    held,         \* the node holds its actor's task (`task.is_some()')
    cancelOnCommit,
    root,         \* root_id
    active,       \* keys of active_turns
    shuttingDown,
    pc,           \* where the thread that spawns this agent stands
    actor,        \* lifecycle of the actor
    run,          \* the runner task and the manager's wrapper around it
    turn, phase, slot,
    cutTurns,     \* turns with a retained Cancelled outcome
    revoked,      \* history: turns cancel_turn or cancel_correlation cut
    sd, sdIds

nodeVars == <<lc, parent, depth, children, owner, pending, held, cancelOnCommit>>
actorVars == <<actor, run, turn, phase, slot, cutTurns>>
callVars == <<pc, revoked, sd, sdIds>>
vars == <<nodeVars, root, active, shuttingDown, actorVars, callVars>>

Turn == 1..MaxTurn

Nodes == {n \in Agent : lc[n] # "Absent"}

\* GraphLifecycle::consumes_capacity
Capacity == {"Reserved", "Live", "Closing"}

\* Mutant of Subtree: only the direct children.
SubtreeOneLevel(n) == {n} \cup children[n]

\* subtree_ids: the nodes reached from n over the children lists, which are
\* the ones in every set that holds n and the children of its members.
Subtree(n) ==
    LET closed == {S \in SUBSET Agent : n \in S /\ \A m \in S : children[m] \subseteq S}
    IN  {m \in Agent : \A S \in closed : m \in S}

\* Every variable has its type.
Typed ==
    /\ lc \in [Agent -> {"Absent", "Reserved", "Live", "Closing", "Closed"}]
    /\ parent \in [Agent -> Agent \cup {NoAgent}]
    /\ depth \in [Agent -> 0..MaxDepth]
    /\ children \in [Agent -> SUBSET Agent]
    /\ owner \in [Agent -> 0..MaxTurn]
    /\ pending \in [Agent -> BOOLEAN] /\ held \in [Agent -> BOOLEAN]
    /\ cancelOnCommit \in [Agent -> BOOLEAN]
    /\ root \in Agent \cup {NoAgent}
    /\ active \subseteq Agent \X Turn
    /\ shuttingDown \in BOOLEAN
    /\ pc \in [Agent -> {"unborn", "factory", "spawned", "orphan", "cancelling",
                         "closing", "failed", "done"}]
    /\ actor \in [Agent -> {"none", "Open", "Closed", "Shutdown"}]
    /\ run \in [Agent -> {"none", "running", "exited", "marked", "finished"}]
    /\ turn \in [Agent -> 0..MaxTurn]
    /\ phase \in [Agent -> {"idle", "waiting", "entered", "leaving"}]
    /\ slot \in [Agent -> BOOLEAN]
    /\ cutTurns \subseteq Agent \X Turn
    /\ revoked \subseteq Agent \X Turn
    /\ sd \in {"idle", "polling", "taking", "reap", "reapFinish", "reapTake",
               "reported", "reaped"}
    /\ sdIds \subseteq Agent

\* The children lists are exactly the parent links of the present nodes, and a
\* parent is never reclaimed or rolled back before its children: otherwise a
\* subtree cut would miss nodes.
Topology ==
    \A n, m \in Agent :
       /\ m \in children[n] <=> (lc[m] # "Absent" /\ parent[m] = n)
       /\ m \in children[n] => lc[n] # "Absent"

\* The graph is well typed and its links agree.
TypeOK == Typed /\ Topology

Init ==
    /\ lc = [n \in Agent |-> "Absent"]
    /\ parent = [n \in Agent |-> NoAgent]
    /\ depth = [n \in Agent |-> 0]
    /\ children = [n \in Agent |-> {}]
    /\ owner = [n \in Agent |-> 0]
    /\ pending = [n \in Agent |-> FALSE] /\ held = [n \in Agent |-> FALSE]
    /\ cancelOnCommit = [n \in Agent |-> FALSE]
    /\ root = NoAgent /\ active = {} /\ shuttingDown = FALSE
    /\ pc = [n \in Agent |-> "unborn"]
    /\ actor = [n \in Agent |-> "none"] /\ run = [n \in Agent |-> "none"]
    /\ turn = [n \in Agent |-> 0] /\ phase = [n \in Agent |-> "idle"]
    /\ slot = [n \in Agent |-> FALSE]
    /\ cutTurns = {} /\ revoked = {}
    /\ sd = "idle" /\ sdIds = {}

-----------------------------------------------------------------------------
(* Cuts and reclaiming: what a critical section does to the nodes. *)

\* is_finished on the task the node holds.
TaskFinished(n) == held[n] /\ run[n] = "finished"

\* reclaim_finished_closings removes childless finished nodes until none is
\* left: a node goes when it and everything below it has finished.
Finished(l, p, n) ==
    /\ l[n] # "Absent" /\ ~p[n]
    /\ l[n] = "Closed" \/ (l[n] = "Closing" /\ TaskFinished(n))
Retired(l, p) == {n \in Agent : \A m \in Subtree(n) : Finished(l, p, m)}

\* What is left of the nodes when gone are dropped: they also leave the
\* children of their parents.
Drop(gone, l, kids) ==
    /\ lc' = [n \in Agent |-> IF n \in gone THEN "Absent" ELSE l[n]]
    /\ children' = [n \in Agent |-> IF n \in gone THEN {} ELSE kids[n] \ gone]
    /\ held' = [n \in Agent |-> held[n] /\ n \notin gone]
    /\ cancelOnCommit' = [n \in Agent |-> cancelOnCommit[n] /\ n \notin gone]

Placed(gone, f, none) == [n \in Agent |-> IF n \in gone THEN none ELSE f[n]]

\* The reclaim at the end of a critical section that set lc to l, pending to p.
Reclaim(l, p) ==
    LET gone == Retired(l, p) IN
    /\ Drop(gone, l, children)
    /\ parent' = Placed(gone, parent, NoAgent)
    /\ depth' = Placed(gone, depth, 0)
    /\ owner' = Placed(gone, owner, 0)
    /\ active' = {t \in active : t[1] \notin gone}
    /\ pending' = p

\* capture_close on the actors of S: the first terminal lifecycle wins and
\* the active slot is taken.
CaptureClose(S, lifecycle) ==
    LET cut == {n \in S : actor[n] = "Open"} IN
    /\ actor' = [n \in Agent |-> IF n \in cut THEN lifecycle ELSE actor[n]]
    /\ slot' = [n \in Agent |-> slot[n] /\ n \notin cut]

\* Nodes whose actor a graph operation can reach (node.actor.is_some()): the
\* commit published it under the lock.
Published(n) == pc[n] \notin {"unborn", "factory", "spawned", "orphan"}

\* capture_subtree_locked over the nodes S: every node that still consumes
\* capacity turns Closing, and its actor, if it has one, is closed.
CloseNodes(S) ==
    LET cut == {n \in S : lc[n] \in Capacity} IN
    /\ lc' = [n \in Agent |-> IF n \in cut THEN "Closing" ELSE lc[n]]
    /\ CaptureClose({n \in cut : Published(n)}, "Closed")

-----------------------------------------------------------------------------
(* Reservation, factory, commit and rollback. *)

\* create_root_inner, the first critical section.
CreateRoot(n) ==
    /\ pc[n] = "unborn" /\ ~shuttingDown /\ root = NoAgent
    /\ root' = n
    /\ lc' = [lc EXCEPT ![n] = "Reserved"]
    /\ pending' = [pending EXCEPT ![n] = TRUE]
    /\ pc' = [pc EXCEPT ![n] = "factory"]
    /\ UNCHANGED <<parent, depth, children, owner, held, cancelOnCommit, active,
                   shuttingDown, actorVars, revoked, sd, sdIds>>

\* The three limits, checked after a reclaim: depth, direct children and
\* retained nodes (nodes.len(), tombstones included).
WithinLimits(p, gone) ==
    /\ depth[p] + 1 <= MaxDepth
    /\ Cardinality(children[p] \ gone) < MaxChildren
    /\ Cardinality(Nodes \ gone) < MaxLive

\* spawn_child_inner, the first critical section: t is the turn whose
\* capability the caller presents, 0 for the trusted host path.
SpawnChild(p, n, t) ==
    LET gone == Retired(lc, pending) IN
    /\ pc[n] = "unborn" /\ ~shuttingDown
    /\ t = 0 \/ <<p, t>> \in active
    /\ lc[p] = "Live" /\ actor[p] = "Open"
    /\ WithinLimits(p, gone)
    /\ Drop(gone, [lc EXCEPT ![n] = "Reserved"], [children EXCEPT ![p] = @ \cup {n}])
    /\ active' = {a \in active : a[1] \notin gone}
    /\ pending' = [pending EXCEPT ![n] = TRUE]
    /\ parent' = [Placed(gone, parent, NoAgent) EXCEPT ![n] = p]
    /\ depth' = [Placed(gone, depth, 0) EXCEPT ![n] = depth[p] + 1]
    /\ owner' = [Placed(gone, owner, 0) EXCEPT ![n] = t]
    /\ pc' = [pc EXCEPT ![n] = "factory"]
    /\ UNCHANGED <<root, shuttingDown, actorVars, revoked, sd, sdIds>>

\* runner_finished, and a spawn that is refused: only the reclaim remains.
RunnerFinished ==
    /\ Reclaim(lc, pending)
    /\ UNCHANGED <<root, shuttingDown, actorVars,
                   callVars>>

\* Mutant of RemoveReservation: the parent keeps the edge.
RemoveReservationKeepsEdge(n) ==
    /\ lc' = [lc EXCEPT ![n] = "Absent"]
    /\ pending' = [pending EXCEPT ![n] = FALSE]
    /\ root' = IF root = n THEN NoAgent ELSE root
    /\ UNCHANGED <<children, held, cancelOnCommit, parent, depth, owner>>

\* rollback_reservation: the reserved node leaves the graph; no reclaim.
RemoveReservation(n) ==
    /\ Drop({n}, lc, children)
    /\ parent' = Placed({n}, parent, NoAgent)
    /\ depth' = Placed({n}, depth, 0)
    /\ owner' = Placed({n}, owner, 0)
    /\ root' = IF root = n THEN NoAgent ELSE root
    /\ pending' = [pending EXCEPT ![n] = FALSE]

\* The factory returned an error or panicked.
FactoryFails(n) ==
    /\ pc[n] = "factory"
    /\ pc' = [pc EXCEPT ![n] = "done"]
    /\ RemoveReservation(n)
    /\ UNCHANGED <<active, shuttingDown, actorVars, revoked, sd, sdIds>>

\* The factory returned a backend; commit_actor spawns the actor and its
\* wrapped runner before it takes the graph lock.
FactoryReturns(n) ==
    /\ pc[n] = "factory"
    /\ pc' = [pc EXCEPT ![n] = "spawned"]
    /\ actor' = [actor EXCEPT ![n] = "Open"]
    /\ run' = [run EXCEPT ![n] = "running"]
    /\ UNCHANGED <<nodeVars, root, active, shuttingDown, turn, phase, slot, cutTurns,
                   revoked, sd, sdIds>>

CanCommit(n) == pending[n] /\ lc[n] \in {"Reserved", "Closing"}

\* commit_actor, the critical section that installs actor and task: the node
\* is published Live unless it is closing or was cut while reserved.
CommitActor(n) ==
    /\ pc[n] = "spawned" /\ CanCommit(n)
    /\ held' = [held EXCEPT ![n] = TRUE]
    /\ cancelOnCommit' = [cancelOnCommit EXCEPT ![n] = FALSE]
    /\ pc' = [pc EXCEPT ![n] = IF lc[n] = "Closing" THEN "closing"
                               ELSE IF cancelOnCommit[n] THEN "cancelling" ELSE "done"]
    /\ LET live == lc[n] = "Reserved" /\ ~cancelOnCommit[n] IN
       /\ lc' = [lc EXCEPT ![n] = IF live THEN "Live" ELSE @]
       /\ pending' = [pending EXCEPT ![n] = ~live]
    /\ UNCHANGED <<parent, depth, children, owner, root, active, shuttingDown, actorVars,
                   revoked, sd, sdIds>>

\* The node cannot be committed: the actor is shut down and its task detached.
CommitRefused(n) ==
    /\ pc[n] = "spawned" /\ ~CanCommit(n)
    /\ CaptureClose({n}, "Shutdown")
    /\ pc' = [pc EXCEPT ![n] = "orphan"]
    /\ UNCHANGED <<nodeVars, root, active, shuttingDown, run, turn, phase, cutTurns,
                   revoked, sd, sdIds>>

\* ... and the reservation, if it is still there, is rolled back.
RollbackOrphan(n) ==
    /\ pc[n] = "orphan"
    /\ pc' = [pc EXCEPT ![n] = "done"]
    /\ IF lc[n] # "Absent" /\ pending[n]
       THEN RemoveReservation(n)
       ELSE UNCHANGED <<nodeVars, root>>
    /\ UNCHANGED <<active, shuttingDown, actorVars, revoked, sd, sdIds>>

\* Mutant of CloseCommitted: the fresh actor is not closed.
CloseCommittedLeaks(n) ==
    /\ pc[n] = "closing"
    /\ pc' = [pc EXCEPT ![n] = "failed"]
    /\ UNCHANGED <<nodeVars, root, active, shuttingDown, actorVars, revoked, sd, sdIds>>

\* The node was closed while its factory ran: the fresh actor is closed too.
CloseCommitted(n) ==
    /\ pc[n] = "closing"
    /\ CaptureClose({n}, IF shuttingDown THEN "Shutdown" ELSE "Closed")
    /\ pc' = [pc EXCEPT ![n] = "failed"]
    /\ UNCHANGED <<nodeVars, root, active, shuttingDown, run, turn, phase, cutTurns,
                   revoked, sd, sdIds>>

\* Mutant of CanPublish: the node is not checked again.
CanPublishUnchecked(n) == pending[n] /\ held[n]

\* The second critical section of commit_actor, after cancel_existing on the
\* fresh actor: publish unless the node was closed in between.
CanPublish(n) == ~shuttingDown /\ pending[n] /\ lc[n] = "Reserved" /\ held[n]

PublishCancelled(n) ==
    /\ pc[n] = "cancelling" /\ CanPublish(n)
    /\ lc' = [lc EXCEPT ![n] = "Live"]
    /\ pending' = [pending EXCEPT ![n] = FALSE]
    /\ pc' = [pc EXCEPT ![n] = "done"]
    /\ UNCHANGED <<parent, depth, children, owner, held, cancelOnCommit, root, active,
                   shuttingDown, actorVars, revoked, sd, sdIds>>

PublishRefused(n) ==
    /\ pc[n] = "cancelling" /\ ~CanPublish(n)
    /\ pc' = [pc EXCEPT ![n] = "closing"]
    /\ UNCHANGED <<nodeVars, root, active, shuttingDown, actorVars, revoked,
                   sd, sdIds>>

\* Mutant of FinishFailedCommit: the reservation stays pending.
FinishFailedCommitPending(n) ==
    /\ pc[n] = "failed"
    /\ pc' = [pc EXCEPT ![n] = "done"]
    /\ Reclaim(lc, pending)
    /\ UNCHANGED <<root, shuttingDown, actorVars, revoked, sd, sdIds>>

\* finish_failed_commit.
FinishFailedCommit(n) ==
    /\ pc[n] = "failed"
    /\ pc' = [pc EXCEPT ![n] = "done"]
    /\ Reclaim(lc, [pending EXCEPT ![n] = FALSE])
    /\ UNCHANGED <<root, shuttingDown, actorVars,
                   revoked, sd, sdIds>>

-----------------------------------------------------------------------------
(* The actor's runner and the turns it executes. *)

\* A deferred root whose start signal is dropped closes its own actor,
\* possibly before it is committed, without telling the graph.
StartDropped(n) ==
    /\ n = root /\ actor[n] = "Open" /\ turn[n] = 0
    /\ CaptureClose({n}, "Closed")
    /\ UNCHANGED <<nodeVars, root, active, shuttingDown, run, turn, phase, cutTurns,
                   callVars>>

\* The runner sees the terminal lifecycle and exits.
RunnerExits(n) ==
    /\ run[n] = "running" /\ actor[n] # "Open" /\ phase[n] = "idle"
    /\ run' = [run EXCEPT ![n] = "exited"]
    /\ UNCHANGED <<nodeVars, root, active, shuttingDown, actor, turn, phase, slot,
                   cutTurns, callVars>>

\* The wrapper's critical section after the runner's exit.
WrapperMarks(n) ==
    /\ run[n] = "exited"
    /\ run' = [run EXCEPT ![n] = "marked"]
    /\ Reclaim([lc EXCEPT ![n] = IF @ = "Absent" THEN @ ELSE "Closed"], pending)
    /\ UNCHANGED <<root, shuttingDown, actor, turn,
                   phase, slot, cutTurns, callVars>>

\* The wrapper returns: its task is finished.
WrapperReturns(n) ==
    /\ run[n] = "marked"
    /\ run' = [run EXCEPT ![n] = "finished"]
    /\ UNCHANGED <<nodeVars, root, active, shuttingDown, actor, turn, phase, slot,
                   cutTurns, callVars>>

\* The runner takes an admitted turn and installs its slot.
TurnStarts(n) ==
    /\ run[n] = "running" /\ actor[n] = "Open" /\ pc[n] = "done"
    /\ phase[n] = "idle" /\ turn[n] < MaxTurn
    /\ turn' = [turn EXCEPT ![n] = @ + 1]
    /\ phase' = [phase EXCEPT ![n] = "waiting"]
    /\ slot' = [slot EXCEPT ![n] = TRUE]
    /\ UNCHANGED <<nodeVars, root, active, shuttingDown, actor, run, cutTurns, callVars>>

\* Mutant of CanRegister: the slot may already have been cut.
CanRegisterCut(n) == ~shuttingDown /\ lc[n] = "Live" /\ actor[n] = "Open"

\* enter_managed_turn: the registration and its checks under both locks.
CanRegister(n) == ~shuttingDown /\ lc[n] = "Live" /\ actor[n] = "Open" /\ slot[n]

EnterManagedTurn(n) ==
    /\ phase[n] = "waiting" /\ CanRegister(n)
    /\ phase' = [phase EXCEPT ![n] = "entered"]
    /\ active' = active \cup {<<n, turn[n]>>}
    /\ UNCHANGED <<nodeVars, root, shuttingDown, actor, run, turn, slot, cutTurns, callVars>>

EnterRefused(n) ==
    /\ phase[n] = "waiting" /\ ~CanRegister(n)
    /\ phase' = [phase EXCEPT ![n] = "leaving"]
    /\ UNCHANGED <<nodeVars, root, active, shuttingDown, actor, run, turn, slot, cutTurns,
                   callVars>>

\* ManagedExecutionFuture::poll observes the cancellation of its turn.
CancellationObserved(n) ==
    /\ phase[n] = "entered" /\ ~slot[n] /\ <<n, turn[n]>> \in active
    /\ active' = active \ {<<n, turn[n]>>}
    /\ UNCHANGED <<nodeVars, root, shuttingDown, actorVars, callVars>>

\* The execution ends and drops its ManagedTurnGuard.
TurnLeaves(n) ==
    /\ phase[n] = "entered"
    /\ phase' = [phase EXCEPT ![n] = "leaving"]
    /\ active' = active \ {<<n, turn[n]>>}
    /\ UNCHANGED <<nodeVars, root, shuttingDown, actor, run, turn, slot, cutTurns, callVars>>

\* The turn is retired; it was cut iff its slot is gone.
TurnRetires(n) ==
    /\ phase[n] = "leaving"
    /\ phase' = [phase EXCEPT ![n] = "idle"]
    /\ slot' = [slot EXCEPT ![n] = FALSE]
    /\ cutTurns' = IF slot[n] THEN cutTurns ELSE cutTurns \cup {<<n, turn[n]>>}
    /\ UNCHANGED <<nodeVars, root, active, shuttingDown, actor, run, turn, callVars>>

-----------------------------------------------------------------------------
(* Cancellation and closing of agents, subtrees and turns. *)

\* capture_cancel_cut, for the agent alone or for its subtree: reserved nodes
\* are marked.  The actors of the others are cancelled one by one after the
\* unlock, at times nothing ties to the cut any more: see CancelExisting.
CancelCut(n, subtree) ==
    LET cut == (IF subtree THEN Subtree(n) ELSE {n}) \cap Nodes IN
    /\ lc[n] \in Capacity
    /\ cancelOnCommit' = [m \in Agent |->
            cancelOnCommit[m] \/ (m \in cut /\ lc[m] = "Reserved")]
    /\ UNCHANGED <<lc, parent, depth, children, owner, pending, held, root, active,
                   shuttingDown, actorVars, callVars>>

\* cancel_existing on an actor a graph cut captured, or through its handle:
\* it cuts what runs now, and leaves the authority of the turn alone.
CancelExisting(n) ==
    /\ Published(n) /\ slot[n]
    /\ slot' = [slot EXCEPT ![n] = FALSE]
    /\ UNCHANGED <<nodeVars, root, active, shuttingDown, actor, run, turn, phase, cutTurns,
                   callVars>>

\* close_subtree and close_descendants.
CloseSubtree(n, includeRoot) ==
    /\ lc[n] \in Capacity
    /\ CloseNodes(IF includeRoot THEN Subtree(n) ELSE Subtree(n) \ {n})
    /\ UNCHANGED <<parent, depth, children, owner, pending, held, cancelOnCommit, root,
                   active, shuttingDown, run, turn, phase, cutTurns, callVars>>

\* The direct children a turn delegated to that still consume capacity, and
\* everything below them.
TurnChildren(n, t) ==
    UNION {Subtree(m) : m \in {c \in children[n] : owner[c] = t /\ lc[c] \in Capacity}}

\* cancel_turn: actor cut, loss of authority and the closing of the children
\* the turn delegated to, in one critical section.  A turn that was already
\* retired as cancelled still takes its children with it.
CancelTurn(n, t) ==
    /\ lc[n] \in Capacity /\ Published(n) /\ actor[n] = "Open"
    /\ (phase[n] # "idle" /\ turn[n] = t) \/ <<n, t>> \in cutTurns
    /\ LET cut == {m \in TurnChildren(n, t) : lc[m] \in Capacity}
           closing == {m \in cut : Published(m) /\ actor[m] = "Open"} IN
       /\ lc' = [m \in Agent |-> IF m \in cut THEN "Closing" ELSE lc[m]]
       /\ actor' = [m \in Agent |-> IF m \in closing THEN "Closed" ELSE actor[m]]
       /\ slot' = [m \in Agent |-> slot[m] /\ m \notin closing /\ (m = n => turn[n] # t)]
    /\ active' = active \ {<<n, t>>}
    /\ revoked' = revoked \cup {<<n, t>>}
    /\ UNCHANGED <<parent, depth, children, owner, pending, held, cancelOnCommit, root,
                   shuttingDown, run, turn, phase, cutTurns, pc, sd, sdIds>>

\* cancel_correlation when the active run matches: like cancel_turn, for the
\* turn that holds the slot.
CancelCorrelation(n) == slot[n] /\ CancelTurn(n, turn[n])

\* local_cancel: the running turn and its authority, not its children.
LocalCancel(n) ==
    /\ lc[n] \in Capacity /\ Published(n) /\ actor[n] = "Open" /\ phase[n] # "idle"
    /\ slot' = [slot EXCEPT ![n] = FALSE]
    /\ active' = active \ {<<n, turn[n]>>}
    /\ UNCHANGED <<nodeVars, root, shuttingDown, actor, run, turn, phase, cutTurns, callVars>>

-----------------------------------------------------------------------------
(* Shutdown and the reaper. *)

\* The critical section of shutdown.  The finished tasks of tombstones are
\* taken out to be joined.
Shutdown ==
    LET ids == {n \in Nodes : lc[n] \in Capacity \/ pending[n]
                              \/ (held[n] /\ run[n] # "finished")} IN
    /\ MaxShutdown > 0 /\ sd = "idle" /\ sd' = "polling" /\ sdIds' = ids
    /\ CaptureClose({n \in ids : Published(n)}, "Shutdown")
    /\ shuttingDown' = TRUE
    /\ lc' = [n \in Agent |-> IF n \in ids /\ lc[n] \in Capacity THEN "Closing" ELSE lc[n]]
    /\ held' = [n \in Agent |-> held[n] /\ ~(lc[n] = "Closed" /\ ~pending[n] /\ TaskFinished(n))]
    /\ UNCHANGED <<parent, depth, children, owner, pending, cancelOnCommit, root, active,
                   run, turn, phase, cutTurns, pc, revoked>>

\* Mutant of Done: a pending commit is not waited for.
DoneIgnoringPending(ids) == {n \in ids : lc[n] = "Absent" \/ (held[n] => run[n] = "finished")}

\* finished_nodes(ids): the nodes that are gone or whose runner is joined.
Done(ids) == {n \in ids : lc[n] = "Absent" \/ (~pending[n] /\ (held[n] => run[n] = "finished"))}

FinishNodes(ids) ==
    Reclaim([n \in Agent |-> IF n \in Done(ids) /\ lc[n] # "Absent" THEN "Closed" ELSE lc[n]],
            pending)

\* One poll of the shutdown loop.
ShutdownPoll ==
    /\ sd = "polling"
    /\ sd' = IF Done(sdIds) = sdIds THEN "taking" ELSE "polling"
    /\ FinishNodes(sdIds)
    /\ UNCHANGED <<root, shuttingDown, actorVars, pc,
                   revoked, sdIds>>

\* The poll at the deadline: the rest is left to the reaper.
ShutdownTimeout ==
    /\ sd = "polling" /\ Done(sdIds) # sdIds /\ sd' = "reap"
    /\ FinishNodes(sdIds)
    /\ UNCHANGED <<root, shuttingDown, actorVars, pc,
                   revoked, sdIds>>

\* take_finished_tasks, at the end of shutdown or in a round of the reaper.
TakeTasks ==
    /\ sd \in {"taking", "reapTake"}
    /\ sd' = IF sd = "taking" THEN "reported" ELSE "reap"
    /\ held' = [n \in Agent |-> held[n] /\ n \notin sdIds]
    /\ sdIds' = {}
    /\ UNCHANGED <<lc, parent, depth, children, owner, pending, cancelOnCommit, root, active,
                   shuttingDown, actorVars, pc, revoked>>

\* reap_shutdown, a round: what is still pending ...
ReapScan ==
    LET left == {n \in Nodes : pending[n] \/ held[n]} IN
    /\ sd = "reap"
    /\ sd' = IF left = {} THEN "reaped" ELSE "reapFinish"
    /\ sdIds' = left
    /\ UNCHANGED <<nodeVars, root, active, shuttingDown, actorVars, pc, revoked>>

\* ... and which of it has finished.
ReapFinish ==
    /\ sd = "reapFinish"
    /\ sd' = IF Done(sdIds) = {} THEN "reap" ELSE "reapTake"
    /\ sdIds' = Done(sdIds)
    /\ FinishNodes(sdIds)
    /\ UNCHANGED <<root, shuttingDown, actorVars, pc,
                   revoked>>

-----------------------------------------------------------------------------
Spawning(n) ==
    \/ CreateRoot(n) \/ FactoryFails(n) \/ FactoryReturns(n) \/ CommitActor(n)
    \/ CommitRefused(n) \/ RollbackOrphan(n) \/ CloseCommitted(n)
    \/ PublishCancelled(n) \/ PublishRefused(n) \/ FinishFailedCommit(n)

Executing(n) ==
    \/ StartDropped(n) \/ RunnerExits(n) \/ WrapperMarks(n) \/ WrapperReturns(n)
    \/ TurnStarts(n) \/ EnterManagedTurn(n) \/ EnterRefused(n)
    \/ CancellationObserved(n) \/ TurnLeaves(n) \/ TurnRetires(n)

Cutting(n) ==
    \/ \E subtree \in BOOLEAN : CancelCut(n, subtree)
    \/ CancelExisting(n)
    \/ \E includeRoot \in BOOLEAN : CloseSubtree(n, includeRoot)
    \/ \E t \in Turn : CancelTurn(n, t)
    \/ CancelCorrelation(n) \/ LocalCancel(n)

Ending ==
    Shutdown \/ ShutdownPoll \/ ShutdownTimeout \/ TakeTasks \/ ReapScan \/ ReapFinish

Next ==
    \/ \E n \in Agent : Spawning(n) \/ Executing(n) \/ Cutting(n)
    \/ \E p, n \in Agent : \E t \in 0..MaxTurn : SpawnChild(p, n, t)
    \/ RunnerFinished
    \/ Ending

\* What the code schedules: a factory returns and the thread that spawns goes
\* on; the runner and its wrapper are polled; a turn whose slot was cut ends;
\* shutdown and its reaper keep polling.
SpawnerMoves(n) ==
    \/ FactoryFails(n) \/ FactoryReturns(n) \/ CommitActor(n) \/ CommitRefused(n)
    \/ RollbackOrphan(n) \/ CloseCommitted(n) \/ PublishCancelled(n)
    \/ PublishRefused(n) \/ FinishFailedCommit(n)
TaskMoves(n) == RunnerExits(n) \/ WrapperMarks(n) \/ WrapperReturns(n)
TurnMoves(n) == EnterRefused(n) \/ (~slot[n] /\ TurnLeaves(n)) \/ TurnRetires(n)
ShutdownMoves == ShutdownPoll \/ TakeTasks \/ ReapScan \/ ReapFinish

Fairness ==
    /\ \A n \in Agent :
        WF_vars(SpawnerMoves(n)) /\ WF_vars(TaskMoves(n)) /\ WF_vars(TurnMoves(n))
    /\ WF_vars(ShutdownMoves)

Spec == Init /\ [][Next]_vars
LiveSpec == Spec /\ Fairness

-----------------------------------------------------------------------------
(* Properties. *)

\* Nothing lives below a closing node: a closing cut reaches every descendant,
\* also the ones whose factory is still running, and no commit or spawn slips
\* a node beneath it afterwards (commit_actor's and spawn_child_inner's
\* lifecycle checks under the graph lock).
NoLiveBelowClosing ==
    \A n \in Agent : lc[n] = "Closing" =>
        \A m \in Subtree(n) : lc[m] \in {"Closing", "Closed"}

\* No open actor escapes the graph: an actor that can still take work belongs
\* to a node that consumes capacity, and once its spawner is through, to a
\* live one, so every failed commit must close what it spawned.  Nor does a
\* runner: a node is reclaimed, and its capacity reused, only once its runner
\* is through, so that max_live_agents bounds the runner tasks as well.
NoOrphanActor ==
    /\ \A n \in Agent : actor[n] = "Open" =>
          /\ lc[n] \in Capacity
          /\ pc[n] = "done" => lc[n] = "Live"
    /\ Cardinality({n \in Agent : run[n] \in {"running", "exited"}}) <= MaxLive

\* A turn that cancel_turn (or cancel_correlation) cut leaves no delegated
\* child behind: nothing in the subtrees of its children is live or reserved,
\* and none can be spawned in its name later.
RevokedTurnHasNoChildren ==
    \A n \in Agent : lc[n] # "Absent" /\ <<parent[n], owner[n]>> \in revoked =>
        \A m \in Subtree(n) : lc[m] \notin {"Reserved", "Live"}

\* When shutdown reports success, or its reaper ends, no runner of any agent
\* is left running, one spawned by a commit that raced the shutdown included.
ShutdownLeavesNoRunner ==
    sd \in {"reported", "reaped"} =>
        \A n \in Agent : run[n] \notin {"running", "exited"} /\ pc[n] \in {"unborn", "done"}

\* A node that was closed never comes back, and once the manager shuts down
\* no node turns live.
NoRevival ==
    [][\A n \in Agent :
        /\ lc[n] \in {"Closing", "Closed"} => lc'[n] \in {"Closing", "Closed", "Absent"}
        /\ lc[n] = "Absent" /\ pc[n] # "unborn" => lc'[n] = "Absent"
        /\ shuttingDown /\ lc[n] # "Live" => lc'[n] # "Live"]_vars

\* A closing node gives its capacity back: the commit it races, its turn and
\* its runner all come to an end and the wrapper retires it.  Identities are
\* finitely many and none closes twice, so no node stays closing for ever iff
\* there is always a later moment without a closing node.
CloseSettles == []<>(\A n \in Agent : lc[n] # "Closing")

\* A shutdown ends, by its own join or by the reaper it hands over to (both
\* the start and the end are for good).
ShutdownCompletes == []<>(shuttingDown => sd \in {"reported", "reaped"})

\* What is being closed gets closed, one node or the whole graph.
ClosesAndShutdownEnd == CloseSettles /\ ShutdownCompletes

\* docs/agent-invariants.md, 38: "Reserved and closing nodes consume capacity;
\* settled closed/removed nodes do not."  So spawn_child_inner would admit a
\* child below a live agent whenever fewer nodes than the limits allow consume
\* capacity.  It counts every retained node instead, closed ones included.
ClosedConsumesNoCapacity ==
    LET consuming(S) == Cardinality({n \in S : lc[n] \in Capacity}) IN
    \A p \in Agent :
        (/\ lc[p] = "Live" /\ actor[p] = "Open" /\ depth[p] < MaxDepth
         /\ consuming(children[p]) < MaxChildren /\ consuming(Agent) < MaxLive)
        => WithinLimits(p, Retired(lc, pending))
=============================================================================
