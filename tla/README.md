# makima: the agent runtime in TLA+

makima is a coding agent. Its core is `maki-agent`: actors that own one conversation each, a
manager that owns the graph of actors and the global turn limit, and the session layer that makes
configuration and history durable. This directory holds TLA+ models of that core, the TLC
configurations that check them on small instances, and TLAPS proofs for every value of the
constants. The reference is the code; `docs/agent-invariants.md` and `docs/agent-system.md` supply
what the code is supposed to guarantee.

## Inventory

| Component | State | Operations | Interaction | What makes it correct |
|---|---|---|---|---|
| Actor (`actor/mod.rs`, `queue.rs`, `tickets.rs`, `idle.rs`) | `ActorState` behind one mutex, the execution queue behind another, ticket and outcome maps | admit a turn, push a control or a compaction, remove, clear, cancel (turn, correlation, all), close, shutdown, wait | callers on any thread; a preparation task per turn; observers get events | one outcome per admitted turn, one resolution, one End; no turn lost by a cut; FIFO; Close last |
| Runner (`actor/runner.rs`) | popped work, the active slot, the wake flag | pop, install, wait for a permit, run the backend, settle, wait, exit | shares the actor's locks | no lost wakeup, every turn resolves, exits after close |
| Turn inbox (`actor/inbox.rs`) | instructions joined to a running turn | submit, drain, finish, remove | submitters race the finishing turn | no joined instruction dropped |
| Delivery (`actor/delivery.rs`) | child results waiting for their parent | enqueue, schedule, consume, withdraw | child actor to parent actor | each result delivered at most once, never lost while wanted |
| Prepared operations, history edits (`actor/prepared.rs`, `history_edit.rs`) | the prepared head, publication claim | reserve, resolve, commit, cancel | with storage checkpoints | actor commits only after the claim; invalidation before it leaves everything unchanged |
| Manager (`manager/mod.rs`) | graph of nodes, limits, permit semaphore, leases | spawn (reserve, build, commit), wait, suspend, cancel, close, shutdown | with every actor and its runner | limits hold, closed branches admit nothing, permits never exceed the limit, no wait deadlock |
| Session layer (`session_coordinator.rs`, `session_checkpoint.rs`, `config_change.rs`, `checkpoint.rs` of `maki-storage`) | pending changes, checkpoint publication | queue a change, claim, publish | actor, storage | file, actor and caller agree on what was published |
| Session lock (`maki-storage/src/session_lock.rs`, used by `maki-acp/src/server.rs`) | two lock files, a heartbeat thread per lease | claim, beat, release, publish under the lease | processes on one disk, crashes | one writer per session; a lost lease is noticed |
| Storage (`maki-storage`) | session log and its index | save, load, list | one writer at a time by the lock | out of scope: file formats |
| Agent loop, tools, MCP, providers | one run's locals | stream, dispatch tools | backend of an actor | out of scope: I/O |
| Frontends (`maki-ui`, `maki-acp`, `headless.rs`, Lua) | presentation | | clients of the above | out of scope |

What is hard here is concurrency: an actor's state lock is released between the cut that removes
work and the finalization of that work, between the queue pop and the install of the active turn,
and between retaining an outcome and publishing it. Every party (several callers, the runner,
preparation tasks) may act in each of those gaps. The manager releases its graph lock while a factory
builds an actor, a submission checks its constraint without the lock, a publication runs while the
actor it belongs to is closed, and processes share a session through files that a crash leaves half
written. `PROJECT.json` lists these hazards at their lines.

## Modules

| Module | Models | Used by |
|---|---|---|
| `AgentActor` | actor and runner, one action per critical section | everything below |
| `TurnLedger` | abstract promise of an actor to ticket holders | instantiated by `AgentActor` as `Ledger` |
| `MCAgentActor` | symmetry set for TLC | `races`, `live` |
| `AgentActorProofs` | type correctness, the inductive ledger invariant and its consequences, finality of the terminal lifecycle, the refinement of `TurnLedger` | `AgentOwnershipProofs` |
| `AgentOwnershipProofs` | who holds a turn, who cuts it, who moves it on | |
| `TurnPermits` | the manager's turn permits, leases, suspensions and prompt waits | everything below |
| `MCTurnPermits` | the pair of agents its runs use | `permits`, `permits_live` |
| `TurnPermitsProofs` | the inductive permit invariant and its consequences | |
| `AgentGraph`, `MCAgentGraph` | the manager's graph: spawning, limits, cuts, reclaiming, shutdown | `graph_cuts`, `graph_live` |
| `AgentGraphProofs` | the inductive graph invariant and its consequences | |
| `ChildDelivery`, `MCChildDelivery` | a child's report on its way into the parent's history; `wait_settled` | the three `delivery` runs |
| `ChildDeliveryProofs` | the inductive delivery invariant and its consequences | |
| `TurnInbox`, `MCTurnInbox` | submissions that join a turn, among compactions, configuration changes and cuts | `inbox_joins` |
| `TurnInboxProofs` | the inductive inbox invariant and its consequences | |
| `PreparedOps`, `MCPreparedOps` | prepared operations, durable publication, history edits, idle guards | `prepared_publish` |
| `PreparedOpsProofs` | the inductive invariant of prepared operations and its consequences | |
| `SessionLease`, `MCSessionLease` | the cross-process session lock and what is published under it | `lease_takeover` |
| `SessionLeaseProofs` | the inductive lease invariant and its consequences | |

The modules share no variables. Each keeps the control of its own component and reduces its
neighbours to the answers and events it gets from them: `AgentActor` sees a permit as an answer that
`TurnPermits` works out; `AgentGraph` keeps of an executing turn its slot and phase; `ChildDelivery`
and `PreparedOps` keep of the FIFO what reports and prepared operations meet there.

### AgentActor

An operation is a number: its operation id, allocated in admission order. Both deques are kept in
ascending id order by the code (ids are allocated under the lock at `push_back`, and `materialize`
moves the front of one deque to the back of the other), so a deque is a set of ids and its front is
its minimum.

| Variables | Code |
|---|---|
| `lifecycle`, `closePending` | `ActorState.lifecycle`, `close_pending` |
| `nextOperationId`, `kind`, `correlation` | id allocation and the immutable part of an operation |
| `operations`, `preparing`, `prep` | the operation FIFO, the head being prepared, each preparation task's progress |
| `queue`, `notifyToken`, `wakeFlag` | `ActorQueue`, its one-slot notify channel, `WakeFlag` |
| `tickets`, `outcomes`, `resolved`, `ended` | live tickets, retained outcomes, what the waiter has got, End events emitted |
| `publishing`, `failing` | the parties counted by `pending_publications` |
| `idlePending` | `idle_pending`: an Idle event is owed |
| `status`, `active`, `processing`, `processingReason` | the running turn, the installed `ActiveCancel`, `ProcessingWork` |
| `token` | the reason with which each work's cancel token has fired |
| `cancelledCorrelations`, `cancellationGeneration` | precancelled host keys, the count of whole-actor cuts |
| `pc`, `work`, `poppedGeneration`, `result` | where the runner is, what it holds |
| `phase`, `call`, `todo`, `drained`, `victim`, `reason`, `publication` | what each caller has left to do after its critical section |
| `doomed` | history variable: the first cut that covered a turn (no action reads it except to keep the first) |

A call such as `cancel_existing` is one action for its critical section (`CancelExisting`), then
`CallerRetire` and `CallerPublish` for each turn it removed from the FIFO, `CallerDeferredDone`,
`CallerFire`, `CallerRetire`/`CallerPublish` for each turn it removed from the queue, and
`CallerDone`. Admissions and pushes end with their critical section and need no caller state. The
runner and the preparation tasks are split at the same kind of points. `drive_operations`,
`publish_idle` and `finish_close` are part of the action of the handler that calls them.

In modules of their own: submissions joining a turn (`TurnInbox`), deliveries and their Withdrawn turns
(`ChildDelivery`), prepared operations and idle guards (`PreparedOps`). Left out, and therefore "partly"
in `PROJECT.json`: capacity limits (128 tickets), eviction of old outcomes, `cancel_local`,
`remove_pending_compact`, usage totals, and events other than End, Idle and Close. The backend is
modelled by its possible results; the manager by its answer to `enter_managed_turn`: a permit, a
refusal (`RunnerRefused`, with one of the reasons in `Refusals`; the set is empty for an actor without
a manager), or, for a turn whose active slot was taken, a wait for the cancellation.

### TurnLedger

Four variables: the admitted turns, the retained result of each, what its waiter was told, and
whether the actor is open, terminal or closed. A turn is admitted while open, gets at most one
result, its waiter is told that result, and the actor closes only when every admitted turn has been
told. `AgentActor!ImplementsLedger` states the refinement.

### TurnPermits

Several managed turns, each in an actor of its own, share the semaphore. `AgentActor` sees a permit
as an answer; this module says how it is obtained, lent and returned. A semaphore guard exists
exactly while a count is taken, and a turn's task has at most one guard, so `permit[t]` says where it
is: nowhere, in the lease, or a local of the task (between two critical sections of a poll, or in
`enter_managed_turn`). The number of free permits follows.

| Variables | Code |
|---|---|
| `run` | where the runner's task is in `enter_managed_turn`, `run_turn` and `ManagedExecutionFuture::poll` |
| `open`, `slot`, `resolved` | the actor's lifecycle, `ActiveCancel` (live, taken, fired), the ticket |
| `authority` | `GraphState.active_turns` |
| `permit`, `owns`, `suspended`, `sealed`, `closing`, `wake` | `LeaseState`; `suspended` is the key set of `watcher_cancels`, which `suspensions` counts |
| `scheduled` | the task has been woken and not polled since |
| `observed`, `acquire` | `cancellation_observed`, a pending `acquire_arc` future |
| `watcher`, `turnOf`, `childOf`, `fired` | a wait's watcher task, its turn, the ticket it watches, its cancel token |
| `waiter` | who awaits the `ManagedPromptWait` |

One call of `poll` is up to five actions, split where it unlocks the lease: `PollCheck` (cancellation,
`cancel_waiters`), `PollRevoke` (authority), `PollGate`, then `PollAcquire` and `PollStore` and round
again, or the backend poll, which ends in `PollPending` or `PollReady`. Waits are of two sorts: in a
task of their own (a Lua handle's wait), free to move at any time, and inside the backend future
(`join_children`, the constant `Inline`), which move only while their turn's backend is polled.
`Event` listeners are registered before the test they guard, so test-or-park is one step and every
later notification reaches the parked waiter.

Left out: manager shutdown, graph nodes that are not live (both in `AgentGraph`), the registry that
reaps finished watcher tasks. External: the semaphore, wakers and events, and the I/O a backend awaits.

### AgentGraph

One action is one critical section of the graph lock or one step of a runner task.

| Variables | Code |
|---|---|
| `lc`, `parent`, `depth`, `children`, `owner`, `pending`, `held`, `cancelOnCommit` | `GraphNode`: lifecycle, topology, the turn that delegated it, `reservation_pending`, its task |
| `root`, `active`, `shuttingDown` | `GraphState` |
| `actor`, `run`, `turn`, `phase`, `slot`, `cutTurns` | the node's actor: lifecycle, runner and wrapper task, the executing turn |
| `pc` | where the thread that spawns the node is: reserved, building, commit in two sections, failing |
| `sd`, `sdIds` | the one shutdown call, then its reaper |
| `revoked` | history: turns cut by `cancel_turn` or `cancel_correlation` |

`subtree_ids` walks the children lists from a node. `Subtree` says which nodes such a walk reaches
without a recursion: the ones in every set that has the node and is closed under children.

Abstracted: reservation numbers and nonces (ids are fresh, so a number always belongs to its node);
`settle_close` only wakes the runner; `CancelExisting` of a single actor stands alone. Left out: the
idle guard over a subtree, event observers, terminal snapshots of removed nodes.

### ChildDelivery

| Variables | Code |
|---|---|
| `order`, `fate`, `retried`, `fresh`, `suspended`, `runs` | the delivery part of the parent's state: `delivery_order`, each report's status, `cancellation_retried`, `arrived_during_run`, `delivery_suspended`, `delivery_runs` |
| `ops`, `queue`, `pubs`, `guard`, `open` | the FIFO, the queue, `pending_publications`, an idle reservation, the lifecycle |
| `token`, `wake`, `rpc`, `cur`, `cut`, `inbox`, `busy` | the notification, `WakeFlag`, the runner and its turn |
| `cpc`, `cwork`, `cphase` | a thread that cuts, clears, removes or closes |
| `child` | how far each child is in publishing its report |
| `wpc`, `unchecked`, `heard` | `wait_settled`: listen on every actor, look at each, wait |
| `barren`, `used`, `cuts`, `guards` | counters of the properties and bounds |

The byte limits of a batch are a choice of how many reports fit; previews and offloading are left
out; each child publishes one report. A panic of an admission's preparation is included.

### TurnInbox

A turn is named by the submission that started it, a policy by its generation. `sub`, `home` and
`passed` follow each submission, `chk` what `submit_presented` read before it released the lock to
check a constraint (`SubmitChecks`, then `CheckPasses`, `CheckStale` or `CheckRefuses`). `inboxes`,
`openIn`, `pend`, `held`, `pol`, `cons` are the inboxes; `ops`, `queue`, `opid`, `nextOp`, `gen`, `confs`
the FIFO and the committed changes; `cur`, `bpc`, `cut`, `done`, `reqs`, `owed` the runner and the request
loop of `agent/run.rs`. `ops` and `queue` are sets whose front is the item with the least id, as in
`AgentActor`; `confs` is the policy each committed change made. `acc` and `hist` are history variables: each
item's place in the order of acceptance, and the items in the order of execution. A
configuration change commits when it reaches the front, ahead of turns already queued.

Between two requests a turn may execute a compaction itself (`Interrupt`: `handle_queued_command`,
`InterruptQueue::poll`, `pop_interrupt`): the one at the head of the queue, if its policy (`pol`, which
compactions have too) is the turn's and no cut of the whole actor came since the turn was popped
(`stale`). It does so before it drains its inbox again, so that compaction precedes what waits there,
also what was accepted before it. `inside` remembers the turn. `AcceptanceOrder` states this as its only
exception; the comment on `pop_interrupt` promises more (see Findings).

`Prepares` says whether the backend has an `admission_preparation`. With one, each turn waits at the front
until it is prepared, and its initial input can be removed only before it gets there; without one it is
queued at once and the input stays removable until the runner takes the turn (`Behind`).
`admit_turn_with_options` is an unbatchable submission; `max_turns` is assumed to be set.
Abstracted: byte sizes, presentations, precancelled correlations, the `idle_only`, `after_turn` and
`existing_only` options.

### PreparedOps

A configuration is the sequence of the operations it contains, a history a version number.

| Variables | Code |
|---|---|
| `ops`, `opid`, `next` | the FIFO, as a set ordered by the operations' ids, and `next_operation_id` |
| `stage`, `cand`, `owner` | each `PreparedOperation`, its candidate, what its caller does |
| `phase`, `pub`, `snap`, `host` | `CheckpointPublication`, `prepared_publication`, what the host is to store, its answer |
| `idle`, `holder`, `edit`, `runner`, `repl` | `IdleReservation`, the guard's owner, the history edit waiting for and executed by the runner |
| `busy`, `turn`, `open`, `captured`, `closePending`, `idlePending` | work, lifecycle and a close under way |
| `policy`, `hv`, `disk` | what the actor has committed, what the session file holds |

The host's publish callback is external: it claims, replaces the file or gives up, returns an error or
a success it is not entitled to. `allow_turn` is folded into dropping the guard; `CancelExisting`
includes `settle_deferred`. Left out: history boundaries, precancelled correlations.

### SessionLease

A lease is one attempt to open the session and the random token it would write.

| Variables | Code |
|---|---|
| `record`, `sidecar`, `fresh`, `flock` | `<id>.lock`, `<id>.lock.owner`, mtime within `STALE_AFTER`, the advisory lock |
| `disk`, `loaded` | the leases whose turns the stored history, and the history a lease loaded, contain |
| `stage`, `beat`, `save` | each lease's opening, its heartbeat thread, its checkpoint worker |
| `saves`, `failed` | a bound; the leases with a failed beat or release |
| `claimant` | ghost: the last lease that began to overwrite the record |

Each write is a step and so is each truncation, since a crash or a failing write may come between. The
advisory lock goes with its process. `Crash` kills all leases of a process id, their memory included; `Expire` may happen at
any time, so a holder may be slow or suspended. `open_elsewhere` reads mtime and content in one step.
Left out: records of older versions without a token, the TUI's heartbeat task, the deletion lease.

## Runs

| Run | Instance | States | Checks |
|---|---|---|---|
| `races` | 2 symmetric callers, 2 operations, a manager that refuses with Closed | 2.7 M | `EveryTicketHeldOnce`, `CloseIsLastEvent`, `CancelledIffCut`, `WaiterSeesReusableActor` |
| `live` | 1 caller, 2 operations of any kind, preparation, 1 run key, fair | 361 k | `OutcomeLedger`, `NothingStallsOrOvertakes`, `TerminalIsFinal`, `ImplementsLedger` (refinement of `TurnLedger`), `TurnsAndCloseEnd` |
| `permits` | a turn and one below it, 1 permit, 2 waits (one inside the backend, one with a timeout) | | `SuspendedYields`, `PollHoldsPermit`, `SealedWaitsFire`, `ParkedTurnWakes`, `WaitReturnsToHolder` |
| `permits_live` | the same turns, 1 wait inside the backend, fair | | `TurnsAndWaitsEnd` |
| `graph_cuts` | 4 symmetric agents, 3 alive at a time, 3 levels, 2 children each, no turns | | `TypeOK`, `NoLiveBelowClosing`, `NoOrphanActor`, `NoRevival` |
| `graph_live` | root and child, one turn each, one shutdown, fair | 178 k | `RevokedTurnHasNoChildren`, `ShutdownLeavesNoRunner`, `ClosesAndShutdownEnd` |
| `delivery_cuts` | 2 reports in batches of 1, a user's turn, preparation, 1 cut, 1 idle guard, close, withdrawal | 3.4 M | `TypeOK`, `RetriesAreBounded`, `NoOvertaking`, `FateIsFinal` |
| `delivery_live` | 2 reports, `wait_settled`, fair | 131 k | `ReportsAndWaitEnd` |
| `delivery_wakeup` | 1 report, preparation, 1 cut, fair | | `ReportSettles`, violated (see Findings) |
| `inbox_joins` | 3 submissions (one constrained, one unbatchable), a compaction or a configuration change, 2 places, 2 requests, 1 cut, no preparation, fair | 1.4 M | `TypeOK`, `NoLostInstruction`, `AcceptanceOrder`, `ConstraintHolds`, `InstructionSettles` |
| `prepared_publish` | 2 operations, one with a turn, 1 history change, cancellation, close, fair | 85 k | `TypeOK`, `AnswerIsTrue`, `NoLostUpdate`, `OperationsAndCloseEnd` |
| `lease_takeover` | 3 leases, two of one process id, 1 publication each, 1 failing beat, crashes, fair | 333 k | `TypeOK`, `OnlyClaimantPublishes`, `LossIsReal`, `LossNoticed` |

The properties whose names end in `End` are conjunctions of the liveness properties of their module, and
`NothingStallsOrOvertakes` of three invariants of the actor's queues. `TypeOK` of `AgentGraph`,
`ChildDelivery`, `TurnInbox`, `PreparedOps` and `SessionLease` also relates the variables that must agree: the
topology of the graph, the delivery run and its turn, inboxes and submissions, edit and reservation, the
file lock and whoever works under it. `TypeOK` of `AgentActor` and `TurnPermits`, and
`NoWaiterForgotten`, are proved and therefore in no run.

### Bounds

`races`, `live`: `MaxOperations = 2` is the least number with one operation waiting behind another, one
running while another is cut, and a head whose removal must drive its successor. Two callers are
enough for every race between two cuts; a third would repeat one of the roles. In `races` the manager
refuses with one reason: nothing distinguishes a refusal with Shutdown but the reason it leaves, and the
proofs cover both. `MaxCancellations =
1` bounds the generation counter: the code compares generations for equality only. The deadlock
check is on: no state of these models is stuck, because idle queries such as `remove` of a finished
turn stay possible.

`permits`: one permit for two turns is the tightest limit, at which a turn that waits and keeps its
permit stops everything; two waits are the least with a suspension that is not the first and a
retirement that is not the last.

`graph_cuts` has the limit of live agents below the number of agents, so that capacity is reused while
a branch closes, and a depth at which a cut has a node above and one below; turns are in
`graph_live`, where a root and a child are enough for a delegated child to outlive its turn.

`delivery_cuts`: two reports over batches of one make the second wait for another run, a user's turn or
a retry. `delivery_live` has no cuts because of the finding, and no withdrawals because withdrawing a
suspended report outside a turn does not notify `wait_settled` either.

`inbox_joins`: two places for three submissions fill the inbox; two requests per turn are the least with
a compaction between them, and put the drain after it at the limit of the budget. `MaxEnqueued = 1` lets
a compaction or a configuration change come between the submissions, at any place; a compaction that
the runner pops after the turn is executed like any control. Without a preparation a turn that waits in
the queue can still lose its initial input. A control that is no compaction, a preparation, and a
compaction whose policy differs from the turn's are covered by the theorems only.

`prepared_publish`: one operation can be published while the next waits; a turn carried by the second
meets a close.

`lease_takeover`: two leases of one process id distinguish token from process id; the third comes from
another process. A lease that begins after two others is the least with a takeover of a takeover.
One lease may see a beat or a release fail.

The deadlock check is off in the last four models: their users submit a bounded number of things and
then everything is done.

### Fairness

* `live`: weak fairness of the runner, of each preparation task and of a caller's remaining steps. The
  executor polls woken tasks; a caller's steps are straight-line synchronous code; a permit is granted
  to a waiting turn and a backend run returns, which is an assumption on the manager and the backend.
  Folding a compaction into a turn and a manager's refusal have no fairness. No caller is ever obliged
  to call anything.
* `permits_live`: weak fairness of each task, watcher and waiter and of the semaphore's notification; a
  backend with no open wait is woken by its own I/O; a backend polled again and again ends once it has
  no open wait or its turn's cancellation was observed (strong fairness, an assumption on backends). A
  backend with an open wait is obliged to nothing, timeouts need not expire and no holder has to drop
  a wait: progress has to come from the permit protocol.
* `graph_live`: spawning threads (a factory returns), runner and wrapper tasks, cancelled turns, and the
  shutdown call. A turn that nobody cancelled need not end.
* `delivery_live`, `delivery_wakeup`: child tasks, the runner, the first commitment of reports by a
  delivery run, the end of a backend run, preparation, release of an idle guard, the cutting thread,
  the waiter.
* `inbox_joins`: the check of a constraint returns, the FIFO and the running turn go on.
* `prepared_publish`: the runner, preparations, the host's callback, publication tasks, a caller with
  something to do; the guard is dropped once its caller is through. No ticket or waiter has to be
  dropped.
* `lease_takeover`: whoever has the file lock goes on, and a beat, which is repeated every
  `HEARTBEAT_INTERVAL`, does not find it taken for ever (strong fairness). Nobody has to open, close or
  publish, and time need not pass the limit.

## Findings

`delivery_wakeup`: `DeliveryState::settle` (`actor/delivery.rs:372`) clears `delivery_suspended` so that
the batch of a cancelled run is retried, but nobody wakes the runner. When another thread's cut takes
the delivery run out of the queue or its preparation, the runner may already have looked
(`delivery_runs` and `pending_publications` still set) and gone to sleep: the report stays pending
until unrelated work arrives. The test `cancellation_retries_each_unconsumed_report_once` expects the
retry, and calls `schedule` itself.

Further differences between code and documents. Each is a definition of its module that TLC refutes
on the constants given; no run of the project contains it.

* `AgentActor!FirstReasonWins` (`docs/agent-invariants.md` item 30: "The first cancellation reason or
  permanent actor lifecycle wins."). In `run_turn` (`runner.rs:312`) the lifecycle is consulted before
  the recorded reason, so a user's cancellation between pop and install, followed by a close before the
  install, ends the turn as Closed. The outcome is still cancelled, unique and published once. Constants:
  1 caller, `Correlations` and `RunCorrelations` `{r1}`, no preparation, unmanaged, `MaxOperations` and
  `MaxCancellations` 1.
* `AgentGraph!ClosedConsumesNoCapacity` (`docs/agent-invariants.md` item 38: "settled closed/removed
  nodes do not" consume capacity). A closed node is counted (`manager/mod.rs:711`) until it is
  reclaimed, which needs its descendants gone. Constants: 3 agents, `MaxLive` 3, `MaxDepth` and
  `MaxChildren` 2, no turns, no shutdown.
* `ChildDelivery!SettledIsQuiet` (the comment on `wait_settled`, `manager/mod.rs:368`: "Resolves once no
  agent in the graph has work running or waiting, child results still on their way to a parent
  included."). A runner that has drained its queue clears `runner_busy` under the actor's lock and notifies
  `drained` after it has released it (`runner.rs:214`, `218`): a pass that saw the parent idle before the child's report
  arrived, and looks at the child between the two, has heard of nothing and returns with the report
  pending. Constants: 1 report, no user turns, `MaxBatch` and `MaxPending` 2, `Waits`, everything else off.
* `TurnInbox!CompactionCrossesNothing` (the comment on `pop_interrupt`, `actor/queue.rs:227`: "Extracts a
  same-policy compaction without crossing ordered work."). The turn asks for the compaction when a
  response has arrived (`agent/run.rs:786`), before it drains its inbox. The first submission streams, the
  second joins, a compaction is accepted, the response arrives: the compaction is executed before the
  second submission is consumed, although it was accepted after it. That it crosses nothing else is what
  `AcceptanceOrder` checks and `EffectsAreOrdered` proves. Constants: 2 batchable submissions, one
  compaction, no changes, `MaxOutstanding` and `MaxRequests` 2, `MaxEnqueued` 1, no cuts, `Prepares`.
* `PreparedOps!IdleReported` (`config_tests.rs:696` expects an Idle event after a prepared operation was
  cancelled). A history edit whose publication is cancelled and that its waiter takes back
  (`history_edit.rs:152`) owes one and publishes none. Constants: 1 operation without a
  turn, `Cancels`, no close, `LiveSpec`.
* `SessionLease!NothingOverwritten` (`site/docs/content/acp/_index.md:38`: "A session that is open in
  another terminal cannot be loaded."). `load_history_from` (`maki-acp/src/server.rs:1204`) loads the
  history before it looks at the lock, and the lock is claimed later still. If the holder publishes
  after the load and exits before the look, the load succeeds with the older history, and the first
  checkpoint of the new holder replaces the newer one. Constants: those of `lease_takeover`, `Spec`.

## Proofs

The theorems about the actor quantify over every set of callers and keys and every bound.

* In `AgentActorProofs`, `TypeCorrect`: `Spec => []TypeOK`. `TypeInv` adds that the runner holds a work id in each state
  between pop and finish.
* `LedgerCorrect`, `CloseCorrect`: `Spec => []OutcomeLedger`, `Spec => []CloseIsLastEvent`. Neither is
  inductive alone. `LedgerInv` conjoins: `TypeInv`; `KindInv` (only turns have tickets, outcomes or
  are owed, and what the runner finalizes is a turn); `PublisherInv` (every turn in `publishing` has
  exactly one party, the runner, one caller or one failed preparation, that will publish it, which is
  why a ticket is not resolved twice and End not emitted twice); `OutcomeLedger`; `EndInv` (End has
  been emitted once for each resolved turn and not yet for the others, and after Close nothing is
  left to publish). The step proof has one lemma per action, built from lemmas about `RetireTurn`,
  `Publish`, `FinishClose` and `DriveOperations`.

* `FinalityCorrect`, `RefinementCorrect`: `Spec => TerminalIsFinal`, `Spec => ImplementsLedger`. Both
  follow from one fact: under `LedgerInv` every step has one of five shapes. It leaves the ledger
  alone, admits one turn, retains one outcome, resolves one ticket (and perhaps closes), or makes the
  lifecycle terminal. Each shape is a step or a stutter of `TurnLedger` by definition.

* In `TurnPermitsProofs`, for every set of turns and waits and every limit: `PermitTypeCorrect`,
  `YieldCorrect`, `PollCorrect`, `SealCorrect`, `WakeCorrect`, `WaiterCorrect` and `HolderCorrect`
  prove every property of the run `permits`, type correctness and `NoWaiterForgotten`. The inductive `PermitInv` adds to the
  invariants: `PermitPlace` (where a permit can be at each place of the task; the lease claims only a
  permit that exists), `WatchedIsStarted` (waits belong to started turns, so a suspension never meets
  the entry protocol), `WakeInv` (from the first critical section of a poll on, the waker is in the
  lease or has been invoked, which is why no order of suspension, retirement and parking loses a
  wakeup).

* In `AgentOwnershipProofs`, on top of `LedgerInv`:
  * `OwnershipCorrect` (`EveryTicketHeldOnce`) and `ReusableCorrect` (`WaiterSeesReusableActor`). The
    property says where live turns are; to be inductive it needs `OwnerInv`: `HeldSomewhere`,
    `PlacesApart` and `CallersApart` (its three parts), `CallerStands` (what a caller may still owe at
    each place of its call: a free one owes nothing, so a new cut overwrites no debt), `AdmittedInv`
    (only admitted ids are in deques, slots or preparation, so that a fresh id is nowhere) and
    `SlotInv` (the actor's slots name the work in the runner's hand or nothing). `Driven` states what
    `DriveOperations` does (a prefix that needs no preparation moves, at most the new head's
    preparation starts) and `CutOwner` covers the five calls that take turns out of the deques.
  * `CancellationCorrect` (`CancelledIffCut`), in both directions. `CutInv` follows a cut to the
    outcome: `WaitingCut` (waiting turns are uncut, unless the actor closed; what a caller owes is
    cut), `HandCut` (the turn in hand was cut iff the reason, the generation or the lifecycle that the
    runner will look at says so: one clause per place, the gap between pop and install first) and
    `TokenCut` (a fired token, or one that a caller still has to fire, belongs to a turn that was cut).
  * `ProgressCorrect` (`NothingStallsOrOvertakes`). `FlowInv` adds `Order` (queue before FIFO, the work in
    hand before both), `HeadIsPrepared`, `WakeInv` (a runner about to wait has been notified of what
    is queued, and of a close by its caller, who is still under way), `PublisherLives` (a publication or a
    failed preparation has a party that ends it) and `IdleInv` (a pending Idle has somebody who will
    still ask). In a quiescent state all those parties are gone, hence nothing is left.

* In `AgentGraphProofs`, for every set of agents and all limits: `GraphTypeCorrect`, `ClosingCorrect`,
  `OrphanCorrect`, `RevocationCorrect`, `ShutdownCorrect` and `RevivalCorrect` prove every safety property
  of the two graph runs. `GraphInv` adds to `Typed` and `Topology`: `Downwards` (depth grows from parent
  to child), `SpawnerInv` (what a node looks like at each step of the thread that spawns it),
  `RunnerInv` and `ActorInv` (runner, actor and node agree), `Below` (a closing node has only closing and
  closed children), `RootInv`, `NodeLimit` (the retained nodes are finitely many and within the limit, a
  bound on their cardinality), `TurnInv` (a revoked turn has no slot, no authority and no open child) and
  `ShutdownInv` (whom each stage of shutdown still waits for). Properties about a whole subtree
  follow from `Below`, which is about children: the nodes that are closing or closed are a closed set,
  and `Subtree` is inside every closed set that has its root.

* In `SessionLeaseProofs`, for all leases, any sharing of process ids and any number of publications:
  `LeaseTypeCorrect`, `PublicationIsClaimants` and `LossCorrect`. `LeaseInv` adds to `Typed`,
  `FileLockExcludes` and the two properties: `WorksOnlyHeld`, `TokenIsClaimants` (a token in the sidecar is
  the last claimant's, also after a crash between the two writes) and `RecordIsKept` (a claimant none of
  whose writes failed still owns the record when it beats).

* In `PreparedOpsProofs`, for all operations, with and without turns: `PreparedTypeCorrect`,
  `AnswerCorrect` and `UpdateCorrect` prove every safety property of `prepared_publish`. `PreparedInv` adds to
  the types: `IdsOrder` (ids are distinct and grow, so an arrival never changes the front),
  `OnePublication` (whatever is being published is the registered publication, and an edit waits only
  while the actor is open), `PreparedOnTop` (what is prepared, waits as an edit or is being published was
  prepared on the configuration that is still in force, which is why installing it loses nothing),
  `Contents` (who is in the configuration and in the file, and that a claimed and successful
  publication left its snapshot there) and `TurnPlaces` (a turn queued after the close is the runner's
  to take back). Every step that ends in `drive_operations` goes through `DriveDoes`, which states that
  at most the front changes, from resolved to preparing.

* In `TurnInboxProofs`, for all submissions, controls, configuration changes, capacities and budgets:
  `InboxTypeOK`, `NothingIsLost`, `EffectsAreOrdered` and `ConstraintsHold` prove every safety property of
  `inbox_joins`. `InboxInv` conjoins:
  * `Types`, and `CapInv` (the outstanding submissions are finitely many and within the limit);
  * `IdInv`: operation ids are distinct, the materialized work is in front of the waiting and the work in
    hand in front of both, so a set ordered by id is the deque;
  * `PolInv`: a turn gets its policy when it reaches the front, after every change admitted before it and
    before any admitted after it;
  * `PlaceInv`: a submission is in the inbox, and in the part of it, that its state says; an inbox belongs
    to a turn that waits or runs, and before the turn starts it holds exactly one initial input;
  * `DoneInv`: from the moment the backend reports completion the inbox is closed and empty, which is
    what `close_admission` establishes in one critical section;
  * `ConsInv`: a constraint not yet checked waits with its operation; one that was checked passed under
    the policy of the turn, also when the check ran without the lock;
  * `OrderInv` and `RiseInv`: what belongs to an earlier operation was accepted earlier, the history was
    accepted before everything to come, and each inbox is in the order of acceptance. The first is why a
    submission may join only the last operation, and the step that uses it is `JoinStep`. Compactions
    taken inside a turn (`Insiders`) have left the order of operations; of them it says only that they
    precede what is to come or were taken inside its turn (`Before`), and the rest of the history is
    `Plain`. `HistInv` is the order of the whole history, and `InterruptKeeps` the step that extends it.

  One lemma per way of changing the state carries most actions: `JoinStep` (a submission joins), `NewOp` (an
  operation is appended and the FIFO driven), `LeaveStep` (submissions leave an inbox) and `DropStep` (turns
  are dropped with their inboxes by a failure, a removal, a cut, a close or their end).

* In `ChildDeliveryProofs`, for all children, user turns, batch sizes and numbers of cuts: `DeliveryTypeOK`,
  `NoEndlessRetry`, `FatesAreFinal` and `NoReportOvertakes` prove every property of `delivery_cuts`, the two
  action properties included. `DeliveryInv` conjoins:
  * `OrderInv`: `delivery_order` lists the pending reports, each once, a closed parent has none, and a
    child that has not published has no fate;
  * `HolderInv`: the delivery turn is in at most one of four places (FIFO, queue, runner, the thread that
    cut it) and once there, and a run is registered exactly while it is in one;
  * `CutterInv` and `PubInv`: what a cutting thread owes, and what `pending_publications` counts;
  * `RetryInv`: what a run may still add to the barren ones is paid for: none while deliveries are
    suspended, one otherwise, a second only when reports arrived during the run and reset the count.

  The action properties follow from `FatesMove`: a step gives reports a first fate, discards pending
  ones, or executes the oldest `n`, and with `OrderInv` the oldest are the first `n` of the order.

Assumptions: `InboxAssumption` (submissions, controls and changes are disjoint and none is the placeholder, compactions are controls,
the capacity and the budget are positive), `SizeAssumption` (batch and table hold at least one report,
the delivery turn is no user's turn, the parent no child), `ActorAssumption` (run keys are keys, the bounds are naturals, the switches Boolean),
`PermitAssumption` (the descendant relation is irreflexive and transitive, there is at least one permit),
`GraphAssumption` (the limits are positive, at most one shutdown call), `LeaseAssumption` (process ids and
leases are not among the contents that are neither) and `OpsAssumption` (the placeholders are no operations). No constant set is assumed finite.

Each inductive invariant was checked by TLC as an invariant of its model, on the instances of the runs and
on some with other constants, before it was proved.

Every safety property of a passing run is proved. Only model-checked is liveness: `TurnsAndCloseEnd`,
`TurnsAndWaitsEnd`, `ClosesAndShutdownEnd`, `ReportsAndWaitEnd`, `InstructionSettles`, `OperationsAndCloseEnd`
and `LossNoticed`. Fairness and `ENABLED` are out of the prover's reach. The finding of `delivery_wakeup` is a
counterexample of TLC's.

## Plan

1. Done: `AgentActor`, `TurnLedger`, and every safety property of the actor as a theorem.
2. Done: `TurnPermits`, its liveness run and its theorems.
3. Done: `AgentGraph`, `ChildDelivery`, `TurnInbox`, `PreparedOps`, `SessionLease`, model-checked.
4. Done: the safety theorems of `AgentGraph`, `SessionLease` and `PreparedOps`.
5. Done: the safety theorems of `TurnInbox` and `ChildDelivery`. `SelectSeq` has no facts the provers could
   use, so the waiting work of `TurnInbox` is a set ordered by operation id and `Without` removes by index.
6. Smaller components: the mailbox, cancellation maps, the coordinator's registration.

## Not modelled

* The agent loop apart from its inbox, tools, MCP client, model providers: network and process I/O behind
  the backend of an actor, which the models represent by the results it can return.
* The terminal UI, the Lua host and its plugins, the ACP adapter apart from its session lock, the
  headless frontend: clients of the actor and the manager with presentation state of their own. They
  are most of the repository's lines.
* Session files, their log format and index: sequential file formats.
* Commands, configuration files, Markdown, highlighting, matching: pure functions over text.
* Permissions and modes: sequential matching of rules.
* Retention of outcomes (the last 128): bounds that large cannot be enumerated together with the
  interleavings, and a small one would be a different program.
