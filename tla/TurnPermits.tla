---------------------------- MODULE TurnPermits ----------------------------
(***************************************************************************)
(* The manager's turn permits: maki-agent/src/manager/mod.rs (entry of a   *)
(* managed turn, permit leases, suspensions, prompt waits, the managed     *)
(* execution future), manager/types.rs (ManagedPromptWait) and the part of *)
(* actor/runner.rs that runs a managed turn.                               *)
(*                                                                         *)
(* Each turn belongs to an actor of its own, whose runner task executes    *)
(* it.  A turn whose backend waits for a descendant's turn gives its       *)
(* permit back (the lease is suspended) and takes one again before the     *)
(* wait returns.  A step is a critical section of a lease, of the graph or *)
(* of a cancel token, or one call to the semaphore.                        *)
(***************************************************************************)
EXTENDS Naturals, FiniteSets

CONSTANTS Turns,        \* managed turns, each active in its own actor
          Watchers,     \* watcher ids: the waits ever registered
          Inline,       \* waits polled inside the backend future (join_children);
                        \* the others are awaited by a task of their own (Lua)
          Timed,        \* waits with a timeout
          Descendants,  \* for each turn, the turns of the agents below its own
          Limit         \* permits of the manager's semaphore

ASSUME PermitAssumption ==
    /\ Inline \subseteq Watchers /\ Timed \subseteq Watchers
    /\ Descendants \in [Turns -> SUBSET Turns]
    /\ \A t \in Turns : t \notin Descendants[t] /\
                        \A u \in Descendants[t] : Descendants[u] \subseteq Descendants[t]
    /\ Limit \in Nat \ {0}
    /\ "none" \notin Turns

NoTurn == "none"

\* Where a turn's task is.  From "check" to "polling" it is inside (or, when
\* "parked", between two calls of) ManagedExecutionFuture::poll.
Future    == {"check", "revoke", "gate", "acquiring", "storing", "polling", "parked"}
Leaving   == {"dropping", "closing", "returning"}
RunStates == {"entering", "granted", "rejected", "registered"} \cup Future \cup Leaving
                 \cup {"settling", "gone"}
WatcherStates == {"free", "validated", "refused", "watching", "retired", "completed"}
WaiterStates  == {"none", "runnable", "parked", "returned", "dropped"}

VARIABLES
    run,                        \* the turn's task
    open, slot,                 \* its actor: lifecycle is Open; ActorState.active
    resolved,                   \* turns whose ticket has resolved
    authority,                  \* turns in GraphState.active_turns
    permit, owns,               \* where its permit is; LeaseState.owns_permit
    suspended, sealed, closing, \* the other fields of LeaseState: suspensions
    wake,                       \*   counts the watchers in suspended
    scheduled,                  \* the task has been woken
    observed, acquire,          \* fields of ManagedExecutionFuture
    watcher, turnOf, childOf,   \* each wait's watcher task
    fired,                      \* waits whose cancel token has fired
    waiter                      \* the party awaiting each ManagedPromptWait

actorVars   == <<open, slot>>
leaseVars   == <<owns, suspended, sealed, closing>>
futureVars  == <<observed, acquire>>
watcherVars == <<watcher, turnOf, childOf, fired>>
vars == <<run, open, slot, resolved, authority, permit, owns, suspended, sealed, closing, wake,
          scheduled, observed, acquire, watcher, turnOf, childOf, fired, waiter>>

\* The semaphore counts the guards that exist; a turn's task has at most one.
PermitFree == Cardinality({t \in Turns : permit[t] # "none"}) < Limit

Init ==
    /\ run = [t \in Turns |-> "entering"]
    /\ open = [t \in Turns |-> TRUE] /\ slot = [t \in Turns |-> "live"]
    /\ resolved = {} /\ authority = {}
    /\ permit = [t \in Turns |-> "none"] /\ owns = [t \in Turns |-> FALSE]
    /\ suspended = [t \in Turns |-> {}]
    /\ sealed = [t \in Turns |-> FALSE] /\ closing = [t \in Turns |-> FALSE]
    /\ wake = [t \in Turns |-> FALSE] /\ scheduled = [t \in Turns |-> FALSE]
    /\ observed = [t \in Turns |-> FALSE] /\ acquire = [t \in Turns |-> FALSE]
    /\ watcher = [w \in Watchers |-> "free"]
    /\ turnOf = [w \in Watchers |-> NoTurn] /\ childOf = [w \in Watchers |-> NoTurn]
    /\ fired = {}
    /\ waiter = [w \in Watchers |-> "none"]

-----------------------------------------------------------------------------
(* Wakeups. *)

\* A waker of the turn's task is invoked.
Wakes(t) == scheduled' = [scheduled EXCEPT ![t] = TRUE]

\* wake.take() and wake(): the waker the lease keeps, if it has one.
TakeWake(t) ==
    /\ wake' = [wake EXCEPT ![t] = FALSE]
    /\ scheduled' = [scheduled EXCEPT ![t] = @ \/ wake[t]]

\* notify(usize::MAX) on an Event: each listener in ws is runnable again; one
\* inside the backend future is reached through its turn's task.
Notify(ws, t) ==
    LET woken == {w \in ws : waiter[w] = "parked"}
    IN  /\ waiter' = [w \in Watchers |-> IF w \in woken THEN "runnable" ELSE waiter[w]]
        /\ scheduled' = [scheduled EXCEPT ![t] = @ \/ woken \cap Inline # {}]

\* Those that listen to the lease's `owned` event: they have their result.
OwnedListeners(t) == {w \in Watchers : turnOf[w] = t /\ watcher[w] = "completed"}

\* A permit is put into the lease: owns_permit, then `owned` is notified.
StorePermit(t) ==
    /\ permit' = [permit EXCEPT ![t] = "lease"]
    /\ owns' = [owns EXCEPT ![t] = TRUE]
    /\ Notify(OwnedListeners(t), t)

DropPermit(t) == permit' = [permit EXCEPT ![t] = "none"]

-----------------------------------------------------------------------------
(* enter_managed_turn and the start of the run. *)

\* cancel.race(limiter.acquire_arc()) obtains a permit.
EnterAcquire(t) ==
    /\ run[t] = "entering" /\ PermitFree
    /\ run' = [run EXCEPT ![t] = "granted"]
    /\ permit' = [permit EXCEPT ![t] = "local"]
    /\ UNCHANGED <<actorVars, resolved, authority, leaseVars, wake, scheduled, futureVars,
                   watcherVars, waiter>>

\* The cancellation wins the race, or ends the wait of a rejected registration.
EnterCancelled(t) ==
    /\ run[t] \in {"entering", "rejected"} /\ slot[t] = "fired"
    /\ run' = [run EXCEPT ![t] = "settling"]
    /\ UNCHANGED <<actorVars, resolved, authority, permit, leaseVars, wake, scheduled, futureVars,
                   watcherVars, waiter>>

\* Registration under the graph and actor locks: a terminal actor refuses at
\* once, a turn whose active slot was taken waits for the cancellation.
EnterRegister(t) ==
    /\ run[t] = "granted"
    /\ \/ /\ ~open[t]
          /\ run' = [run EXCEPT ![t] = "settling"]
          /\ DropPermit(t) /\ UNCHANGED <<owns, authority>>
       \/ /\ open[t] /\ slot[t] # "live"
          /\ run' = [run EXCEPT ![t] = "rejected"]
          /\ DropPermit(t) /\ UNCHANGED <<owns, authority>>
       \/ /\ open[t] /\ slot[t] = "live"
          /\ run' = [run EXCEPT ![t] = "registered"]
          /\ authority' = authority \cup {t}
          /\ permit' = [permit EXCEPT ![t] = "lease"]
          /\ owns' = [owns EXCEPT ![t] = TRUE]
    /\ UNCHANGED <<actorVars, resolved, suspended, sealed, closing, wake, scheduled, futureVars,
                   watcherVars, waiter>>

\* The turn starts: its backend runs inside manage_execution.
StartTurn(t) ==
    /\ run[t] = "registered" /\ open[t] /\ slot[t] # "fired"
    /\ run' = [run EXCEPT ![t] = "check"]
    /\ scheduled' = [scheduled EXCEPT ![t] = FALSE]
    /\ UNCHANGED <<actorVars, resolved, authority, permit, leaseVars, wake, futureVars,
                   watcherVars, waiter>>

\* Cancelled or closed before the start: the turn is settled first, its guard
\* goes out of scope after.
StartCancelled(t) ==
    /\ run[t] = "registered" /\ (~open[t] \/ slot[t] = "fired")
    /\ resolved' = resolved \cup {t}
    /\ run' = [run EXCEPT ![t] = "dropping"]
    /\ UNCHANGED <<actorVars, authority, permit, leaseVars, wake, scheduled, futureVars,
                   watcherVars, waiter>>

\* cancel_existing takes the turn's ActiveCancel under the actor's lock and fires
\* it after the unlock.  (cancel_turn does both in one critical section, which is
\* these two steps in a row.)
TakeSlot(t) ==
    /\ slot[t] = "live" /\ t \notin resolved
    /\ slot' = [slot EXCEPT ![t] = "taken"]
    /\ UNCHANGED <<run, open, resolved, authority, permit, leaseVars, wake, scheduled, futureVars,
                   watcherVars, waiter>>

\* close or shutdown makes the actor terminal and fires the token of what is
\* installed in the same critical section.
CloseActor(t) ==
    /\ open[t]
    /\ open' = [open EXCEPT ![t] = FALSE]
    /\ IF slot[t] = "live" /\ t \notin resolved
       THEN slot' = [slot EXCEPT ![t] = "fired"] /\ Wakes(t)
       ELSE UNCHANGED <<slot, scheduled>>
    /\ UNCHANGED <<run, resolved, authority, permit, leaseVars, wake, futureVars, watcherVars,
                   waiter>>

FireSlot(t) ==
    /\ slot[t] = "taken"
    /\ slot' = [slot EXCEPT ![t] = "fired"]
    /\ Wakes(t)
    /\ UNCHANGED <<run, open, resolved, authority, permit, leaseVars, wake, futureVars,
                   watcherVars, waiter>>

-----------------------------------------------------------------------------
(* ManagedExecutionFuture::poll. *)

\* Every watcher of the lease has its token fired (its trigger is dropped).
CancelWaiters(t) == fired' = fired \cup suspended[t]

\* The head of the loop: the first time the cancellation is seen, the lease
\* is sealed and its waits are cancelled.
PollCheck(t) ==
    /\ \/ run[t] = "parked" /\ scheduled[t] /\ scheduled' = [scheduled EXCEPT ![t] = FALSE]
       \/ run[t] = "check" /\ UNCHANGED scheduled
    /\ \/ /\ slot[t] = "fired" /\ ~observed[t]
          /\ run' = [run EXCEPT ![t] = "revoke"]
          /\ observed' = [observed EXCEPT ![t] = TRUE]
          /\ sealed' = [sealed EXCEPT ![t] = TRUE]
          /\ CancelWaiters(t)
       \/ /\ slot[t] # "fired" \/ observed[t]
          /\ run' = [run EXCEPT ![t] = "gate"]
          /\ UNCHANGED <<observed, sealed, fired>>
    /\ UNCHANGED <<actorVars, resolved, authority, permit, owns, suspended, closing, wake,
                   acquire, watcher, turnOf, childOf, waiter>>

\* ... and the turn loses its authority in the graph.
PollRevoke(t) ==
    /\ run[t] = "revoke"
    /\ run' = [run EXCEPT ![t] = "gate"]
    /\ authority' = authority \ {t}
    /\ UNCHANGED <<actorVars, resolved, permit, leaseVars, wake, scheduled, futureVars,
                   watcherVars, waiter>>

\* Mutant: a suspended poll parks without leaving its waker.
PollGateNoWaker(t) ==
    /\ run[t] = "gate"
    /\ wake' = [wake EXCEPT ![t] = suspended[t] = {}]
    /\ \/ /\ suspended[t] # {}
          /\ run' = [run EXCEPT ![t] = "parked"]
          /\ acquire' = [acquire EXCEPT ![t] = FALSE]
          /\ UNCHANGED permit
       \/ /\ suspended[t] = {} /\ permit[t] = "lease"
          /\ run' = [run EXCEPT ![t] = "polling"]
          /\ permit' = [permit EXCEPT ![t] = "local"]
          /\ UNCHANGED acquire
       \/ /\ suspended[t] = {} /\ permit[t] # "lease"
          /\ run' = [run EXCEPT ![t] = "acquiring"]
          /\ UNCHANGED <<permit, acquire>>
    /\ UNCHANGED <<actorVars, resolved, authority, leaseVars, scheduled, observed, watcherVars,
                   waiter>>

\* The first critical section of the lease: register the waker, then yield
\* while suspended, poll the backend with the lease's permit, or go and
\* acquire one.  (closing is set only when the future is done.)
PollGate(t) ==
    /\ run[t] = "gate"
    /\ wake' = [wake EXCEPT ![t] = TRUE]
    /\ \/ /\ suspended[t] # {}
          /\ run' = [run EXCEPT ![t] = "parked"]
          /\ acquire' = [acquire EXCEPT ![t] = FALSE]
          /\ UNCHANGED permit
       \/ /\ suspended[t] = {} /\ permit[t] = "lease"
          /\ run' = [run EXCEPT ![t] = "polling"]
          /\ permit' = [permit EXCEPT ![t] = "local"]
          /\ UNCHANGED acquire
       \/ /\ suspended[t] = {} /\ permit[t] # "lease"
          /\ run' = [run EXCEPT ![t] = "acquiring"]
          /\ UNCHANGED <<permit, acquire>>
    /\ UNCHANGED <<actorVars, resolved, authority, leaseVars, scheduled, observed, watcherVars,
                   waiter>>

\* The acquire future is polled: a permit, or a listener at the semaphore.
PollAcquire(t) ==
    /\ run[t] = "acquiring"
    /\ \/ /\ PermitFree
          /\ run' = [run EXCEPT ![t] = "storing"]
          /\ permit' = [permit EXCEPT ![t] = "local"]
          /\ acquire' = [acquire EXCEPT ![t] = FALSE]
       \/ /\ ~PermitFree
          /\ run' = [run EXCEPT ![t] = "parked"]
          /\ acquire' = [acquire EXCEPT ![t] = TRUE]
          /\ UNCHANGED permit
    /\ UNCHANGED <<actorVars, resolved, authority, leaseVars, wake, scheduled, observed,
                   watcherVars, waiter>>

\* Mutant: the permit is stored although a wait suspended the lease.
RestorePermitBlind(t) == StorePermit(t)

\* What is left of the permit a poll holds when the lease is locked again: it
\* is stored unless a wait suspended the lease meanwhile.
RestorePermit(t) ==
    \/ suspended[t] = {} /\ StorePermit(t)
    \/ suspended[t] # {} /\ DropPermit(t) /\ UNCHANGED <<owns, waiter, scheduled>>

PollStore(t) ==
    /\ run[t] = "storing"
    /\ run' = [run EXCEPT ![t] = "check"]
    /\ RestorePermit(t)
    /\ UNCHANGED <<actorVars, resolved, authority, suspended, sealed, closing, wake, futureVars,
                   watcherVars>>

\* Synchronous code of the backend's poll that has not run yet.
MidPoll(t) == \E w \in Inline : turnOf[w] = t /\ (watcher[w] = "validated" \/ waiter[w] = "runnable")

PollPending(t) ==
    /\ run[t] = "polling" /\ ~MidPoll(t)
    /\ run' = [run EXCEPT ![t] = "parked"]
    /\ RestorePermit(t)
    /\ UNCHANGED <<actorVars, resolved, authority, suspended, sealed, closing, wake, futureVars,
                   watcherVars>>

\* The backend is done: the guard is dropped while the poll still has the permit.
PollReady(t) ==
    /\ run[t] = "polling" /\ ~MidPoll(t)
    /\ run' = [run EXCEPT ![t] = "dropping"]
    /\ UNCHANGED <<actorVars, resolved, authority, permit, leaseVars, wake, scheduled, futureVars,
                   watcherVars, waiter>>

\* ManagedTurnGuard::drop, first the graph, then LeaseInner::close (whose waker
\* is that of this very task, which does not park again).
GuardDrop(t) ==
    /\ run[t] = "dropping"
    /\ run' = [run EXCEPT ![t] = "closing"]
    /\ authority' = authority \ {t}
    /\ UNCHANGED <<actorVars, resolved, permit, leaseVars, wake, scheduled, futureVars,
                   watcherVars, waiter>>

LeaseClose(t) ==
    /\ run[t] = "closing"
    /\ run' = [run EXCEPT ![t] = "returning"]
    /\ closing' = [closing EXCEPT ![t] = TRUE]
    /\ permit' = [permit EXCEPT ![t] = IF @ = "lease" THEN "none" ELSE @]
    /\ owns' = [owns EXCEPT ![t] = FALSE]
    /\ wake' = [wake EXCEPT ![t] = FALSE]
    /\ CancelWaiters(t)
    /\ Notify(OwnedListeners(t), t)
    /\ UNCHANGED <<actorVars, resolved, authority, suspended, sealed, futureVars, watcher, turnOf,
                   childOf>>

\* poll (or run_turn) returns and the permit it still has is released.
Return(t) ==
    /\ run[t] = "returning"
    /\ run' = [run EXCEPT ![t] = IF t \in resolved THEN "gone" ELSE "settling"]
    /\ DropPermit(t)
    /\ UNCHANGED <<actorVars, resolved, authority, leaseVars, wake, scheduled, futureVars,
                   watcherVars, waiter>>

\* settle_turn: the ticket resolves.
Settle(t) ==
    /\ run[t] = "settling"
    /\ run' = [run EXCEPT ![t] = "gone"]
    /\ resolved' = resolved \cup {t}
    /\ UNCHANGED <<actorVars, authority, permit, leaseVars, wake, scheduled, futureVars,
                   watcherVars, waiter>>

\* The semaphore notifies a task that waits for a permit.
SemaphoreWake(t) ==
    /\ run[t] = "parked" /\ acquire[t] /\ PermitFree /\ ~scheduled[t]
    /\ Wakes(t)
    /\ UNCHANGED <<run, actorVars, resolved, authority, permit, leaseVars, wake, futureVars,
                   watcherVars, waiter>>

\* Something the backend awaits is ready.
BackendIO(t) ==
    /\ run[t] = "parked" /\ ~scheduled[t]
    /\ Wakes(t)
    /\ UNCHANGED <<run, actorVars, resolved, authority, permit, leaseVars, wake, futureVars,
                   watcherVars, waiter>>

-----------------------------------------------------------------------------
(* Prompt waits: register_turn_wait, the watcher task, ManagedPromptWait. *)

\* The calling turn is validated against the graph; only a started backend
\* has a CurrentManagedTurn to call with.
Validate(w, t, c) ==
    /\ watcher[w] = "free" /\ t \in authority /\ c \in Descendants[t]
    /\ run[t] \in IF w \in Inline THEN {"polling"} ELSE Future \cup Leaving
    /\ t \notin resolved
    /\ watcher' = [watcher EXCEPT ![w] = "validated"]
    /\ turnOf' = [turnOf EXCEPT ![w] = t]
    /\ childOf' = [childOf EXCEPT ![w] = c]
    /\ UNCHANGED <<run, actorVars, resolved, authority, permit, leaseVars, wake, scheduled,
                   futureVars, fired, waiter>>

\* Mutants: the permit is taken from a poll under way too, a sealed lease still
\* accepts a wait.
SuspendTakesAny(w) ==
    LET t == turnOf[w]
    IN  /\ watcher[w] = "validated" /\ ~sealed[t] /\ ~closing[t]
        /\ suspended' = [suspended EXCEPT ![t] = @ \cup {w}]
        /\ IF suspended[t] = {}
           THEN /\ permit' = [permit EXCEPT ![t] = "none"]
                /\ owns' = [owns EXCEPT ![t] = FALSE]
           ELSE UNCHANGED <<permit, owns>>
        /\ TakeWake(t)
        /\ watcher' = [watcher EXCEPT ![w] = "watching"]
        /\ waiter' = [waiter EXCEPT ![w] = "runnable"]
        /\ UNCHANGED <<run, actorVars, resolved, authority, sealed, closing, futureVars, turnOf,
                       childOf, fired>>

SuspendUnsealed(w) ==
    LET t == turnOf[w]
    IN  /\ watcher[w] = "validated" /\ ~closing[t]
        /\ suspended' = [suspended EXCEPT ![t] = @ \cup {w}]
        /\ IF suspended[t] = {}
           THEN /\ permit' = [permit EXCEPT ![t] = IF @ = "lease" THEN "none" ELSE @]
                /\ owns' = [owns EXCEPT ![t] = FALSE]
           ELSE UNCHANGED <<permit, owns>>
        /\ TakeWake(t)
        /\ watcher' = [watcher EXCEPT ![w] = "watching"]
        /\ waiter' = [waiter EXCEPT ![w] = "runnable"]
        /\ UNCHANGED <<run, actorVars, resolved, authority, sealed, closing, futureVars, turnOf,
                       childOf, fired>>

\* LeaseInner::suspend, later and under another lock: the first suspension
\* releases the lease's permit.  Then the watcher task is spawned.
SuspendRefused(w) ==
    /\ watcher[w] = "validated" /\ (sealed[turnOf[w]] \/ closing[turnOf[w]])
    /\ watcher' = [watcher EXCEPT ![w] = "refused"]
    /\ UNCHANGED <<run, actorVars, resolved, authority, permit, leaseVars, wake, scheduled,
                   futureVars, turnOf, childOf, fired, waiter>>

Suspend(w) ==
    LET t == turnOf[w]
    IN  /\ watcher[w] = "validated" /\ ~sealed[t] /\ ~closing[t]
        /\ suspended' = [suspended EXCEPT ![t] = @ \cup {w}]
        /\ IF suspended[t] = {}
           THEN /\ permit' = [permit EXCEPT ![t] = IF @ = "lease" THEN "none" ELSE @]
                /\ owns' = [owns EXCEPT ![t] = FALSE]
           ELSE UNCHANGED <<permit, owns>>
        /\ TakeWake(t)
        /\ watcher' = [watcher EXCEPT ![w] = "watching"]
        /\ waiter' = [waiter EXCEPT ![w] = "runnable"]
        /\ UNCHANGED <<run, actorVars, resolved, authority, sealed, closing, futureVars, turnOf,
                       childOf, fired>>

\* PermitSuspensionGuard::drop: the last suspension to go wakes the turn.
Retire(w) ==
    LET t == turnOf[w]
    IN  /\ suspended' = [suspended EXCEPT ![t] = @ \ {w}]
        /\ IF suspended[t] = {w} THEN TakeWake(t) ELSE UNCHANGED <<wake, scheduled>>
        /\ watcher' = [watcher EXCEPT ![w] = "retired"]
        /\ UNCHANGED <<run, actorVars, resolved, authority, permit, owns, sealed, closing,
                       futureVars, turnOf, childOf, fired, waiter>>

\* The watcher's race ends: the child's ticket has resolved, the wait was
\* cancelled, or its timeout expired.
WatcherRetire(w) ==
    /\ watcher[w] = "watching" /\ (childOf[w] \in resolved \/ w \in fired)
    /\ Retire(w)

WatcherTimeout(w) ==
    /\ watcher[w] = "watching" /\ w \in Timed
    /\ Retire(w)

\* PromptWaitInner::complete stores the result and notifies.
WatcherComplete(w) ==
    /\ watcher[w] = "retired"
    /\ watcher' = [watcher EXCEPT ![w] = "completed"]
    /\ Notify({w}, turnOf[w])
    /\ UNCHANGED <<run, actorVars, resolved, authority, permit, leaseVars, wake, futureVars,
                   turnOf, childOf, fired>>

\* Mutant: only the suspensions are tested, not the ownership.
UnsuspendedNow(t) == closing[t] \/ suspended[t] = {}

\* The test of wait_until_owned.
OwnedNow(t) == closing[t] \/ (suspended[t] = {} /\ owns[t])

\* ManagedPromptWait::wait is polled: it returns once it has a result and the
\* turn runs again.  The listener is registered before the test, so a test
\* that fails leaves a waiter that every later notification reaches.
WaiterPoll(w) ==
    LET t == turnOf[w]
    IN  /\ waiter[w] = "runnable" /\ (w \in Inline => run[t] = "polling")
        /\ \/ /\ watcher[w] = "completed" /\ OwnedNow(t)
              /\ waiter' = [waiter EXCEPT ![w] = "returned"]
              /\ fired' = fired \cup {w}
              /\ Wakes(t)
           \/ /\ ~(watcher[w] = "completed" /\ OwnedNow(t))
              /\ waiter' = [waiter EXCEPT ![w] = "parked"]
              /\ UNCHANGED <<fired, scheduled>>
        /\ UNCHANGED <<run, actorVars, resolved, authority, permit, leaseVars, wake, futureVars,
                       watcher, turnOf, childOf>>

\* ManagedPromptWait::drop before the result: the watcher is cancelled.
WaiterDrop(w) ==
    /\ waiter[w] \in {"runnable", "parked"}
    /\ w \in Inline => run[turnOf[w]] \in {"polling", "returning", "settling", "gone"}
    /\ waiter' = [waiter EXCEPT ![w] = "dropped"]
    /\ fired' = fired \cup {w}
    /\ UNCHANGED <<run, actorVars, resolved, authority, permit, leaseVars, wake, scheduled,
                   futureVars, watcher, turnOf, childOf>>

-----------------------------------------------------------------------------
Task(t) ==
    \/ EnterAcquire(t) \/ EnterCancelled(t) \/ EnterRegister(t)
    \/ StartTurn(t) \/ StartCancelled(t)
    \/ PollCheck(t) \/ PollRevoke(t) \/ PollGate(t) \/ PollAcquire(t) \/ PollStore(t)
    \/ GuardDrop(t) \/ LeaseClose(t) \/ Return(t) \/ Settle(t)

Watch(w) == SuspendRefused(w) \/ Suspend(w) \/ WatcherRetire(w) \/ WatcherComplete(w)

\* Every turn is gone and every wait is over.
Terminated ==
    /\ \A t \in Turns : run[t] = "gone" /\ slot[t] # "taken"
    /\ \A w \in Watchers : waiter[w] \notin {"runnable", "parked"}
                           /\ watcher[w] \in {"free", "refused", "completed"}
    /\ UNCHANGED vars

Next ==
    \/ \E t \in Turns : \/ Task(t) \/ PollPending(t) \/ PollReady(t)
                        \/ TakeSlot(t) \/ CloseActor(t) \/ FireSlot(t)
                        \/ SemaphoreWake(t) \/ BackendIO(t)
    \/ \E w \in Watchers : \/ Watch(w) \/ WatcherTimeout(w) \/ WaiterPoll(w) \/ WaiterDrop(w)
                           \/ \E t, c \in Turns : Validate(w, t, c)
    \/ Terminated

Spec == Init /\ [][Next]_vars

OpenWaits(t) == {w \in Watchers : turnOf[w] = t /\ waiter[w] \in {"runnable", "parked"}}

\* A wait inside a backend future that has been dropped.
Unwound(w) == w \in Inline /\ turnOf[w] # NoTurn /\ closing[turnOf[w]]

\* Woken tasks are polled, a token taken is fired, the semaphore notifies.  A
\* backend without open waits makes progress by itself, and one that is polled
\* again and again ends once it has no open wait or its turn is cancelled; one
\* with an open wait is obliged to nothing.
Fairness ==
    /\ \A t \in Turns :
        /\ WF_vars(Task(t)) /\ WF_vars(FireSlot(t)) /\ WF_vars(SemaphoreWake(t))
        /\ WF_vars(PollPending(t))
        /\ WF_vars(OpenWaits(t) = {} /\ BackendIO(t))
        /\ SF_vars((OpenWaits(t) = {} \/ observed[t]) /\ PollReady(t))
    /\ \A w \in Watchers :
        /\ WF_vars(Watch(w))
        /\ WF_vars(WaiterPoll(w))
        /\ WF_vars(Unwound(w) /\ WaiterDrop(w))

FairSpec == Spec /\ Fairness

-----------------------------------------------------------------------------
(* Properties. *)

\* Each variable has its type.
Typed ==
    /\ run \in [Turns -> RunStates]
    /\ open \in [Turns -> BOOLEAN] /\ slot \in [Turns -> {"live", "taken", "fired"}]
    /\ resolved \subseteq Turns /\ authority \subseteq Turns
    /\ permit \in [Turns -> {"none", "lease", "local"}] /\ owns \in [Turns -> BOOLEAN]
    /\ suspended \in [Turns -> SUBSET Watchers]
    /\ sealed \in [Turns -> BOOLEAN] /\ closing \in [Turns -> BOOLEAN]
    /\ wake \in [Turns -> BOOLEAN] /\ scheduled \in [Turns -> BOOLEAN]
    /\ observed \in [Turns -> BOOLEAN] /\ acquire \in [Turns -> BOOLEAN]
    /\ watcher \in [Watchers -> WatcherStates]
    /\ turnOf \in [Watchers -> Turns \cup {NoTurn}]
    /\ childOf \in [Watchers -> Turns \cup {NoTurn}]
    /\ fired \subseteq Watchers
    /\ waiter \in [Watchers -> WaiterStates]

\* A registered wait knows its turn and its ticket, and its suspension is in the
\* lease while its watcher watches.
WaitBinding ==
    \A w \in Watchers :
        /\ IF watcher[w] = "free" THEN turnOf[w] = NoTurn
                                 ELSE turnOf[w] \in Turns /\ childOf[w] \in Turns
        /\ waiter[w] # "none" => watcher[w] \in {"watching", "retired", "completed"}
        /\ \A t \in Turns : w \in suspended[t] <=> turnOf[w] = t /\ watcher[w] = "watching"

\* Every variable has its type and every wait its turn: the suspensions a lease
\* counts are those of its live watchers.
TypeOK == Typed /\ WaitBinding

\* A suspended turn gives its permit up: the lease neither has nor claims one,
\* whatever poll, acquisition or second wait the suspension raced, and only a
\* poll that was under way when it came still has one to release.
SuspendedYields ==
    \A t \in Turns : suspended[t] # {} =>
        /\ ~owns[t] /\ permit[t] # "lease"
        /\ permit[t] # "none" => run[t] \in {"storing", "polling"} \cup Leaving

\* The backend is polled, cancellation cleanup included, only by a task that has
\* a permit for the whole poll: no suspension takes it away underneath.
PollHoldsPermit == \A t \in Turns : run[t] = "polling" => permit[t] = "local"

\* A wait returns into its turn only while that turn really has a permit, in
\* the lease or in the poll under way, or once the turn is over.
WaitReturnsToHolder ==
    [][\A w \in Watchers : waiter[w] # "returned" /\ waiter'[w] = "returned" =>
        closing[turnOf[w]] \/ (suspended[turnOf[w]] = {} /\ permit[turnOf[w]] # "none")]_vars

\* After the cancellation was observed, or the lease closed, every wait still
\* suspending the turn has been cancelled: none registers late and keeps a
\* cancelled turn suspended until the child ends.
SealedWaitsFire ==
    \A t \in Turns : sealed[t] \/ closing[t] => suspended[t] \subseteq fired

\* A parked turn that nothing has woken has seen its cancellation, and either
\* has its permit, is listening at the semaphore, or has left its waker in the
\* lease for the last suspension to take.
ParkedTurnWakes ==
    \A t \in Turns : run[t] = "parked" /\ ~scheduled[t] =>
        /\ slot[t] = "fired" => observed[t]
        /\ suspended[t] = {} => permit[t] = "lease" \/ acquire[t]
        /\ suspended[t] # {} => wake[t]

\* A waiter is never left listening when what it waits for has happened.
NoWaiterForgotten ==
    \A w \in Watchers : waiter[w] = "parked" =>
        ~(watcher[w] = "completed" /\ OwnedNow(turnOf[w]))

\* Every turn ends, with as few permits as one: a turn that waits for turns
\* below it never keeps the permit they need, nor the others'.
EveryTurnSettles == \A t \in Turns : <>(t \in resolved)

\* Every registered wait returns, or is dropped by its holder.
EveryWaitReturns ==
    \A w \in Watchers : watcher[w] = "watching" ~> waiter[w] \in {"returned", "dropped"}

\* Nobody waits for somebody who waits for him: turns and waits all end.
TurnsAndWaitsEnd == EveryTurnSettles /\ EveryWaitReturns
=============================================================================
