--------------------------- MODULE ChildDelivery ---------------------------
(***************************************************************************)
(* How the result of a child's turn reaches its parent                     *)
(* (maki-agent/src/actor/delivery.rs, with the parts of runner.rs, mod.rs  *)
(* and manager/mod.rs that it lives on).                                   *)
(*                                                                         *)
(* A child that retires a turn publishes a report into the state of its    *)
(* parent actor.  The parent's runner, when it has nothing else to do,     *)
(* schedules a turn of its own (a delivery run) over a batch of pending    *)
(* reports; a user's turn that happens to be running consumes them too, at *)
(* its next request.  Meanwhile other threads withdraw reports, cut work,  *)
(* close the parent, or wait for the whole graph to settle.                *)
(*                                                                         *)
(* Each step is one critical section of the parent's state lock; what      *)
(* happens between two sections of one function is up to the others.  A    *)
(* report is a name: its text, its preview and its size in bytes are left  *)
(* out, and the byte limits become a choice of how many fit.               *)
(***************************************************************************)
EXTENDS Naturals, Sequences, FiniteSets

CONSTANTS Reports,      \* the child turns; each child runs one
          UserTurns,    \* turns the users of the parent submit
          Parent,       \* the parent, among the actors wait_settled looks at
          Delivery,     \* the delivery turn, among the parent's work
          MaxBatch,     \* MAX_DELIVERY_BATCH
          MaxPending,   \* MAX_PENDING_DELIVERIES
          MaxCuts,      \* bound: cancellations, removals and clears
          MaxGuards,    \* bound: idle reservations
          Preparation,  \* does the actor prepare admissions asynchronously
          Closes,       \* may the parent be closed
          Withdraws,    \* do waits withdraw reports
          Waits         \* does someone wait for the graph to settle

ASSUME SizeAssumption ==
    /\ MaxBatch \in Nat \ {0} /\ MaxPending \in Nat \ {0}
    /\ MaxCuts \in Nat /\ MaxGuards \in Nat
    /\ {Preparation, Closes, Withdraws, Waits} \subseteq BOOLEAN
    /\ Parent \notin Reports /\ Delivery \notin UserTurns

VARIABLES
    order,      \* delivery_order: the pending reports, oldest first
    fate,       \* what became of each report
    retried,    \* cancellation_retried
    fresh,      \* arrived_during_run
    suspended,  \* delivery_suspended
    runs,       \* delivery_runs: the batch of the delivery run, if there is one
    barren,     \* delivery runs that left a report behind since the last arrival
    open,       \* the parent's lifecycle is Open
    ops,        \* operations: admitted, being prepared
    queue,      \* prepared work, waiting for the runner
    pubs,       \* pending_publications
    guard,      \* an idle reservation is held
    token,      \* the queue's notification
    wake,       \* the WakeFlag
    rpc,        \* where the runner is
    cur,        \* the turn it processes
    cut,        \* processing.cancellation_reason is set
    inbox,      \* the processed user turn has an open inbox
    busy,       \* runner_busy
    cpc,        \* where the thread that cuts is
    cwork,      \* what it has still to finalize
    cphase,     \* what it does after that
    child,      \* how far each child has come
    wpc,        \* where wait_settled is
    unchecked,  \* actors it has not looked at in this pass
    heard,      \* actors that drained since it listened
    used,       \* bound: user turns submitted
    cuts,       \* bound: cuts made
    guards      \* bound: reservations made

reportVars == <<order, fate, retried, fresh, suspended, runs, barren>>
workVars == <<open, ops, queue, pubs, guard, token, wake>>
runnerVars == <<rpc, cur, cut, inbox, busy>>
cutterVars == <<cpc, cwork, cphase>>
waiterVars == <<wpc, unchecked, heard>>
boundVars == <<used, cuts, guards>>
vars == <<reportVars, workVars, runnerVars, cutterVars, child, waiterVars, boundVars>>

Work == UserTurns \cup {Delivery}
Actors == Reports \cup {Parent}
Pending == {r \in Reports : fate[r] = "pending"}
SeqSet(s) == {s[i] : i \in DOMAIN s}
Without(s, x) ==
    LET k == CHOOSE i \in DOMAIN s : s[i] = x
    IN [i \in 1..Len(s) - 1 |-> IF i < k THEN s[i] ELSE s[i + 1]]
Processing == rpc \in {"popped", "enter", "run", "turned", "retire"}

----------------------------------------------------------------------------
Init ==
    /\ order = <<>> /\ fate = [r \in Reports |-> "none"]
    /\ retried = {} /\ fresh = {} /\ suspended = FALSE /\ runs = {} /\ barren = 0
    /\ open = TRUE /\ ops = <<>> /\ queue = <<>> /\ pubs = 0 /\ guard = FALSE
    /\ token = FALSE /\ wake = FALSE
    /\ rpc = "step" /\ cur = Delivery /\ cut = FALSE /\ inbox = FALSE /\ busy = FALSE
    /\ cpc = "none" /\ cwork = <<>> /\ cphase = "cut"
    /\ child = [r \in Reports |-> "run"]
    /\ wpc = "off" /\ unchecked = {} /\ heard = {}
    /\ used = {} /\ cuts = 0 /\ guards = 0

(* Work that keeps a delivery run from being scheduled.                     *)
HasPendingWork == Processing \/ pubs # 0 \/ ops # <<>> \/ queue # <<>>

(* drive_operations on an actor without preparation moves the admission to  *)
(* the queue at once, which notifies the runner.                            *)
Admitted(w) ==
    IF Preparation THEN /\ ops' = Append(ops, w)
                        /\ UNCHANGED <<queue, token>>
                   ELSE /\ queue' = Append(queue, w)
                        /\ token' = TRUE
                        /\ UNCHANGED ops

----------------------------------------------------------------------------
(* A child.                                                                *)

(* retire_turn: the outcome is retained, its publication is pending.        *)
ChildRetires(r) ==
    /\ child[r] = "run"
    /\ child' = [child EXCEPT ![r] = "retired"]
    /\ UNCHANGED <<reportVars, workVars, runnerVars, cutterVars, waiterVars, boundVars>>

(* Mutant: the runner is not notified.                                      *)
AcceptQuietly(r) ==
    /\ order' = Append(order, r)
    /\ fate' = [fate EXCEPT ![r] = "pending"]
    /\ fresh' = fresh \cup {r}
    /\ suspended' = FALSE
    /\ barren' = 0
    /\ UNCHANGED <<retried, runs, token>>

(* admit_delivery, called by the publication of a child that reports.  A    *)
(* fresh report ends a suspension and wakes the runner.                     *)
Accept(r) ==
    /\ order' = Append(order, r)
    /\ fate' = [fate EXCEPT ![r] = "pending"]
    /\ fresh' = fresh \cup {r}
    /\ suspended' = FALSE
    /\ barren' = 0
    /\ token' = TRUE
    /\ UNCHANGED <<retried, runs>>

Reject(r) ==
    /\ fate' = [fate EXCEPT ![r] = "rejected"]
    /\ UNCHANGED <<order, retried, fresh, suspended, runs, barren, token>>

AdmitDelivery(r) ==
    IF open /\ Len(order) < MaxPending THEN Accept(r) ELSE Reject(r)

ChildPublishes(r) ==
    /\ child[r] = "retired"
    /\ child' = [child EXCEPT ![r] = "published"]
    /\ AdmitDelivery(r)
    /\ UNCHANGED <<open, ops, queue, pubs, guard, wake,
                   runnerVars, cutterVars, waiterVars, boundVars>>

(* The child does not report (auto_deliver is off), or its turn ended       *)
(* because the child was closed.                                            *)
ChildStaysSilent(r) ==
    /\ child[r] = "retired"
    /\ child' = [child EXCEPT ![r] = "published"]
    /\ UNCHANGED <<reportVars, workVars, runnerVars, cutterVars, waiterVars, boundVars>>

(* Its runner finds nothing more to do: runner_busy is cleared under the    *)
(* lock, the listeners of `drained` are notified after it.                  *)
ChildDrains(r) ==
    /\ child[r] = "published"
    /\ child' = [child EXCEPT ![r] = "drained"]
    /\ UNCHANGED <<reportVars, workVars, runnerVars, cutterVars, waiterVars, boundVars>>

Hear(a) == heard' = IF wpc \in {"check", "poll", "wait"} THEN heard \cup {a} ELSE heard

ChildNotifies(r) ==
    /\ child[r] = "drained"
    /\ child' = [child EXCEPT ![r] = "notified"]
    /\ Hear(r)
    /\ UNCHANGED <<reportVars, workVars, runnerVars, cutterVars, wpc, unchecked, boundVars>>

----------------------------------------------------------------------------
(* The parent's runner.                                                    *)

CanSchedule ==
    /\ open /\ ~guard /\ ~suspended
    /\ order # <<>> /\ runs = {} /\ ~HasPendingWork

(* schedule: the oldest reports, as many as a batch holds.                  *)
Schedule ==
    \E n \in 1..Len(order) :
        /\ n <= MaxBatch
        /\ runs' = {{order[i] : i \in 1..n}}
        /\ fresh' = {}

Popped(w) ==
    /\ rpc' = "popped" /\ cur' = w /\ cut' = FALSE /\ busy' = TRUE
    /\ inbox' = (w # Delivery)

(* One iteration of step: schedule a delivery run if there is nothing else, *)
(* then pop.                                                                *)
StepSchedules ==
    /\ rpc = "step" /\ CanSchedule
    /\ Schedule
    /\ IF Preparation THEN /\ ops' = <<Delivery>> /\ rpc' = "empty"
                           /\ UNCHANGED <<token, cur, cut, busy, inbox>>
                      ELSE /\ token' = TRUE /\ Popped(Delivery)
                           /\ UNCHANGED ops
    /\ UNCHANGED <<order, fate, retried, suspended, barren, open, queue, pubs, guard, wake,
                   cutterVars, child, waiterVars, boundVars>>

StepPops ==
    /\ rpc = "step" /\ ~CanSchedule
    /\ queue # <<>> /\ ~guard
    /\ Popped(Head(queue))
    /\ queue' = Tail(queue)
    /\ UNCHANGED <<reportVars, open, ops, pubs, guard, token, wake,
                   cutterVars, child, waiterVars, boundVars>>

StepFindsNothing ==
    /\ rpc = "step" /\ ~CanSchedule
    /\ queue = <<>> \/ guard
    /\ rpc' = "empty"
    /\ UNCHANGED <<reportVars, workVars, cur, cut, inbox, busy,
                   cutterVars, child, waiterVars, boundVars>>

RunnerDrains ==
    /\ rpc = "empty"
    /\ busy' = FALSE
    /\ rpc' = IF open THEN "drained" ELSE "leaving"
    /\ UNCHANGED <<reportVars, workVars, cur, cut, inbox,
                   cutterVars, child, waiterVars, boundVars>>

(* The listeners are notified outside the lock; a runner that read Open and *)
(* is closed by now is woken by the close.                                  *)
RunnerSleeps ==
    /\ rpc \in {"drained", "leaving"}
    /\ Hear(Parent)
    /\ rpc' = IF rpc = "drained" THEN "asleep" ELSE "exit"
    /\ UNCHANGED <<reportVars, workVars, cur, cut, inbox, busy,
                   cutterVars, child, wpc, unchecked, boundVars>>

(* future::or polls the queue's notification first.                         *)
RunnerWakes ==
    /\ rpc = "asleep"
    /\ token \/ wake
    /\ token' = FALSE
    /\ wake' = (wake /\ token)
    /\ rpc' = IF open THEN "step" ELSE "exit"
    /\ UNCHANGED <<reportVars, open, ops, queue, pubs, guard, cur, cut, inbox, busy,
                   cutterVars, child, waiterVars, boundVars>>

(* Is the popped turn a delivery run whose reports were all withdrawn?      *)
AllWithdrawn == cur = Delivery /\ \A b \in runs : b \cap Pending = {}

(* Mutant: the run stays registered.                                         *)
WithdrawnLeaves ==
    /\ rpc \in {"popped", "enter"}
    /\ AllWithdrawn
    /\ (rpc = "enter" => open /\ ~cut)
    /\ rpc' = "post"
    /\ UNCHANGED <<reportVars, workVars,
                   cur, cut, inbox, busy, cutterVars, child, waiterVars, boundVars>>

(* run_turn resolves such a run without starting it.                        *)
Withdrawn ==
    /\ rpc \in {"popped", "enter"}
    /\ AllWithdrawn
    /\ (rpc = "enter" => open /\ ~cut)
    /\ runs' = {}
    /\ rpc' = "post"
    /\ UNCHANGED <<order, fate, retried, fresh, suspended, barren, workVars,
                   cur, cut, inbox, busy, cutterVars, child, waiterVars, boundVars>>

(* A cut or a close that landed since the pop, or while the turn waited for *)
(* its permit, cancels it before it starts.                                 *)
SetupCancelled ==
    /\ \/ rpc = "popped" /\ ~AllWithdrawn
       \/ rpc = "enter"
    /\ cut \/ ~open
    /\ cut' = TRUE
    /\ rpc' = "retire"
    /\ UNCHANGED <<reportVars, workVars, cur, inbox, busy,
                   cutterVars, child, waiterVars, boundVars>>

Enter ==
    /\ \/ rpc = "popped" /\ rpc' = "enter"
       \/ rpc = "enter" /\ rpc' = "run"
    /\ ~AllWithdrawn /\ ~cut /\ open
    /\ UNCHANGED <<reportVars, workVars, cur, cut, inbox, busy,
                   cutterVars, child, waiterVars, boundVars>>

(* commit_completions, at the start of every request: the oldest reports    *)
(* are put into the history in order; a delivery run stops at the first one *)
(* outside its batch.                                                       *)
MayCommit(i) ==
    /\ i <= MaxBatch
    /\ cur = Delivery => \A b \in runs : \A j \in 1..i : order[j] \in b

Eligible ==
    {i \in 1..Len(order) : MayCommit(i)}

(* Mutant: the reports are kept as a stack.                                 *)
CommitNewestFirst ==
    /\ rpc \in {"run", "turned"}
    /\ rpc' = "turned"
    /\ IF open /\ ~cut /\ (cur = Delivery \/ inbox) /\ Eligible # {}
       THEN LET r == order[Len(order)] IN
              /\ order' = SubSeq(order, 1, Len(order) - 1)
              /\ fate' = [fate EXCEPT ![r] = "executed"]
       ELSE UNCHANGED <<order, fate>>
    /\ UNCHANGED <<retried, fresh, suspended, runs, barren, workVars, cur, cut, inbox, busy,
                   cutterVars, child, waiterVars, boundVars>>

(* Mutant: the batch is claimed when it is scheduled, not when it is        *)
(* committed.                                                               *)
CommitWholeBatch ==
    /\ rpc \in {"run", "turned"}
    /\ rpc' = "turned"
    /\ IF open /\ ~cut /\ cur = Delivery
       THEN /\ order' = SelectSeq(order, LAMBDA r : r \notin UNION runs)
            /\ fate' = [r \in Reports |-> IF r \in UNION runs THEN "executed" ELSE fate[r]]
       ELSE UNCHANGED <<order, fate>>
    /\ UNCHANGED <<retried, fresh, suspended, runs, barren, workVars, cur, cut, inbox, busy,
                   cutterVars, child, waiterVars, boundVars>>

CommitReports ==
    /\ rpc \in {"run", "turned"}
    /\ rpc' = "turned"
    /\ IF open /\ ~cut /\ (cur = Delivery \/ inbox) /\ Eligible # {}
       THEN \E n \in Eligible :
              /\ order' = SubSeq(order, n + 1, Len(order))
              /\ fate' = [r \in Reports |->
                            IF r \in {order[i] : i \in 1..n} THEN "executed" ELSE fate[r]]
       ELSE UNCHANGED <<order, fate>>
    /\ UNCHANGED <<retried, fresh, suspended, runs, barren, workVars, cur, cut, inbox, busy,
                   cutterVars, child, waiterVars, boundVars>>

(* The model is done.  A user's turn closes its inbox only when no report   *)
(* waits, unless its request budget is spent; a delivery run has no inbox.  *)
BackendFinishes ==
    /\ rpc = "turned"
    /\ \E spent \in BOOLEAN : cur = Delivery \/ ~inbox \/ order = <<>> \/ spent
    /\ rpc' = "retire"
    /\ inbox' = FALSE
    /\ UNCHANGED <<reportVars, workVars, cur, cut, busy,
                   cutterVars, child, waiterVars, boundVars>>

(* It fails, or observes its cancellation.                                  *)
BackendFails ==
    /\ rpc \in {"run", "turned"}
    /\ rpc' = "retire"
    /\ inbox' = FALSE
    /\ UNCHANGED <<reportVars, workVars, cur, cut, busy,
                   cutterVars, child, waiterVars, boundVars>>

RunnerRetires ==
    /\ rpc = "retire"
    /\ pubs' = pubs + 1
    /\ inbox' = FALSE
    /\ rpc' = "settle"
    /\ UNCHANGED <<reportVars, open, ops, queue, guard, token, wake, cur, cut, busy,
                   cutterVars, child, waiterVars, boundVars>>

(* Mutant: a report is retried after every cancellation.                    *)
SettleRetriesForever(cancelled) ==
    /\ runs' = {}
    /\ LET left == (UNION runs) \cap Pending
       IN IF left # {}
          THEN /\ suspended' = (fresh \cap Pending = {} /\ ~cancelled)
               /\ barren' = barren + 1
          ELSE UNCHANGED <<suspended, barren>>
    /\ UNCHANGED <<order, fate, fresh, retried>>

(* delivery::settle for a run that ends with reports of its batch pending:  *)
(* go on if a report arrived meanwhile, retry a cancelled batch once, and   *)
(* otherwise suspend until something new happens.                           *)
Settle(cancelled) ==
    /\ runs' = {}
    /\ LET left == (UNION runs) \cap Pending
           retry == cancelled /\ left \ retried # {}
       IN IF left # {}
          THEN /\ retried' = IF retry THEN retried \cup left ELSE retried
               /\ suspended' = (fresh \cap Pending = {} /\ ~retry)
               /\ barren' = barren + 1
          ELSE UNCHANGED <<retried, suspended, barren>>
    /\ UNCHANGED <<order, fate, fresh>>

RunnerSettles ==
    /\ rpc = "settle"
    /\ IF cur = Delivery THEN Settle(cut) ELSE UNCHANGED reportVars
    /\ rpc' = "publish"
    /\ UNCHANGED <<workVars, cur, cut, inbox, busy, cutterVars, child, waiterVars, boundVars>>

RunnerPublishes ==
    /\ rpc = "publish"
    /\ pubs' = pubs - 1
    /\ wake' = TRUE
    /\ rpc' = "post"
    /\ UNCHANGED <<reportVars, open, ops, queue, guard, token, cur, cut, inbox, busy,
                   cutterVars, child, waiterVars, boundVars>>

RunnerNext ==
    /\ rpc = "post"
    /\ rpc' = "step" /\ cur' = Delivery /\ cut' = FALSE
    /\ UNCHANGED <<reportVars, workVars, inbox, busy,
                   cutterVars, child, waiterVars, boundVars>>

----------------------------------------------------------------------------
(* The users of the parent.                                                *)

(* submit or admit_turn: new work ends a suspension.                        *)
SubmitTurn(u) ==
    /\ open /\ u \notin used
    /\ used' = used \cup {u}
    /\ suspended' = FALSE
    /\ barren' = 0
    /\ Admitted(u)
    /\ UNCHANGED <<order, fate, retried, fresh, runs, open, pubs, guard, wake,
                   runnerVars, cutterVars, child, waiterVars, cuts, guards>>

(* The background preparation of the first admission succeeds.              *)
Prepare ==
    /\ open /\ ops # <<>>
    /\ queue' = Append(queue, Head(ops))
    /\ ops' = Tail(ops)
    /\ token' = TRUE
    /\ UNCHANGED <<reportVars, open, pubs, guard, wake,
                   runnerVars, cutterVars, child, waiterVars, boundVars>>

(* commit_locked of a prepared operation: the suspension ends.              *)
PreparedCommit ==
    /\ open /\ suspended
    /\ suspended' = FALSE
    /\ barren' = 0
    /\ token' = TRUE
    /\ UNCHANGED <<order, fate, retried, fresh, runs, open, ops, queue, pubs, guard, wake,
                   runnerVars, cutterVars, child, waiterVars, boundVars>>

PrepareIdle ==
    /\ open /\ ~guard /\ ~HasPendingWork
    /\ guards < MaxGuards
    /\ guards' = guards + 1
    /\ guard' = TRUE
    /\ UNCHANGED <<reportVars, open, ops, queue, pubs, token, wake,
                   runnerVars, cutterVars, child, waiterVars, used, cuts>>

ReleaseIdle ==
    /\ guard
    /\ guard' = FALSE
    /\ token' = TRUE
    /\ UNCHANGED <<reportVars, open, ops, queue, pubs, wake,
                   runnerVars, cutterVars, child, waiterVars, boundVars>>

(* withdraw_child_delivery, by a wait that returned the result itself.      *)
Withdraw(r) ==
    /\ Withdraws /\ fate[r] = "pending"
    /\ fate' = [fate EXCEPT ![r] = "discarded"]
    /\ order' = Without(order, r)
    /\ UNCHANGED <<retried, fresh, suspended, runs, barren, workVars, runnerVars,
                   cutterVars, child, waiterVars, boundVars>>

----------------------------------------------------------------------------
(* Cuts, made by other threads.  A cut takes work out under the lock and    *)
(* finalizes it after, one turn at a time.                                  *)

Discard ==
    /\ order' = <<>>
    /\ fate' = [r \in Reports |-> IF fate[r] = "pending" THEN "discarded" ELSE fate[r]]
    /\ UNCHANGED <<retried, fresh, suspended, runs, barren>>

(* Waiting work without w, and w alone; no turn waits twice.                *)
Others(s, w) == IF w \in SeqSet(s) THEN Without(s, w) ELSE s
Only(s, w) == IF w \in SeqSet(s) THEN <<w>> ELSE <<>>

Take(taken, o, q) ==
    /\ cpc = "none"
    /\ cwork' = taken
    /\ ops' = o
    /\ queue' = q
    /\ cphase' = "cut"
    /\ cpc' = "retire"

CancelProcessing(S) ==
    IF Processing /\ cur \in S THEN /\ cut' = TRUE /\ inbox' = FALSE
                               ELSE UNCHANGED <<cut, inbox>>

CountCut == /\ cuts < MaxCuts
            /\ cuts' = cuts + 1
            /\ UNCHANGED <<used, guards>>

(* cancel_existing and cancel_all take everything; local_cancel and         *)
(* clear_user_work spare delivery runs that wait; cancel_turn, remove and   *)
(* cancel_correlation aim at one turn.                                      *)
CutWork(taken, o, q, running) ==
    /\ CountCut
    /\ Take(taken, o, q)
    /\ CancelProcessing(running)
    /\ UNCHANGED <<reportVars, open, pubs, guard, token, wake, rpc, cur, busy,
                   child, waiterVars>>

CancelExisting == open /\ CutWork(ops \o queue, <<>>, <<>>, Work)

CutUserWork(running) ==
    CutWork(Others(ops, Delivery) \o Others(queue, Delivery),
            Only(ops, Delivery), Only(queue, Delivery), running)

LocalCancel == open /\ CutUserWork(Work)
ClearUserWork == open /\ CutUserWork({})

CancelTurn(w) ==
    /\ open
    /\ w \in SeqSet(ops \o queue) \/ (Processing /\ cur = w)
    /\ CutWork(Only(ops, w) \o Only(queue, w), Others(ops, w), Others(queue, w), {w})

(* clear gives the pending reports up too.                                  *)
Clear ==
    /\ open
    /\ CountCut
    /\ Take(ops \o queue, <<>>, <<>>)
    /\ Discard
    /\ UNCHANGED <<open, pubs, guard, token, wake, runnerVars, child, waiterVars>>

(* The preparation of the first admission panics: its thread finalizes it   *)
(* as failed, with a publication of its own pending all along.              *)
PreparePanics ==
    /\ open /\ ops # <<>> /\ cpc = "none"
    /\ CountCut
    /\ cwork' = <<Head(ops)>>
    /\ ops' = Tail(ops)
    /\ cphase' = "failed"
    /\ cpc' = "retire"
    /\ pubs' = pubs + 1
    /\ UNCHANGED <<reportVars, open, queue, guard, token, wake, runnerVars, child, waiterVars>>

(* capture_close: everything that is pending goes; the queue is drained     *)
(* only when the deferred work is finalized.                                *)
Close ==
    /\ Closes /\ open /\ cpc = "none"
    /\ open' = FALSE /\ guard' = FALSE
    /\ Discard
    /\ CancelProcessing(Work)
    /\ cwork' = ops /\ ops' = <<>>
    /\ cphase' = "deferred"
    /\ cpc' = "retire"
    /\ UNCHANGED <<queue, pubs, token, wake, rpc, cur, busy, child, waiterVars, boundVars>>

CutterRetires ==
    /\ cpc = "retire" /\ cwork # <<>>
    /\ pubs' = pubs + 1
    /\ cpc' = "settle"
    /\ UNCHANGED <<reportVars, open, ops, queue, guard, token, wake, runnerVars,
                   cwork, cphase, child, waiterVars, boundVars>>

CutterSettles ==
    /\ cpc = "settle"
    /\ IF Head(cwork) = Delivery THEN Settle(cphase # "failed") ELSE UNCHANGED reportVars
    /\ cpc' = "publish"
    /\ UNCHANGED <<workVars, runnerVars, cwork, cphase, child, waiterVars, boundVars>>

CutterPublishes ==
    /\ cpc = "publish"
    /\ pubs' = pubs - 1
    /\ cwork' = Tail(cwork)
    /\ cpc' = "retire"
    /\ UNCHANGED <<reportVars, open, ops, queue, guard, token, wake, runnerVars,
                   cphase, child, waiterVars, boundVars>>

(* Nothing is left to finalize: a close goes on to the queue, then wakes    *)
(* the runner; any other cut is over.                                       *)
CutterEnds ==
    /\ cpc = "retire" /\ cwork = <<>>
    /\ CASE cphase = "deferred" -> /\ cwork' = queue /\ queue' = <<>>
                                   /\ cphase' = "queue"
                                   /\ UNCHANGED <<cpc, pubs, token, wake>>
         [] cphase = "queue" -> /\ token' = TRUE /\ wake' = TRUE
                                /\ cpc' = "none" /\ cphase' = "cut"
                                /\ UNCHANGED <<cwork, queue, pubs>>
         [] cphase = "failed" -> /\ pubs' = pubs - 1
                                 /\ cpc' = "none" /\ cphase' = "cut"
                                 /\ UNCHANGED <<cwork, queue, token, wake>>
         [] cphase = "cut" -> /\ cpc' = "none"
                              /\ UNCHANGED <<cphase, cwork, queue, pubs, token, wake>>
    /\ UNCHANGED <<reportVars, open, ops, guard, runnerVars, child, waiterVars, boundVars>>

----------------------------------------------------------------------------
(* wait_settled: listen to every actor, then look at every actor.          *)

(* is_settled.                                                              *)
Settled(a) ==
    IF a = Parent
    THEN ~open \/ ~(busy \/ HasPendingWork \/ order # <<>> \/ runs # {})
    ELSE child[a] \in {"drained", "notified"}

Listen ==
    /\ Waits /\ wpc \in {"off", "again"}
    /\ wpc' = "check" /\ unchecked' = Actors /\ heard' = {}
    /\ UNCHANGED <<reportVars, workVars, runnerVars, cutterVars, child, boundVars>>

CheckActor(a) ==
    /\ wpc = "check" /\ a \in unchecked
    /\ IF Settled(a) THEN /\ unchecked' = unchecked \ {a}
                          /\ wpc' = IF unchecked' = {} THEN "poll" ELSE "check"
                     ELSE /\ unchecked' = {} /\ wpc' = "wait"
    /\ UNCHANGED <<reportVars, workVars, runnerVars, cutterVars, child, heard, boundVars>>

(* A pass in which no actor ran out of work is believed.                    *)
Poll ==
    /\ wpc = "poll"
    /\ wpc' = IF heard = {} THEN "done" ELSE "again"
    /\ heard' = {}
    /\ UNCHANGED <<reportVars, workVars, runnerVars, cutterVars, child, unchecked, boundVars>>

Hears ==
    /\ wpc = "wait" /\ heard # {}
    /\ wpc' = "again" /\ heard' = {}
    /\ UNCHANGED <<reportVars, workVars, runnerVars, cutterVars, child, unchecked, boundVars>>

----------------------------------------------------------------------------
ChildMoves(r) ==
    \/ ChildRetires(r) \/ ChildPublishes(r) \/ ChildStaysSilent(r)
    \/ ChildDrains(r) \/ ChildNotifies(r)

RunnerMoves ==
    \/ StepSchedules \/ StepPops \/ StepFindsNothing \/ RunnerDrains \/ RunnerSleeps
    \/ RunnerWakes \/ Withdrawn \/ SetupCancelled \/ Enter
    \/ RunnerRetires \/ RunnerSettles \/ RunnerPublishes \/ RunnerNext

BackendEnds == BackendFinishes \/ BackendFails

CutterMoves == CutterRetires \/ CutterSettles \/ CutterPublishes \/ CutterEnds

Cut == \/ CancelExisting \/ LocalCancel \/ ClearUserWork \/ Clear
       \/ \E w \in Work : CancelTurn(w)
       \/ PreparePanics \/ Close

WaiterMoves == Listen \/ (\E a \in Actors : CheckActor(a)) \/ Poll \/ Hears

Next ==
    \/ \E r \in Reports : ChildMoves(r) \/ Withdraw(r)
    \/ RunnerMoves \/ CommitReports \/ BackendEnds
    \/ \E u \in UserTurns : SubmitTurn(u)
    \/ Prepare \/ PreparedCommit \/ PrepareIdle \/ ReleaseIdle
    \/ Cut \/ CutterMoves \/ WaiterMoves

Spec == Init /\ [][Next]_vars

(* Every task runs, a model's request and an admission's preparation end,   *)
(* and a reservation is released.                                           *)
LiveSpec ==
    /\ Spec
    /\ \A r \in Reports : WF_vars(ChildMoves(r))
    /\ WF_vars(RunnerMoves) /\ WF_vars(rpc = "run" /\ CommitReports) /\ WF_vars(BackendEnds)
    /\ WF_vars(Prepare) /\ WF_vars(ReleaseIdle)
    /\ WF_vars(CutterMoves) /\ WF_vars(WaiterMoves)

----------------------------------------------------------------------------
(* Where the delivery turn is: admitted, queued, with the runner, or with a *)
(* thread that cut it.                                                      *)
Holders ==
    (IF Delivery \in SeqSet(ops) THEN {"ops"} ELSE {})
        \cup (IF Delivery \in SeqSet(queue) THEN {"queue"} ELSE {})
        \cup (IF cur = Delivery /\ (Processing \/ rpc = "settle") THEN {"runner"} ELSE {})
        \cup (IF /\ Delivery \in SeqSet(cwork)
                 /\ ~(cpc = "publish" /\ Head(cwork) = Delivery) THEN {"cutter"} ELSE {})

(* Every variable has its type; delivery_order and deliveries name the same *)
(* reports, which is what lets the code find one through the other, and a   *)
(* closed parent holds none.  An entry of delivery_runs keeps every later   *)
(* delivery from being scheduled, so it does not outlive its turn: whoever  *)
(* the turn was handed to, by a cut, a close, a withdrawal or a failed      *)
(* preparation, removes it.                                                 *)
TypeOK ==
    /\ fate \in [Reports -> {"none", "pending", "executed", "discarded", "rejected"}]
    /\ SeqSet(order) = Pending /\ Len(order) = Cardinality(Pending)
    /\ open \/ order = <<>>
    /\ retried \subseteq Reports /\ fresh \subseteq Reports
    /\ suspended \in BOOLEAN /\ open \in BOOLEAN /\ guard \in BOOLEAN
    /\ runs \subseteq SUBSET Reports /\ Cardinality(runs) <= 1
    /\ runs # {} <=> Cardinality(Holders) = 1
    /\ SeqSet(ops \o queue \o cwork) \subseteq Work
    /\ pubs \in 0..3 /\ barren \in Nat
    /\ {token, wake, cut, inbox, busy} \subseteq BOOLEAN
    /\ rpc \in {"step", "popped", "enter", "run", "turned", "retire", "settle", "publish",
                "post", "empty", "drained", "leaving", "asleep", "exit"}
    /\ cur \in Work
    /\ cpc \in {"none", "retire", "settle", "publish"}
    /\ cphase \in {"cut", "failed", "deferred", "queue"}
    /\ child \in [Reports -> {"run", "retired", "published", "drained", "notified"}]
    /\ wpc \in {"off", "check", "poll", "wait", "again", "done"}
    /\ unchecked \subseteq Actors /\ heard \subseteq Actors

(* A report is executed in the order of arrival: none is put into the       *)
(* history while an older one stays pending, through batches, withdrawals,  *)
(* retries and user turns that consume reports in passing.                  *)
NoOvertaking ==
    [][\A i, j \in DOMAIN order :
          i < j /\ fate'[order[j]] = "executed" => fate'[order[i]] # "pending"]_vars

(* What became of a report is final: one given back to a waiter or dropped  *)
(* by clear or close is never executed as well, an executed one never       *)
(* comes back, although the batch of the run still names it.                *)
FateIsFinal ==
    [][\A r \in Reports :
          fate[r] \in {"executed", "discarded", "rejected"} => fate'[r] = fate[r]]_vars

(* A parent whose delivery runs fail or are cancelled does not spin on      *)
(* them: since the last new report, turn or configuration two runs may      *)
(* leave reports behind (one was under way then, one is owed to the new     *)
(* report), and each further one was paid for by a report that had not been *)
(* retried before.                                                          *)
RetriesAreBounded == barren <= 2 + Cardinality(retried)

(* Nothing is forgotten: a pending report is executed, withdrawn or         *)
(* discarded in the end, or its delivery is suspended after an attempt.     *)
ReportSettles ==
    \A r \in Reports : fate[r] = "pending" ~> (fate[r] # "pending" \/ suspended)

(* wait_settled does not sleep through the end of the work: once the whole  *)
(* graph stays settled it returns.                                          *)
AllSettled == \A a \in Actors : Settled(a)
WaitReturns == <>[]AllSettled => <>(wpc = "done")

(* Neither a report nor the one who waits for all of them is forgotten.     *)
ReportsAndWaitEnd == ReportSettles /\ WaitReturns

(* "Resolves once no agent in the graph has work running or waiting, child  *)
(* results still on their way to a parent included" (the comment on         *)
(* wait_settled, manager/mod.rs): without new turns from the users, what it *)
(* saw of each actor one after the other still holds of all of them.        *)
SettledIsQuiet == [][wpc # "done" /\ wpc' = "done" => AllSettled]_vars
=============================================================================
