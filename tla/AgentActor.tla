----------------------------- MODULE AgentActor -----------------------------
(***************************************************************************)
(* The turn scheduler of one agent: maki-agent/src/actor/mod.rs (handle,   *)
(* operations, finalization), runner.rs (the runner task), queue.rs (the   *)
(* execution queue), tickets.rs (exact waits) and the idle predicate of    *)
(* idle.rs.                                                                *)
(*                                                                         *)
(* Every critical section of the actor's state lock is one action.  What a *)
(* caller does after it unlocks (finalizing the turns its cut removed, one *)
(* by one) is a sequence of later actions of that caller, interleaved with *)
(* the runner, the preparation tasks and the other callers.                *)
(*                                                                         *)
(* An operation is known by its operation id.  A turn's TurnId is          *)
(* allocated together with its operation id, so the id stands for both.    *)
(* Both deques hold their entries in ascending id order (ids are allocated *)
(* at push_back under the lock and materialize moves the front of one to   *)
(* the back of the other), so each deque is a set and its front is the     *)
(* least id.                                                               *)
(***************************************************************************)
EXTENDS Naturals

CONSTANTS Callers,          \* threads that call AgentActorHandle operations
          Correlations,     \* host cancellation keys
          RunCorrelations,  \* the keys of the form r<run id>
          Prepares,         \* the backend supplies an admission_preparation
          Refusals,         \* how its manager may refuse a turn, {} without a manager
          MaxOperations,    \* bound: operations ever admitted
          MaxCancellations  \* bound: reusable whole-actor cuts

ASSUME ActorAssumption ==
    /\ RunCorrelations \subseteq Correlations
    /\ Prepares \in BOOLEAN /\ Refusals \subseteq {"Closed", "Shutdown"}
    /\ MaxOperations \in Nat
    /\ MaxCancellations \in Nat

Ids      == 1..MaxOperations
NoId     == 0
Reasons  == {"User", "Closed", "Shutdown"}
Outcomes == {"Completed", "Failed"} \cup Reasons   \* a cancelled outcome is its reason
None     == "none"
NoKey    == "nokey"
Kinds    == {"Turn", "Control", "Compact"}

PrepStates   == {"none", "running", "failing", "publishing", "failed"}
RunnerStates == {"loop", "drained", "waiting", "exited", "popped", "installed", "granted",
                 "backend", "control", "retire", "publish", "finish"}
Phases       == {"free", "deferred", "fire", "drain", "drained"}
Calls        == {"none", "admit", "cancel_existing", "cancel_turn", "remove", "clear",
                 "cancel_correlation", "close"}

VARIABLES
    lifecycle, closePending,          \* ActorState.lifecycle, close_pending
    nextOperationId, kind, correlation,
    operations, preparing, prep,      \* the operation FIFO and its preparation tasks
    queue, notifyToken, wakeFlag,     \* ActorQueue and the runner's two wake sources
    tickets, outcomes, resolved, ended,
    publishing, failing,              \* what pending_publications counts
    idlePending,
    status, active, processing, processingReason,
    token,                            \* fired reason of each work's ActiveCancel
    cancelledCorrelations, cancellationGeneration,
    pc, work, poppedGeneration, result,       \* the runner task
    phase, call, todo, drained, victim, reason, publication,  \* each caller
    doomed                            \* ghost: first cut that covered the turn

lifeVars   == <<lifecycle, closePending>>
admitVars  == <<nextOperationId, kind, correlation>>
opVars     == <<operations, preparing, prep>>
queueVars  == <<queue, notifyToken>>
ledgerVars == <<tickets, outcomes, resolved, ended, publishing, failing>>
slotVars   == <<status, active, processing, processingReason>>
cancelVars == <<cancelledCorrelations, cancellationGeneration>>
runnerVars == <<pc, work, poppedGeneration, result>>
callerVars == <<phase, call, todo, drained, victim, reason, publication>>

vars == <<lifeVars, admitVars, opVars, queueVars, wakeFlag, ledgerVars, idlePending,
          slotVars, token, cancelVars, runnerVars, callerVars, doomed>>

-----------------------------------------------------------------------------
Turns(S) == {i \in S : kind[i] = "Turn"}

\* Option::get_or_insert on a cancellation reason.
FirstReason(old, new) == IF old = None THEN new ELSE old

Init ==
    /\ lifecycle = "Open" /\ closePending = FALSE
    /\ nextOperationId = 0
    /\ kind = [i \in Ids |-> None]
    /\ correlation = [i \in Ids |-> NoKey]
    /\ operations = {} /\ preparing = NoId /\ prep = [i \in Ids |-> "none"]
    /\ queue = {} /\ notifyToken = FALSE /\ wakeFlag = FALSE
    /\ tickets = {}
    /\ outcomes = [i \in Ids |-> None] /\ resolved = [i \in Ids |-> None]
    /\ ended = [i \in Ids |-> 0]
    /\ publishing = {} /\ failing = {}
    /\ idlePending = FALSE
    /\ status = NoId /\ active = NoId /\ processing = NoId /\ processingReason = None
    /\ token = [i \in Ids |-> None]
    /\ cancelledCorrelations = [k \in Correlations |-> None]
    /\ cancellationGeneration = 0
    /\ pc = "loop" /\ work = NoId /\ poppedGeneration = 0 /\ result = None
    /\ phase = [c \in Callers |-> "free"] /\ call = [c \in Callers |-> "none"]
    /\ todo = [c \in Callers |-> {}] /\ drained = [c \in Callers |-> {}]
    /\ victim = [c \in Callers |-> NoId] /\ reason = [c \in Callers |-> None]
    /\ publication = [c \in Callers |-> NoId]
    /\ doomed = [i \in Ids |-> None]

-----------------------------------------------------------------------------
(* Helpers every critical section ends with.  They read the state the      *)
(* section leaves behind, hence the primes.                                *)

HasPendingWork(ops, q) ==
    \/ status' # NoId \/ active' # NoId \/ processing' # NoId
    \/ publishing' # {} \/ failing' # {}
    \/ ops # {} \/ q # {}

\* Mutant: a push does not notify the runner.
DriveSilently(ops, q, tasks) ==
    /\ idlePending' = (idlePending \/ HasPendingWork(ops, q))
    /\ operations' = {} /\ queue' = q \cup ops
    /\ prep' = tasks
    /\ UNCHANGED <<preparing, notifyToken>>

\* Moves the operations that need no preparation to the execution queue (a
\* push notifies the runner) and starts a preparation task for the first turn
\* that needs one.
DriveOperations(ops, q, tasks) ==
    /\ idlePending' = (idlePending \/ HasPendingWork(ops, q))
    /\ IF lifecycle # "Open"
       THEN /\ operations' = ops /\ queue' = q
            /\ prep' = tasks
            /\ UNCHANGED <<preparing, notifyToken>>
       ELSE LET waiting == {i \in ops : Prepares /\ kind'[i] = "Turn"}
                ready   == {i \in ops : \A j \in waiting : i < j}
            IN  /\ operations' = ops \ ready
                /\ queue' = q \cup ready
                /\ notifyToken' = (notifyToken \/ ~(queue' \subseteq queue))
                /\ \/ waiting = {} /\ preparing' = NoId /\ prep' = tasks
                   \/ \E i \in waiting :
                         /\ \A j \in waiting : i <= j
                         /\ preparing' = i
                         /\ prep' = IF preparing = i THEN tasks
                                                    ELSE [tasks EXCEPT ![i] = "running"]

PublishIdle ==
    idlePending' = (idlePending /\ ~(/\ lifecycle' = "Open"
                                     /\ ~HasPendingWork(operations', queue')
                                     /\ tickets' = {}))

\* Mutant: Close does not wait for the publications in flight.
FinishCloseEarly ==
    closePending' = (closePending /\ ~(processing' = NoId /\ tickets' = {}))

FinishClose ==
    closePending' = (closePending /\ ~(/\ processing' = NoId
                                       /\ publishing' \cup failing' = {}
                                       /\ tickets' = {}))

CloseEmitted == lifecycle # "Open" /\ ~closePending

-----------------------------------------------------------------------------
(* Finalization of one turn: retain its outcome, then publish it.          *)

\* Mutant: the publication of a retired turn is not counted.
RetireUncounted(t, o) ==
    /\ outcomes' = [outcomes EXCEPT ![t] = o]
    /\ tickets' = tickets \ {t}
    /\ UNCHANGED publishing

\* retire_turn: the first outcome is retained; a turn the actor was told to
\* cancel while it was being processed is retained as cancelled.
RetireTurn(t, o) ==
    LET final == IF processing = t /\ processingReason # None /\ o \notin Reasons
                 THEN processingReason ELSE o
    IN  IF outcomes[t] = None
        THEN /\ outcomes' = [outcomes EXCEPT ![t] = final]
             /\ tickets' = tickets \ {t}
             /\ publishing' = publishing \cup {t}
        ELSE UNCHANGED <<outcomes, tickets, publishing>>

\* The tail of retire_and_publish: resolve the ticket, emit End to the
\* observers that are still attached, drop the publication.
Publish(t) ==
    /\ resolved' = [resolved EXCEPT ![t] = FirstReason(@, outcomes[t])]
    /\ ended' = [ended EXCEPT ![t] = IF CloseEmitted THEN @ ELSE @ + 1]
    /\ publishing' = publishing \ {t}

-----------------------------------------------------------------------------
(* AgentActorHandle: admission.                                            *)

Register(k, key) ==
    LET id == nextOperationId + 1 IN
    /\ lifecycle = "Open"
    /\ nextOperationId < MaxOperations
    /\ nextOperationId' = id
    /\ kind' = [kind EXCEPT ![id] = k]
    /\ correlation' = [correlation EXCEPT ![id] = key]

\* What a caller has left to do once it has released the state lock.
Settle(c, op, deferred, queued, fire, r) ==
    /\ phase'   = [phase EXCEPT ![c] = "deferred"]
    /\ call'    = [call EXCEPT ![c] = op]
    /\ todo'    = [todo EXCEPT ![c] = deferred]
    /\ drained' = [drained EXCEPT ![c] = queued]
    /\ victim'  = [victim EXCEPT ![c] = fire]
    /\ reason'  = [reason EXCEPT ![c] = r]
    /\ UNCHANGED publication

Doom(S, r) ==
    doomed' = [i \in Ids |-> IF i \in S THEN FirstReason(doomed[i], r) ELSE doomed[i]]

\* admit_turn on an unmarked correlation key.
AdmitTurn(key) ==
    /\ cancelledCorrelations[key] = None
    /\ Register("Turn", key)
    /\ tickets' = tickets \cup {nextOperationId'}
    /\ UNCHANGED <<lifeVars, wakeFlag, outcomes, resolved, ended, publishing, failing,
                   slotVars, token, cancelVars, runnerVars, callerVars, doomed>>
    /\ DriveOperations(operations \cup {nextOperationId'}, queue, prep)

\* admit_turn on a precancelled key: admitted, then settled by its caller.
AdmitCancelled(c, key) ==
    /\ phase[c] = "free"
    /\ cancelledCorrelations[key] # None
    /\ Register("Turn", key)
    /\ tickets' = tickets \cup {nextOperationId'}
    /\ Settle(c, "admit", {nextOperationId'}, {}, NoId, cancelledCorrelations[key])
    /\ Doom({nextOperationId'}, cancelledCorrelations[key])
    /\ UNCHANGED <<lifeVars, opVars, queueVars, wakeFlag, outcomes, resolved, ended,
                   publishing, failing, idlePending, slotVars, token, cancelVars, runnerVars>>

PushOperation(k, key) ==
    /\ Register(k, key)
    /\ UNCHANGED <<lifeVars, wakeFlag, ledgerVars, slotVars, token, cancelVars,
                   runnerVars, callerVars, doomed>>
    /\ DriveOperations(operations \cup {nextOperationId'}, queue, prep)

PushControl(key) == PushOperation("Control", key)

\* push_compact: a compact carries a run key and is dropped when it was precancelled.
PushCompact(key) ==
    /\ key \in RunCorrelations
    /\ cancelledCorrelations[key] = None
    /\ PushOperation("Compact", key)

-----------------------------------------------------------------------------
(* AgentActorHandle: removal and cancellation cuts.                        *)

\* Mutant: the cut takes the queued turns without removing them from the queue.
CancelExistingKeepingQueue(c) ==
    /\ phase[c] = "free"
    /\ cancellationGeneration < MaxCancellations
    /\ cancellationGeneration' = cancellationGeneration + 1
    /\ Settle(c, "cancel_existing", Turns(operations), Turns(queue), active, "User")
    /\ Doom(Turns(operations \cup queue), "User")
    /\ UNCHANGED <<lifeVars, admitVars, wakeFlag, ledgerVars, slotVars, token,
                   cancelledCorrelations, runnerVars>>
    /\ DriveOperations({}, queue, prep)

\* The one atomic cut of cancel_existing; firing the token and finalizing
\* the removed turns follow after the lock is released.
CancelExisting(c) ==
    /\ phase[c] = "free"
    /\ cancellationGeneration < MaxCancellations
    /\ cancellationGeneration' = cancellationGeneration + 1
    /\ processingReason' = IF processing # NoId THEN FirstReason(processingReason, "User")
                                                ELSE processingReason
    /\ active' = NoId
    /\ Settle(c, "cancel_existing", Turns(operations), Turns(queue), active, "User")
    /\ Doom(Turns(operations \cup queue \cup ({processing} \ {NoId})), "User")
    /\ UNCHANGED <<lifeVars, admitVars, wakeFlag, ledgerVars, status, processing, token,
                   cancelledCorrelations, runnerVars>>
    /\ DriveOperations({}, {}, prep)

\* Mutant: a turn popped and not yet active is not told of its cancellation.
CancelTurnMissingGap(c, t) ==
    /\ phase[c] = "free" /\ lifecycle = "Open" /\ t \in tickets
    /\ IF status = t /\ active # NoId
       THEN active' = NoId /\ token' = [token EXCEPT ![active] = FirstReason(@, "User")]
       ELSE UNCHANGED <<active, token>>
    /\ Settle(c, "cancel_turn", operations \cap {t}, queue \cap {t}, NoId, "User")
    /\ Doom((operations \cup queue \cup {processing}) \cap {t}, "User")
    /\ UNCHANGED <<lifeVars, admitVars, wakeFlag, ledgerVars, status, processing,
                   processingReason, cancelVars, runnerVars>>
    /\ DriveOperations(operations \ {t}, queue \ {t}, prep)

\* cancel_turn / capture_turn_cancel: catches the turn queued, active or in
\* the gap between queue pop and active install.
CancelTurn(c, t) ==
    /\ phase[c] = "free"
    /\ lifecycle = "Open"
    /\ t \in tickets
    /\ processingReason' = IF processing = t THEN FirstReason(processingReason, "User")
                                             ELSE processingReason
    /\ IF status = t /\ active # NoId
       THEN /\ active' = NoId
            /\ token' = [token EXCEPT ![active] = FirstReason(@, "User")]
       ELSE UNCHANGED <<active, token>>
    /\ Settle(c, "cancel_turn", operations \cap {t}, queue \cap {t}, NoId, "User")
    /\ Doom((operations \cup queue \cup {processing}) \cap {t}, "User")
    /\ UNCHANGED <<lifeVars, admitVars, wakeFlag, ledgerVars, status, processing,
                   cancelVars, runnerVars>>
    /\ DriveOperations(operations \ {t}, queue \ {t}, prep)

\* remove: takes a turn that has not started out of either deque.
Remove(c, t) ==
    /\ phase[c] = "free"
    /\ kind[t] = "Turn"
    /\ IF t \in operations \cup queue
       THEN Settle(c, "remove", operations \cap {t}, queue \cap {t}, NoId, "User")
       ELSE UNCHANGED callerVars
    /\ Doom((operations \cup queue) \cap {t}, "User")
    /\ UNCHANGED <<lifeVars, admitVars, wakeFlag, ledgerVars, slotVars, token,
                   cancelVars, runnerVars>>
    /\ DriveOperations(operations \ {t}, queue \ {t}, prep)

\* clear: empties both deques and leaves the work being processed alone.
Clear(c) ==
    /\ phase[c] = "free"
    /\ Settle(c, "clear", Turns(operations), Turns(queue), NoId, "User")
    /\ Doom(Turns(operations \cup queue), "User")
    /\ UNCHANGED <<lifeVars, admitVars, wakeFlag, ledgerVars, slotVars, token,
                   cancelVars, runnerVars>>
    /\ DriveOperations({}, {}, prep)

\* cancel_correlation: cancels the work admitted under a key, or marks the
\* key so that a later admission is cancelled on arrival.
CancelCorrelation(c, key) ==
    LET carries(i)        == i # NoId /\ correlation[i] = key
        matchedActive     == carries(active)
        matchedProcessing == carries(processing)
        matched(S)        == {i \in S : carries(i) /\ kind[i] # "Control"}
    IN
    /\ phase[c] = "free"
    /\ IF matchedActive
       THEN /\ active' = NoId
            /\ token' = [token EXCEPT ![active] = FirstReason(@, "User")]
       ELSE UNCHANGED <<active, token>>
    /\ processingReason' = IF matchedProcessing THEN FirstReason(processingReason, "User")
                                                ELSE processingReason
    /\ cancelledCorrelations' =
          IF ~matchedActive /\ ~matchedProcessing /\ matched(operations \cup queue) = {}
          THEN [cancelledCorrelations EXCEPT ![key] = "User"]
          ELSE cancelledCorrelations
    /\ Settle(c, "cancel_correlation", Turns(matched(operations)), Turns(matched(queue)),
              NoId, "User")
    /\ Doom(Turns(matched(operations \cup queue \cup ({processing} \ {NoId}))), "User")
    /\ UNCHANGED <<lifeVars, admitVars, wakeFlag, ledgerVars, status, processing,
                   cancellationGeneration, runnerVars>>
    /\ DriveOperations(operations \ matched(operations), queue \ matched(queue), prep)

\* Mutant: a close that is still pending is overtaken by a later one.
CloseAgain(c, l) ==
    /\ phase[c] = "free"
    /\ lifecycle = "Open" \/ closePending
    /\ lifecycle' = l /\ closePending' = TRUE
    /\ preparing' = NoId /\ operations' = {}
    /\ Settle(c, "close", Turns(operations), {}, NoId, l)
    /\ Doom(Turns(operations \cup queue), l)
    /\ UNCHANGED <<admitVars, prep, queueVars, wakeFlag, ledgerVars, idlePending, slotVars,
                   token, cancelVars, runnerVars>>

\* close and shutdown / capture_close: the first one wins, later ones are no-ops.
Close(c, l) ==
    /\ phase[c] = "free"
    /\ lifecycle = "Open"
    /\ lifecycle' = l /\ closePending' = TRUE
    /\ processingReason' = IF processing # NoId THEN FirstReason(processingReason, l)
                                                ELSE processingReason
    /\ token' = IF active # NoId
                THEN [token EXCEPT ![active] = FirstReason(@, FirstReason(processingReason', l))]
                ELSE token
    /\ active' = NoId
    /\ preparing' = NoId /\ operations' = {}
    /\ cancelledCorrelations' = [k \in Correlations |-> None]
    /\ Settle(c, "close", Turns(operations), {}, NoId, l)
    /\ Doom(Turns(operations \cup queue \cup ({processing} \ {NoId})), l)
    /\ UNCHANGED <<admitVars, prep, queueVars, wakeFlag, ledgerVars, idlePending, status,
                   processing, cancellationGeneration, runnerVars>>

-----------------------------------------------------------------------------
(* A caller after its cut: settle_deferred, fire, drain, terminalize_work. *)

CallerRetire(c) ==
    /\ phase[c] \in {"deferred", "drained"}
    /\ publication[c] = NoId
    /\ \E t \in todo[c] :
          /\ \A u \in todo[c] : t <= u
          /\ RetireTurn(t, reason[c])
          /\ todo' = [todo EXCEPT ![c] = @ \ {t}]
          /\ publication' = IF outcomes[t] = None THEN [publication EXCEPT ![c] = t]
                                                  ELSE publication
    /\ UNCHANGED <<lifeVars, admitVars, opVars, queueVars, wakeFlag, resolved, ended, failing,
                   idlePending, slotVars, token, cancelVars, runnerVars, phase, call, drained,
                   victim, reason, doomed>>

CallerPublish(c) ==
    /\ publication[c] # NoId
    /\ Publish(publication[c])
    /\ publication' = [publication EXCEPT ![c] = NoId]
    /\ UNCHANGED <<lifecycle, admitVars, opVars, queueVars, wakeFlag, tickets, outcomes, failing,
                   slotVars, token, cancelVars, runnerVars, phase, call, todo, drained,
                   victim, reason, doomed>>
    /\ FinishClose
    /\ PublishIdle

Settled(c, p) == phase[c] = p /\ todo[c] = {} /\ publication[c] = NoId

\* The end of settle_deferred.
CallerDeferredDone(c) ==
    /\ Settled(c, "deferred")
    /\ phase' = [phase EXCEPT ![c] = CASE call[c] = "cancel_existing" -> "fire"
                                       [] call[c] = "close"           -> "drain"
                                       [] OTHER                       -> "drained"]
    /\ IF call[c] \in {"cancel_existing", "close"}
       THEN UNCHANGED <<todo, drained>>
       ELSE /\ todo' = [todo EXCEPT ![c] = drained[c]]
            /\ drained' = [drained EXCEPT ![c] = {}]
    /\ UNCHANGED <<lifeVars, admitVars, opVars, queueVars, wakeFlag, ledgerVars, slotVars, token,
                   cancelVars, runnerVars, call, victim, reason, publication, doomed>>
    /\ PublishIdle

\* cancel_existing fires the token it took only after settling the deferred turns.
CallerFire(c) ==
    /\ phase[c] = "fire"
    /\ token' = IF victim[c] # NoId
                THEN [token EXCEPT ![victim[c]] = FirstReason(@, reason[c])] ELSE token
    /\ phase' = [phase EXCEPT ![c] = "drained"]
    /\ todo' = [todo EXCEPT ![c] = drained[c]]
    /\ drained' = [drained EXCEPT ![c] = {}]
    /\ victim' = [victim EXCEPT ![c] = NoId]
    /\ UNCHANGED <<lifeVars, admitVars, opVars, queueVars, wakeFlag, ledgerVars, idlePending,
                   slotVars, cancelVars, runnerVars, call, reason, publication, doomed>>

\* Mutant: close discards the queue without settling the turns in it.
CallerDiscard(c) ==
    /\ phase[c] = "drain"
    /\ queue' = {}
    /\ phase' = [phase EXCEPT ![c] = "drained"]
    /\ UNCHANGED <<lifeVars, admitVars, opVars, notifyToken, wakeFlag, ledgerVars, idlePending,
                   slotVars, token, cancelVars, runnerVars, call, todo, drained, victim, reason,
                   publication, doomed>>

\* settle_close drains the execution queue under the queue lock alone.
CallerDrain(c) ==
    /\ phase[c] = "drain"
    /\ todo' = [todo EXCEPT ![c] = Turns(queue)]
    /\ queue' = {}
    /\ phase' = [phase EXCEPT ![c] = "drained"]
    /\ UNCHANGED <<lifeVars, admitVars, opVars, notifyToken, wakeFlag, ledgerVars, idlePending,
                   slotVars, token, cancelVars, runnerVars, call, drained, victim, reason,
                   publication, doomed>>

\* The call returns.  Only terminalize_work publishes idle once more; close
\* emits Close when it can and wakes the runner.
CallerDone(c) ==
    /\ Settled(c, "drained")
    /\ phase' = [phase EXCEPT ![c] = "free"]
    /\ call' = [call EXCEPT ![c] = "none"]
    /\ reason' = [reason EXCEPT ![c] = None]
    /\ UNCHANGED <<lifecycle, admitVars, opVars, queue, ledgerVars, slotVars, token, cancelVars,
                   runnerVars, todo, drained, victim, publication, doomed>>
    /\ IF call[c] = "close"
       THEN FinishClose /\ notifyToken' = TRUE /\ wakeFlag' = TRUE
       ELSE UNCHANGED <<closePending, notifyToken, wakeFlag>>
    /\ IF call[c] \in {"cancel_existing", "clear", "cancel_correlation", "close"}
       THEN PublishIdle
       ELSE UNCHANGED idlePending

-----------------------------------------------------------------------------
(* The admission preparation task of a turn.                               *)

\* A task whose operation is no longer the head being prepared is stale.
Current(i) == lifecycle = "Open" /\ preparing = i /\ i \in operations
                /\ \A j \in operations : i <= j

PrepareStale(i) ==
    /\ prep[i] = "running"
    /\ ~Current(i)
    /\ prep' = [prep EXCEPT ![i] = "none"]
    /\ UNCHANGED <<lifeVars, admitVars, operations, preparing, queueVars, wakeFlag, ledgerVars,
                   idlePending, slotVars, token, cancelVars, runnerVars, callerVars, doomed>>

\* The preparation returned: the turn joins the execution queue.
PrepareReady(i) ==
    /\ prep[i] = "running"
    /\ Current(i)
    /\ UNCHANGED <<lifeVars, admitVars, wakeFlag, ledgerVars, slotVars, token, cancelVars,
                   runnerVars, callerVars, doomed>>
    /\ DriveOperations(operations \ {i}, queue \cup {i}, [prep EXCEPT ![i] = "none"])

\* The preparation panicked: the turn leaves the FIFO and will be failed.
PreparePanic(i) ==
    /\ prep[i] = "running"
    /\ Current(i)
    /\ failing' = failing \cup {i}
    /\ UNCHANGED <<lifeVars, admitVars, wakeFlag, tickets, outcomes, resolved, ended, publishing,
                   slotVars, token, cancelVars, runnerVars, callerVars, doomed>>
    /\ DriveOperations(operations \ {i}, queue, [prep EXCEPT ![i] = "failing"])

FailRetire(i) ==
    /\ prep[i] = "failing"
    /\ RetireTurn(i, "Failed")
    /\ prep' = [prep EXCEPT ![i] = IF outcomes[i] = None THEN "publishing" ELSE "failed"]
    /\ UNCHANGED <<lifeVars, admitVars, operations, preparing, queueVars, wakeFlag, resolved,
                   ended, failing, idlePending, slotVars, token, cancelVars, runnerVars,
                   callerVars, doomed>>

FailPublish(i) ==
    /\ prep[i] = "publishing"
    /\ Publish(i)
    /\ prep' = [prep EXCEPT ![i] = "failed"]
    /\ UNCHANGED <<lifecycle, admitVars, operations, preparing, queueVars, wakeFlag, tickets,
                   outcomes, failing, slotVars, token, cancelVars, runnerVars, callerVars, doomed>>
    /\ FinishClose
    /\ PublishIdle

FailDone(i) ==
    /\ prep[i] = "failed"
    /\ failing' = failing \ {i}
    /\ prep' = [prep EXCEPT ![i] = "none"]
    /\ UNCHANGED <<lifecycle, admitVars, operations, preparing, queueVars, wakeFlag, tickets,
                   outcomes, resolved, ended, publishing, slotVars, token, cancelVars,
                   runnerVars, callerVars, doomed>>
    /\ FinishClose
    /\ PublishIdle

-----------------------------------------------------------------------------
(* The runner task.                                                        *)

\* A started run supersedes the precancel marks of every run key.
RetireSupersededPrecancels(w) ==
    cancelledCorrelations' =
        IF kind[w] # "Compact" /\ correlation[w] \in RunCorrelations
        THEN [k \in Correlations |-> IF k \in RunCorrelations THEN None
                                                              ELSE cancelledCorrelations[k]]
        ELSE cancelledCorrelations

RunnerPop ==
    /\ pc = "loop"
    /\ \E w \in queue :
          /\ \A v \in queue : w <= v
          /\ queue' = queue \ {w}
          /\ work' = w /\ processing' = w
          /\ RetireSupersededPrecancels(w)
    /\ processingReason' = None
    /\ poppedGeneration' = cancellationGeneration
    /\ idlePending' = TRUE
    /\ pc' = "popped"
    /\ UNCHANGED <<lifeVars, admitVars, opVars, notifyToken, wakeFlag, ledgerVars, status, active,
                   token, cancellationGeneration, result, callerVars, doomed>>

RunnerOnly == UNCHANGED <<lifeVars, admitVars, opVars, queue, ledgerVars, idlePending, slotVars,
                          token, cancelVars, work, poppedGeneration, result, callerVars, doomed>>

RunnerEmpty ==
    /\ pc = "loop" /\ queue = {}
    /\ pc' = "drained"
    /\ UNCHANGED <<notifyToken, wakeFlag>> /\ RunnerOnly

RunnerWait ==
    /\ pc = "drained"
    /\ pc' = IF lifecycle # "Open" THEN "exited" ELSE "waiting"
    /\ UNCHANGED <<notifyToken, wakeFlag>> /\ RunnerOnly

\* future::or polls the notify channel first.
RunnerWake ==
    /\ pc = "waiting"
    /\ notifyToken \/ wakeFlag
    /\ notifyToken' = FALSE
    /\ wakeFlag' = (wakeFlag /\ notifyToken)
    /\ pc' = IF lifecycle = "Open" THEN "loop" ELSE "exited"
    /\ RunnerOnly

\* What the runner does next without holding the state lock.
RunnerTo(p, o) ==
    /\ pc' = p /\ result' = o
    /\ UNCHANGED <<lifeVars, admitVars, opVars, queueVars, wakeFlag, ledgerVars, idlePending,
                   processing, processingReason, token, cancelVars, work, poppedGeneration,
                   callerVars, doomed>>

\* run_turn, first critical section: a cut that landed after the pop owns the turn.
RunnerInstall ==
    /\ pc = "popped" /\ kind[work] = "Turn"
    /\ IF cancellationGeneration # poppedGeneration
       THEN RunnerTo("retire", "User") /\ UNCHANGED <<active, status>>
       ELSE IF lifecycle # "Open"
       THEN RunnerTo("retire", lifecycle) /\ UNCHANGED <<active, status>>
       ELSE IF processingReason # None
       THEN RunnerTo("retire", processingReason) /\ UNCHANGED <<active, status>>
       ELSE RunnerTo("installed", None) /\ active' = work /\ status' = work

\* The cancellation check and enter_managed_turn.  A managed turn whose active
\* slot a cut has taken is not registered and waits for its token to fire.
RunnerPermit ==
    /\ pc = "installed"
    /\ UNCHANGED <<active, status>>
    /\ \/ token[work] # None /\ RunnerTo("retire", token[work])
       \/ /\ token[work] = None
          /\ Refusals # {} => active # NoId
          /\ RunnerTo("granted", None)

\* enter_managed_turn refuses the turn: the manager is shutting down, or the
\* agent's node or the actor is no longer live.  When is the manager's affair.
RunnerRefused ==
    /\ pc = "installed"
    /\ \E r \in Refusals :
          /\ pc' = "retire" /\ result' = r
          /\ Doom({work}, r)
    /\ UNCHANGED <<lifeVars, admitVars, opVars, queueVars, wakeFlag, ledgerVars, idlePending,
                   slotVars, token, cancelVars, work, poppedGeneration, callerVars>>

\* Second critical section of run_turn: the turn starts unless it was stopped.
RunnerStart ==
    /\ pc = "granted"
    /\ UNCHANGED <<active, status>>
    /\ IF lifecycle # "Open" \/ token[work] # None
       THEN RunnerTo("retire", FirstReason(token[work], "Closed"))
       ELSE RunnerTo("backend", None)

\* The backend returns: a run outcome, a setup failure or a cancellation it was told of.
RunnerBackend ==
    /\ pc = "backend"
    /\ UNCHANGED <<active, status>>
    /\ \E o \in {"Completed", "Failed"} \cup ({token[work]} \ {None}) : RunnerTo("retire", o)

\* The running turn folds the compaction at the front of the queue (pop_interrupt).
RunnerInterrupt ==
    /\ pc = "backend"
    /\ cancellationGeneration = poppedGeneration
    /\ \E w \in queue : /\ \A v \in queue : w <= v
                       /\ kind[w] = "Compact"
                       /\ queue' = queue \ {w}
    /\ UNCHANGED <<lifeVars, admitVars, opVars, notifyToken, wakeFlag, ledgerVars, idlePending,
                   slotVars, token, cancelVars, runnerVars, callerVars, doomed>>

\* Mutant: the outcome is retained without clearing the actor's status.
RunnerRetireRunning ==
    /\ pc = "retire"
    /\ RetireTurn(work, result)
    /\ active' = NoId /\ processing' = NoId /\ processingReason' = None
    /\ pc' = IF outcomes[work] = None THEN "publish" ELSE "finish"
    /\ result' = None
    /\ UNCHANGED <<lifeVars, admitVars, opVars, queueVars, wakeFlag, resolved, ended, failing, status,
                   idlePending, token, cancelVars, work, poppedGeneration, callerVars, doomed>>

\* settle_and_finalize_turn: the active slot clears with retaining the outcome.
RunnerRetire ==
    /\ pc = "retire"
    /\ RetireTurn(work, result)
    /\ active' = NoId /\ processing' = NoId /\ status' = NoId
    /\ processingReason' = None
    /\ pc' = IF outcomes[work] = None THEN "publish" ELSE "finish"
    /\ result' = None
    /\ wakeFlag' = (wakeFlag \/ outcomes[work] # None)
    /\ UNCHANGED <<lifeVars, admitVars, opVars, queueVars, resolved, ended, failing,
                   idlePending, token, cancelVars, work, poppedGeneration, callerVars, doomed>>

RunnerPublish ==
    /\ pc = "publish"
    /\ Publish(work)
    /\ pc' = "finish"
    /\ wakeFlag' = TRUE
    /\ UNCHANGED <<lifecycle, admitVars, opVars, queueVars, tickets, outcomes, failing, slotVars,
                   token, cancelVars, work, poppedGeneration, result, callerVars, doomed>>
    /\ FinishClose
    /\ PublishIdle

\* run_control and run_compact, first critical section.
RunnerInstallControl ==
    /\ pc = "popped" /\ kind[work] # "Turn"
    /\ UNCHANGED status
    /\ IF lifecycle # "Open" \/ processingReason # None
       THEN RunnerTo("finish", None) /\ UNCHANGED active
       ELSE RunnerTo("control", None) /\ active' = work

\* The control or compaction ended, or was cancelled before it began.
RunnerControlDone ==
    /\ pc = "control"
    /\ UNCHANGED status
    /\ active' = NoId
    /\ RunnerTo("finish", None)

\* The end of one iteration of step.
RunnerFinish ==
    /\ pc = "finish"
    /\ processing' = NoId /\ processingReason' = None
    /\ work' = NoId /\ poppedGeneration' = 0
    /\ pc' = "loop"
    /\ UNCHANGED <<lifecycle, admitVars, opVars, queueVars, wakeFlag, ledgerVars, status, active,
                   token, cancelVars, result, callerVars, doomed>>
    /\ FinishClose
    /\ PublishIdle

-----------------------------------------------------------------------------
Runner ==
    \/ RunnerPop \/ RunnerEmpty \/ RunnerWait \/ RunnerWake
    \/ RunnerInstall \/ RunnerPermit \/ RunnerStart \/ RunnerBackend
    \/ RunnerRetire \/ RunnerPublish
    \/ RunnerInstallControl \/ RunnerControlDone \/ RunnerFinish

Preparation(i) ==
    \/ PrepareStale(i) \/ PrepareReady(i) \/ PreparePanic(i)
    \/ FailRetire(i) \/ FailPublish(i) \/ FailDone(i)

CallerStep(c) ==
    \/ CallerRetire(c) \/ CallerPublish(c) \/ CallerDeferredDone(c)
    \/ CallerFire(c) \/ CallerDrain(c) \/ CallerDone(c)

Call(c) ==
    \/ \E key \in Correlations : AdmitCancelled(c, key) \/ CancelCorrelation(c, key)
    \/ \E t \in Ids : CancelTurn(c, t) \/ Remove(c, t)
    \/ CancelExisting(c) \/ Clear(c)
    \/ \E l \in {"Closed", "Shutdown"} : Close(c, l)

Push ==
    \E key \in Correlations : AdmitTurn(key) \/ PushControl(key) \/ PushCompact(key)

Next ==
    \/ Push \/ Runner \/ RunnerInterrupt \/ RunnerRefused
    \/ \E c \in Callers : Call(c) \/ CallerStep(c)
    \/ \E i \in Ids : Preparation(i)

Spec == Init /\ [][Next]_vars

\* Fairness: the executor polls a runnable runner and preparation task, a
\* synchronous call runs to its end, a permit is granted and a backend run
\* returns.  Nothing obliges a turn to fold a compaction or a manager to refuse.
Fairness ==
    /\ WF_vars(Runner)
    /\ \A c \in Callers : WF_vars(CallerStep(c))
    /\ \A i \in Ids : WF_vars(Preparation(i))

FairSpec == Spec /\ Fairness

-----------------------------------------------------------------------------
(* Properties.                                                             *)

TypeOK ==
    /\ lifecycle \in {"Open", "Closed", "Shutdown"} /\ closePending \in BOOLEAN
    /\ nextOperationId \in 0..MaxOperations
    /\ kind \in [Ids -> Kinds \cup {None}]
    /\ correlation \in [Ids -> Correlations \cup {NoKey}]
    /\ operations \subseteq Ids /\ preparing \in Ids \cup {NoId}
    /\ prep \in [Ids -> PrepStates]
    /\ queue \subseteq Ids /\ notifyToken \in BOOLEAN /\ wakeFlag \in BOOLEAN
    /\ tickets \subseteq Ids
    /\ outcomes \in [Ids -> Outcomes \cup {None}]
    /\ resolved \in [Ids -> Outcomes \cup {None}]
    /\ ended \in [Ids -> Nat]
    /\ publishing \subseteq Ids /\ failing \subseteq Ids
    /\ idlePending \in BOOLEAN
    /\ status \in Ids \cup {NoId} /\ active \in Ids \cup {NoId}
    /\ processing \in Ids \cup {NoId}
    /\ processingReason \in Reasons \cup {None}
    /\ token \in [Ids -> Reasons \cup {None}]
    /\ cancelledCorrelations \in [Correlations -> Reasons \cup {None}]
    /\ cancellationGeneration \in Nat
    /\ pc \in RunnerStates
    /\ work \in Ids \cup {NoId} /\ poppedGeneration \in Nat
    /\ result \in IF pc = "retire" THEN Outcomes ELSE {None}
    /\ phase \in [Callers -> Phases]
    /\ call \in [Callers -> Calls]
    /\ todo \in [Callers -> SUBSET Ids] /\ drained \in [Callers -> SUBSET Ids]
    /\ victim \in [Callers -> Ids \cup {NoId}]
    /\ reason \in [Callers -> Reasons \cup {None}]
    /\ publication \in [Callers -> Ids \cup {NoId}]
    /\ doomed \in [Ids -> Reasons \cup {None}]

InHand    == {i \in Ids : i = work /\ kind[i] = "Turn"
                         /\ pc \in {"popped", "installed", "granted", "backend", "retire"}}
Owed(c)   == todo[c] \cup drained[c]
Panicked  == {i \in Ids : prep[i] = "failing"}

\* Every turn with a live ticket is held by exactly one party that still has to
\* finalize it: an entry of one deque, the runner, one caller or a failed
\* preparation.  No cut loses a turn and no two parties own the same one.
EveryTicketHeldOnce ==
    /\ \A t \in Ids :
          t \in tickets <=> \/ t \in Turns(operations) \/ t \in Turns(queue)
                           \/ t \in InHand \/ t \in Panicked
                           \/ \E c \in Callers : t \in Owed(c)
    /\ \A t \in operations : t \notin queue /\ t # work /\ prep[t] \in {"none", "running"}
    /\ \A t \in queue : t # work /\ prep[t] = "none"
    /\ \A t \in InHand : prep[t] = "none"
    /\ \A c \in Callers :
          /\ todo[c] \cap drained[c] = {}
          /\ \A t \in Owed(c) :
                /\ t \notin operations \cup queue \cup InHand \cup Panicked
                /\ \A d \in Callers \ {c} : t \notin Owed(d)

\* A turn is live exactly until one outcome is retained; its waiter gets that
\* outcome, and until it does the publication that will tell it is in flight.
OutcomeLedger ==
    \A t \in Ids :
       /\ kind[t] = "Turn" => (t \in tickets <=> outcomes[t] = None)
       /\ resolved[t] # None => resolved[t] = outcomes[t] /\ t \notin publishing
       /\ outcomes[t] # None /\ resolved[t] = None => t \in publishing

\* A completed exact wait observes a reusable actor: no slot of the actor
\* still names a turn whose ticket has resolved.
WaiterSeesReusableActor ==
    \A t \in Ids : resolved[t] # None => status # t /\ processing # t /\ active # t

\* Close is the observers' last event: when it has been emitted every admitted
\* turn has resolved and its End event reached the observers exactly once.
CloseIsLastEvent ==
    CloseEmitted => \A t \in Ids : kind[t] = "Turn" => resolved[t] # None /\ ended[t] = 1

Quiescent ==
    /\ pc = "waiting" /\ ~notifyToken /\ ~wakeFlag
    /\ \A c \in Callers : phase[c] = "free"
    /\ \A i \in Ids : prep[i] = "none"

\* When nothing is left to run on an open actor, both deques are empty, every
\* ticket has resolved and the Idle event has been emitted.
NothingMissedWhenQuiescent ==
    Quiescent => /\ lifecycle = "Open"
                 /\ operations = {} /\ queue = {} /\ tickets = {}
                 /\ ~idlePending

\* The operation FIFO never stalls: on an open actor its head is the turn
\* being prepared and a task is preparing it.
HeadIsPrepared ==
    lifecycle = "Open" /\ operations # {} =>
        /\ preparing \in operations /\ \A j \in operations : preparing <= j
        /\ prep[preparing] = "running"

\* A turn ends cancelled exactly when a cut (cancel, remove, clear, close, a
\* precancelled key or a refusal by its manager) covered it while it was still
\* pending: no cut is forgotten across the pop/install gap, and none reaches a
\* turn admitted after it.
CancelledIffCut ==
    \A t \in Ids : outcomes[t] # None => (outcomes[t] \in Reasons <=> doomed[t] # None)

\* The reason of the first cut that covered a turn is the reason it ends with.
FirstReasonWins ==
    \A t \in Ids : outcomes[t] \in Reasons => outcomes[t] = doomed[t]

\* Duplicate finalization is inert, and a closed actor stays closed as it was
\* and admits nothing.
TerminalIsFinal ==
    [][/\ \A t \in Ids : outcomes[t] # None => outcomes'[t] = outcomes[t]
       /\ \A t \in Ids : resolved[t] # None => resolved'[t] = resolved[t] /\ ended'[t] = ended[t]
       /\ lifecycle # "Open" => lifecycle' = lifecycle /\ nextOperationId' = nextOperationId
                                /\ operations' = {}]_vars

\* Work leaves the actor in admission order: what is still waiting was admitted
\* after the work the runner holds, whatever preparations and controls did.
RunsInAdmissionOrder ==
    work # NoId => \A j \in operations \cup queue : work < j

\* Accepted work neither stalls nor is overtaken, whichever of callers, runner
\* and preparation tasks moves it next.
NothingStallsOrOvertakes == NothingMissedWhenQuiescent /\ HeadIsPrepared /\ RunsInAdmissionOrder

\* The abstract promise to ticket holders, and the view of it this state gives.
Ledger == INSTANCE TurnLedger WITH
    TurnIds   <- Ids,
    Results   <- Outcomes,
    NoResult  <- None,
    admitted  <- Turns(Ids),
    retained  <- outcomes,
    told      <- resolved,
    lifecycle <- IF lifecycle = "Open" THEN "open"
                 ELSE IF closePending THEN "terminal" ELSE "closed"

\* The scheduler implements TurnLedger: every critical section of every party
\* is a step of the abstract ledger or changes nothing it shows.
ImplementsLedger == Ledger!LedgerSpec

\* An exact wait cannot strand: every admitted turn's ticket resolves.
EveryTurnResolves == \A t \in Ids : t \in tickets ~> resolved[t] # None

\* A closed actor emits Close and its runner exits.
CloseCompletes == lifecycle # "Open" ~> CloseEmitted /\ pc = "exited"

\* Whatever was accepted comes to its end.
TurnsAndCloseEnd == EveryTurnResolves /\ CloseCompletes
=============================================================================
