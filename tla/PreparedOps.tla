---------------------------- MODULE PreparedOps ----------------------------
(***************************************************************************)
(* Prepared operations (maki-agent/src/actor/prepared.rs, history_edit.rs, *)
(* idle.rs and maki-storage/src/checkpoint.rs).                            *)
(*                                                                         *)
(* A caller reserves a place in the operation queue, resolves its change,  *)
(* waits until the change is prepared at the front, and commits it: at     *)
(* once, or durably through a publication that the host claims when it     *)
(* replaces the file.  A durable configuration change is published by a    *)
(* task of its own; a history edit by the runner, under an idle guard.     *)
(* Cancellation, the end of the waiter and the close of the actor race     *)
(* with all of it.                                                         *)
(*                                                                         *)
(* A configuration is the sequence of the operations it contains, a        *)
(* history the number of its version.                                      *)
(***************************************************************************)
EXTENDS Naturals, Sequences

CONSTANTS Ops,      \* prepared operations
          Turned,   \* the ones that carry a turn
          Cancels,  \* publications are cancelled from outside
          Closes,   \* the actor is closed
          MaxHist,  \* bound: versions of the history
          NoOp

ASSUME OpsAssumption ==
    /\ Turned \subseteq Ops /\ NoOp \notin Ops
    /\ "settled" \notin Ops \cup {NoOp}
    /\ Cancels \in BOOLEAN /\ Closes \in BOOLEAN /\ MaxHist \in Nat

VARIABLES
    ops,         \* operations
    opid,        \* its id, which orders operations
    next,        \* next_operation_id
    stage,       \* how far each operation has come
    cand,        \* ready: the configuration it would install
    phase,       \* CheckpointPublication
    owner,       \* what its caller does
    pub,         \* prepared_publication
    idle,        \* the idle reservation
    holder,      \* the operation the guard was taken for
    edit,        \* the edit that waits for the runner
    runner,      \* the edit the runner executes
    repl,        \* the edit replaces the history
    snap,        \* what the host is to store
    host,        \* the answer of the publish callback
    busy,        \* the runner executes a turn
    turn,        \* the turn an operation carries
    open,        \* lifecycle is Open
    captured,    \* the edit a close has captured
    closePending,\* close_pending
    idlePending, \* idle_pending
    policy,      \* the committed configuration
    hv,          \* the history's version
    disk         \* what the session file holds

ids == <<opid, next>>
opVars == <<ops, ids, stage, cand, phase, owner, repl, snap, host>>
guardVars == <<idle, holder, edit, runner>>
lifeVars == <<open, captured, closePending>>
liveVars == <<policy, hv>>
vars == <<opVars, guardVars, lifeVars, liveVars, pub, busy, turn, idlePending, disk>>

SeqSet(s) == {s[i] : i \in DOMAIN s}
Queued == {"reserved", "resolved", "preparing", "ready"}
Ended == {"committed", "failed"}
Stages == {"new", "edit", "publishing", "installed"} \cup Queued \cup Ended
Stored == [conf : Seq(Ops), hist : Nat]

----------------------------------------------------------------------------
Init ==
    /\ ops = {} /\ opid = [o \in Ops |-> 0] /\ next = 0
    /\ stage = [o \in Ops |-> "new"] /\ cand = [o \in Ops |-> <<>>]
    /\ phase = [o \in Ops |-> "pending"] /\ owner = [o \in Ops |-> "none"]
    /\ repl = [o \in Ops |-> FALSE] /\ host = [o \in Ops |-> "none"]
    /\ snap = [o \in Ops |-> [conf |-> <<>>, hist |-> 0]]
    /\ idle = "none" /\ holder = NoOp /\ edit = NoOp /\ runner = NoOp
    /\ open = TRUE /\ captured = NoOp /\ closePending = FALSE
    /\ policy = <<>> /\ hv = 0 /\ disk = [conf |-> <<>>, hist |-> 0]
    /\ pub = NoOp /\ busy = FALSE /\ turn = [o \in Ops |-> "none"] /\ idlePending = FALSE

(* The state after a step that the following decide on.                     *)
Tickets(t) == {o \in Ops : t[o] \in {"queued", "running"}}
Working == busy' \/ runner' # NoOp \/ pub' # NoOp
PublishIdle(pending) ==
    idlePending' = (pending /\ ~(open' /\ ~Working /\ ops' = {} /\ Tickets(turn') = {}))
FinishClose(pending) ==
    closePending' = (pending /\ (Working \/ Tickets(turn') # {}))
LeaveIdle == idlePending' = idlePending
LeaveClose == closePending' = closePending

(* The front of the queue q.                                                *)
First(q, o) == o \in q /\ \A p \in q : opid[o] <= opid[p]

(* drive_operations: the operation at the front is prepared on top of the   *)
(* committed configuration, unless a publication or an edit is under way.   *)
Drives(st, q, o) ==
    /\ pub' = NoOp /\ idle' # "committing" /\ open'
    /\ First(q, o) /\ st[o] = "resolved"
Drive(st, q) ==
    /\ ops' = q
    /\ stage' = [o \in Ops |-> IF Drives(st, q, o) THEN "preparing" ELSE st[o]]
    /\ cand' = [o \in Ops |-> IF Drives(st, q, o) THEN Append(policy', o) ELSE cand[o]]
    /\ UNCHANGED ids
Driven == idlePending \/ (pub' = NoOp /\ idle' # "committing" /\ (Working \/ ops' # {}))

Cancelled(ph, S) == [o \in Ops |-> IF o \in S /\ ph[o] = "pending" THEN "cancelled" ELSE ph[o]]

----------------------------------------------------------------------------
(* The runner's other work: a turn, which appends to the history.           *)

Unguarded == idle = "none"

StartWork ==
    /\ open /\ Unguarded /\ ~busy /\ runner = NoOp /\ hv < MaxHist
    /\ busy' = TRUE
    /\ \/ \E o \in Ops : turn[o] = "queued" /\ turn' = [turn EXCEPT ![o] = "running"]
       \/ Tickets(turn) = {} /\ UNCHANGED turn
    /\ idlePending' = TRUE
    /\ UNCHANGED <<opVars, guardVars, lifeVars, liveVars, pub, disk>>

EndWork ==
    /\ busy
    /\ busy' = FALSE
    /\ hv' = hv + 1
    /\ turn' = [o \in Ops |-> IF turn[o] = "running" THEN "ended" ELSE turn[o]]
    /\ UNCHANGED <<opVars, guardVars, open, captured, policy, pub, disk>>
    /\ PublishIdle(idlePending) /\ FinishClose(closePending)

----------------------------------------------------------------------------
(* The caller.                                                             *)

PrepareIdle(o) ==
    /\ open /\ idle = "none" /\ ops = {} /\ ~busy /\ runner = NoOp /\ pub = NoOp
    /\ Tickets(turn) = {}
    /\ stage[o] = "new"
    /\ idle' = "held" /\ holder' = o
    /\ UNCHANGED <<opVars, edit, runner, lifeVars, liveVars, pub, busy, turn, idlePending, disk>>

(* reserve_operation, and the registration of the publication.              *)
Reserve(o) ==
    /\ open /\ stage[o] = "new"
    /\ idle = "none" \/ holder = o
    /\ ops' = ops \cup {o}
    /\ opid' = [opid EXCEPT ![o] = next + 1] /\ next' = next + 1
    /\ stage' = [stage EXCEPT ![o] = "reserved"]
    /\ owner' = [owner EXCEPT ![o] = "ticket"]
    /\ idlePending' = TRUE
    /\ UNCHANGED <<cand, phase, repl, snap, host, guardVars, lifeVars, liveVars, pub, busy,
                   turn, disk>>

Resolve(o) ==
    /\ open /\ owner[o] = "ticket" /\ stage[o] = "reserved"
    /\ UNCHANGED <<phase, owner, repl, snap, host, guardVars, open, captured, liveVars, pub,
                   busy, turn, disk>>
    /\ Drive([stage EXCEPT ![o] = "resolved"], ops)
    /\ idlePending' = Driven /\ LeaveClose

(* The preparation ends; what it answers for an operation that is no longer *)
(* at the front is dropped.                                                 *)
PrepareReady(o) ==
    /\ open /\ stage[o] = "preparing"
    /\ stage' = [stage EXCEPT ![o] = "ready"]
    /\ UNCHANGED <<ops, ids, cand, phase, owner, repl, snap, host, guardVars, lifeVars, liveVars,
                   pub, busy, turn, idlePending, disk>>

PrepareFails(o) ==
    /\ open /\ stage[o] = "preparing"
    /\ phase' = Cancelled(phase, {o})
    /\ UNCHANGED <<owner, repl, snap, host, guardVars, open, captured, liveVars, pub,
                   busy, turn, disk>>
    /\ Drive([stage EXCEPT ![o] = "failed"], ops \ {o})
    /\ PublishIdle(Driven) /\ LeaveClose

(* The caller learns that its operation failed, or gives it up.             *)
LearnFailure(o) ==
    /\ owner[o] = "ticket" /\ stage[o] = "failed"
    /\ owner' = [owner EXCEPT ![o] = "told"]
    /\ UNCHANGED <<ops, ids, stage, cand, phase, repl, snap, host, guardVars, lifeVars, liveVars,
                   pub, busy, turn, idlePending, disk>>

DropTicket(o) ==
    /\ owner[o] = "ticket" /\ o \in ops
    /\ owner' = [owner EXCEPT ![o] = "dropped"]
    /\ phase' = Cancelled(phase, {o})
    /\ UNCHANGED <<repl, snap, host, guardVars, open, captured, liveVars, pub, busy, turn, disk>>
    /\ Drive([stage EXCEPT ![o] = "failed"], ops \ {o})
    /\ PublishIdle(Driven) /\ LeaveClose

(* ActorIdleGuard::drop, by a caller that is through with it.               *)
DropGuard ==
    /\ idle = "held" /\ owner[holder] \in {"none", "told", "dropped"}
    /\ idle' = "none" /\ holder' = NoOp
    /\ UNCHANGED <<phase, owner, repl, snap, host, edit, runner, open, captured, liveVars,
                   pub, busy, turn, disk>>
    /\ Drive(stage, ops)
    /\ idlePending' = Driven /\ LeaveClose

HeadReady(o) == First(ops, o) /\ stage[o] = "ready"

(* commit_locked: the prepared configuration becomes the committed one and  *)
(* the turn is queued.                                                      *)
Install(o) ==
    /\ policy' = cand[o]
    /\ turn' = IF o \in Turned THEN [turn EXCEPT ![o] = "queued"] ELSE turn

Commit(o) ==
    /\ open /\ owner[o] = "ticket" /\ HeadReady(o)
    /\ owner' = [owner EXCEPT ![o] = "told"]
    /\ Install(o)
    /\ phase' = Cancelled(phase, {o})
    /\ UNCHANGED <<repl, snap, host, guardVars, open, captured, hv, pub, busy, disk>>
    /\ Drive([stage EXCEPT ![o] = "committed"], ops \ {o})
    /\ PublishIdle(Driven) /\ LeaveClose

(* Mutant: the change is stored on top of what was stored last.             *)
CommitDurableOnDisk(o) ==
    /\ open /\ owner[o] = "ticket" /\ HeadReady(o) /\ o \notin Turned
    /\ owner' = [owner EXCEPT ![o] = "waits"]
    /\ ops' = ops \ {o}
    /\ stage' = [stage EXCEPT ![o] = "publishing"]
    /\ snap' = [snap EXCEPT ![o] = [conf |-> Append(disk.conf, o), hist |-> hv]]
    /\ pub' = o
    /\ UNCHANGED <<ids, cand, phase, repl, host, guardVars, lifeVars, liveVars, busy, turn,
                   idlePending, disk>>

(* commit_durable hands the operation to a task.                            *)
CommitDurable(o) ==
    /\ open /\ owner[o] = "ticket" /\ HeadReady(o) /\ o \notin Turned
    /\ owner' = [owner EXCEPT ![o] = "waits"]
    /\ ops' = ops \ {o}
    /\ stage' = [stage EXCEPT ![o] = "publishing"]
    /\ snap' = [snap EXCEPT ![o] = [conf |-> cand[o], hist |-> hv]]
    /\ pub' = o
    /\ UNCHANGED <<ids, cand, phase, repl, host, guardVars, lifeVars, liveVars, busy, turn,
                   idlePending, disk>>

(* commit_prepared_transaction_held hands it to the runner.                 *)
CommitHeld(o) ==
    /\ open /\ owner[o] = "ticket" /\ HeadReady(o)
    /\ idle = "held" /\ holder = o /\ phase[o] # "cancelled"
    /\ owner' = [owner EXCEPT ![o] = "waits"]
    /\ ops' = ops \ {o}
    /\ stage' = [stage EXCEPT ![o] = "edit"]
    /\ \E r \in BOOLEAN : repl' = [repl EXCEPT ![o] = r]
    /\ pub' = o /\ idle' = "committing" /\ edit' = o
    /\ UNCHANGED <<ids, cand, phase, snap, host, holder, runner, lifeVars, liveVars, busy, turn,
                   idlePending, disk>>

RunnerTakesEdit ==
    /\ edit # NoOp /\ runner = NoOp /\ ~busy
    /\ runner' = edit /\ edit' = NoOp
    /\ stage' = [stage EXCEPT ![edit] = "publishing"]
    /\ snap' = [snap EXCEPT ![edit] =
                   [conf |-> cand[edit], hist |-> IF repl[edit] THEN MaxHist + hv + 1 ELSE hv]]
    /\ idlePending' = TRUE
    /\ UNCHANGED <<ops, ids, cand, phase, owner, repl, host, idle, holder, lifeVars, liveVars, pub,
                   busy, turn, disk>>

----------------------------------------------------------------------------
(* The host's publish callback: it stages the snapshot, claims the          *)
(* publication, replaces the file, or rolls back and answers an error.      *)

HostClaims(o) ==
    /\ stage[o] = "publishing" /\ host[o] = "none" /\ phase[o] = "pending"
    /\ phase' = [phase EXCEPT ![o] = "publishing"]
    /\ UNCHANGED <<ops, ids, stage, cand, owner, repl, snap, host, guardVars, lifeVars, liveVars,
                   pub, busy, turn, idlePending, disk>>

HostReplaces(o) ==
    /\ stage[o] = "publishing" /\ host[o] = "none" /\ phase[o] = "publishing"
    /\ host' = [host EXCEPT ![o] = "ok"]
    /\ disk' = snap[o]
    /\ UNCHANGED <<ops, ids, stage, cand, phase, owner, repl, snap, guardVars, lifeVars, liveVars,
                   pub, busy, turn, idlePending>>

(* It fails, at any point, or answers without having claimed.               *)
HostGivesUp(o) ==
    /\ stage[o] = "publishing" /\ host[o] = "none"
    /\ \/ host' = [host EXCEPT ![o] = "error"]
       \/ phase[o] # "publishing" /\ host' = [host EXCEPT ![o] = "ok"]
    /\ UNCHANGED <<ops, ids, stage, cand, phase, owner, repl, snap, guardVars, lifeVars, liveVars,
                   pub, busy, turn, idlePending, disk>>

(* Mutant: an answer is believed without the claim.                         *)
PublishedUnclaimed(o) == host[o] = "ok"

(* PreparedTransaction::publish.                                            *)
Published(o) == host[o] = "ok" /\ phase[o] = "publishing"

(* Mutant: the publication stays registered.                                *)
TaskEndsKeepsPublication(o) ==
    /\ stage[o] = "publishing" /\ runner # o /\ host[o] # "none"
    /\ IF Published(o) THEN Install(o) ELSE UNCHANGED <<policy, turn>>
    /\ phase' = Cancelled(phase, {o})
    /\ owner' = [owner EXCEPT ![o] = IF @ = "waits" THEN "told" ELSE @]
    /\ UNCHANGED <<repl, snap, host, guardVars, open, captured, hv, busy, disk, pub>>
    /\ Drive([stage EXCEPT ![o] = IF Published(o) THEN "committed" ELSE "failed"], ops)
    /\ PublishIdle(Driven) /\ FinishClose(closePending)

(* The task of commit_durable ends.                                         *)
TaskEnds(o) ==
    /\ stage[o] = "publishing" /\ runner # o /\ host[o] # "none"
    /\ IF Published(o) THEN Install(o) ELSE UNCHANGED <<policy, turn>>
    /\ phase' = Cancelled(phase, {o})
    /\ pub' = IF pub = o THEN NoOp ELSE pub
    /\ owner' = [owner EXCEPT ![o] = IF @ = "waits" THEN "told" ELSE @]
    /\ UNCHANGED <<repl, snap, host, guardVars, open, captured, hv, busy, disk>>
    /\ Drive([stage EXCEPT ![o] = IF Published(o) THEN "committed" ELSE "failed"], ops)
    /\ PublishIdle(Driven) /\ FinishClose(closePending)

(* The runner has the answer: it installs history and configuration and     *)
(* hands the guard on, or gives both up.                                    *)
EditInstalls ==
    /\ runner # NoOp /\ stage[runner] = "publishing" /\ Published(runner)
    /\ Install(runner)
    /\ hv' = snap[runner].hist
    /\ pub' = IF pub = runner THEN NoOp ELSE pub
    /\ idle' = IF idle = "committing" THEN "held" ELSE idle
    /\ UNCHANGED <<phase, owner, repl, snap, host, holder, edit, runner, open, captured, busy, disk>>
    /\ Drive([stage EXCEPT ![runner] = "installed"], ops)
    /\ idlePending' = Driven /\ LeaveClose

EditFails ==
    /\ runner # NoOp /\ stage[runner] = "publishing"
    /\ host[runner] # "none" /\ ~Published(runner)
    /\ phase' = Cancelled(phase, {runner})
    /\ pub' = IF pub = runner THEN NoOp ELSE pub
    /\ idle' = "none" /\ holder' = NoOp
    /\ UNCHANGED <<owner, repl, snap, host, edit, runner, open, captured, liveVars, busy, turn, disk>>
    /\ Drive([stage EXCEPT ![runner] = "failed"], ops)
    /\ idlePending' = Driven /\ LeaveClose

(* Mutant: a turn that was queued after the close is left in the queue.     *)
EditSettlesKeepsTurn ==
    /\ runner # NoOp /\ stage[runner] = "installed"
    /\ stage' = [stage EXCEPT ![runner] = "committed"]
    /\ UNCHANGED <<ops, ids, cand, phase, owner, repl, snap, host, guardVars, lifeVars, liveVars,
                   pub, busy, turn, idlePending, disk>>

(* The actor was closed meanwhile: the turn of the edit is taken back.      *)
EditSettles ==
    /\ runner # NoOp /\ stage[runner] = "installed"
    /\ stage' = [stage EXCEPT ![runner] = "committed"]
    /\ turn' = IF ~open /\ turn[runner] = "queued" THEN [turn EXCEPT ![runner] = "ended"]
               ELSE turn
    /\ UNCHANGED <<ops, ids, cand, phase, owner, repl, snap, host, guardVars, open, captured,
                   liveVars, pub, busy, disk>>
    /\ PublishIdle(idlePending) /\ FinishClose(closePending)

(* The end of the runner's step, then the answer.  A caller that is gone    *)
(* drops the guard with it.                                                 *)
EditEnds ==
    /\ runner # NoOp /\ stage[runner] \in Ended
    /\ runner' = NoOp
    /\ UNCHANGED <<opVars, idle, holder, edit, open, captured, liveVars, pub, busy, turn, disk>>
    /\ PublishIdle(idlePending) /\ FinishClose(closePending)

EditAnswers(o) ==
    /\ owner[o] = "waits" /\ runner # o /\ stage[o] \in Ended
    /\ idle # "committing"
    /\ owner' = [owner EXCEPT ![o] = "told"]
    /\ UNCHANGED <<ops, ids, stage, cand, phase, repl, snap, host, guardVars, lifeVars, liveVars,
                   pub, busy, turn, idlePending, disk>>

----------------------------------------------------------------------------
(* Cancellation.                                                           *)

(* Somebody cancels the publication: a revoked plugin, a deadline, a cut.   *)
CancelPublication(o) ==
    /\ Cancels /\ stage[o] \notin {"new"} \cup Ended /\ phase[o] = "pending"
    /\ phase' = [phase EXCEPT ![o] = "cancelled"]
    /\ UNCHANGED <<ops, ids, stage, cand, owner, repl, snap, host, guardVars, lifeVars, liveVars,
                   pub, busy, turn, idlePending, disk>>

(* The waiting caller of an edit sees it and takes the edit back, if the    *)
(* runner has not; the guard goes when it returns.                          *)
TakeEditBack(o) ==
    /\ owner[o] = "waits" /\ edit = o /\ phase[o] = "cancelled"
    /\ edit' = NoOp
    /\ pub' = IF pub = o THEN NoOp ELSE pub
    /\ stage' = [stage EXCEPT ![o] = "failed"]
    /\ UNCHANGED <<ops, ids, cand, phase, owner, repl, snap, host, idle, holder, runner, lifeVars,
                   liveVars, busy, turn, idlePending, disk>>

ReleaseTakenBack(o) ==
    /\ owner[o] = "waits" /\ stage[o] = "failed" /\ runner # o
    /\ idle = "committing" /\ holder = o
    /\ owner' = [owner EXCEPT ![o] = "told"]
    /\ idle' = "none" /\ holder' = NoOp
    /\ UNCHANGED <<phase, repl, snap, host, edit, runner, open, captured, liveVars, pub,
                   busy, turn, disk>>
    /\ Drive(stage, ops)
    /\ idlePending' = Driven /\ LeaveClose

(* The waiter goes away: its publication is cancelled unless claimed, and   *)
(* an edit that still waits is taken back.                                  *)
DropWaiter(o) ==
    /\ owner[o] = "waits" /\ stage[o] \in {"edit", "publishing", "installed"}
    /\ owner' = [owner EXCEPT ![o] = "dropped"]
    /\ phase' = Cancelled(phase, {o})
    /\ UNCHANGED <<repl, snap, host, runner, open, captured, liveVars, busy, turn, disk>>
    /\ IF pub = o /\ edit = o
       THEN /\ edit' = NoOp /\ pub' = NoOp /\ idle' = "none" /\ holder' = NoOp
            /\ Drive([stage EXCEPT ![o] = "failed"], ops)
            /\ PublishIdle(Driven)
       ELSE UNCHANGED <<edit, pub, idle, holder, ops, ids, stage, cand, idlePending>>
    /\ LeaveClose

(* cancel_existing: operations with a turn go, queued turns end.            *)
CancelExisting ==
    /\ Cancels /\ open
    /\ \E o \in Turned : stage[o] \notin {"new"} \cup Ended \/ turn[o] = "queued"
    /\ LET gone == ops \cap Turned
       IN /\ phase' = Cancelled(phase, gone \cup (Turned \cap {pub}))
          /\ turn' = [o \in Ops |-> IF turn[o] = "queued" THEN "ended" ELSE turn[o]]
          /\ UNCHANGED <<owner, repl, snap, host, guardVars, open, captured, liveVars, pub,
                         busy, disk>>
          /\ Drive([o \in Ops |-> IF o \in gone THEN "failed" ELSE stage[o]],
                   ops \ gone)
    /\ PublishIdle(Driven) /\ LeaveClose

(* capture_close, then settle_close.                                        *)
CaptureClose ==
    /\ Closes /\ open
    /\ open' = FALSE /\ closePending' = TRUE
    /\ phase' = Cancelled(phase, ops \cup {pub})
    /\ ops' = {}
    /\ stage' = [o \in Ops |-> IF o \in ops THEN "failed" ELSE stage[o]]
    /\ captured' = edit /\ edit' = NoOp
    /\ pub' = IF edit # NoOp /\ pub = edit THEN NoOp ELSE pub
    /\ idle' = "none" /\ holder' = NoOp
    /\ UNCHANGED <<ids, cand, owner, repl, snap, host, runner, liveVars, busy, turn, idlePending, disk>>

SettleClose ==
    /\ ~open /\ captured # "settled"
    /\ captured' = "settled"
    /\ stage' = IF captured = NoOp THEN stage ELSE [stage EXCEPT ![captured] = "failed"]
    /\ turn' = [o \in Ops |-> IF turn[o] = "queued" THEN "ended" ELSE turn[o]]
    /\ UNCHANGED <<ops, ids, cand, phase, owner, repl, snap, host, guardVars, open, liveVars, pub,
                   busy, disk>>
    /\ PublishIdle(idlePending) /\ FinishClose(closePending)

----------------------------------------------------------------------------
Caller(o) ==
    Resolve(o) \/ LearnFailure(o) \/ Commit(o) \/ CommitDurable(o) \/ CommitHeld(o)

Preparation(o) == PrepareReady(o) \/ PrepareFails(o)

Host(o) == HostClaims(o) \/ HostReplaces(o) \/ HostGivesUp(o)

Runner ==
    \/ EndWork \/ RunnerTakesEdit \/ EditInstalls \/ EditFails \/ EditSettles \/ EditEnds

Next ==
    \/ \E o \in Ops :
          \/ PrepareIdle(o) \/ Reserve(o) \/ Caller(o) \/ DropTicket(o) \/ Preparation(o)
          \/ Host(o) \/ TaskEnds(o) \/ EditAnswers(o) \/ CancelPublication(o) \/ TakeEditBack(o)
          \/ ReleaseTakenBack(o) \/ DropWaiter(o)
    \/ StartWork \/ Runner \/ DropGuard \/ CancelExisting \/ CaptureClose \/ SettleClose

Spec == Init /\ [][Next]_vars

(* Tasks run, callbacks return, a caller goes on as soon as it can and      *)
(* drops its guard when it is through; nobody has to give anything up.      *)
LiveSpec ==
    /\ Spec
    /\ WF_vars(Runner) /\ WF_vars(DropGuard) /\ WF_vars(SettleClose) /\ WF_vars(StartWork /\ Tickets(turn) # {})
    /\ \A o \in Ops :
          /\ WF_vars(Caller(o)) /\ WF_vars(Preparation(o)) /\ WF_vars(Host(o))
          /\ WF_vars(TaskEnds(o)) /\ WF_vars(EditAnswers(o))
          /\ WF_vars(TakeEditBack(o) \/ ReleaseTakenBack(o))

----------------------------------------------------------------------------
(* Every variable has its type, and the reservation, the edit and the       *)
(* publication belong together.  A closed actor keeps no turn in its queue: *)
(* one that a publication queues after the close has emptied the queue is   *)
(* taken back by the runner.                                                *)
Typed ==
    /\ ops \subseteq Ops /\ opid \in [Ops -> Nat] /\ next \in Nat
    /\ stage \in [Ops -> Stages]
    /\ phase \in [Ops -> {"pending", "cancelled", "publishing"}]
    /\ owner \in [Ops -> {"none", "ticket", "waits", "told", "dropped"}]
    /\ host \in [Ops -> {"none", "ok", "error"}]
    /\ turn \in [Ops -> {"none", "queued", "running", "ended"}]
    /\ policy \in Seq(Ops) /\ cand \in [Ops -> Seq(Ops)]
    /\ disk \in Stored /\ snap \in [Ops -> Stored] /\ hv \in Nat
    /\ repl \in [Ops -> BOOLEAN]
    /\ busy \in BOOLEAN /\ open \in BOOLEAN
    /\ idle \in {"none", "held", "committing"}
    /\ holder \in Ops \cup {NoOp} /\ edit \in Ops \cup {NoOp}
    /\ runner \in Ops \cup {NoOp} /\ pub \in Ops \cup {NoOp}
    /\ captured \in Ops \cup {NoOp, "settled"}
Placed ==
    /\ idle # "none" <=> holder # NoOp
    /\ edit # NoOp => pub = edit /\ idle = "committing" /\ holder = edit
    /\ \A o \in Ops : stage[o] \in Queued <=> o \in ops
ClosedKeepsNoTurn ==
    ~open /\ captured = "settled" /\ runner = NoOp /\ ~busy => Tickets(turn) = {}
TypeOK == Typed /\ Placed /\ ClosedKeepsNoTurn

(* What a caller is told is what happened: an operation that failed, or was *)
(* given up, is neither in the committed configuration nor in the session   *)
(* file, although its publication may have been cancelled at any moment;    *)
(* one that was published is in both.                                       *)
AnswerIsTrue ==
    \A o \in Ops :
        /\ stage[o] = "failed" => o \notin SeqSet(policy) /\ o \notin SeqSet(disk.conf)
        /\ stage[o] = "committed" => o \in SeqSet(policy)
        /\ stage[o] = "committed" /\ host[o] # "none" => o \in SeqSet(disk.conf)

(* A commit adds its operation to the configuration that is in force and    *)
(* takes nothing out, though it was prepared, staged and stored without the *)
(* lock; and what a durable commit installs is what the file holds.         *)
CommitAdds ==
    /\ policy' # policy => \E o \in Ops : policy' = Append(policy, o)
    /\ \A o \in Ops :
          stage[o] = "publishing" /\ stage'[o] \in {"committed", "installed"}
             => disk.conf = policy' /\ (runner = o => disk.hist = hv')
NoLostUpdate == [][CommitAdds]_vars

(* Every reserved operation is committed or fails, and its caller hears of  *)
(* it; no dropped waiter, cancellation or close blocks the ones behind it.  *)
OperationSettles ==
    \A o \in Ops : stage[o] # "new" ~> stage[o] \in Ended /\ owner[o] \in {"told", "dropped"}

(* A close is reported in the end, however late a claimed publication       *)
(* finishes.                                                                *)
CloseReported == ~open ~> ~closePending

(* Operations and closes all come to their end.                             *)
OperationsAndCloseEnd == OperationSettles /\ CloseReported

(* When the actor has no work left, Idle is published.                      *)
Quiet == open /\ ~busy /\ runner = NoOp /\ pub = NoOp /\ ops = {} /\ Tickets(turn) = {}
IdleReported == idlePending ~> (~idlePending \/ ~Quiet)
=============================================================================
