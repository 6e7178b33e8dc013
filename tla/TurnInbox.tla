----------------------------- MODULE TurnInbox -----------------------------
(***************************************************************************)
(* Submissions that join a turn (maki-agent/src/actor/inbox.rs,            *)
(* submit_presented and remove_submission of actor/mod.rs, and the request *)
(* loop of agent/run.rs that consumes them).                               *)
(*                                                                         *)
(* A submission starts a turn, or joins the inbox of one that runs or      *)
(* waits as the latest operation.  The turn drains its inbox before every  *)
(* request and may complete only with an inbox that is empty and closed in *)
(* one critical section.  Controls, compactions and configuration changes  *)
(* are operations of the same queue, and a submission must not cross one.  *)
(* A compaction that waits next in the queue may be executed inside the    *)
(* running turn, between two of its requests.                              *)
(*                                                                         *)
(* A turn is named by the submission that started it.  A policy is the     *)
(* number of its generation; a constraint is a check that either passes or *)
(* fails.  Sizes in bytes, presentations and provenance are left out.      *)
(* Operations wait in the order of their ids, so the two queues of the     *)
(* actor are sets.                                                         *)
(***************************************************************************)
EXTENDS Naturals, Sequences, FiniteSets

CONSTANTS Subs,          \* submissions
          Batchable,     \* the ones that may share a turn
          Constrained,   \* the ones that bring a policy constraint
          Controls,      \* control and compaction operations
          Compactions,   \* the compactions among them
          Configs,       \* configuration changes
          MaxOutstanding,\* MAX_PENDING_INSTRUCTIONS
          MaxRequests,   \* config.max_turns
          MaxCuts,       \* bound: cancellations
          MaxEnqueued,   \* bound: operations that are no submission
          Prepares,      \* the backend has an admission_preparation
          NoTurn

ASSUME InboxAssumption ==
    /\ Batchable \subseteq Subs /\ Constrained \subseteq Subs
    /\ Compactions \subseteq Controls /\ Prepares \in BOOLEAN
    /\ MaxOutstanding \in Nat \ {0} /\ MaxRequests \in Nat \ {0} /\ MaxCuts \in Nat
    /\ MaxEnqueued \in Nat
    /\ NoTurn \notin Subs \cup Controls \cup Configs
    /\ Subs \cap Controls = {} /\ Subs \cap Configs = {} /\ Controls \cap Configs = {}

VARIABLES
    sub,      \* how far each submission has come
    home,     \* the turn it was accepted into
    passed,   \* the policy its constraint was checked against, 0 for none
    chk,      \* what submit read before it released the lock for the check
    inboxes,  \* turns that have an inbox
    openIn,   \* the inboxes that are open
    pend,     \* pending, per turn
    held,     \* drained (or initial), not yet in a request, per turn
    pol,      \* the policy of an inbox or a compaction, 0 for none
    cons,     \* constraints to check before the turn is materialized
    opid,     \* the id of each admitted operation
    nextOp,   \* next_operation_id
    gen,      \* policy generation
    confs,    \* the policy that each committed change made, 0 before
    ops,      \* operations, waiting to be prepared
    queue,    \* materialized work
    open,     \* lifecycle is Open
    cur,      \* the work the runner processes
    bpc,      \* where runner and backend are
    cut,      \* its cancellation reason is set
    stale,    \* cancellation_generation has changed since it was popped
    done,     \* the backend reports completion
    reqs,     \* requests it has made
    owed,     \* pending_instruction_request
    acc,      \* history: the place of each item in the order accepted, 0 before
    accepted, \* history: how many were accepted
    hist,     \* history: work in the order executed
    inside,   \* history: the turn that took a compaction as an interrupt
    cuts      \* bound

subVars == <<sub, home, passed, chk>>
inboxVars == <<inboxes, openIn, pend, held, pol, cons>>
opVars == <<opid, nextOp, gen, confs, ops, queue, open>>
runVars == <<cur, bpc, cut, stale, done, reqs, owed>>
accVars == <<acc, accepted, inside>>
vars == <<subVars, inboxVars, opVars, runVars, accVars, hist, cuts>>

Items == Subs \cup Controls \cup Configs
SeqSet(s) == {s[i] : i \in DOMAIN s}
Without(s, x) ==
    LET k == CHOOSE i \in DOMAIN s : s[i] = x
    IN [i \in 1..Len(s) - 1 |-> IF i < k THEN s[i] ELSE s[i + 1]]
NoCheck == [turn |-> NoTurn, policy |-> 0, gen |-> 0, boundary |-> 0]
Settled == {"sent", "removed", "dropped", "lost", "refused"}
Live(t) == {s \in Subs : home[s] = t /\ sub[s] \notin Settled}
First(i) == i \in ops /\ \A j \in ops : opid[i] <= opid[j]

----------------------------------------------------------------------------
Init ==
    /\ sub = [s \in Subs |-> "new"] /\ home = [s \in Subs |-> NoTurn]
    /\ passed = [s \in Subs |-> 0]
    /\ chk = [s \in Subs |-> NoCheck]
    /\ inboxes = {} /\ openIn = {}
    /\ pend = [t \in Subs |-> <<>>] /\ held = [t \in Subs |-> {}]
    /\ pol = [i \in Subs \cup Compactions |-> 0] /\ cons = [t \in Subs |-> {}]
    /\ opid = [i \in Items |-> 0] /\ nextOp = 0 /\ gen = 1
    /\ confs = [c \in Configs |-> 0]
    /\ ops = {} /\ queue = {} /\ open = TRUE
    /\ cur = NoTurn /\ bpc = "idle" /\ cut = FALSE /\ stale = FALSE
    /\ done = FALSE /\ reqs = 0 /\ owed = FALSE
    /\ acc = [i \in Items |-> 0] /\ accepted = 0 /\ hist = <<>> /\ cuts = 0
    /\ inside = [c \in Compactions |-> NoTurn]

(* check_instruction_capacity, over every inbox.                            *)
Outstanding == Cardinality({s \in Subs : sub[s] \in {"pending", "held"}})

(* Mutant: one too many.                                                    *)
HasRoomForOneMore == Outstanding <= MaxOutstanding

HasRoom == Outstanding < MaxOutstanding

(* drive_operations: what reaches the front gets the current policy and     *)
(* goes to the queue at once, unless it is a turn that waits for its        *)
(* constraints or its preparation, or a configuration change that waits for *)
(* its commit.                                                              *)
Waits(i, c) == i \in Configs \/ (i \in Subs /\ (Prepares \/ c[i] # {}))
Drive(o, q, id, g, c) ==
    LET passes(i) == \A w \in o : Waits(w, c) => id[i] < id[w]
        heads(i) == i \in o /\ \A w \in o : Waits(w, c) => id[i] <= id[w]
    IN /\ ops' = {i \in o : ~passes(i)}
       /\ queue' = q \cup {i \in o : passes(i)}
       /\ pol' = [i \in Subs \cup Compactions |-> IF heads(i) THEN g ELSE pol[i]]

(* History: i is the next to be accepted.                                   *)
Accepts(i) ==
    /\ acc' = [acc EXCEPT ![i] = accepted + 1] /\ accepted' = accepted + 1
    /\ UNCHANGED inside

----------------------------------------------------------------------------
(* submit_presented.                                                       *)

(* The running turn, when nothing was admitted after it.                    *)
JoinsActive(s) ==
    /\ bpc # "idle" /\ cur \in inboxes \cap openIn
    /\ {s, cur} \subseteq Batchable
    /\ pol[cur] = gen
    /\ \A i \in ops : opid[i] <= opid[cur]
    /\ queue = {}

(* The latest operation, when it is a turn that waits or runs.              *)
JoinsLatest(s, t) ==
    /\ t \in inboxes \cap openIn
    /\ {s, t} \subseteq Batchable
    /\ opid[t] = nextOp

Target(s) ==
    IF JoinsActive(s) THEN {cur} ELSE {t \in Subs : JoinsLatest(s, t)}

(* The submission is queued in the inbox, behind the ones already there.    *)
Join(s, t) ==
    IF HasRoom THEN /\ sub' = [sub EXCEPT ![s] = "pending"]
                    /\ home' = [home EXCEPT ![s] = t]
                    /\ pend' = [pend EXCEPT ![t] = Append(@, s)]
                    /\ Accepts(s)
               ELSE /\ sub' = [sub EXCEPT ![s] = "refused"]
                    /\ UNCHANGED <<home, pend, accVars>>

(* Mutant: every constraint is left to the operation.                       *)
SubmitJoinsDeferred(s) ==
    /\ sub[s] = "new" /\ open
    /\ \E t \in Target(s) :
          /\ Join(s, t)
          /\ cons' = IF s \in Constrained /\ HasRoom THEN [cons EXCEPT ![t] = @ \cup {s}] ELSE cons
    /\ UNCHANGED <<passed, chk, inboxes, openIn, held, pol, opVars, runVars, hist, cuts>>

SubmitJoins(s) ==
    /\ sub[s] = "new" /\ open
    /\ \E t \in Target(s) :
          /\ s \in Constrained => pol[t] = 0
          /\ Join(s, t)
          /\ cons' = IF s \in Constrained /\ HasRoom THEN [cons EXCEPT ![t] = @ \cup {s}] ELSE cons
    /\ UNCHANGED <<passed, chk, inboxes, openIn, held, pol, opVars, runVars, hist, cuts>>

(* A constraint on a turn whose policy is known is checked without the lock. *)
SubmitChecks(s) ==
    /\ sub[s] = "new" /\ open /\ s \in Constrained
    /\ \E t \in Target(s) :
          /\ pol[t] # 0
          /\ chk' = [chk EXCEPT ![s] = [turn |-> t, policy |-> pol[t],
                                           gen |-> gen, boundary |-> nextOp]]
    /\ sub' = [sub EXCEPT ![s] = "checking"]
    /\ UNCHANGED <<home, passed, inboxVars, opVars, runVars, accVars, hist, cuts>>

(* Mutant: the inbox is not looked at again.                                *)
StillJoinsUnchecked(s) ==
    open /\ chk[s].turn \in inboxes

(* What must still hold when the lock is taken again.                       *)
StillJoins(s) ==
    LET t == chk[s].turn
    IN /\ open /\ gen = chk[s].gen /\ nextOp = chk[s].boundary
       /\ t \in inboxes \cap openIn
       /\ \/ opid[t] = chk[s].boundary
          \/ /\ \A i \in ops : opid[i] <= opid[t]
             /\ queue = {}
             /\ pol[t] = gen

(* The constraint fails, or the actor was closed meanwhile.                 *)
CheckRefuses(s) ==
    /\ sub[s] = "checking"
    /\ sub' = [sub EXCEPT ![s] = "refused"]
    /\ chk' = [chk EXCEPT ![s] = NoCheck]
    /\ UNCHANGED <<home, passed, inboxVars, opVars, runVars, accVars, hist, cuts>>

CheckPasses(s) ==
    /\ sub[s] = "checking" /\ StillJoins(s)
    /\ Join(s, chk[s].turn)
    /\ passed' = [passed EXCEPT ![s] = chk[s].policy]
    /\ chk' = [chk EXCEPT ![s] = NoCheck]
    /\ UNCHANGED <<inboxes, openIn, held, pol, cons, opVars, runVars, hist, cuts>>

CheckStale(s) ==
    /\ sub[s] = "checking" /\ ~StillJoins(s)
    /\ sub' = [sub EXCEPT ![s] = "new"]
    /\ chk' = [chk EXCEPT ![s] = NoCheck]
    /\ UNCHANGED <<home, passed, inboxVars, opVars, runVars, accVars, hist, cuts>>

(* No turn to join: the submission starts one, with an inbox of its own     *)
(* that holds it as the initial input.                                      *)
SubmitStarts(s) ==
    /\ sub[s] = "new" /\ open
    /\ Target(s) = {}
    /\ HasRoom
    /\ sub' = [sub EXCEPT ![s] = "held"]
    /\ home' = [home EXCEPT ![s] = s]
    /\ inboxes' = inboxes \cup {s} /\ openIn' = openIn \cup {s}
    /\ held' = [held EXCEPT ![s] = {s}]
    /\ cons' = [cons EXCEPT ![s] = {s} \cap Constrained]
    /\ nextOp' = nextOp + 1
    /\ opid' = [opid EXCEPT ![s] = nextOp + 1]
    /\ Drive(ops \cup {s}, queue, opid', gen, cons')
    /\ Accepts(s)
    /\ UNCHANGED <<passed, chk, pend, gen, confs, open, runVars, hist, cuts>>

SubmitRefused(s) ==
    /\ sub[s] = "new"
    /\ ~open \/ (Target(s) = {} /\ ~HasRoom)
    /\ sub' = [sub EXCEPT ![s] = "refused"]
    /\ UNCHANGED <<home, passed, chk, inboxVars, opVars, runVars, accVars, hist, cuts>>

(* A control, a compaction or a configuration change takes an operation id. *)
Enqueue(i) ==
    /\ opid[i] = 0 /\ open
    /\ Cardinality({j \in Controls \cup Configs : opid[j] # 0}) < MaxEnqueued
    /\ nextOp' = nextOp + 1
    /\ opid' = [opid EXCEPT ![i] = nextOp + 1]
    /\ Drive(ops \cup {i}, queue, opid', gen, cons)
    /\ Accepts(i)
    /\ UNCHANGED <<subVars, inboxes, openIn, pend, held, cons, gen, confs, open, runVars, hist, cuts>>

(* A configuration change at the front is committed, or fails.              *)
ConfigEnds ==
    /\ open
    /\ \E c \in Configs :
          /\ First(c)
          /\ \/ gen' = gen + 1 /\ confs' = [confs EXCEPT ![c] = gen + 1]
             \/ UNCHANGED <<gen, confs>>
          /\ Drive(ops \ {c}, queue, opid, gen', cons)
    /\ UNCHANGED <<subVars, inboxes, openIn, pend, held, cons, opid, nextOp, open,
                   runVars, accVars, hist, cuts>>

(* A turn ends without having run, or fails: what it had accepted and not   *)
(* sent is reported with its outcome.                                       *)
DropTurns(T, how) ==
    /\ sub' = [s \in Subs |-> IF home[s] \in T /\ s \in Live(home[s]) THEN how ELSE sub[s]]
    /\ inboxes' = inboxes \ T /\ openIn' = openIn \ T
    /\ pend' = [t \in Subs |-> IF t \in T THEN <<>> ELSE pend[t]]
    /\ held' = [t \in Subs |-> IF t \in T THEN {} ELSE held[t]]
    /\ cons' = [t \in Subs |-> IF t \in T THEN {} ELSE cons[t]]

(* The preparation of the first turn: its constraints hold, it is           *)
(* materialized under the current policy.                                   *)
Materialize ==
    /\ open
    /\ \E t \in Subs :
          /\ First(t)
          /\ passed' = [s \in Subs |-> IF s \in cons[t] THEN pol[t] ELSE passed[s]]
          /\ cons' = [cons EXCEPT ![t] = {}]
          /\ Drive(ops \ {t}, queue \cup {t}, opid, gen, cons)
    /\ UNCHANGED <<sub, home, chk, inboxes, openIn, pend, held, opid, nextOp, gen, confs, open,
                   runVars, accVars, hist, cuts>>

AdmissionFails ==
    /\ open
    /\ \E t \in Subs :
          /\ First(t)
          /\ DropTurns({t}, "dropped")
          /\ Drive(ops \ {t}, queue, opid, gen, cons)
    /\ UNCHANGED <<home, passed, chk, opid, nextOp, gen, confs, open, runVars, accVars, hist, cuts>>

----------------------------------------------------------------------------
(* The runner and the backend's request loop.                              *)

RunnerPops ==
    /\ bpc = "idle" /\ open
    /\ \E i \in queue :
          /\ \A j \in queue : opid[i] <= opid[j]
          /\ queue' = queue \ {i}
          /\ cur' = i
    /\ bpc' = "popped" /\ cut' = FALSE /\ stale' = FALSE /\ done' = FALSE /\ reqs' = 0
    /\ owed' = FALSE
    /\ UNCHANGED <<subVars, inboxVars, opid, nextOp, gen, confs, ops, open, accVars, hist, cuts>>

RunControl ==
    /\ bpc = "popped" /\ cur \notin Subs
    /\ hist' = IF cut \/ ~open THEN hist ELSE Append(hist, cur)
    /\ bpc' = "idle" /\ cur' = NoTurn
    /\ UNCHANGED <<subVars, inboxVars, opVars, cut, stale, done, reqs, owed, accVars, cuts>>

(* The turn starts: its initial input goes into the history.                *)
StartTurn ==
    /\ bpc = "popped" /\ cur \in Subs
    /\ IF cut \/ ~open
       THEN bpc' = "close" /\ UNCHANGED hist
       ELSE /\ bpc' = "loop"
            /\ hist' = IF held[cur] = {} THEN hist
                       ELSE Append(hist, CHOOSE s \in held[cur] : TRUE)
    /\ UNCHANGED <<subVars, inboxVars, opVars, cur, cut, stale, done, reqs, owed, accVars, cuts>>

(* drain_presented_instructions.                                            *)
CanDrain == open /\ cur \in inboxes \cap openIn
Drain ==
    IF CanDrain
    THEN /\ held' = [held EXCEPT ![cur] = @ \cup SeqSet(pend[cur])]
         /\ sub' = [s \in Subs |-> IF s \in SeqSet(pend[cur]) THEN "held" ELSE sub[s]]
         /\ hist' = hist \o pend[cur]
         /\ pend' = [pend EXCEPT ![cur] = <<>>]
         /\ owed' = (owed \/ pend[cur] # <<>>)
    ELSE UNCHANGED <<held, sub, hist, pend, owed>>

(* turn: consume the inbox.                                                 *)
Consume ==
    /\ bpc = "loop" /\ reqs < MaxRequests
    /\ Drain
    /\ bpc' = "consumed"
    /\ UNCHANGED <<home, passed, chk, inboxes, openIn, pol, cons, opVars,
                   cur, cut, stale, done, reqs, accVars, cuts>>

(* instructions_submitted, then the request.                                *)
Request ==
    /\ bpc = "consumed"
    /\ owed' = FALSE
    /\ sub' = [s \in Subs |-> IF s \in held[cur] THEN "sent" ELSE sub[s]]
    /\ held' = [held EXCEPT ![cur] = {}]
    /\ reqs' = reqs + 1
    /\ bpc' = "response"
    /\ UNCHANGED <<home, passed, chk, inboxes, openIn, pend, pol, cons, opVars,
                   cur, cut, stale, done, accVars, hist, cuts>>

(* InterruptQueue::poll: the next in the queue, if it is a compaction under *)
(* the turn's policy and no cut has taken the whole actor's work since.     *)
CanInterrupt(c) ==
    /\ c \in queue \cap Compactions
    /\ \A j \in queue : opid[c] <= opid[j]
    /\ pol[c] = pol[cur] /\ ~stale

(* The model asks for tools, or is done; the queue is not polled when the   *)
(* turn goes on at once (stalled, truncated or compacted by itself).        *)
Response ==
    /\ bpc = "response"
    /\ bpc' \in {"loop"} \cup (IF \E c \in queue : CanInterrupt(c) THEN {} ELSE {"answered"})
    /\ UNCHANGED <<subVars, inboxVars, opVars, cur, cut, stale, done, reqs, owed, accVars, hist, cuts>>

(* handle_queued_command: the compaction is executed before the inbox is    *)
(* drained again; its failure is the turn's.                                *)
Interrupt ==
    /\ bpc = "response"
    /\ \E c \in queue :
          /\ CanInterrupt(c)
          /\ queue' = queue \ {c}
          /\ inside' = [inside EXCEPT ![c] = cur]
          /\ \/ hist' = Append(hist, c) /\ bpc' = "loop"
             \/ bpc' = "close" /\ UNCHANGED hist
    /\ UNCHANGED <<subVars, inboxVars, opid, nextOp, gen, confs, ops, open,
                   cur, cut, stale, done, reqs, owed, acc, accepted, cuts>>

(* Done: take what arrived meanwhile; go on if there was something.         *)
ConsumeLate ==
    /\ bpc = "answered"
    /\ Drain
    /\ bpc' = IF CanDrain /\ pend[cur] # <<>> THEN "loop" ELSE "checks"
    /\ UNCHANGED <<home, passed, chk, inboxes, openIn, pol, cons, opVars,
                   cur, cut, stale, done, reqs, accVars, cuts>>

(* has_unsubmitted_instructions, the completion check, joining children.    *)
Empty(t) == t \in inboxes => pend[t] = <<>> /\ held[t] = {}
Checks ==
    /\ bpc = "checks"
    /\ bpc' \in IF Empty(cur) THEN {"finish", "loop"} ELSE {"loop"}
    /\ UNCHANGED <<subVars, inboxVars, opVars, cur, cut, stale, done, reqs, owed, accVars, hist, cuts>>

(* Mutant: the emptiness that was checked before is believed.               *)
FinishLate ==
    /\ bpc = "finish"
    /\ openIn' = openIn \ {cur} /\ done' = TRUE /\ bpc' = "close"
    /\ UNCHANGED <<subVars, inboxes, pend, held, pol, cons, opVars, cur, cut, stale, reqs, owed,
                   accVars, hist, cuts>>

(* close_admission: empty and closed in one critical section; `reports`     *)
(* says that child reports wait, which only finish cares about.             *)
Finish ==
    /\ bpc = "finish"
    /\ \E reports \in BOOLEAN :
          IF Empty(cur) /\ (~reports \/ cur \notin inboxes \/ reqs >= MaxRequests)
          THEN openIn' = openIn \ {cur} /\ done' = TRUE /\ bpc' = "close"
          ELSE bpc' = "loop" /\ UNCHANGED <<openIn, done>>
    /\ UNCHANGED <<subVars, inboxes, pend, held, pol, cons, opVars, cur, cut, stale, reqs, owed,
                   accVars, hist, cuts>>

(* The request budget is spent: complete if nothing is owed and the         *)
(* completion check agrees, else fail.                                      *)
Budget ==
    /\ bpc = "loop" /\ reqs >= MaxRequests
    /\ IF ~owed /\ Empty(cur) THEN openIn' = openIn \ {cur} /\ done' \in BOOLEAN
                              ELSE UNCHANGED <<openIn, done>>
    /\ bpc' = "close"
    /\ UNCHANGED <<subVars, inboxes, pend, held, pol, cons, opVars, cur, cut, stale, reqs, owed,
                   accVars, hist, cuts>>

(* The backend fails or observes its cancellation, which reaches it some    *)
(* time after the cut set the reason.                                       *)
Fail ==
    /\ bpc \in {"loop", "consumed", "response", "answered", "checks", "finish"}
    /\ bpc' = "close"
    /\ UNCHANGED <<subVars, inboxVars, opVars, cur, cut, stale, done, reqs, owed, accVars, hist, cuts>>

CloseInbox ==
    /\ bpc = "close"
    /\ openIn' = openIn \ {cur}
    /\ bpc' = "retire"
    /\ UNCHANGED <<subVars, inboxes, pend, held, pol, cons, opVars, cur, cut, stale, done, reqs, owed,
                   accVars, hist, cuts>>

(* Mutant: the inbox of the turn that ended is not taken.                   *)
RetireTurnKeepsInbox ==
    /\ bpc = "retire"
    /\ bpc' = "idle" /\ cur' = NoTurn
    /\ UNCHANGED <<subVars, inboxVars, opVars, cut, stale, done, reqs, owed, accVars, hist, cuts>>

(* retire_turn: a cut that landed makes the outcome Cancelled, whatever the *)
(* backend said.                                                            *)
RetireTurn ==
    /\ bpc = "retire"
    /\ DropTurns({cur}, IF done /\ ~cut THEN "lost" ELSE "dropped")
    /\ bpc' = "idle" /\ cur' = NoTurn
    /\ UNCHANGED <<home, passed, chk, pol, opVars, cut, stale, done, reqs, owed, accVars, hist, cuts>>

----------------------------------------------------------------------------
(* remove_submission: a pending one is taken out; an initial one only while *)
(* its turn still waits unprepared, where the next pending one takes its    *)
(* place (its constraint stays with the operation), and without one the     *)
(* turn is cancelled.                                                       *)
RemovePending(s) ==
    /\ sub[s] = "pending" /\ home[s] \in inboxes
    /\ sub' = [sub EXCEPT ![s] = "removed"]
    /\ pend' = [pend EXCEPT ![home[s]] = Without(@, s)]
    /\ UNCHANGED <<home, passed, chk, inboxes, openIn, held, pol, cons, opVars, runVars,
                   accVars, hist, cuts>>

(* The turn waits and no preparation has seen its initial input: it is not  *)
(* at the front, or it was queued without one.                              *)
Behind(t) == (t \in ops /\ ~First(t)) \/ (t \in queue /\ ~Prepares)

RemoveInitial(s) ==
    LET t == home[s]
    IN /\ sub[s] = "held" /\ t \in inboxes /\ Behind(t)
       /\ IF pend[t] # <<>>
          THEN /\ sub' = [sub EXCEPT ![s] = "removed", ![Head(pend[t])] = "held"]
               /\ held' = [held EXCEPT ![t] = {Head(pend[t])}]
               /\ pend' = [pend EXCEPT ![t] = Tail(@)]
               /\ UNCHANGED <<inboxes, openIn, pol, cons, ops, queue>>
          ELSE /\ sub' = [sub EXCEPT ![s] = "removed"]
               /\ inboxes' = inboxes \ {t} /\ openIn' = openIn \ {t}
               /\ held' = [held EXCEPT ![t] = {}]
               /\ cons' = [cons EXCEPT ![t] = {}]
               /\ Drive(ops \ {t}, queue \ {t}, opid, gen, cons)
               /\ UNCHANGED pend
    /\ UNCHANGED <<home, passed, chk, opid, nextOp, gen, confs, open, runVars, accVars, hist, cuts>>

CancelTurn(t) ==
    /\ open /\ cuts < MaxCuts
    /\ t \in ops \cup queue \cup {cur}
    /\ cuts' = cuts + 1
    /\ DropTurns({t}, "dropped")
    /\ cut' = (cut \/ cur = t)
    /\ Drive(ops \ {t}, queue \ {t}, opid, gen, cons)
    /\ UNCHANGED <<home, passed, chk, opid, nextOp, gen, confs, open, cur, bpc, stale, done, reqs, owed,
                   accVars, hist>>

(* cancel_existing keeps configuration changes.                             *)
CancelExisting ==
    /\ open /\ cuts < MaxCuts
    /\ cuts' = cuts + 1
    /\ DropTurns(Subs, "dropped")
    /\ cut' = (cut \/ bpc # "idle") /\ stale' = (stale \/ bpc # "idle")
    /\ Drive(ops \cap Configs, {}, opid, gen, cons)
    /\ UNCHANGED <<home, passed, chk, opid, nextOp, gen, confs, open, cur, bpc, done, reqs, owed,
                   accVars, hist>>

Close ==
    /\ open /\ cuts < MaxCuts
    /\ cuts' = cuts + 1
    /\ open' = FALSE
    /\ DropTurns(Subs, "dropped")
    /\ cut' = (cut \/ bpc # "idle")
    /\ ops' = {} /\ queue' = {}
    /\ UNCHANGED <<home, passed, chk, pol, opid, nextOp, gen, confs, cur, bpc, stale, done, reqs, owed,
                   accVars, hist>>

----------------------------------------------------------------------------
Submit(s) ==
    SubmitJoins(s) \/ SubmitChecks(s) \/ SubmitStarts(s) \/ SubmitRefused(s)

Check(s) == CheckRefuses(s) \/ CheckPasses(s) \/ CheckStale(s)

OperationMoves == ConfigEnds \/ Materialize \/ AdmissionFails

TurnMoves ==
    \/ RunnerPops \/ RunControl \/ StartTurn \/ Consume \/ Request \/ Response \/ Interrupt
    \/ ConsumeLate \/ Checks \/ Finish \/ Budget \/ Fail \/ CloseInbox \/ RetireTurn

Next ==
    \/ \E s \in Subs : Submit(s) \/ Check(s) \/ RemovePending(s) \/ RemoveInitial(s)
    \/ \E i \in Controls \cup Configs : Enqueue(i)
    \/ OperationMoves \/ TurnMoves
    \/ (\E t \in Subs : CancelTurn(t)) \/ CancelExisting \/ Close

Spec == Init /\ [][Next]_vars

(* Preparations end, the runner runs, a backend makes its next step, and a  *)
(* constraint's check returns.                                              *)
LiveSpec ==
    /\ Spec
    /\ \A s \in Subs : WF_vars(Check(s))
    /\ WF_vars(OperationMoves) /\ WF_vars(TurnMoves)

----------------------------------------------------------------------------
(* Every variable has its type; a submission is in the inbox of its turn    *)
(* exactly when it is on its way, and nothing is outstanding beyond the     *)
(* capacity however joins, removals and drains interleave.                  *)
TypeOK ==
    /\ sub \in [Subs -> {"new", "checking", "pending", "held"} \cup Settled]
    /\ home \in [Subs -> Subs \cup {NoTurn}] /\ passed \in [Subs -> Nat]
    /\ openIn \subseteq inboxes /\ inboxes \subseteq Subs
    /\ \A s \in Subs :
          /\ sub[s] = "pending" <=> \E t \in inboxes : s \in SeqSet(pend[t])
          /\ sub[s] = "held" <=> \E t \in inboxes : s \in held[t]
    /\ Outstanding <= MaxOutstanding
    /\ nextOp \in Nat /\ gen \in Nat /\ reqs \in 0..MaxRequests
    /\ ops \cup queue \subseteq Items /\ cur \in Items \cup {NoTurn}
    /\ {open, cut, stale, done, owed} \subseteq BOOLEAN
    /\ bpc \in {"idle", "popped", "loop", "consumed", "response", "answered", "checks",
                "finish", "close", "retire"}

(* A turn never completes over an instruction it accepted: everything that  *)
(* joined it went into a request, or its outcome says failed or cancelled.  *)
(* The submission that joins while the turn finds its inbox empty, spends   *)
(* its budget or is being cut is where this breaks.                         *)
NoLostInstruction == \A s \in Subs : sub[s] # "lost"

(* The compaction c was executed inside the turn that submission s joined.  *)
TakenInside(c, s) ==
    c \in Compactions /\ s \in Subs /\ inside[c] = home[s]

(* Work takes effect in the order it was accepted, although submissions     *)
(* join turns that were admitted before them: nothing overtakes a control   *)
(* or another submission and nothing takes effect twice.  The one exception *)
(* is a compaction executed inside a running turn, which comes before the   *)
(* instructions that wait in that turn's inbox, and never before other      *)
(* work.  Configuration changes are committed ahead of the work that waits  *)
(* before them, and still every submission runs under the policy of its     *)
(* place: the changes accepted before it and no other.                      *)
AcceptanceOrder ==
    /\ \A i, j \in DOMAIN hist :
          i < j => acc[hist[i]] < acc[hist[j]] \/ TakenInside(hist[i], hist[j])
    /\ \A s \in Subs \cap SeqSet(hist), c \in Configs :
          confs[c] # 0 => (confs[c] <= pol[home[s]] <=> acc[c] < acc[s])

(* "Extracts a same-policy compaction without crossing ordered work" (the   *)
(* comment on pop_interrupt, actor/queue.rs): a compaction takes effect     *)
(* before no work that was accepted ahead of it.                            *)
CompactionCrossesNothing ==
    \A i, j \in DOMAIN hist :
        i < j /\ hist[i] \in Compactions => acc[hist[i]] < acc[hist[j]]

(* A constrained submission is executed only by a turn whose policy passed  *)
(* its constraint, whether it was checked by its sender, at once, or with   *)
(* the operation it joined.                                                 *)
ConstraintHolds ==
    \A s \in Constrained :
        s \in SeqSet(hist) => passed[s] = pol[home[s]]

(* What was accepted is settled in the end: sent, removed, or reported with *)
(* the outcome of its turn.  Settled ones stay settled and there are        *)
(* finitely many, so it is enough that again and again none is on its way.  *)
InstructionSettles ==
    []<>(\A s \in Subs : sub[s] \notin {"checking", "pending", "held"})
=============================================================================
