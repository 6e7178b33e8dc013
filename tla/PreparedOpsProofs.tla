------------------------- MODULE PreparedOpsProofs -------------------------
(***************************************************************************)
(* Proofs about PreparedOps: its types, what a caller is told, and that no *)
(* commit loses another one's change.                                      *)
(***************************************************************************)
EXTENDS PreparedOps, TLAPS

(* Operations are ordered by their ids.                                     *)
IdsOrder ==
    /\ \A o \in Ops : opid[o] <= next
    /\ \A o, p \in ops : opid[o] = opid[p] => o = p

(* At most one publication is under way, the one that is registered; an     *)
(* edit that waits has not been taken by a close.                           *)
OnePublication ==
    /\ \A o \in Ops : stage[o] = "publishing" => pub = o
    /\ pub # NoOp => stage[pub] = "publishing" \/ edit = pub
    /\ edit # NoOp => open /\ stage[edit] = "edit"
    /\ open => captured = NoOp
    /\ captured \in Ops => stage[captured] = "edit"

(* What is prepared, waits as an edit, or is being published was prepared   *)
(* on top of the configuration that is in force.                            *)
OnTop(o) == cand[o] = Append(policy, o)
PreparedOnTop ==
    /\ \A o \in Ops :
          stage[o] \in {"preparing", "ready"} => First(ops, o) /\ pub = NoOp /\ OnTop(o)
    /\ edit # NoOp => OnTop(edit)
    /\ \A o \in Ops : stage[o] = "publishing" => OnTop(o) /\ snap[o].conf = cand[o]

(* What the configuration and the session file contain.                     *)
Stands(o) == stage[o] \in {"installed", "committed"}
Replaced(o) == stage[o] = "publishing" /\ Published(o)
Contents ==
    \A o \in Ops :
        /\ o \in SeqSet(policy) <=> Stands(o)
        /\ o \in SeqSet(disk.conf) => Stands(o) \/ Replaced(o)
        /\ Replaced(o) => disk = snap[o]
        /\ host[o] # "none" => stage[o] \in {"publishing", "installed", "committed", "failed"}
        /\ Stands(o) /\ host[o] # "none" => o \in SeqSet(disk.conf)

(* Where a turn that was not started can be.                                *)
TurnPlaces ==
    \A o \in Ops :
        /\ turn[o] = "running" => busy
        /\ turn[o] = "queued" /\ ~open /\ captured = "settled"
              => runner = o /\ stage[o] = "installed"
        /\ o \in Turned /\ stage[o] = "publishing" => runner = o

(* The inductive invariant.                                                 *)
PreparedInv ==
    /\ Typed /\ Placed /\ IdsOrder /\ OnePublication /\ PreparedOnTop /\ Contents /\ TurnPlaces

----------------------------------------------------------------------------
(* What Append adds to the elements of a sequence.                          *)
LEMMA AppendSet ==
    ASSUME NEW S, NEW s \in Seq(S), NEW x \in S
    PROVE  SeqSet(Append(s, x)) = SeqSet(s) \cup {x} /\ Append(s, x) \in Seq(S)
<1>1. Append(s, x) \in Seq(S) /\ DOMAIN Append(s, x) = 1..(Len(s) + 1)
  OBVIOUS
<1>2. DOMAIN s = 1..Len(s) /\ Len(s) \in Nat
  OBVIOUS
<1>3. \A i \in DOMAIN s : Append(s, x)[i] = s[i]
  BY <1>2
<1>4. Append(s, x)[Len(s) + 1] = x
  OBVIOUS
<1>5. DOMAIN Append(s, x) = DOMAIN s \cup {Len(s) + 1}
  BY <1>1, <1>2
<1> QED
  BY <1>1, <1>3, <1>4, <1>5 DEF SeqSet

(* Installing an operation adds it to the configuration.                    *)
LEMMA PolicySet ==
    ASSUME Typed, NEW o \in Ops
    PROVE  SeqSet(Append(policy, o)) = SeqSet(policy) \cup {o}
<1>1. policy \in Seq(Ops)
  BY DEF Typed
<1> QED
  BY <1>1, AppendSet

(* What drive_operations may change of the stages st and the queue q that a *)
(* step leaves: the front, if it is resolved and nothing is under way.      *)
Moved(st, q, o) ==
    /\ st[o] = "resolved" /\ stage'[o] = "preparing" /\ First(q, o)
    /\ pub' = NoOp /\ idle' # "committing" /\ open'
    /\ cand'[o] = Append(policy', o)
DriveEffect(st, q) ==
    /\ ops' = q /\ opid' = opid /\ next' = next
    /\ stage' \in [Ops -> Stages] /\ cand' \in [Ops -> Seq(Ops)]
    /\ \A o \in Ops : Moved(st, q, o) \/ (stage'[o] = st[o] /\ cand'[o] = cand[o])

(* Drive changes no more than that.                                         *)
LEMMA DriveDoes ==
    ASSUME NEW st \in [Ops -> Stages], NEW q \in SUBSET Ops, Drive(st, q),
           cand \in [Ops -> Seq(Ops)], policy' \in Seq(Ops)
    PROVE  DriveEffect(st, q)
BY DEF Drive, Drives, DriveEffect, Moved, ids, Stages, Queued, Ended

(* What a step leaves alone keeps the parts that speak of nothing else.     *)
LEMMA PlacedKept ==
    ASSUME Placed, UNCHANGED <<idle, holder, edit, pub, stage, ops>>
    PROVE  Placed'
BY DEF Placed

LEMMA IdsKept ==
    ASSUME IdsOrder, UNCHANGED <<ops, opid, next>>
    PROVE  IdsOrder'
BY DEF IdsOrder

LEMMA PublicationKept ==
    ASSUME OnePublication, UNCHANGED <<stage, pub, edit, open, captured>>
    PROVE  OnePublication'
BY DEF OnePublication

LEMMA OnTopKept ==
    ASSUME PreparedOnTop, UNCHANGED <<ops, opid, stage, cand, pub, edit, policy, snap>>
    PROVE  PreparedOnTop'
BY DEF PreparedOnTop, OnTop, First

LEMMA ContentsKept ==
    ASSUME Contents, UNCHANGED <<stage, host, phase, policy, disk, snap>>
    PROVE  Contents'
BY DEF Contents, Stands, Replaced, Published

LEMMA TurnsKept ==
    ASSUME TurnPlaces, UNCHANGED <<turn, busy, open, captured, runner, stage>>
    PROVE  TurnPlaces'
BY DEF TurnPlaces

----------------------------------------------------------------------------
(* The steps.  The invariant's parts are shown one by one; a step that ends *)
(* in drive_operations is first described by its stages before that (<1>t), *)
(* what it changes besides (<1>a) and the stages it reaches (<1>k).         *)

(* A turn starts: only where turns are changes.                             *)
LEMMA StartWorkKeeps ==
    ASSUME PreparedInv, StartWork
    PROVE  PreparedInv' /\ CommitAdds
<1>0. Typed /\ Placed /\ IdsOrder /\ OnePublication /\ PreparedOnTop /\ Contents /\ TurnPlaces
  BY DEF PreparedInv
<1>1. Typed'
  <2>1. turn' \in [Ops -> {"none", "queued", "running", "ended"}]
    <3>1. turn' = turn \/ \E o \in Ops : turn' = [turn EXCEPT ![o] = "running"]
      BY DEF StartWork
    <3> QED
      BY <1>0, <3>1 DEF Typed
  <2>2. busy' \in BOOLEAN
    BY <1>0 DEF StartWork, Typed
  <2> QED
    BY <1>0, <2>1, <2>2 DEF StartWork, Typed, opVars, ids, guardVars, lifeVars, liveVars
<1>2. Placed'
  BY <1>0, PlacedKept DEF StartWork, opVars, guardVars, lifeVars, liveVars, ids
<1>3. IdsOrder'
  BY <1>0, IdsKept DEF StartWork, opVars, guardVars, lifeVars, liveVars, ids
<1>4. OnePublication'
  BY <1>0, PublicationKept DEF StartWork, opVars, guardVars, lifeVars, liveVars, ids
<1>5. PreparedOnTop'
  BY <1>0, OnTopKept DEF StartWork, opVars, guardVars, lifeVars, liveVars, ids
<1>6. Contents'
  BY <1>0, ContentsKept DEF StartWork, opVars, guardVars, lifeVars, liveVars, ids
<1>7. TurnPlaces'
  BY <1>0, OpsAssumption, <1>1 DEF StartWork, Queued, Ended, Stages, Typed, Placed,
     OnePublication, TurnPlaces, opVars, guardVars, lifeVars, liveVars, ids
<1>8. CommitAdds
  BY <1>0 DEF StartWork, opVars, guardVars, lifeVars, liveVars, ids, CommitAdds, Typed
<1> QED
  BY <1>8, <1>1, <1>2, <1>3, <1>4, <1>5, <1>6, <1>7 DEF PreparedInv

(* A turn ends and appends to the history.                                  *)
LEMMA EndWorkKeeps ==
    ASSUME PreparedInv, EndWork
    PROVE  PreparedInv' /\ CommitAdds
<1>0. Typed /\ Placed /\ IdsOrder /\ OnePublication /\ PreparedOnTop /\ Contents /\ TurnPlaces
  BY DEF PreparedInv
<1>1. Typed'
  <2>1. turn' \in [Ops -> {"none", "queued", "running", "ended"}]
    BY <1>0 DEF EndWork, Typed
  <2>2. busy' \in BOOLEAN
    BY <1>0 DEF EndWork, Typed
  <2>3. hv' \in Nat
    BY <1>0 DEF EndWork, Typed
  <2> QED
    BY <1>0, <2>1, <2>2, <2>3 DEF EndWork, Typed, opVars, ids, guardVars, lifeVars, liveVars
<1>2. Placed'
  BY <1>0, PlacedKept DEF EndWork, opVars, guardVars, ids
<1>3. IdsOrder'
  BY <1>0, IdsKept DEF EndWork, opVars, guardVars, ids
<1>4. OnePublication'
  BY <1>0, PublicationKept DEF EndWork, opVars, guardVars, ids
<1>5. PreparedOnTop'
  BY <1>0, OnTopKept DEF EndWork, opVars, guardVars, ids
<1>6. Contents'
  BY <1>0, ContentsKept DEF EndWork, opVars, guardVars, ids
<1>7. TurnPlaces'
  BY <1>0, OpsAssumption, <1>1 DEF EndWork, PublishIdle, FinishClose, Queued, Ended,
     Stages, Typed, Placed, OnePublication, TurnPlaces, opVars, guardVars, ids
<1>8. CommitAdds
  BY <1>0 DEF EndWork, opVars, guardVars, ids, CommitAdds, Typed
<1> QED
  BY <1>8, <1>1, <1>2, <1>3, <1>4, <1>5, <1>6, <1>7 DEF PreparedInv

(* The reservation is taken while nothing else is under way.                *)
LEMMA PrepareIdleKeeps ==
    ASSUME PreparedInv, NEW o \in Ops, PrepareIdle(o)
    PROVE  PreparedInv' /\ CommitAdds
<1>0. Typed /\ Placed /\ IdsOrder /\ OnePublication /\ PreparedOnTop /\ Contents /\ TurnPlaces
  BY DEF PreparedInv
<1>1. Typed'
  BY <1>0, OpsAssumption DEF PrepareIdle, Queued, Ended, Stages, Stored, Typed, opVars,
     lifeVars, liveVars, ids
<1>2. Placed'
  BY <1>0, OpsAssumption, <1>1 DEF PrepareIdle, Queued, Ended, Stages, Typed,
     OnePublication, Placed, opVars, lifeVars, liveVars, ids
<1>3. IdsOrder'
  BY <1>0, IdsKept DEF PrepareIdle, opVars, lifeVars, liveVars, ids
<1>4. OnePublication'
  BY <1>0, PublicationKept DEF PrepareIdle, opVars, lifeVars, liveVars, ids
<1>5. PreparedOnTop'
  BY <1>0, OnTopKept DEF PrepareIdle, opVars, lifeVars, liveVars, ids
<1>6. Contents'
  BY <1>0, ContentsKept DEF PrepareIdle, opVars, lifeVars, liveVars, ids
<1>7. TurnPlaces'
  BY <1>0, TurnsKept DEF PrepareIdle, opVars, lifeVars, liveVars, ids
<1>8. CommitAdds
  BY <1>0 DEF PrepareIdle, opVars, lifeVars, liveVars, ids, CommitAdds, Typed
<1> QED
  BY <1>8, <1>1, <1>2, <1>3, <1>4, <1>5, <1>6, <1>7 DEF PreparedInv

(* The new operation has the greatest id, so the front stays the front.     *)
LEMMA ReserveKeeps ==
    ASSUME PreparedInv, NEW o \in Ops, Reserve(o)
    PROVE  PreparedInv' /\ CommitAdds
<1>0. Typed /\ Placed /\ IdsOrder /\ OnePublication /\ PreparedOnTop /\ Contents /\ TurnPlaces
  BY DEF PreparedInv
<1>1. Typed'
  <2>1. ops' \subseteq Ops
    BY <1>0 DEF Reserve, Typed
  <2>2. opid' \in [Ops -> Nat] /\ next' \in Nat
    BY <1>0 DEF Reserve, Typed
  <2>3. stage' \in [Ops -> Stages]
    BY <1>0 DEF Reserve, Typed, Stages, Queued, Ended
  <2>4. owner' \in [Ops -> {"none", "ticket", "waits", "told", "dropped"}]
    BY <1>0 DEF Reserve, Typed
  <2> QED
    BY <1>0, <2>1, <2>2, <2>3, <2>4 DEF Reserve, Typed, opVars, ids, guardVars, lifeVars,
       liveVars
<1>2. Placed'
  BY <1>0, OpsAssumption, <1>1 DEF Reserve, Queued, Ended, Stages, Typed, OnePublication,
     Placed, guardVars, lifeVars, liveVars
<1>3. IdsOrder'
  <2>1. opid' = [opid EXCEPT ![o] = next + 1] /\ next' = next + 1 /\ ops' = ops \cup {o}
    BY DEF Reserve
  <2>2. opid \in [Ops -> Nat] /\ next \in Nat /\ ops \subseteq Ops
    BY <1>0 DEF Typed
  <2> QED
    BY <1>0, <2>1, <2>2 DEF IdsOrder
<1>4. OnePublication'
  BY <1>0, OpsAssumption, <1>1 DEF Reserve, Queued, Ended, Stages, Typed, Placed,
     OnePublication, guardVars, lifeVars, liveVars
<1>5. PreparedOnTop'
  <2>1. /\ stage[o] = "new" /\ stage' = [stage EXCEPT ![o] = "reserved"]
        /\ ops' = ops \cup {o} /\ opid' = [opid EXCEPT ![o] = next + 1]
        /\ UNCHANGED <<cand, pub, edit, policy, snap>>
    BY DEF Reserve, guardVars, liveVars
  <2>2. stage \in [Ops -> Stages] /\ opid \in [Ops -> Nat] /\ next \in Nat /\ ops \subseteq Ops
    BY <1>0 DEF Typed
  <2>3. ASSUME NEW p \in Ops \ {o}, First(ops, p) PROVE First(ops, p)'
    BY <1>0, <2>1, <2>2, <2>3 DEF First, IdsOrder
  <2>4. \A p \in Ops \ {o} : stage'[p] = stage[p]
    BY <2>1, <2>2
  <2> QED
    BY <1>0, <2>1, <2>2, <2>3, <2>4 DEF PreparedOnTop, OnTop
<1>6. Contents'
  BY <1>0, OpsAssumption, <1>1 DEF Reserve, Queued, Ended, Stages, Typed, Placed,
     OnePublication, PreparedOnTop, OnTop, Stands, Replaced, Published, Contents,
     guardVars, lifeVars, liveVars
<1>7. TurnPlaces'
  BY <1>0, OpsAssumption, <1>1 DEF Reserve, Queued, Ended, Stages, Typed, Placed,
     OnePublication, TurnPlaces, guardVars, lifeVars, liveVars
<1>8. CommitAdds
  BY <1>0 DEF Reserve, guardVars, lifeVars, liveVars, CommitAdds, Typed
<1> QED
  BY <1>8, <1>1, <1>2, <1>3, <1>4, <1>5, <1>6, <1>7 DEF PreparedInv

(* The preparation succeeds: the front stays prepared on top.               *)
LEMMA PrepareReadyKeeps ==
    ASSUME PreparedInv, NEW o \in Ops, PrepareReady(o)
    PROVE  PreparedInv' /\ CommitAdds
<1>0. Typed /\ Placed /\ IdsOrder /\ OnePublication /\ PreparedOnTop /\ Contents /\ TurnPlaces
  BY DEF PreparedInv
<1>1. Typed'
  BY <1>0, OpsAssumption DEF PrepareReady, Queued, Ended, Stages, Stored, Typed,
     guardVars, lifeVars, liveVars, ids
<1>2. Placed'
  BY <1>0, OpsAssumption, <1>1 DEF PrepareReady, Queued, Ended, Stages, Typed,
     OnePublication, Placed, guardVars, lifeVars, liveVars, ids
<1>3. IdsOrder'
  BY <1>0, IdsKept DEF PrepareReady, guardVars, lifeVars, liveVars, ids
<1>4. OnePublication'
  BY <1>0, OpsAssumption, <1>1 DEF PrepareReady, Queued, Ended, Stages, Typed, Placed,
     OnePublication, guardVars, lifeVars, liveVars, ids
<1>5. PreparedOnTop'
  <2>1. /\ stage' = [stage EXCEPT ![o] = "ready"]
        /\ stage[o] = "preparing" /\ stage \in [Ops -> Stages]
    BY <1>0 DEF PrepareReady, Typed
  <2>2. UNCHANGED <<ops, opid, cand, pub, edit, policy, snap>>
    BY DEF PrepareReady, ids, guardVars, liveVars
  <2>3. ASSUME NEW p \in Ops PROVE First(ops, p)' <=> First(ops, p)
    BY <2>2 DEF First
  <2> QED
    BY <1>0, <2>1, <2>2, <2>3 DEF PreparedOnTop, OnTop, OnePublication
<1>6. Contents'
  <2>1. /\ stage[o] = "preparing" /\ stage' = [stage EXCEPT ![o] = "ready"]
        /\ UNCHANGED <<phase, host, policy, disk, snap>>
    BY DEF PrepareReady, liveVars
  <2>2. stage \in [Ops -> Stages]
    BY <1>0 DEF Typed
  <2> QED
    BY <1>0, <2>1, <2>2 DEF Stands, Replaced, Published, Contents
<1>7. TurnPlaces'
  BY <1>0, OpsAssumption, <1>1 DEF PrepareReady, Queued, Ended, Stages, Typed, Placed,
     OnePublication, TurnPlaces, guardVars, lifeVars, liveVars, ids
<1>8. CommitAdds
  BY <1>0 DEF PrepareReady, guardVars, lifeVars, liveVars, ids, CommitAdds, Typed
<1> QED
  BY <1>8, <1>1, <1>2, <1>3, <1>4, <1>5, <1>6, <1>7 DEF PreparedInv

(* The caller hears of the failure.                                         *)
LEMMA LearnFailureKeeps ==
    ASSUME PreparedInv, NEW o \in Ops, LearnFailure(o)
    PROVE  PreparedInv' /\ CommitAdds
<1>0. Typed /\ Placed /\ IdsOrder /\ OnePublication /\ PreparedOnTop /\ Contents /\ TurnPlaces
  BY DEF PreparedInv
<1>1. Typed'
  <2>1. owner' \in [Ops -> {"none", "ticket", "waits", "told", "dropped"}]
    BY <1>0 DEF LearnFailure, Typed
  <2> QED
    BY <1>0, <2>1 DEF LearnFailure, Typed, opVars, ids, guardVars, lifeVars, liveVars
<1>2. Placed'
  BY <1>0, PlacedKept DEF LearnFailure, guardVars, lifeVars, liveVars, ids
<1>3. IdsOrder'
  BY <1>0, IdsKept DEF LearnFailure, guardVars, lifeVars, liveVars, ids
<1>4. OnePublication'
  BY <1>0, PublicationKept DEF LearnFailure, guardVars, lifeVars, liveVars, ids
<1>5. PreparedOnTop'
  BY <1>0, OnTopKept DEF LearnFailure, guardVars, lifeVars, liveVars, ids
<1>6. Contents'
  BY <1>0, ContentsKept DEF LearnFailure, guardVars, lifeVars, liveVars, ids
<1>7. TurnPlaces'
  BY <1>0, TurnsKept DEF LearnFailure, guardVars, lifeVars, liveVars, ids
<1>8. CommitAdds
  BY <1>0 DEF LearnFailure, guardVars, lifeVars, liveVars, ids, CommitAdds, Typed
<1> QED
  BY <1>8, <1>1, <1>2, <1>3, <1>4, <1>5, <1>6, <1>7 DEF PreparedInv

(* The front becomes the one publication; its snapshot is its candidate.    *)
LEMMA CommitDurableKeeps ==
    ASSUME PreparedInv, NEW o \in Ops, CommitDurable(o)
    PROVE  PreparedInv' /\ CommitAdds
<1>0. Typed /\ Placed /\ IdsOrder /\ OnePublication /\ PreparedOnTop /\ Contents /\ TurnPlaces
  BY DEF PreparedInv
<1>1. Typed'
  BY <1>0, OpsAssumption DEF CommitDurable, HeadReady, Queued, Ended, Stages, Stored,
     Typed, guardVars, lifeVars, liveVars, ids
<1>2. Placed'
  BY <1>0, OpsAssumption, <1>1 DEF CommitDurable, HeadReady, Queued, Ended, Stages, Typed,
     OnePublication, Placed, PreparedOnTop, guardVars, lifeVars, liveVars, ids
<1>3. IdsOrder'
  BY <1>0, OpsAssumption, <1>1 DEF CommitDurable, HeadReady, Typed, IdsOrder, guardVars,
     lifeVars, liveVars, ids
<1>4. OnePublication'
  BY <1>0, OpsAssumption, <1>1 DEF CommitDurable, HeadReady, Queued, Ended, Stages, Typed,
     Placed, OnePublication, PreparedOnTop, guardVars, lifeVars, liveVars, ids
<1>5. PreparedOnTop'
  <2>1. /\ First(ops, o) /\ stage[o] = "ready" /\ stage' = [stage EXCEPT ![o] = "publishing"]
        /\ snap' = [snap EXCEPT ![o] = [conf |-> cand[o], hist |-> hv]] /\ pub' = o
        /\ UNCHANGED <<cand, edit, policy>>
    BY DEF CommitDurable, HeadReady, guardVars, liveVars
  <2>2. /\ snap \in [Ops -> Stored] /\ stage \in [Ops -> Stages]
        /\ opid \in [Ops -> Nat] /\ ops \subseteq Ops /\ NoOp \notin Ops
    BY <1>0, OpsAssumption DEF Typed
  <2>3. \A p \in Ops : stage[p] \in {"preparing", "ready"} => p = o
    BY <1>0, <2>1, <2>2 DEF PreparedOnTop, First, IdsOrder
  <2>4. \A p \in Ops : stage[p] # "publishing"
    BY <1>0, <2>1, <2>2 DEF PreparedOnTop, OnePublication
  <2> QED
    BY <1>0, <2>1, <2>2, <2>3, <2>4 DEF PreparedOnTop, OnTop
<1>6. Contents'
  <2>1. /\ stage[o] = "ready" /\ stage' = [stage EXCEPT ![o] = "publishing"]
        /\ snap' = [snap EXCEPT ![o] = [conf |-> cand[o], hist |-> hv]]
        /\ UNCHANGED <<phase, host, policy, disk>>
    BY DEF CommitDurable, HeadReady, liveVars
  <2>2. stage \in [Ops -> Stages] /\ snap \in [Ops -> Stored]
    BY <1>0 DEF Typed
  <2> QED
    BY <1>0, <2>1, <2>2 DEF Stands, Replaced, Published, Contents
<1>7. TurnPlaces'
  BY <1>0, OpsAssumption, <1>1 DEF CommitDurable, HeadReady, Queued, Ended, Stages, Typed,
     Placed, OnePublication, TurnPlaces, guardVars, lifeVars, liveVars, ids
<1>8. CommitAdds
  BY <1>0 DEF CommitDurable, guardVars, lifeVars, liveVars, ids, CommitAdds, Typed
<1> QED
  BY <1>8, <1>1, <1>2, <1>3, <1>4, <1>5, <1>6, <1>7 DEF PreparedInv

(* The front becomes the edit that waits for the runner.                    *)
LEMMA CommitHeldKeeps ==
    ASSUME PreparedInv, NEW o \in Ops, CommitHeld(o)
    PROVE  PreparedInv' /\ CommitAdds
<1>0. Typed /\ Placed /\ IdsOrder /\ OnePublication /\ PreparedOnTop /\ Contents /\ TurnPlaces
  BY DEF PreparedInv
<1>1. Typed'
  <2>1. ops' \subseteq Ops
    BY <1>0 DEF CommitHeld, Typed
  <2>2. repl' \in [Ops -> BOOLEAN]
    BY <1>0 DEF CommitHeld, Typed
  <2>3. stage' \in [Ops -> Stages]
    BY <1>0 DEF CommitHeld, Typed, Stages, Queued, Ended
  <2>4. owner' \in [Ops -> {"none", "ticket", "waits", "told", "dropped"}]
    BY <1>0 DEF CommitHeld, Typed
  <2>5. idle' \in {"none", "held", "committing"} /\ edit' \in Ops /\ pub' \in Ops
    BY <1>0 DEF CommitHeld, Typed
  <2> QED
    BY <1>0, <2>1, <2>2, <2>3, <2>4, <2>5 DEF CommitHeld, Typed, opVars, ids, guardVars,
       lifeVars, liveVars
<1>2. Placed'
  BY <1>0, OpsAssumption, <1>1 DEF CommitHeld, HeadReady, Queued, Ended, Stages, Typed,
     OnePublication, Placed, PreparedOnTop, lifeVars, liveVars, ids
<1>3. IdsOrder'
  BY <1>0, OpsAssumption, <1>1 DEF CommitHeld, HeadReady, Typed, IdsOrder, lifeVars,
     liveVars, ids
<1>4. OnePublication'
  BY <1>0, OpsAssumption, <1>1 DEF CommitHeld, HeadReady, Queued, Ended, Stages, Typed,
     Placed, OnePublication, PreparedOnTop, lifeVars, liveVars, ids
<1>5. PreparedOnTop'
  <2>1. /\ First(ops, o) /\ stage[o] = "ready" /\ stage' = [stage EXCEPT ![o] = "edit"]
        /\ edit' = o /\ UNCHANGED <<cand, snap, policy>>
    BY DEF CommitHeld, HeadReady, liveVars
  <2>2. /\ stage \in [Ops -> Stages]
        /\ opid \in [Ops -> Nat] /\ ops \subseteq Ops /\ NoOp \notin Ops
    BY <1>0, OpsAssumption DEF Typed
  <2>3. \A p \in Ops : stage[p] \in {"preparing", "ready"} => p = o
    BY <1>0, <2>1, <2>2 DEF PreparedOnTop, First, IdsOrder
  <2>4. \A p \in Ops : stage[p] # "publishing"
    BY <1>0, <2>1, <2>2 DEF PreparedOnTop, OnePublication
  <2> QED
    BY <1>0, <2>1, <2>2, <2>3, <2>4 DEF PreparedOnTop, OnTop
<1>6. Contents'
  BY <1>0, OpsAssumption, <1>1 DEF CommitHeld, HeadReady, Queued, Ended, Stages, Typed,
     Placed, OnePublication, PreparedOnTop, OnTop, Stands, Replaced, Published, Contents,
     lifeVars, liveVars, ids
<1>7. TurnPlaces'
  BY <1>0, OpsAssumption, <1>1 DEF CommitHeld, HeadReady, Queued, Ended, Stages, Typed,
     Placed, OnePublication, TurnPlaces, lifeVars, liveVars, ids
<1>8. CommitAdds
  BY <1>0 DEF CommitHeld, lifeVars, liveVars, ids, CommitAdds, Typed
<1> QED
  BY <1>8, <1>1, <1>2, <1>3, <1>4, <1>5, <1>6, <1>7 DEF PreparedInv

(* The runner takes the edit: it becomes the one publication.               *)
LEMMA RunnerTakesEditKeeps ==
    ASSUME PreparedInv, RunnerTakesEdit
    PROVE  PreparedInv' /\ CommitAdds
<1>0. Typed /\ Placed /\ IdsOrder /\ OnePublication /\ PreparedOnTop /\ Contents /\ TurnPlaces
  BY DEF PreparedInv
<1>1. Typed'
  <2>1. edit \in Ops
    BY <1>0 DEF RunnerTakesEdit, Typed
  <2>2. stage' \in [Ops -> Stages]
    BY <1>0, <2>1 DEF RunnerTakesEdit, Typed, Stages
  <2>3. [conf |-> cand[edit], hist |-> IF repl[edit] THEN MaxHist + hv + 1 ELSE hv] \in Stored
    BY <1>0, <2>1, OpsAssumption DEF RunnerTakesEdit, Typed, Stored
  <2>4. snap' \in [Ops -> Stored]
    BY <1>0, <2>1, <2>3 DEF RunnerTakesEdit, Typed
  <2> QED
    BY <1>0, <2>1, <2>2, <2>3, <2>4 DEF RunnerTakesEdit, Typed, opVars, ids, guardVars,
       lifeVars, liveVars
<1>2. Placed'
  BY <1>0, OpsAssumption, <1>1 DEF RunnerTakesEdit, Queued, Ended, Stages, Typed,
     OnePublication, Placed, lifeVars, liveVars, ids
<1>3. IdsOrder'
  BY <1>0, IdsKept DEF RunnerTakesEdit, lifeVars, liveVars, ids
<1>4. OnePublication'
  BY <1>0, OpsAssumption, <1>1 DEF RunnerTakesEdit, Queued, Ended, Stages, Typed, Placed,
     OnePublication, lifeVars, liveVars, ids
<1>5. PreparedOnTop'
  BY <1>0, OpsAssumption, <1>1 DEF RunnerTakesEdit, First, Queued, Stages, Ended, Typed,
     Placed, IdsOrder, OnePublication, OnTop, PreparedOnTop, lifeVars, liveVars, ids
<1>6. Contents'
  BY <1>0, OpsAssumption, <1>1 DEF RunnerTakesEdit, Queued, Ended, Stages, Typed, Placed,
     OnePublication, PreparedOnTop, OnTop, Stands, Replaced, Published, Contents,
     lifeVars, liveVars, ids
<1>7. TurnPlaces'
  BY <1>0, OpsAssumption, <1>1 DEF RunnerTakesEdit, Queued, Ended, Stages, Typed, Placed,
     OnePublication, TurnPlaces, lifeVars, liveVars, ids
<1>8. CommitAdds
  BY <1>0 DEF RunnerTakesEdit, lifeVars, liveVars, ids, CommitAdds, Typed
<1> QED
  BY <1>8, <1>1, <1>2, <1>3, <1>4, <1>5, <1>6, <1>7 DEF PreparedInv

(* The host claims the publication before it answers.                       *)
LEMMA HostClaimsKeeps ==
    ASSUME PreparedInv, NEW o \in Ops, HostClaims(o)
    PROVE  PreparedInv' /\ CommitAdds
<1>0. Typed /\ Placed /\ IdsOrder /\ OnePublication /\ PreparedOnTop /\ Contents /\ TurnPlaces
  BY DEF PreparedInv
<1>1. Typed'
  <2>1. phase' \in [Ops -> {"pending", "cancelled", "publishing"}]
    BY <1>0 DEF HostClaims, Typed
  <2> QED
    BY <1>0, <2>1 DEF HostClaims, Typed, opVars, ids, guardVars, lifeVars, liveVars
<1>2. Placed'
  BY <1>0, PlacedKept DEF HostClaims, guardVars, lifeVars, liveVars, ids
<1>3. IdsOrder'
  BY <1>0, IdsKept DEF HostClaims, guardVars, lifeVars, liveVars, ids
<1>4. OnePublication'
  BY <1>0, PublicationKept DEF HostClaims, guardVars, lifeVars, liveVars, ids
<1>5. PreparedOnTop'
  BY <1>0, OnTopKept DEF HostClaims, guardVars, lifeVars, liveVars, ids
<1>6. Contents'
  <2>1. /\ host[o] = "none" /\ phase' = [phase EXCEPT ![o] = "publishing"]
        /\ UNCHANGED <<stage, host, policy, disk, snap>>
    BY DEF HostClaims, liveVars
  <2>2. phase \in [Ops -> {"pending", "cancelled", "publishing"}]
    BY <1>0 DEF Typed
  <2> QED
    BY <1>0, <2>1, <2>2 DEF Stands, Replaced, Published, Contents
<1>7. TurnPlaces'
  BY <1>0, TurnsKept DEF HostClaims, guardVars, lifeVars, liveVars, ids
<1>8. CommitAdds
  BY <1>0 DEF HostClaims, guardVars, lifeVars, liveVars, ids, CommitAdds, Typed
<1> QED
  BY <1>8, <1>1, <1>2, <1>3, <1>4, <1>5, <1>6, <1>7 DEF PreparedInv

(* The file now holds the configuration in force and the operation.         *)
LEMMA HostReplacesKeeps ==
    ASSUME PreparedInv, NEW o \in Ops, HostReplaces(o)
    PROVE  PreparedInv' /\ CommitAdds
<1>0. Typed /\ Placed /\ IdsOrder /\ OnePublication /\ PreparedOnTop /\ Contents /\ TurnPlaces
  BY DEF PreparedInv
<1>1. Typed'
  <2>1. host' \in [Ops -> {"none", "ok", "error"}]
    BY <1>0 DEF HostReplaces, Typed
  <2>2. disk' \in Stored
    BY <1>0 DEF HostReplaces, Typed
  <2> QED
    BY <1>0, <2>1, <2>2 DEF HostReplaces, Typed, opVars, ids, guardVars, lifeVars, liveVars
<1>2. Placed'
  BY <1>0, PlacedKept DEF HostReplaces, guardVars, lifeVars, liveVars, ids
<1>3. IdsOrder'
  BY <1>0, IdsKept DEF HostReplaces, guardVars, lifeVars, liveVars, ids
<1>4. OnePublication'
  BY <1>0, PublicationKept DEF HostReplaces, guardVars, lifeVars, liveVars, ids
<1>5. PreparedOnTop'
  BY <1>0, OnTopKept DEF HostReplaces, guardVars, lifeVars, liveVars, ids
<1>6. Contents'
  <2>1. /\ stage[o] = "publishing" /\ host[o] = "none" /\ phase[o] = "publishing"
        /\ disk' = snap[o]
        /\ host' = [host EXCEPT ![o] = "ok"] /\ UNCHANGED <<stage, phase, snap, policy,
                                                            pub>>
    BY DEF HostReplaces, liveVars
  <2>2. SeqSet(disk'.conf) = SeqSet(policy) \cup {o}
    BY <1>0, <2>1, PolicySet DEF PreparedOnTop, OnTop
  <2>3. host \in [Ops -> {"none", "ok", "error"}]
    BY <1>0 DEF Typed
  <2> QED
    BY <1>0, <2>1, <2>2, <2>3 DEF Placed, Queued, OnePublication, Stands, Replaced,
       Published, Contents
<1>7. TurnPlaces'
  BY <1>0, TurnsKept DEF HostReplaces, guardVars, lifeVars, liveVars, ids
<1>8. CommitAdds
  BY <1>0 DEF HostReplaces, guardVars, lifeVars, liveVars, ids, CommitAdds, Typed
<1> QED
  BY <1>8, <1>1, <1>2, <1>3, <1>4, <1>5, <1>6, <1>7 DEF PreparedInv

(* An answer without the claim, or an error, publishes nothing.             *)
LEMMA HostGivesUpKeeps ==
    ASSUME PreparedInv, NEW o \in Ops, HostGivesUp(o)
    PROVE  PreparedInv' /\ CommitAdds
<1>0. Typed /\ Placed /\ IdsOrder /\ OnePublication /\ PreparedOnTop /\ Contents /\ TurnPlaces
  BY DEF PreparedInv
<1>1. Typed'
  <2>1. host' \in [Ops -> {"none", "ok", "error"}]
    <3>1. host' = [host EXCEPT ![o] = "error"] \/ host' = [host EXCEPT ![o] = "ok"]
      BY DEF HostGivesUp
    <3> QED
      BY <1>0, <3>1 DEF Typed
  <2> QED
    BY <1>0, <2>1 DEF HostGivesUp, Typed, opVars, ids, guardVars, lifeVars, liveVars
<1>2. Placed'
  BY <1>0, PlacedKept DEF HostGivesUp, guardVars, lifeVars, liveVars, ids
<1>3. IdsOrder'
  BY <1>0, IdsKept DEF HostGivesUp, guardVars, lifeVars, liveVars, ids
<1>4. OnePublication'
  BY <1>0, PublicationKept DEF HostGivesUp, guardVars, lifeVars, liveVars, ids
<1>5. PreparedOnTop'
  BY <1>0, OnTopKept DEF HostGivesUp, guardVars, lifeVars, liveVars, ids
<1>6. Contents'
  <2>1. stage[o] = "publishing" /\ host[o] = "none" /\ UNCHANGED <<stage, phase, snap,
                                                                   policy, disk>>
    BY DEF HostGivesUp, liveVars
  <2>2. /\ \A p \in Ops \ {o} : host'[p] = host[p]
        /\ ~(host'[o] = "ok" /\ phase[o] = "publishing")
    BY <1>0 DEF HostGivesUp, Typed
  <2> QED
    BY <1>0, <2>1, <2>2 DEF Placed, Queued, OnePublication, Stands, Replaced, Published,
       Contents
<1>7. TurnPlaces'
  BY <1>0, TurnsKept DEF HostGivesUp, guardVars, lifeVars, liveVars, ids
<1>8. CommitAdds
  BY <1>0 DEF HostGivesUp, guardVars, lifeVars, liveVars, ids, CommitAdds, Typed
<1> QED
  BY <1>8, <1>1, <1>2, <1>3, <1>4, <1>5, <1>6, <1>7 DEF PreparedInv

(* The runner takes back the turn it queued after a close.                  *)
LEMMA EditSettlesKeeps ==
    ASSUME PreparedInv, EditSettles
    PROVE  PreparedInv' /\ CommitAdds
<1>0. Typed /\ Placed /\ IdsOrder /\ OnePublication /\ PreparedOnTop /\ Contents /\ TurnPlaces
  BY DEF PreparedInv
<1>1. Typed'
  BY <1>0, OpsAssumption DEF EditSettles, Queued, Ended, Stages, Stored, Typed, guardVars,
     liveVars, ids
<1>2. Placed'
  BY <1>0, OpsAssumption, <1>1 DEF EditSettles, Queued, Ended, Stages, Typed,
     OnePublication, Placed, guardVars, liveVars, ids
<1>3. IdsOrder'
  BY <1>0, IdsKept DEF EditSettles, guardVars, liveVars, ids
<1>4. OnePublication'
  BY <1>0, OpsAssumption, <1>1 DEF EditSettles, Queued, Ended, Stages, Typed, Placed,
     OnePublication, guardVars, liveVars, ids
<1>5. PreparedOnTop'
  BY <1>0, OpsAssumption, <1>1 DEF EditSettles, First, Queued, Stages, Ended, Typed,
     Placed, IdsOrder, OnePublication, OnTop, PreparedOnTop, guardVars, liveVars, ids
<1>6. Contents'
  BY <1>0, OpsAssumption, <1>1 DEF EditSettles, Queued, Ended, Stages, Typed, Placed,
     OnePublication, PreparedOnTop, OnTop, Stands, Replaced, Published, Contents,
     guardVars, liveVars, ids
<1>7. TurnPlaces'
  BY <1>0, OpsAssumption, <1>1 DEF EditSettles, Queued, Ended, Stages, Typed, Placed,
     OnePublication, TurnPlaces, guardVars, liveVars, ids
<1>8. CommitAdds
  BY <1>0 DEF EditSettles, guardVars, liveVars, ids, CommitAdds, Typed
<1> QED
  BY <1>8, <1>1, <1>2, <1>3, <1>4, <1>5, <1>6, <1>7 DEF PreparedInv

(* The runner is through with the edit.                                     *)
LEMMA EditEndsKeeps ==
    ASSUME PreparedInv, EditEnds
    PROVE  PreparedInv' /\ CommitAdds
<1>0. Typed /\ Placed /\ IdsOrder /\ OnePublication /\ PreparedOnTop /\ Contents /\ TurnPlaces
  BY DEF PreparedInv
<1>1. Typed'
  BY <1>0, OpsAssumption DEF EditEnds, Queued, Ended, Stages, Stored, Typed, opVars,
     liveVars, ids
<1>2. Placed'
  BY <1>0, PlacedKept DEF EditEnds, opVars, liveVars, ids
<1>3. IdsOrder'
  BY <1>0, IdsKept DEF EditEnds, opVars, liveVars, ids
<1>4. OnePublication'
  BY <1>0, PublicationKept DEF EditEnds, opVars, liveVars, ids
<1>5. PreparedOnTop'
  BY <1>0, OnTopKept DEF EditEnds, opVars, liveVars, ids
<1>6. Contents'
  BY <1>0, ContentsKept DEF EditEnds, opVars, liveVars, ids
<1>7. TurnPlaces'
  BY <1>0, OpsAssumption, <1>1 DEF EditEnds, Queued, Ended, Stages, Typed, Placed,
     OnePublication, TurnPlaces, opVars, liveVars, ids
<1>8. CommitAdds
  BY <1>0 DEF EditEnds, opVars, liveVars, ids, CommitAdds, Typed
<1> QED
  BY <1>8, <1>1, <1>2, <1>3, <1>4, <1>5, <1>6, <1>7 DEF PreparedInv

(* The caller hears of the end of its edit.                                 *)
LEMMA EditAnswersKeeps ==
    ASSUME PreparedInv, NEW o \in Ops, EditAnswers(o)
    PROVE  PreparedInv' /\ CommitAdds
<1>0. Typed /\ Placed /\ IdsOrder /\ OnePublication /\ PreparedOnTop /\ Contents /\ TurnPlaces
  BY DEF PreparedInv
<1>1. Typed'
  <2>1. owner' \in [Ops -> {"none", "ticket", "waits", "told", "dropped"}]
    BY <1>0 DEF EditAnswers, Typed
  <2> QED
    BY <1>0, <2>1 DEF EditAnswers, Typed, opVars, ids, guardVars, lifeVars, liveVars
<1>2. Placed'
  BY <1>0, PlacedKept DEF EditAnswers, guardVars, lifeVars, liveVars, ids
<1>3. IdsOrder'
  BY <1>0, IdsKept DEF EditAnswers, guardVars, lifeVars, liveVars, ids
<1>4. OnePublication'
  BY <1>0, PublicationKept DEF EditAnswers, guardVars, lifeVars, liveVars, ids
<1>5. PreparedOnTop'
  BY <1>0, OnTopKept DEF EditAnswers, guardVars, lifeVars, liveVars, ids
<1>6. Contents'
  BY <1>0, ContentsKept DEF EditAnswers, guardVars, lifeVars, liveVars, ids
<1>7. TurnPlaces'
  BY <1>0, TurnsKept DEF EditAnswers, guardVars, lifeVars, liveVars, ids
<1>8. CommitAdds
  BY <1>0 DEF EditAnswers, guardVars, lifeVars, liveVars, ids, CommitAdds, Typed
<1> QED
  BY <1>8, <1>1, <1>2, <1>3, <1>4, <1>5, <1>6, <1>7 DEF PreparedInv

(* A publication that was not claimed is cancelled.                         *)
LEMMA CancelPublicationKeeps ==
    ASSUME PreparedInv, NEW o \in Ops, CancelPublication(o)
    PROVE  PreparedInv' /\ CommitAdds
<1>0. Typed /\ Placed /\ IdsOrder /\ OnePublication /\ PreparedOnTop /\ Contents /\ TurnPlaces
  BY DEF PreparedInv
<1>1. Typed'
  <2>1. phase' \in [Ops -> {"pending", "cancelled", "publishing"}]
    BY <1>0 DEF CancelPublication, Typed
  <2> QED
    BY <1>0, <2>1 DEF CancelPublication, Typed, opVars, ids, guardVars, lifeVars, liveVars
<1>2. Placed'
  BY <1>0, PlacedKept DEF CancelPublication, guardVars, lifeVars, liveVars, ids
<1>3. IdsOrder'
  BY <1>0, IdsKept DEF CancelPublication, guardVars, lifeVars, liveVars, ids
<1>4. OnePublication'
  BY <1>0, PublicationKept DEF CancelPublication, guardVars, lifeVars, liveVars, ids
<1>5. PreparedOnTop'
  BY <1>0, OnTopKept DEF CancelPublication, guardVars, lifeVars, liveVars, ids
<1>6. Contents'
  BY <1>0, OpsAssumption, <1>1 DEF CancelPublication, Queued, Ended, Stages, Typed,
     Placed, OnePublication, PreparedOnTop, OnTop, Stands, Replaced, Published, Contents,
     guardVars, lifeVars, liveVars, ids
<1>7. TurnPlaces'
  BY <1>0, TurnsKept DEF CancelPublication, guardVars, lifeVars, liveVars, ids
<1>8. CommitAdds
  BY <1>0 DEF CancelPublication, guardVars, lifeVars, liveVars, ids, CommitAdds, Typed
<1> QED
  BY <1>8, <1>1, <1>2, <1>3, <1>4, <1>5, <1>6, <1>7 DEF PreparedInv

(* An edit the runner has not taken is taken back.                          *)
LEMMA TakeEditBackKeeps ==
    ASSUME PreparedInv, NEW o \in Ops, TakeEditBack(o)
    PROVE  PreparedInv' /\ CommitAdds
<1>0. Typed /\ Placed /\ IdsOrder /\ OnePublication /\ PreparedOnTop /\ Contents /\ TurnPlaces
  BY DEF PreparedInv
<1>1. Typed'
  BY <1>0, OpsAssumption DEF TakeEditBack, Queued, Ended, Stages, Stored, Typed, lifeVars,
     liveVars, ids
<1>2. Placed'
  BY <1>0, OpsAssumption, <1>1 DEF TakeEditBack, Queued, Ended, Stages, Typed,
     OnePublication, Placed, lifeVars, liveVars, ids
<1>3. IdsOrder'
  BY <1>0, IdsKept DEF TakeEditBack, lifeVars, liveVars, ids
<1>4. OnePublication'
  BY <1>0, OpsAssumption, <1>1 DEF TakeEditBack, Queued, Ended, Stages, Typed, Placed,
     OnePublication, lifeVars, liveVars, ids
<1>5. PreparedOnTop'
  BY <1>0, OpsAssumption, <1>1 DEF TakeEditBack, First, Queued, Stages, Ended, Typed,
     Placed, IdsOrder, OnePublication, OnTop, PreparedOnTop, lifeVars, liveVars, ids
<1>6. Contents'
  BY <1>0, OpsAssumption, <1>1 DEF TakeEditBack, Queued, Ended, Stages, Typed, Placed,
     OnePublication, PreparedOnTop, OnTop, Stands, Replaced, Published, Contents,
     lifeVars, liveVars, ids
<1>7. TurnPlaces'
  BY <1>0, OpsAssumption, <1>1 DEF TakeEditBack, Queued, Ended, Stages, Typed, Placed,
     OnePublication, TurnPlaces, lifeVars, liveVars, ids
<1>8. CommitAdds
  BY <1>0 DEF TakeEditBack, lifeVars, liveVars, ids, CommitAdds, Typed
<1> QED
  BY <1>8, <1>1, <1>2, <1>3, <1>4, <1>5, <1>6, <1>7 DEF PreparedInv

(* A close empties the queue and captures the edit that waits.              *)
LEMMA CaptureCloseKeeps ==
    ASSUME PreparedInv, CaptureClose
    PROVE  PreparedInv' /\ CommitAdds
<1>0. Typed /\ Placed /\ IdsOrder /\ OnePublication /\ PreparedOnTop /\ Contents /\ TurnPlaces
  BY DEF PreparedInv
<1>1. Typed'
  BY <1>0, OpsAssumption DEF CaptureClose, Cancelled, Queued, Ended, Stages, Stored,
     Typed, liveVars, ids
<1>2. Placed'
  BY <1>0, OpsAssumption, <1>1 DEF CaptureClose, Cancelled, Queued, Ended, Stages, Typed,
     OnePublication, Placed, liveVars, ids
<1>3. IdsOrder'
  BY <1>0, OpsAssumption, <1>1 DEF CaptureClose, Cancelled, Typed, IdsOrder, liveVars, ids
<1>4. OnePublication'
  <2>1. /\ ~open' /\ captured' = edit /\ edit' = NoOp
        /\ pub' = IF edit # NoOp /\ pub = edit THEN NoOp ELSE pub
        /\ \A p \in Ops : stage'[p] = IF p \in ops THEN "failed" ELSE stage[p]
    BY DEF CaptureClose
  <2>2. edit \in Ops \cup {NoOp} /\ pub \in Ops \cup {NoOp} /\ NoOp \notin Ops
    BY <1>0, OpsAssumption DEF Typed
  <2> QED
    BY <1>0, <2>1, <2>2 DEF OnePublication, Placed, Queued
<1>5. PreparedOnTop'
  BY <1>0, OpsAssumption, <1>1 DEF CaptureClose, Cancelled, First, Queued, Stages, Ended,
     Typed, Placed, IdsOrder, OnePublication, OnTop, PreparedOnTop, liveVars, ids
<1>6. Contents'
  BY <1>0, OpsAssumption, <1>1 DEF CaptureClose, Cancelled, Queued, Ended, Stages, Typed,
     Placed, OnePublication, PreparedOnTop, OnTop, Stands, Replaced, Published, Contents,
     liveVars, ids
<1>7. TurnPlaces'
  BY <1>0, OpsAssumption, <1>1 DEF CaptureClose, Cancelled, Queued, Ended, Stages, Typed,
     Placed, OnePublication, TurnPlaces, liveVars, ids
<1>8. CommitAdds
  BY <1>0 DEF CaptureClose, liveVars, ids, CommitAdds, Typed
<1> QED
  BY <1>8, <1>1, <1>2, <1>3, <1>4, <1>5, <1>6, <1>7 DEF PreparedInv

(* The captured edit fails and the queued turns end.                        *)
LEMMA SettleCloseKeeps ==
    ASSUME PreparedInv, SettleClose
    PROVE  PreparedInv' /\ CommitAdds
<1>0. Typed /\ Placed /\ IdsOrder /\ OnePublication /\ PreparedOnTop /\ Contents /\ TurnPlaces
  BY DEF PreparedInv
<1>1. Typed'
  BY <1>0, OpsAssumption DEF SettleClose, Queued, Ended, Stages, Stored, Typed, guardVars,
     liveVars, ids
<1>2. Placed'
  BY <1>0, OpsAssumption, <1>1 DEF SettleClose, Queued, Ended, Stages, Typed,
     OnePublication, Placed, guardVars, liveVars, ids
<1>3. IdsOrder'
  BY <1>0, IdsKept DEF SettleClose, guardVars, liveVars, ids
<1>4. OnePublication'
  BY <1>0, OpsAssumption, <1>1 DEF SettleClose, Queued, Ended, Stages, Typed, Placed,
     OnePublication, guardVars, liveVars, ids
<1>5. PreparedOnTop'
  BY <1>0, OpsAssumption, <1>1 DEF SettleClose, First, Queued, Stages, Ended, Typed,
     Placed, IdsOrder, OnePublication, OnTop, PreparedOnTop, guardVars, liveVars, ids
<1>6. Contents'
  BY <1>0, OpsAssumption, <1>1 DEF SettleClose, Queued, Ended, Stages, Typed, Placed,
     OnePublication, PreparedOnTop, OnTop, Stands, Replaced, Published, Contents,
     guardVars, liveVars, ids
<1>7. TurnPlaces'
  BY <1>0, OpsAssumption, <1>1 DEF SettleClose, Queued, Ended, Stages, Typed, Placed,
     OnePublication, TurnPlaces, guardVars, liveVars, ids
<1>8. CommitAdds
  BY <1>0 DEF SettleClose, guardVars, liveVars, ids, CommitAdds, Typed
<1> QED
  BY <1>8, <1>1, <1>2, <1>3, <1>4, <1>5, <1>6, <1>7 DEF PreparedInv

(* The operation is resolved; at the front it is prepared at once.          *)
LEMMA ResolveKeeps ==
    ASSUME PreparedInv, NEW o \in Ops, Resolve(o)
    PROVE  PreparedInv' /\ CommitAdds
<1>0. Typed /\ Placed /\ IdsOrder /\ OnePublication /\ PreparedOnTop /\ Contents /\ TurnPlaces
  BY DEF PreparedInv
<1> DEFINE st == [stage EXCEPT ![o] = "resolved"]
           q == ops
<1>p. policy' \in Seq(Ops)
  BY <1>0 DEF Resolve, Install, Typed, liveVars
<1>s. st \in [Ops -> Stages] /\ q \in SUBSET Ops /\ q \subseteq ops
  BY <1>0 DEF Typed, Stages, Queued, Ended
<1>t. st[o] = "resolved" /\ \A p \in Ops \ {o} : st[p] = stage[p]
  BY <1>0 DEF Typed
<1>d. DriveEffect(st, q)
  <2>1. Drive(st, q)
    BY DEF Resolve
  <2> HIDE DEF st, q
  <2> QED
    BY <1>0, <1>p, <1>s, <2>1, DriveDoes DEF Typed
<1> HIDE DEF st
<1>m. /\ stage' \in [Ops -> Stages]
      /\ cand' \in [Ops -> Seq(Ops)] /\ ops' = q /\ opid' = opid /\ next' = next
  BY <1>d DEF DriveEffect
<1>n. \A p \in Ops : stage'[p] = st[p] \/ (st[p] = "resolved" /\ stage'[p] = "preparing")
  BY <1>d DEF DriveEffect, Moved
<1>a. /\ open /\ stage[o] = "reserved"
      /\ UNCHANGED <<phase, owner, repl, snap, host, idle, holder, edit, runner, open,
                     captured, policy, hv, pub, busy, turn, disk>>
  BY <1>0 DEF Resolve, guardVars, liveVars, Typed
<1>k. /\ stage'[o] \in {"resolved", "preparing"}
      /\ \A p \in Ops \ {o} :
            stage'[p] = stage[p] \/ (stage[p] = "resolved" /\ stage'[p] = "preparing")
  BY <1>t, <1>n
<1>y. /\ stage \in [Ops -> Stages] /\ NoOp \notin Ops /\ "settled" \notin Ops
      /\ edit \in Ops \cup {NoOp} /\ runner \in Ops \cup {NoOp} /\ pub \in Ops \cup {NoOp}
      /\ captured \in Ops \cup {NoOp, "settled"}
  BY <1>0, OpsAssumption DEF Typed
<1>1. Typed'
  BY <1>0, <1>a, <1>m, <1>p DEF Typed
<1>2. Placed'
  BY <1>y, <1>0, <1>a, <1>k, <1>m, <1>s DEF Queued, OnePublication, Placed
<1>3. IdsOrder'
  BY <1>y, <1>0, <1>a, <1>k, <1>m, <1>s DEF IdsOrder
<1>4. OnePublication'
  BY <1>y, <1>0, <1>a, <1>k DEF Queued, Placed, OnePublication
<1>5. PreparedOnTop'
  <2>1. ASSUME NEW p \in Ops, stage'[p] \in {"preparing", "ready"}
        PROVE  First(ops, p)' /\ pub' = NoOp /\ OnTop(p)'
    <3>1. CASE Moved(st, q, p)
      BY <3>1, <1>m DEF Moved, First, OnTop
    <3>2. CASE stage'[p] = st[p] /\ cand'[p] = cand[p]
      <4>1. st[p] = stage[p] /\ First(ops, p) /\ pub = NoOp /\ OnTop(p)
        <5>1. st[p] = stage[p]
          BY <1>t, <2>1, <3>2
        <5> QED
          BY <1>0, <2>1, <3>2, <5>1 DEF PreparedOnTop
      <4>2. policy' = policy /\ pub' = NoOp /\ p \in q
        BY <1>y, <1>0, <1>a, <1>k, <1>s, <1>t, <1>m, <1>n, <2>1, <3>2, <4>1
           DEF PreparedOnTop, OnePublication, IdsOrder, Placed, Typed, Queued, First
      <4> QED
        BY <1>m, <1>s, <3>2, <4>1, <4>2 DEF First, OnTop
    <3> QED
      BY <1>d, <3>1, <3>2 DEF DriveEffect
  <2>2. ASSUME NEW p \in Ops, stage'[p] \in {"edit", "publishing"}
        PROVE  cand'[p] = cand[p]
    BY <1>d, <2>2 DEF DriveEffect, Moved
  <2>3. ASSUME edit' # NoOp PROVE OnTop(edit)'
    <3>1. edit' = edit /\ stage[edit] = "edit" /\ stage'[edit] = "edit" /\ policy' = policy
      BY <1>y, <1>0, <1>a, <1>k, <2>3 DEF OnePublication, Placed, Queued
    <3> QED
      BY <1>y, <1>0, <2>2, <2>3, <3>1 DEF PreparedOnTop, OnTop
  <2>4. ASSUME NEW p \in Ops, stage'[p] = "publishing"
        PROVE  OnTop(p)' /\ snap'[p].conf = cand'[p]
    <3>1. stage[p] = "publishing" /\ policy' = policy /\ snap' = snap
      BY <1>y, <1>0, <1>a, <1>k, <2>4 DEF OnePublication, Queued
    <3> QED
      BY <1>0, <2>2, <2>4, <3>1 DEF PreparedOnTop, OnTop
  <2> QED
    BY <2>1, <2>3, <2>4 DEF PreparedOnTop
<1>6. Contents'
  BY <1>y, <1>0, <1>a, <1>k DEF Queued, Placed, OnePublication, PreparedOnTop, OnTop,
     Stands, Replaced, Published, Contents
<1>7. TurnPlaces'
  BY <1>y, <1>0, <1>a, <1>k DEF Queued, Placed, OnePublication, TurnPlaces
<1>8. CommitAdds
  BY <1>y, <1>0, <1>a, <1>k DEF CommitAdds, Queued, PreparedOnTop, OnTop, OnePublication
<1> QED
  BY <1>8, <1>1, <1>2, <1>3, <1>4, <1>5, <1>6, <1>7 DEF PreparedInv

(* The front fails and the next one is prepared.                            *)
LEMMA PrepareFailsKeeps ==
    ASSUME PreparedInv, NEW o \in Ops, PrepareFails(o)
    PROVE  PreparedInv' /\ CommitAdds
<1>0. Typed /\ Placed /\ IdsOrder /\ OnePublication /\ PreparedOnTop /\ Contents /\ TurnPlaces
  BY DEF PreparedInv
<1> DEFINE st == [stage EXCEPT ![o] = "failed"]
           q == ops \ {o}
<1>p. policy' \in Seq(Ops)
  BY <1>0 DEF PrepareFails, Install, Typed, liveVars
<1>s. st \in [Ops -> Stages] /\ q \in SUBSET Ops /\ q \subseteq ops
  BY <1>0 DEF Typed, Stages, Queued, Ended
<1>t. st[o] = "failed" /\ \A p \in Ops \ {o} : st[p] = stage[p]
  BY <1>0 DEF Typed
<1>d. DriveEffect(st, q)
  <2>1. Drive(st, q)
    BY DEF PrepareFails
  <2> HIDE DEF st, q
  <2> QED
    BY <1>0, <1>p, <1>s, <2>1, DriveDoes DEF Typed
<1> HIDE DEF st
<1>m. /\ stage' \in [Ops -> Stages]
      /\ cand' \in [Ops -> Seq(Ops)] /\ ops' = q /\ opid' = opid /\ next' = next
  BY <1>d DEF DriveEffect
<1>n. \A p \in Ops : stage'[p] = st[p] \/ (st[p] = "resolved" /\ stage'[p] = "preparing")
  BY <1>d DEF DriveEffect, Moved
<1>a. /\ open /\ stage[o] = "preparing"
      /\ phase' \in [Ops -> {"pending", "cancelled", "publishing"}]
      /\ \A p \in Ops : phase'[p] = "publishing" <=> phase[p] = "publishing"
      /\ UNCHANGED <<owner, repl, snap, host, idle, holder, edit, runner, open, captured,
                     policy, hv, pub, busy, turn, disk>>
  BY <1>0 DEF PrepareFails, Cancelled, guardVars, liveVars, Typed
<1>k. /\ stage'[o] = "failed"
      /\ \A p \in Ops \ {o} :
            stage'[p] = stage[p] \/ (stage[p] = "resolved" /\ stage'[p] = "preparing")
  BY <1>t, <1>n
<1>y. /\ stage \in [Ops -> Stages] /\ NoOp \notin Ops /\ "settled" \notin Ops
      /\ edit \in Ops \cup {NoOp} /\ runner \in Ops \cup {NoOp} /\ pub \in Ops \cup {NoOp}
      /\ captured \in Ops \cup {NoOp, "settled"}
  BY <1>0, OpsAssumption DEF Typed
<1>1. Typed'
  BY <1>0, <1>a, <1>m, <1>p DEF Typed
<1>2. Placed'
  BY <1>y, <1>0, <1>a, <1>k, <1>m, <1>s DEF Queued, OnePublication, Placed
<1>3. IdsOrder'
  BY <1>y, <1>0, <1>a, <1>k, <1>m, <1>s DEF IdsOrder
<1>4. OnePublication'
  BY <1>y, <1>0, <1>a, <1>k DEF Queued, Placed, OnePublication
<1>5. PreparedOnTop'
  <2>1. ASSUME NEW p \in Ops, stage'[p] \in {"preparing", "ready"}
        PROVE  First(ops, p)' /\ pub' = NoOp /\ OnTop(p)'
    <3>1. CASE Moved(st, q, p)
      BY <3>1, <1>m DEF Moved, First, OnTop
    <3>2. CASE stage'[p] = st[p] /\ cand'[p] = cand[p]
      <4>1. st[p] = stage[p] /\ First(ops, p) /\ pub = NoOp /\ OnTop(p)
        <5>1. st[p] = stage[p]
          BY <1>t, <2>1, <3>2
        <5> QED
          BY <1>0, <2>1, <3>2, <5>1 DEF PreparedOnTop
      <4>2. policy' = policy /\ pub' = NoOp /\ p \in q
        BY <1>y, <1>0, <1>a, <1>k, <1>s, <1>t, <1>m, <1>n, <2>1, <3>2, <4>1
           DEF PreparedOnTop, OnePublication, IdsOrder, Placed, Typed, Queued, First
      <4> QED
        BY <1>m, <1>s, <3>2, <4>1, <4>2 DEF First, OnTop
    <3> QED
      BY <1>d, <3>1, <3>2 DEF DriveEffect
  <2>2. ASSUME NEW p \in Ops, stage'[p] \in {"edit", "publishing"}
        PROVE  cand'[p] = cand[p]
    BY <1>d, <2>2 DEF DriveEffect, Moved
  <2>3. ASSUME edit' # NoOp PROVE OnTop(edit)'
    <3>1. edit' = edit /\ stage[edit] = "edit" /\ stage'[edit] = "edit" /\ policy' = policy
      BY <1>y, <1>0, <1>a, <1>k, <2>3 DEF OnePublication, Placed, Queued
    <3> QED
      BY <1>y, <1>0, <2>2, <2>3, <3>1 DEF PreparedOnTop, OnTop
  <2>4. ASSUME NEW p \in Ops, stage'[p] = "publishing"
        PROVE  OnTop(p)' /\ snap'[p].conf = cand'[p]
    <3>1. stage[p] = "publishing" /\ policy' = policy /\ snap' = snap
      BY <1>y, <1>0, <1>a, <1>k, <2>4 DEF OnePublication, Queued
    <3> QED
      BY <1>0, <2>2, <2>4, <3>1 DEF PreparedOnTop, OnTop
  <2> QED
    BY <2>1, <2>3, <2>4 DEF PreparedOnTop
<1>6. Contents'
  BY <1>y, <1>0, <1>a, <1>k DEF Queued, Placed, OnePublication, PreparedOnTop, OnTop,
     Stands, Replaced, Published, Contents
<1>7. TurnPlaces'
  BY <1>y, <1>0, <1>a, <1>k DEF Queued, Placed, OnePublication, TurnPlaces
<1>8. CommitAdds
  BY <1>y, <1>0, <1>a, <1>k DEF CommitAdds, Queued, PreparedOnTop, OnTop, OnePublication
<1> QED
  BY <1>8, <1>1, <1>2, <1>3, <1>4, <1>5, <1>6, <1>7 DEF PreparedInv

(* An operation leaves the queue, from the front or the middle.             *)
LEMMA DropTicketKeeps ==
    ASSUME PreparedInv, NEW o \in Ops, DropTicket(o)
    PROVE  PreparedInv' /\ CommitAdds
<1>0. Typed /\ Placed /\ IdsOrder /\ OnePublication /\ PreparedOnTop /\ Contents /\ TurnPlaces
  BY DEF PreparedInv
<1> DEFINE st == [stage EXCEPT ![o] = "failed"]
           q == ops \ {o}
<1>p. policy' \in Seq(Ops)
  BY <1>0 DEF DropTicket, Install, Typed, liveVars
<1>s. st \in [Ops -> Stages] /\ q \in SUBSET Ops /\ q \subseteq ops
  BY <1>0 DEF Typed, Stages, Queued, Ended
<1>t. st[o] = "failed" /\ \A p \in Ops \ {o} : st[p] = stage[p]
  BY <1>0 DEF Typed
<1>d. DriveEffect(st, q)
  <2>1. Drive(st, q)
    BY DEF DropTicket
  <2> HIDE DEF st, q
  <2> QED
    BY <1>0, <1>p, <1>s, <2>1, DriveDoes DEF Typed
<1> HIDE DEF st
<1>m. /\ stage' \in [Ops -> Stages]
      /\ cand' \in [Ops -> Seq(Ops)] /\ ops' = q /\ opid' = opid /\ next' = next
  BY <1>d DEF DriveEffect
<1>n. \A p \in Ops : stage'[p] = st[p] \/ (st[p] = "resolved" /\ stage'[p] = "preparing")
  BY <1>d DEF DriveEffect, Moved
<1>a. /\ o \in ops /\ stage[o] \in Queued
      /\ owner' \in [Ops -> {"none", "ticket", "waits", "told", "dropped"}]
      /\ phase' \in [Ops -> {"pending", "cancelled", "publishing"}]
      /\ \A p \in Ops : phase'[p] = "publishing" <=> phase[p] = "publishing"
      /\ UNCHANGED <<repl, snap, host, idle, holder, edit, runner, open, captured, policy,
                     hv, pub, busy, turn, disk>>
  BY <1>0 DEF DropTicket, Cancelled, Placed, guardVars, liveVars, Typed
<1>k. /\ stage'[o] = "failed"
      /\ \A p \in Ops \ {o} :
            stage'[p] = stage[p] \/ (stage[p] = "resolved" /\ stage'[p] = "preparing")
  BY <1>t, <1>n
<1>y. /\ stage \in [Ops -> Stages] /\ NoOp \notin Ops /\ "settled" \notin Ops
      /\ edit \in Ops \cup {NoOp} /\ runner \in Ops \cup {NoOp} /\ pub \in Ops \cup {NoOp}
      /\ captured \in Ops \cup {NoOp, "settled"}
  BY <1>0, OpsAssumption DEF Typed
<1>1. Typed'
  BY <1>0, <1>a, <1>m, <1>p DEF Typed
<1>2. Placed'
  BY <1>y, <1>0, <1>a, <1>k, <1>m, <1>s DEF Queued, OnePublication, Placed
<1>3. IdsOrder'
  BY <1>y, <1>0, <1>a, <1>k, <1>m, <1>s DEF IdsOrder
<1>4. OnePublication'
  BY <1>y, <1>0, <1>a, <1>k DEF Queued, Placed, OnePublication
<1>5. PreparedOnTop'
  <2>1. ASSUME NEW p \in Ops, stage'[p] \in {"preparing", "ready"}
        PROVE  First(ops, p)' /\ pub' = NoOp /\ OnTop(p)'
    <3>1. CASE Moved(st, q, p)
      BY <3>1, <1>m DEF Moved, First, OnTop
    <3>2. CASE stage'[p] = st[p] /\ cand'[p] = cand[p]
      <4>1. st[p] = stage[p] /\ First(ops, p) /\ pub = NoOp /\ OnTop(p)
        <5>1. st[p] = stage[p]
          BY <1>t, <2>1, <3>2
        <5> QED
          BY <1>0, <2>1, <3>2, <5>1 DEF PreparedOnTop
      <4>2. policy' = policy /\ pub' = NoOp /\ p \in q
        BY <1>y, <1>0, <1>a, <1>k, <1>s, <1>t, <1>m, <1>n, <2>1, <3>2, <4>1
           DEF PreparedOnTop, OnePublication, IdsOrder, Placed, Typed, Queued, First
      <4> QED
        BY <1>m, <1>s, <3>2, <4>1, <4>2 DEF First, OnTop
    <3> QED
      BY <1>d, <3>1, <3>2 DEF DriveEffect
  <2>2. ASSUME NEW p \in Ops, stage'[p] \in {"edit", "publishing"}
        PROVE  cand'[p] = cand[p]
    BY <1>d, <2>2 DEF DriveEffect, Moved
  <2>3. ASSUME edit' # NoOp PROVE OnTop(edit)'
    <3>1. edit' = edit /\ stage[edit] = "edit" /\ stage'[edit] = "edit" /\ policy' = policy
      BY <1>y, <1>0, <1>a, <1>k, <2>3 DEF OnePublication, Placed, Queued
    <3> QED
      BY <1>y, <1>0, <2>2, <2>3, <3>1 DEF PreparedOnTop, OnTop
  <2>4. ASSUME NEW p \in Ops, stage'[p] = "publishing"
        PROVE  OnTop(p)' /\ snap'[p].conf = cand'[p]
    <3>1. stage[p] = "publishing" /\ policy' = policy /\ snap' = snap
      BY <1>y, <1>0, <1>a, <1>k, <2>4 DEF OnePublication, Queued
    <3> QED
      BY <1>0, <2>2, <2>4, <3>1 DEF PreparedOnTop, OnTop
  <2> QED
    BY <2>1, <2>3, <2>4 DEF PreparedOnTop
<1>6. Contents'
  BY <1>y, <1>0, <1>a, <1>k DEF Queued, Placed, OnePublication, PreparedOnTop, OnTop,
     Stands, Replaced, Published, Contents
<1>7. TurnPlaces'
  BY <1>y, <1>0, <1>a, <1>k DEF Queued, Placed, OnePublication, TurnPlaces
<1>8. CommitAdds
  BY <1>y, <1>0, <1>a, <1>k DEF CommitAdds, Queued, PreparedOnTop, OnTop, OnePublication
<1> QED
  BY <1>8, <1>1, <1>2, <1>3, <1>4, <1>5, <1>6, <1>7 DEF PreparedInv

(* The reservation goes; what it held back may be prepared.                 *)
LEMMA DropGuardKeeps ==
    ASSUME PreparedInv, DropGuard
    PROVE  PreparedInv' /\ CommitAdds
<1>0. Typed /\ Placed /\ IdsOrder /\ OnePublication /\ PreparedOnTop /\ Contents /\ TurnPlaces
  BY DEF PreparedInv
<1> DEFINE st == stage
           q == ops
<1>p. policy' \in Seq(Ops)
  BY <1>0 DEF DropGuard, Install, Typed, liveVars
<1>s. st \in [Ops -> Stages] /\ q \in SUBSET Ops /\ q \subseteq ops
  BY <1>0 DEF Typed, Stages, Queued, Ended
<1>t. \A p \in Ops : st[p] = stage[p]
  BY <1>0 DEF Typed
<1>d. DriveEffect(st, q)
  <2>1. Drive(st, q)
    BY DEF DropGuard
  <2> HIDE DEF st, q
  <2> QED
    BY <1>0, <1>p, <1>s, <2>1, DriveDoes DEF Typed
<1>m. /\ stage' \in [Ops -> Stages]
      /\ cand' \in [Ops -> Seq(Ops)] /\ ops' = q /\ opid' = opid /\ next' = next
  BY <1>d DEF DriveEffect
<1>n. \A p \in Ops : stage'[p] = st[p] \/ (st[p] = "resolved" /\ stage'[p] = "preparing")
  BY <1>d DEF DriveEffect, Moved
<1>a. /\ idle = "held" /\ idle' = "none" /\ holder' = NoOp
      /\ UNCHANGED <<phase, owner, repl, snap, host, edit, runner, open, captured, policy,
                     hv, pub, busy, turn, disk>>
  BY <1>0 DEF DropGuard, guardVars, liveVars, Typed
<1>k. \A p \in Ops : stage'[p] = stage[p] \/ (stage[p] = "resolved" /\ stage'[p] = "preparing")
  BY <1>t, <1>n
<1>y. /\ stage \in [Ops -> Stages] /\ NoOp \notin Ops /\ "settled" \notin Ops
      /\ edit \in Ops \cup {NoOp} /\ runner \in Ops \cup {NoOp} /\ pub \in Ops \cup {NoOp}
      /\ captured \in Ops \cup {NoOp, "settled"}
  BY <1>0, OpsAssumption DEF Typed
<1>1. Typed'
  BY <1>0, <1>a, <1>m, <1>p DEF Typed
<1>2. Placed'
  BY <1>y, <1>0, <1>a, <1>k, <1>m, <1>s DEF Queued, OnePublication, Placed
<1>3. IdsOrder'
  BY <1>y, <1>0, <1>a, <1>k, <1>m, <1>s DEF IdsOrder
<1>4. OnePublication'
  BY <1>y, <1>0, <1>a, <1>k DEF Queued, Placed, OnePublication
<1>5. PreparedOnTop'
  <2>1. ASSUME NEW p \in Ops, stage'[p] \in {"preparing", "ready"}
        PROVE  First(ops, p)' /\ pub' = NoOp /\ OnTop(p)'
    <3>1. CASE Moved(st, q, p)
      BY <3>1, <1>m DEF Moved, First, OnTop
    <3>2. CASE stage'[p] = st[p] /\ cand'[p] = cand[p]
      <4>1. st[p] = stage[p] /\ First(ops, p) /\ pub = NoOp /\ OnTop(p)
        <5>1. st[p] = stage[p]
          BY <1>t, <2>1, <3>2
        <5> QED
          BY <1>0, <2>1, <3>2, <5>1 DEF PreparedOnTop
      <4>2. policy' = policy /\ pub' = NoOp /\ p \in q
        BY <1>y, <1>0, <1>a, <1>k, <1>s, <1>t, <1>m, <1>n, <2>1, <3>2, <4>1
           DEF PreparedOnTop, OnePublication, IdsOrder, Placed, Typed, Queued, First
      <4> QED
        BY <1>m, <1>s, <3>2, <4>1, <4>2 DEF First, OnTop
    <3> QED
      BY <1>d, <3>1, <3>2 DEF DriveEffect
  <2>2. ASSUME NEW p \in Ops, stage'[p] \in {"edit", "publishing"}
        PROVE  cand'[p] = cand[p]
    BY <1>d, <2>2 DEF DriveEffect, Moved
  <2>3. ASSUME edit' # NoOp PROVE OnTop(edit)'
    <3>1. edit' = edit /\ stage[edit] = "edit" /\ stage'[edit] = "edit" /\ policy' = policy
      BY <1>y, <1>0, <1>a, <1>k, <2>3 DEF OnePublication, Placed, Queued
    <3> QED
      BY <1>y, <1>0, <2>2, <2>3, <3>1 DEF PreparedOnTop, OnTop
  <2>4. ASSUME NEW p \in Ops, stage'[p] = "publishing"
        PROVE  OnTop(p)' /\ snap'[p].conf = cand'[p]
    <3>1. stage[p] = "publishing" /\ policy' = policy /\ snap' = snap
      BY <1>y, <1>0, <1>a, <1>k, <2>4 DEF OnePublication, Queued
    <3> QED
      BY <1>0, <2>2, <2>4, <3>1 DEF PreparedOnTop, OnTop
  <2> QED
    BY <2>1, <2>3, <2>4 DEF PreparedOnTop
<1>6. Contents'
  BY <1>y, <1>0, <1>a, <1>k DEF Queued, Placed, OnePublication, PreparedOnTop, OnTop,
     Stands, Replaced, Published, Contents
<1>7. TurnPlaces'
  BY <1>y, <1>0, <1>a, <1>k DEF Queued, Placed, OnePublication, TurnPlaces
<1>8. CommitAdds
  BY <1>y, <1>0, <1>a, <1>k DEF CommitAdds, Queued, PreparedOnTop, OnTop, OnePublication
<1> QED
  BY <1>8, <1>1, <1>2, <1>3, <1>4, <1>5, <1>6, <1>7 DEF PreparedInv

(* The front is installed: nothing else was prepared on the old             *)
(* configuration.                                                           *)
LEMMA CommitKeeps ==
    ASSUME PreparedInv, NEW o \in Ops, Commit(o)
    PROVE  PreparedInv' /\ CommitAdds
<1>0. Typed /\ Placed /\ IdsOrder /\ OnePublication /\ PreparedOnTop /\ Contents /\ TurnPlaces
  BY DEF PreparedInv
<1> DEFINE st == [stage EXCEPT ![o] = "committed"]
           q == ops \ {o}
<1>p. policy' \in Seq(Ops)
  BY <1>0 DEF Commit, Install, Typed, liveVars
<1>s. st \in [Ops -> Stages] /\ q \in SUBSET Ops /\ q \subseteq ops
  BY <1>0 DEF Typed, Stages, Queued, Ended
<1>t. st[o] = "committed" /\ \A p \in Ops \ {o} : st[p] = stage[p]
  BY <1>0 DEF Typed
<1>d. DriveEffect(st, q)
  <2>1. Drive(st, q)
    BY DEF Commit
  <2> HIDE DEF st, q
  <2> QED
    BY <1>0, <1>p, <1>s, <2>1, DriveDoes DEF Typed
<1> HIDE DEF st
<1>m. /\ stage' \in [Ops -> Stages]
      /\ cand' \in [Ops -> Seq(Ops)] /\ ops' = q /\ opid' = opid /\ next' = next
  BY <1>d DEF DriveEffect
<1>n. \A p \in Ops : stage'[p] = st[p] \/ (st[p] = "resolved" /\ stage'[p] = "preparing")
  BY <1>d DEF DriveEffect, Moved
<1>a. /\ open /\ First(ops, o) /\ stage[o] = "ready"
      /\ policy' = cand[o]
      /\ owner' \in [Ops -> {"none", "ticket", "waits", "told", "dropped"}]
      /\ phase' \in [Ops -> {"pending", "cancelled", "publishing"}]
      /\ \A p \in Ops : phase'[p] = "publishing" <=> phase[p] = "publishing"
      /\ turn' \in [Ops -> {"none", "queued", "running", "ended"}]
      /\ \A p \in Ops : turn'[p] = "running" => turn[p] = "running"
      /\ UNCHANGED <<repl, snap, host, idle, holder, edit, runner, open, captured, hv,
                     pub, busy, disk>>
  BY <1>0 DEF Commit, HeadReady, Install, Cancelled, guardVars, liveVars, Typed
<1>k. /\ stage'[o] = "committed"
      /\ \A p \in Ops \ {o} :
            stage'[p] = stage[p] \/ (stage[p] = "resolved" /\ stage'[p] = "preparing")
  BY <1>t, <1>n
<1>y. /\ stage \in [Ops -> Stages] /\ NoOp \notin Ops /\ "settled" \notin Ops
      /\ edit \in Ops \cup {NoOp} /\ runner \in Ops \cup {NoOp} /\ pub \in Ops \cup {NoOp}
      /\ captured \in Ops \cup {NoOp, "settled"}
  BY <1>0, OpsAssumption DEF Typed
<1>1. Typed'
  BY <1>0, <1>a, <1>m, <1>p DEF Typed
<1>2. Placed'
  BY <1>y, <1>0, <1>a, <1>k, <1>m, <1>s DEF Queued, OnePublication, Placed
<1>3. IdsOrder'
  BY <1>y, <1>0, <1>a, <1>k, <1>m, <1>s DEF IdsOrder
<1>4. OnePublication'
  BY <1>y, <1>0, <1>a, <1>k DEF Queued, Placed, OnePublication
<1>5. PreparedOnTop'
  <2>1. ASSUME NEW p \in Ops, stage'[p] \in {"preparing", "ready"}
        PROVE  First(ops, p)' /\ pub' = NoOp /\ OnTop(p)'
    <3>1. CASE Moved(st, q, p)
      BY <3>1, <1>m DEF Moved, First, OnTop
    <3>2. CASE stage'[p] = st[p] /\ cand'[p] = cand[p]
      <4>1. st[p] = stage[p] /\ First(ops, p) /\ pub = NoOp /\ OnTop(p)
        <5>1. st[p] = stage[p]
          BY <1>t, <2>1, <3>2
        <5> QED
          BY <1>0, <2>1, <3>2, <5>1 DEF PreparedOnTop
      <4>2. policy' = policy /\ pub' = NoOp /\ p \in q
        BY <1>y, <1>0, <1>a, <1>k, <1>s, <1>t, <1>m, <1>n, <2>1, <3>2, <4>1
           DEF PreparedOnTop, OnePublication, IdsOrder, Placed, Typed, Queued, First
      <4> QED
        BY <1>m, <1>s, <3>2, <4>1, <4>2 DEF First, OnTop
    <3> QED
      BY <1>d, <3>1, <3>2 DEF DriveEffect
  <2>2. ASSUME NEW p \in Ops, stage'[p] \in {"edit", "publishing"}
        PROVE  cand'[p] = cand[p]
    BY <1>d, <2>2 DEF DriveEffect, Moved
  <2>3. ASSUME edit' # NoOp PROVE OnTop(edit)'
    <3>1. edit' = edit /\ stage[edit] = "edit" /\ stage'[edit] = "edit" /\ policy' = policy
      BY <1>y, <1>0, <1>a, <1>k, <2>3 DEF OnePublication, Placed, Queued, PreparedOnTop
    <3> QED
      BY <1>y, <1>0, <2>2, <2>3, <3>1 DEF PreparedOnTop, OnTop
  <2>4. ASSUME NEW p \in Ops, stage'[p] = "publishing"
        PROVE  OnTop(p)' /\ snap'[p].conf = cand'[p]
    <3>1. stage[p] = "publishing" /\ policy' = policy /\ snap' = snap
      BY <1>y, <1>0, <1>a, <1>k, <2>4 DEF OnePublication, Queued, PreparedOnTop
    <3> QED
      BY <1>0, <2>2, <2>4, <3>1 DEF PreparedOnTop, OnTop
  <2> QED
    BY <2>1, <2>3, <2>4 DEF PreparedOnTop
<1>6. Contents'
  <2>1. SeqSet(policy') = SeqSet(policy) \cup {o} /\ pub = NoOp
    BY <1>0, <1>a, PolicySet DEF PreparedOnTop, OnTop
  <2> QED
    BY <1>y, <1>0, <1>a, <1>k, <2>1 DEF Placed, Queued, OnePublication, Stands, Replaced,
       Published, Contents
<1>7. TurnPlaces'
  BY <1>y, <1>0, <1>a, <1>k DEF Queued, Placed, OnePublication, TurnPlaces
<1>8. CommitAdds
  BY <1>y, <1>0, <1>a, <1>k DEF CommitAdds, Queued, PreparedOnTop, OnTop, OnePublication
<1> QED
  BY <1>8, <1>1, <1>2, <1>3, <1>4, <1>5, <1>6, <1>7 DEF PreparedInv

(* A durable commit ends: installed if it was stored, or given up.          *)
LEMMA TaskEndsKeeps ==
    ASSUME PreparedInv, NEW o \in Ops, TaskEnds(o)
    PROVE  PreparedInv' /\ CommitAdds
<1>0. Typed /\ Placed /\ IdsOrder /\ OnePublication /\ PreparedOnTop /\ Contents /\ TurnPlaces
  BY DEF PreparedInv
<1> DEFINE st == [stage EXCEPT ![o] = IF Published(o) THEN "committed" ELSE "failed"]
           q == ops
<1>p. policy' \in Seq(Ops)
  BY <1>0 DEF TaskEnds, Install, Typed, liveVars
<1>s. st \in [Ops -> Stages] /\ q \in SUBSET Ops /\ q \subseteq ops
  BY <1>0 DEF Typed, Stages, Queued, Ended
<1>t. /\ st[o] = (IF Published(o) THEN "committed" ELSE "failed")
      /\ \A p \in Ops \ {o} : st[p] = stage[p]
  BY <1>0 DEF Typed
<1>d. DriveEffect(st, q)
  <2>1. Drive(st, q)
    BY DEF TaskEnds
  <2> HIDE DEF st, q
  <2> QED
    BY <1>0, <1>p, <1>s, <2>1, DriveDoes DEF Typed
<1> HIDE DEF st
<1>m. /\ stage' \in [Ops -> Stages]
      /\ cand' \in [Ops -> Seq(Ops)] /\ ops' = q /\ opid' = opid /\ next' = next
  BY <1>d DEF DriveEffect
<1>n. \A p \in Ops : stage'[p] = st[p] \/ (st[p] = "resolved" /\ stage'[p] = "preparing")
  BY <1>d DEF DriveEffect, Moved
<1>a. /\ stage[o] = "publishing" /\ pub = o /\ pub' = NoOp /\ o \notin Turned
      /\ policy' = IF Published(o) THEN cand[o] ELSE policy
      /\ host[o] # "none" /\ owner' \in [Ops -> {"none", "ticket", "waits", "told", "dropped"}]
      /\ phase' \in [Ops -> {"pending", "cancelled", "publishing"}]
      /\ \A p \in Ops : phase'[p] = "publishing" <=> phase[p] = "publishing"
      /\ UNCHANGED <<repl, snap, host, idle, holder, edit, runner, open, captured, hv,
                     busy, turn, disk>>
  BY <1>0 DEF TaskEnds, Install, Cancelled, OnePublication, TurnPlaces, guardVars,
     liveVars, Typed
<1>k. /\ stage'[o] = IF Published(o) THEN "committed" ELSE "failed"
      /\ \A p \in Ops \ {o} :
            stage'[p] = stage[p] \/ (stage[p] = "resolved" /\ stage'[p] = "preparing")
  BY <1>t, <1>n
<1>y. /\ stage \in [Ops -> Stages] /\ NoOp \notin Ops /\ "settled" \notin Ops
      /\ edit \in Ops \cup {NoOp} /\ runner \in Ops \cup {NoOp} /\ pub \in Ops \cup {NoOp}
      /\ captured \in Ops \cup {NoOp, "settled"}
  BY <1>0, OpsAssumption DEF Typed
<1>1. Typed'
  BY <1>0, <1>a, <1>m, <1>p DEF Typed
<1>2. Placed'
  BY <1>y, <1>0, <1>a, <1>k, <1>m, <1>s DEF Queued, OnePublication, Placed
<1>3. IdsOrder'
  BY <1>y, <1>0, <1>a, <1>k, <1>m, <1>s DEF IdsOrder
<1>4. OnePublication'
  BY <1>y, <1>0, <1>a, <1>k DEF Queued, Placed, OnePublication
<1>5. PreparedOnTop'
  <2>1. ASSUME NEW p \in Ops, stage'[p] \in {"preparing", "ready"}
        PROVE  First(ops, p)' /\ pub' = NoOp /\ OnTop(p)'
    <3>1. CASE Moved(st, q, p)
      BY <3>1, <1>m DEF Moved, First, OnTop
    <3>2. CASE stage'[p] = st[p] /\ cand'[p] = cand[p]
      <4>1. st[p] = stage[p] /\ First(ops, p) /\ pub = NoOp /\ OnTop(p)
        <5>1. st[p] = stage[p]
          BY <1>t, <2>1, <3>2
        <5> QED
          BY <1>0, <2>1, <3>2, <5>1 DEF PreparedOnTop
      <4>2. policy' = policy /\ pub' = NoOp /\ p \in q
        BY <1>y, <1>0, <1>a, <1>k, <1>s, <1>t, <1>m, <1>n, <2>1, <3>2, <4>1
           DEF PreparedOnTop, OnePublication, IdsOrder, Placed, Typed, Queued, First
      <4> QED
        BY <1>m, <1>s, <3>2, <4>1, <4>2 DEF First, OnTop
    <3> QED
      BY <1>d, <3>1, <3>2 DEF DriveEffect
  <2>2. ASSUME NEW p \in Ops, stage'[p] \in {"edit", "publishing"}
        PROVE  cand'[p] = cand[p]
    BY <1>d, <2>2 DEF DriveEffect, Moved
  <2>3. ASSUME edit' # NoOp PROVE OnTop(edit)'
    <3>1. edit' = edit /\ stage[edit] = "edit" /\ stage'[edit] = "edit" /\ policy' = policy
      BY <1>y, <1>0, <1>a, <1>k, <2>3 DEF OnePublication, Placed, Queued
    <3> QED
      BY <1>y, <1>0, <2>2, <2>3, <3>1 DEF PreparedOnTop, OnTop
  <2>4. ASSUME NEW p \in Ops, stage'[p] = "publishing"
        PROVE  OnTop(p)' /\ snap'[p].conf = cand'[p]
    <3>1. stage[p] = "publishing" /\ policy' = policy /\ snap' = snap
      BY <1>y, <1>0, <1>a, <1>k, <2>4 DEF OnePublication, Queued
    <3> QED
      BY <1>0, <2>2, <2>4, <3>1 DEF PreparedOnTop, OnTop
  <2> QED
    BY <2>1, <2>3, <2>4 DEF PreparedOnTop
<1>6. Contents'
  <2>1. CASE Published(o)
    <3>1. SeqSet(policy') = SeqSet(policy) \cup {o}
      BY <1>0, <1>a, <2>1, PolicySet DEF PreparedOnTop, OnTop
    <3>2. disk.conf = policy'
      BY <1>0, <1>a, <2>1 DEF PreparedOnTop, OnTop, Replaced, Contents
    <3> QED
      BY <1>y, <1>0, <1>a, <1>k, <2>1, <3>1, <3>2 DEF Placed, Queued, OnePublication,
         Stands, Replaced, Published, Contents
  <2>2. CASE ~Published(o)
    BY <1>y, <1>0, <1>a, <1>k, <2>2 DEF Placed, Queued, OnePublication, Stands, Replaced,
       Published, Contents
  <2> QED
    BY <2>1, <2>2
<1>7. TurnPlaces'
  BY <1>y, <1>0, <1>a, <1>k DEF Queued, Placed, OnePublication, TurnPlaces
<1>8. CommitAdds
  <2>1. CASE Published(o)
    BY <1>y, <1>0, <1>a, <1>k, <2>1 DEF TaskEnds, CommitAdds, PreparedOnTop, OnTop,
       OnePublication, Replaced, Contents
  <2>2. CASE ~Published(o)
    BY <1>y, <1>0, <1>a, <1>k, <2>2 DEF CommitAdds, OnePublication
  <2> QED
    BY <2>1, <2>2
<1> QED
  BY <1>8, <1>1, <1>2, <1>3, <1>4, <1>5, <1>6, <1>7 DEF PreparedInv

(* A stored edit is installed; the configuration is what the file holds.    *)
LEMMA EditInstallsKeeps ==
    ASSUME PreparedInv, EditInstalls
    PROVE  PreparedInv' /\ CommitAdds
<1>0. Typed /\ Placed /\ IdsOrder /\ OnePublication /\ PreparedOnTop /\ Contents /\ TurnPlaces
  BY DEF PreparedInv
<1>r. runner \in Ops
  BY <1>0 DEF EditInstalls, Typed
<1> DEFINE st == [stage EXCEPT ![runner] = "installed"]
           q == ops
<1>p. policy' \in Seq(Ops)
  BY <1>0, <1>r DEF EditInstalls, Install, Typed, liveVars
<1>s. st \in [Ops -> Stages] /\ q \in SUBSET Ops /\ q \subseteq ops
  BY <1>0 DEF Typed, Stages, Queued, Ended
<1>t. st[runner] = "installed" /\ \A p \in Ops \ {runner} : st[p] = stage[p]
  BY <1>0, <1>r DEF Typed
<1>d. DriveEffect(st, q)
  <2>1. Drive(st, q)
    BY DEF EditInstalls
  <2> HIDE DEF st, q
  <2> QED
    BY <1>0, <1>p, <1>s, <2>1, DriveDoes DEF Typed
<1> HIDE DEF st
<1>m. /\ stage' \in [Ops -> Stages]
      /\ cand' \in [Ops -> Seq(Ops)] /\ ops' = q /\ opid' = opid /\ next' = next
  BY <1>d DEF DriveEffect
<1>n. \A p \in Ops : stage'[p] = st[p] \/ (st[p] = "resolved" /\ stage'[p] = "preparing")
  BY <1>d DEF DriveEffect, Moved
<1>a. /\ stage[runner] = "publishing" /\ pub = runner /\ pub' = NoOp /\ Published(runner)
      /\ policy' = cand[runner] /\ hv' \in Nat
      /\ idle' \in {"none", "held"} /\ (idle' = "none" <=> idle = "none")
      /\ turn' \in [Ops -> {"none", "queued", "running", "ended"}]
      /\ \A p \in Ops \ {runner} : turn'[p] = turn[p]
      /\ turn'[runner] = "running" => turn[runner] = "running"
      /\ UNCHANGED <<phase, owner, repl, snap, host, holder, edit, runner, open, captured,
                     busy, disk>>
  BY <1>0, <1>r DEF EditInstalls, Install, OnePublication, Stored, guardVars, liveVars,
     Typed
<1>k. /\ stage'[runner] = "installed"
      /\ \A p \in Ops \ {runner} :
            stage'[p] = stage[p] \/ (stage[p] = "resolved" /\ stage'[p] = "preparing")
  BY <1>t, <1>n, <1>r
<1>y. /\ stage \in [Ops -> Stages] /\ NoOp \notin Ops /\ "settled" \notin Ops
      /\ edit \in Ops \cup {NoOp} /\ runner \in Ops \cup {NoOp} /\ pub \in Ops \cup {NoOp}
      /\ captured \in Ops \cup {NoOp, "settled"}
  BY <1>0, OpsAssumption DEF Typed
<1>1. Typed'
  BY <1>0, <1>a, <1>m, <1>p DEF Typed
<1>2. Placed'
  BY <1>y, <1>0, <1>a, <1>k, <1>r, <1>m, <1>s DEF Queued, OnePublication, Placed
<1>3. IdsOrder'
  BY <1>y, <1>0, <1>a, <1>k, <1>r, <1>m, <1>s DEF IdsOrder
<1>4. OnePublication'
  BY <1>y, <1>0, <1>a, <1>k, <1>r DEF Queued, Placed, OnePublication
<1>5. PreparedOnTop'
  <2>1. ASSUME NEW p \in Ops, stage'[p] \in {"preparing", "ready"}
        PROVE  First(ops, p)' /\ pub' = NoOp /\ OnTop(p)'
    <3>1. CASE Moved(st, q, p)
      BY <3>1, <1>m DEF Moved, First, OnTop
    <3>2. CASE stage'[p] = st[p] /\ cand'[p] = cand[p]
      <4>1. st[p] = stage[p] /\ First(ops, p) /\ pub = NoOp /\ OnTop(p)
        <5>1. st[p] = stage[p]
          BY <1>t, <1>r, <2>1, <3>2
        <5> QED
          BY <1>0, <2>1, <3>2, <5>1 DEF PreparedOnTop
      <4>2. policy' = policy /\ pub' = NoOp /\ p \in q
        BY <1>y, <1>0, <1>a, <1>k, <1>r, <1>s, <1>t, <1>m, <1>n, <2>1, <3>2, <4>1
           DEF PreparedOnTop, OnePublication, IdsOrder, Placed, Typed, Queued, First
      <4> QED
        BY <1>m, <1>s, <3>2, <4>1, <4>2 DEF First, OnTop
    <3> QED
      BY <1>d, <3>1, <3>2 DEF DriveEffect
  <2>2. ASSUME NEW p \in Ops, stage'[p] \in {"edit", "publishing"}
        PROVE  cand'[p] = cand[p]
    BY <1>d, <2>2 DEF DriveEffect, Moved
  <2>3. ASSUME edit' # NoOp PROVE OnTop(edit)'
    <3>1. edit' = edit /\ stage[edit] = "edit" /\ stage'[edit] = "edit" /\ policy' = policy
      BY <1>y, <1>0, <1>a, <1>k, <1>r, <2>3 DEF OnePublication, Placed, Queued
    <3> QED
      BY <1>y, <1>0, <2>2, <2>3, <3>1 DEF PreparedOnTop, OnTop
  <2>4. ASSUME NEW p \in Ops, stage'[p] = "publishing"
        PROVE  OnTop(p)' /\ snap'[p].conf = cand'[p]
    <3>1. stage[p] = "publishing" /\ policy' = policy /\ snap' = snap
      BY <1>y, <1>0, <1>a, <1>k, <1>r, <2>4 DEF OnePublication, Queued
    <3> QED
      BY <1>0, <2>2, <2>4, <3>1 DEF PreparedOnTop, OnTop
  <2> QED
    BY <2>1, <2>3, <2>4 DEF PreparedOnTop
<1>6. Contents'
  <2>1. CASE Published(runner)
    <3>1. SeqSet(policy') = SeqSet(policy) \cup {runner}
      BY <1>0, <1>a, <1>r, <2>1, PolicySet DEF PreparedOnTop, OnTop
    <3>2. disk.conf = policy'
      BY <1>0, <1>a, <1>r, <2>1 DEF PreparedOnTop, OnTop, Replaced, Contents
    <3> QED
      BY <1>y, <1>0, <1>a, <1>k, <1>r, <2>1, <3>1, <3>2 DEF Placed, Queued,
         OnePublication, Stands, Replaced, Published, Contents
  <2>2. CASE ~Published(runner)
    BY <1>y, <1>0, <1>a, <1>k, <1>r, <2>2 DEF Placed, Queued, OnePublication, Stands,
       Replaced, Published, Contents
  <2> QED
    BY <2>1, <2>2
<1>7. TurnPlaces'
  BY <1>y, <1>0, <1>a, <1>k, <1>r DEF Queued, Placed, OnePublication, TurnPlaces
<1>8. CommitAdds
  <2>1. CASE Published(runner)
    BY <1>y, <1>0, <1>a, <1>k, <1>r, <2>1 DEF EditInstalls, CommitAdds, PreparedOnTop,
       OnTop, OnePublication, Replaced, Contents
  <2>2. CASE ~Published(runner)
    BY <1>y, <1>0, <1>a, <1>k, <1>r, <2>2 DEF CommitAdds, OnePublication
  <2> QED
    BY <2>1, <2>2
<1> QED
  BY <1>8, <1>1, <1>2, <1>3, <1>4, <1>5, <1>6, <1>7 DEF PreparedInv

(* An edit that was not stored is given up.                                 *)
LEMMA EditFailsKeeps ==
    ASSUME PreparedInv, EditFails
    PROVE  PreparedInv' /\ CommitAdds
<1>0. Typed /\ Placed /\ IdsOrder /\ OnePublication /\ PreparedOnTop /\ Contents /\ TurnPlaces
  BY DEF PreparedInv
<1>r. runner \in Ops
  BY <1>0 DEF EditFails, Typed
<1> DEFINE st == [stage EXCEPT ![runner] = "failed"]
           q == ops
<1>p. policy' \in Seq(Ops)
  BY <1>0, <1>r DEF EditFails, Install, Typed, liveVars
<1>s. st \in [Ops -> Stages] /\ q \in SUBSET Ops /\ q \subseteq ops
  BY <1>0 DEF Typed, Stages, Queued, Ended
<1>t. st[runner] = "failed" /\ \A p \in Ops \ {runner} : st[p] = stage[p]
  BY <1>0, <1>r DEF Typed
<1>d. DriveEffect(st, q)
  <2>1. Drive(st, q)
    BY DEF EditFails
  <2> HIDE DEF st, q
  <2> QED
    BY <1>0, <1>p, <1>s, <2>1, DriveDoes DEF Typed
<1> HIDE DEF st
<1>m. /\ stage' \in [Ops -> Stages]
      /\ cand' \in [Ops -> Seq(Ops)] /\ ops' = q /\ opid' = opid /\ next' = next
  BY <1>d DEF DriveEffect
<1>n. \A p \in Ops : stage'[p] = st[p] \/ (st[p] = "resolved" /\ stage'[p] = "preparing")
  BY <1>d DEF DriveEffect, Moved
<1>a. /\ stage[runner] = "publishing" /\ pub = runner /\ pub' = NoOp /\ ~Published(runner)
      /\ idle' = "none" /\ holder' = NoOp
      /\ phase' \in [Ops -> {"pending", "cancelled", "publishing"}]
      /\ \A p \in Ops : phase'[p] = "publishing" <=> phase[p] = "publishing"
      /\ UNCHANGED <<owner, repl, snap, host, edit, runner, open, captured, policy, hv,
                     busy, turn, disk>>
  BY <1>0, <1>r DEF EditFails, Cancelled, OnePublication, guardVars, liveVars, Typed
<1>k. /\ stage'[runner] = "failed"
      /\ \A p \in Ops \ {runner} :
            stage'[p] = stage[p] \/ (stage[p] = "resolved" /\ stage'[p] = "preparing")
  BY <1>t, <1>n, <1>r
<1>y. /\ stage \in [Ops -> Stages] /\ NoOp \notin Ops /\ "settled" \notin Ops
      /\ edit \in Ops \cup {NoOp} /\ runner \in Ops \cup {NoOp} /\ pub \in Ops \cup {NoOp}
      /\ captured \in Ops \cup {NoOp, "settled"}
  BY <1>0, OpsAssumption DEF Typed
<1>1. Typed'
  BY <1>0, <1>a, <1>m, <1>p DEF Typed
<1>2. Placed'
  BY <1>y, <1>0, <1>a, <1>k, <1>r, <1>m, <1>s DEF Queued, OnePublication, Placed
<1>3. IdsOrder'
  BY <1>y, <1>0, <1>a, <1>k, <1>r, <1>m, <1>s DEF IdsOrder
<1>4. OnePublication'
  BY <1>y, <1>0, <1>a, <1>k, <1>r DEF Queued, Placed, OnePublication
<1>5. PreparedOnTop'
  <2>1. ASSUME NEW p \in Ops, stage'[p] \in {"preparing", "ready"}
        PROVE  First(ops, p)' /\ pub' = NoOp /\ OnTop(p)'
    <3>1. CASE Moved(st, q, p)
      BY <3>1, <1>m DEF Moved, First, OnTop
    <3>2. CASE stage'[p] = st[p] /\ cand'[p] = cand[p]
      <4>1. st[p] = stage[p] /\ First(ops, p) /\ pub = NoOp /\ OnTop(p)
        <5>1. st[p] = stage[p]
          BY <1>t, <1>r, <2>1, <3>2
        <5> QED
          BY <1>0, <2>1, <3>2, <5>1 DEF PreparedOnTop
      <4>2. policy' = policy /\ pub' = NoOp /\ p \in q
        BY <1>y, <1>0, <1>a, <1>k, <1>r, <1>s, <1>t, <1>m, <1>n, <2>1, <3>2, <4>1
           DEF PreparedOnTop, OnePublication, IdsOrder, Placed, Typed, Queued, First
      <4> QED
        BY <1>m, <1>s, <3>2, <4>1, <4>2 DEF First, OnTop
    <3> QED
      BY <1>d, <3>1, <3>2 DEF DriveEffect
  <2>2. ASSUME NEW p \in Ops, stage'[p] \in {"edit", "publishing"}
        PROVE  cand'[p] = cand[p]
    BY <1>d, <2>2 DEF DriveEffect, Moved
  <2>3. ASSUME edit' # NoOp PROVE OnTop(edit)'
    <3>1. edit' = edit /\ stage[edit] = "edit" /\ stage'[edit] = "edit" /\ policy' = policy
      BY <1>y, <1>0, <1>a, <1>k, <1>r, <2>3 DEF OnePublication, Placed, Queued
    <3> QED
      BY <1>y, <1>0, <2>2, <2>3, <3>1 DEF PreparedOnTop, OnTop
  <2>4. ASSUME NEW p \in Ops, stage'[p] = "publishing"
        PROVE  OnTop(p)' /\ snap'[p].conf = cand'[p]
    <3>1. stage[p] = "publishing" /\ policy' = policy /\ snap' = snap
      BY <1>y, <1>0, <1>a, <1>k, <1>r, <2>4 DEF OnePublication, Queued
    <3> QED
      BY <1>0, <2>2, <2>4, <3>1 DEF PreparedOnTop, OnTop
  <2> QED
    BY <2>1, <2>3, <2>4 DEF PreparedOnTop
<1>6. Contents'
  BY <1>y, <1>0, <1>a, <1>k, <1>r DEF Queued, Placed, OnePublication, PreparedOnTop,
     OnTop, Stands, Replaced, Published, Contents
<1>7. TurnPlaces'
  BY <1>y, <1>0, <1>a, <1>k, <1>r DEF Queued, Placed, OnePublication, TurnPlaces
<1>8. CommitAdds
  BY <1>y, <1>0, <1>a, <1>k, <1>r DEF CommitAdds, Queued, PreparedOnTop, OnTop,
     OnePublication
<1> QED
  BY <1>8, <1>1, <1>2, <1>3, <1>4, <1>5, <1>6, <1>7 DEF PreparedInv

(* The reservation of an edit that was taken back goes.                     *)
LEMMA ReleaseTakenBackKeeps ==
    ASSUME PreparedInv, NEW o \in Ops, ReleaseTakenBack(o)
    PROVE  PreparedInv' /\ CommitAdds
<1>0. Typed /\ Placed /\ IdsOrder /\ OnePublication /\ PreparedOnTop /\ Contents /\ TurnPlaces
  BY DEF PreparedInv
<1> DEFINE st == stage
           q == ops
<1>p. policy' \in Seq(Ops)
  BY <1>0 DEF ReleaseTakenBack, Install, Typed, liveVars
<1>s. st \in [Ops -> Stages] /\ q \in SUBSET Ops /\ q \subseteq ops
  BY <1>0 DEF Typed, Stages, Queued, Ended
<1>t. \A p \in Ops : st[p] = stage[p]
  BY <1>0 DEF Typed
<1>d. DriveEffect(st, q)
  <2>1. Drive(st, q)
    BY DEF ReleaseTakenBack
  <2> HIDE DEF st, q
  <2> QED
    BY <1>0, <1>p, <1>s, <2>1, DriveDoes DEF Typed
<1>m. /\ stage' \in [Ops -> Stages]
      /\ cand' \in [Ops -> Seq(Ops)] /\ ops' = q /\ opid' = opid /\ next' = next
  BY <1>d DEF DriveEffect
<1>n. \A p \in Ops : stage'[p] = st[p] \/ (st[p] = "resolved" /\ stage'[p] = "preparing")
  BY <1>d DEF DriveEffect, Moved
<1>a. /\ stage[o] = "failed" /\ holder = o /\ idle' = "none" /\ holder' = NoOp
      /\ owner' \in [Ops -> {"none", "ticket", "waits", "told", "dropped"}]
      /\ UNCHANGED <<phase, repl, snap, host, edit, runner, open, captured, policy, hv,
                     pub, busy, turn, disk>>
  BY <1>0 DEF ReleaseTakenBack, guardVars, liveVars, Typed
<1>k. \A p \in Ops : stage'[p] = stage[p] \/ (stage[p] = "resolved" /\ stage'[p] = "preparing")
  BY <1>t, <1>n
<1>y. /\ stage \in [Ops -> Stages] /\ NoOp \notin Ops /\ "settled" \notin Ops
      /\ edit \in Ops \cup {NoOp} /\ runner \in Ops \cup {NoOp} /\ pub \in Ops \cup {NoOp}
      /\ captured \in Ops \cup {NoOp, "settled"}
  BY <1>0, OpsAssumption DEF Typed
<1>1. Typed'
  BY <1>0, <1>a, <1>m, <1>p DEF Typed
<1>2. Placed'
  BY <1>y, <1>0, <1>a, <1>k, <1>m, <1>s DEF Queued, OnePublication, Placed
<1>3. IdsOrder'
  BY <1>y, <1>0, <1>a, <1>k, <1>m, <1>s DEF IdsOrder
<1>4. OnePublication'
  BY <1>y, <1>0, <1>a, <1>k DEF Queued, Placed, OnePublication
<1>5. PreparedOnTop'
  <2>1. ASSUME NEW p \in Ops, stage'[p] \in {"preparing", "ready"}
        PROVE  First(ops, p)' /\ pub' = NoOp /\ OnTop(p)'
    <3>1. CASE Moved(st, q, p)
      BY <3>1, <1>m DEF Moved, First, OnTop
    <3>2. CASE stage'[p] = st[p] /\ cand'[p] = cand[p]
      <4>1. st[p] = stage[p] /\ First(ops, p) /\ pub = NoOp /\ OnTop(p)
        <5>1. st[p] = stage[p]
          BY <1>t, <2>1, <3>2
        <5> QED
          BY <1>0, <2>1, <3>2, <5>1 DEF PreparedOnTop
      <4>2. policy' = policy /\ pub' = NoOp /\ p \in q
        BY <1>y, <1>0, <1>a, <1>k, <1>s, <1>t, <1>m, <1>n, <2>1, <3>2, <4>1
           DEF PreparedOnTop, OnePublication, IdsOrder, Placed, Typed, Queued, First
      <4> QED
        BY <1>m, <1>s, <3>2, <4>1, <4>2 DEF First, OnTop
    <3> QED
      BY <1>d, <3>1, <3>2 DEF DriveEffect
  <2>2. ASSUME NEW p \in Ops, stage'[p] \in {"edit", "publishing"}
        PROVE  cand'[p] = cand[p]
    BY <1>d, <2>2 DEF DriveEffect, Moved
  <2>3. ASSUME edit' # NoOp PROVE OnTop(edit)'
    <3>1. edit' = edit /\ stage[edit] = "edit" /\ stage'[edit] = "edit" /\ policy' = policy
      BY <1>y, <1>0, <1>a, <1>k, <2>3 DEF OnePublication, Placed, Queued
    <3> QED
      BY <1>y, <1>0, <2>2, <2>3, <3>1 DEF PreparedOnTop, OnTop
  <2>4. ASSUME NEW p \in Ops, stage'[p] = "publishing"
        PROVE  OnTop(p)' /\ snap'[p].conf = cand'[p]
    <3>1. stage[p] = "publishing" /\ policy' = policy /\ snap' = snap
      BY <1>y, <1>0, <1>a, <1>k, <2>4 DEF OnePublication, Queued
    <3> QED
      BY <1>0, <2>2, <2>4, <3>1 DEF PreparedOnTop, OnTop
  <2> QED
    BY <2>1, <2>3, <2>4 DEF PreparedOnTop
<1>6. Contents'
  BY <1>y, <1>0, <1>a, <1>k DEF Queued, Placed, OnePublication, PreparedOnTop, OnTop,
     Stands, Replaced, Published, Contents
<1>7. TurnPlaces'
  BY <1>y, <1>0, <1>a, <1>k DEF Queued, Placed, OnePublication, TurnPlaces
<1>8. CommitAdds
  BY <1>y, <1>0, <1>a, <1>k DEF CommitAdds, Queued, PreparedOnTop, OnTop, OnePublication
<1> QED
  BY <1>8, <1>1, <1>2, <1>3, <1>4, <1>5, <1>6, <1>7 DEF PreparedInv

(* The waiter of an edit that still waits goes away, and the edit with it.  *)
LEMMA DropWaiterTakesBackKeeps ==
    ASSUME PreparedInv, NEW o \in Ops, DropWaiter(o), pub = o, edit = o
    PROVE  PreparedInv' /\ CommitAdds
<1>0. Typed /\ Placed /\ IdsOrder /\ OnePublication /\ PreparedOnTop /\ Contents /\ TurnPlaces
  BY DEF PreparedInv
<1> DEFINE st == [stage EXCEPT ![o] = "failed"]
           q == ops
<1>p. policy' \in Seq(Ops)
  BY <1>0 DEF DropWaiter, Install, Typed, liveVars
<1>s. st \in [Ops -> Stages] /\ q \in SUBSET Ops /\ q \subseteq ops
  BY <1>0 DEF Typed, Stages, Queued, Ended
<1>t. st[o] = "failed" /\ \A p \in Ops \ {o} : st[p] = stage[p]
  BY <1>0 DEF Typed
<1>d. DriveEffect(st, q)
  <2>1. Drive(st, q)
    BY DEF DropWaiter
  <2> HIDE DEF st, q
  <2> QED
    BY <1>0, <1>p, <1>s, <2>1, DriveDoes DEF Typed
<1> HIDE DEF st
<1>m. /\ stage' \in [Ops -> Stages]
      /\ cand' \in [Ops -> Seq(Ops)] /\ ops' = q /\ opid' = opid /\ next' = next
  BY <1>d DEF DriveEffect
<1>n. \A p \in Ops : stage'[p] = st[p] \/ (st[p] = "resolved" /\ stage'[p] = "preparing")
  BY <1>d DEF DriveEffect, Moved
<1>a. /\ pub' = NoOp /\ idle' = "none" /\ holder' = NoOp /\ edit' = NoOp
      /\ stage[o] = "edit"
      /\ owner' \in [Ops -> {"none", "ticket", "waits", "told", "dropped"}]
      /\ phase' \in [Ops -> {"pending", "cancelled", "publishing"}]
      /\ \A p \in Ops : phase'[p] = "publishing" <=> phase[p] = "publishing"
      /\ UNCHANGED <<repl, snap, host, runner, open, captured, policy, hv, busy, turn,
                     disk>>
  BY <1>0, OpsAssumption DEF DropWaiter, Cancelled, OnePublication, guardVars, liveVars,
     Typed
<1>k. /\ stage'[o] = "failed"
      /\ \A p \in Ops \ {o} :
            stage'[p] = stage[p] \/ (stage[p] = "resolved" /\ stage'[p] = "preparing")
  BY <1>t, <1>n
<1>y. /\ stage \in [Ops -> Stages] /\ NoOp \notin Ops /\ "settled" \notin Ops
      /\ edit \in Ops \cup {NoOp} /\ runner \in Ops \cup {NoOp} /\ pub \in Ops \cup {NoOp}
      /\ captured \in Ops \cup {NoOp, "settled"}
  BY <1>0, OpsAssumption DEF Typed
<1>1. Typed'
  BY <1>0, <1>a, <1>m, <1>p DEF Typed
<1>2. Placed'
  BY <1>y, <1>0, <1>a, <1>k, <1>m, <1>s DEF Queued, OnePublication, Placed
<1>3. IdsOrder'
  BY <1>y, <1>0, <1>a, <1>k, <1>m, <1>s DEF IdsOrder
<1>4. OnePublication'
  BY <1>y, <1>0, <1>a, <1>k DEF Queued, Placed, OnePublication
<1>5. PreparedOnTop'
  <2>1. ASSUME NEW p \in Ops, stage'[p] \in {"preparing", "ready"}
        PROVE  First(ops, p)' /\ pub' = NoOp /\ OnTop(p)'
    <3>1. CASE Moved(st, q, p)
      BY <3>1, <1>m DEF Moved, First, OnTop
    <3>2. CASE stage'[p] = st[p] /\ cand'[p] = cand[p]
      <4>1. st[p] = stage[p] /\ First(ops, p) /\ pub = NoOp /\ OnTop(p)
        <5>1. st[p] = stage[p]
          BY <1>t, <2>1, <3>2
        <5> QED
          BY <1>0, <2>1, <3>2, <5>1 DEF PreparedOnTop
      <4>2. policy' = policy /\ pub' = NoOp /\ p \in q
        BY <1>y, <1>0, <1>a, <1>k, <1>s, <1>t, <1>m, <1>n, <2>1, <3>2, <4>1
           DEF PreparedOnTop, OnePublication, IdsOrder, Placed, Typed, Queued, First
      <4> QED
        BY <1>m, <1>s, <3>2, <4>1, <4>2 DEF First, OnTop
    <3> QED
      BY <1>d, <3>1, <3>2 DEF DriveEffect
  <2>2. ASSUME NEW p \in Ops, stage'[p] \in {"edit", "publishing"}
        PROVE  cand'[p] = cand[p]
    BY <1>d, <2>2 DEF DriveEffect, Moved
  <2>3. ASSUME edit' # NoOp PROVE OnTop(edit)'
    <3>1. edit' = edit /\ stage[edit] = "edit" /\ stage'[edit] = "edit" /\ policy' = policy
      BY <1>y, <1>0, <1>a, <1>k, <2>3 DEF OnePublication, Placed, Queued
    <3> QED
      BY <1>y, <1>0, <2>2, <2>3, <3>1 DEF PreparedOnTop, OnTop
  <2>4. ASSUME NEW p \in Ops, stage'[p] = "publishing"
        PROVE  OnTop(p)' /\ snap'[p].conf = cand'[p]
    <3>1. stage[p] = "publishing" /\ policy' = policy /\ snap' = snap
      BY <1>y, <1>0, <1>a, <1>k, <2>4 DEF OnePublication, Queued
    <3> QED
      BY <1>0, <2>2, <2>4, <3>1 DEF PreparedOnTop, OnTop
  <2> QED
    BY <2>1, <2>3, <2>4 DEF PreparedOnTop
<1>6. Contents'
  BY <1>y, <1>0, <1>a, <1>k DEF Queued, Placed, OnePublication, PreparedOnTop, OnTop,
     Stands, Replaced, Published, Contents
<1>7. TurnPlaces'
  BY <1>y, <1>0, <1>a, <1>k DEF Queued, Placed, OnePublication, TurnPlaces
<1>8. CommitAdds
  BY <1>y, <1>0, <1>a, <1>k DEF CommitAdds, Queued, PreparedOnTop, OnTop, OnePublication
<1> QED
  BY <1>8, <1>1, <1>2, <1>3, <1>4, <1>5, <1>6, <1>7 DEF PreparedInv

(* Every operation with a turn leaves the queue.                            *)
LEMMA CancelExistingKeeps ==
    ASSUME PreparedInv, CancelExisting
    PROVE  PreparedInv' /\ CommitAdds
<1>0. Typed /\ Placed /\ IdsOrder /\ OnePublication /\ PreparedOnTop /\ Contents /\ TurnPlaces
  BY DEF PreparedInv
<1> DEFINE st == [o \in Ops |-> IF o \in ops \cap Turned THEN "failed" ELSE stage[o]]
           q == ops \ (ops \cap Turned)
<1>p. policy' \in Seq(Ops)
  BY <1>0 DEF CancelExisting, Install, Typed, liveVars
<1>s. st \in [Ops -> Stages] /\ q \in SUBSET Ops /\ q \subseteq ops
  BY <1>0 DEF Typed, Stages, Queued, Ended
<1>t. \A p \in Ops : st[p] = IF p \in ops \cap Turned THEN "failed" ELSE stage[p]
  BY <1>0 DEF Typed
<1>d. DriveEffect(st, q)
  <2>1. Drive(st, q)
    BY DEF CancelExisting
  <2> HIDE DEF st, q
  <2> QED
    BY <1>0, <1>p, <1>s, <2>1, DriveDoes DEF Typed
<1> HIDE DEF st
<1>m. /\ stage' \in [Ops -> Stages]
      /\ cand' \in [Ops -> Seq(Ops)] /\ ops' = q /\ opid' = opid /\ next' = next
  BY <1>d DEF DriveEffect
<1>n. \A p \in Ops : stage'[p] = st[p] \/ (st[p] = "resolved" /\ stage'[p] = "preparing")
  BY <1>d DEF DriveEffect, Moved
<1>a. /\ open
      /\ phase' \in [Ops -> {"pending", "cancelled", "publishing"}]
      /\ \A p \in Ops : phase'[p] = "publishing" <=> phase[p] = "publishing"
      /\ turn' \in [Ops -> {"none", "queued", "running", "ended"}]
      /\ \A p \in Ops : turn'[p] = IF turn[p] = "queued" THEN "ended" ELSE turn[p]
      /\ UNCHANGED <<owner, repl, snap, host, idle, holder, edit, runner, open, captured,
                     policy, hv, pub, busy, disk>>
  BY <1>0 DEF CancelExisting, Cancelled, guardVars, liveVars, Typed
<1>k. \A p \in Ops : IF p \in ops \cap Turned THEN stage'[p] = "failed"
                      ELSE stage'[p] = stage[p] \/ (stage[p] = "resolved" /\ stage'[p] = "preparing")
  BY <1>t, <1>n
<1>y. /\ stage \in [Ops -> Stages] /\ NoOp \notin Ops /\ "settled" \notin Ops
      /\ edit \in Ops \cup {NoOp} /\ runner \in Ops \cup {NoOp} /\ pub \in Ops \cup {NoOp}
      /\ captured \in Ops \cup {NoOp, "settled"}
  BY <1>0, OpsAssumption DEF Typed
<1>1. Typed'
  BY <1>0, <1>a, <1>m, <1>p DEF Typed
<1>2. Placed'
  BY <1>y, <1>0, <1>a, <1>k, <1>m, <1>s DEF Queued, OnePublication, Placed
<1>3. IdsOrder'
  BY <1>y, <1>0, <1>a, <1>k, <1>m, <1>s DEF IdsOrder
<1>4. OnePublication'
  BY <1>y, <1>0, <1>a, <1>k DEF Queued, Placed, OnePublication
<1>5. PreparedOnTop'
  <2>1. ASSUME NEW p \in Ops, stage'[p] \in {"preparing", "ready"}
        PROVE  First(ops, p)' /\ pub' = NoOp /\ OnTop(p)'
    <3>1. CASE Moved(st, q, p)
      BY <3>1, <1>m DEF Moved, First, OnTop
    <3>2. CASE stage'[p] = st[p] /\ cand'[p] = cand[p]
      <4>1. st[p] = stage[p] /\ First(ops, p) /\ pub = NoOp /\ OnTop(p)
        <5>1. st[p] = stage[p]
          BY <1>t, <2>1, <3>2
        <5> QED
          BY <1>0, <2>1, <3>2, <5>1 DEF PreparedOnTop
      <4>2. policy' = policy /\ pub' = NoOp /\ p \in q
        BY <1>y, <1>0, <1>a, <1>k, <1>s, <1>t, <1>m, <1>n, <2>1, <3>2, <4>1
           DEF PreparedOnTop, OnePublication, IdsOrder, Placed, Typed, Queued, First
      <4> QED
        BY <1>m, <1>s, <3>2, <4>1, <4>2 DEF First, OnTop
    <3> QED
      BY <1>d, <3>1, <3>2 DEF DriveEffect
  <2>2. ASSUME NEW p \in Ops, stage'[p] \in {"edit", "publishing"}
        PROVE  cand'[p] = cand[p]
    BY <1>d, <2>2 DEF DriveEffect, Moved
  <2>3. ASSUME edit' # NoOp PROVE OnTop(edit)'
    <3>1. edit' = edit /\ stage[edit] = "edit" /\ stage'[edit] = "edit" /\ policy' = policy
      BY <1>y, <1>0, <1>a, <1>k, <2>3 DEF OnePublication, Placed, Queued
    <3> QED
      BY <1>y, <1>0, <2>2, <2>3, <3>1 DEF PreparedOnTop, OnTop
  <2>4. ASSUME NEW p \in Ops, stage'[p] = "publishing"
        PROVE  OnTop(p)' /\ snap'[p].conf = cand'[p]
    <3>1. stage[p] = "publishing" /\ policy' = policy /\ snap' = snap
      BY <1>y, <1>0, <1>a, <1>k, <2>4 DEF OnePublication, Queued
    <3> QED
      BY <1>0, <2>2, <2>4, <3>1 DEF PreparedOnTop, OnTop
  <2> QED
    BY <2>1, <2>3, <2>4 DEF PreparedOnTop
<1>6. Contents'
  BY <1>y, <1>0, <1>a, <1>k DEF Queued, Placed, OnePublication, PreparedOnTop, OnTop,
     Stands, Replaced, Published, Contents
<1>7. TurnPlaces'
  BY <1>y, <1>0, <1>a, <1>k DEF Queued, Placed, OnePublication, TurnPlaces
<1>8. CommitAdds
  BY <1>y, <1>0, <1>a, <1>k DEF CommitAdds, Queued, PreparedOnTop, OnTop, OnePublication
<1> QED
  BY <1>8, <1>1, <1>2, <1>3, <1>4, <1>5, <1>6, <1>7 DEF PreparedInv

(* The waiter of a publication under way goes away: the publication goes    *)
(* on.                                                                      *)
LEMMA DropWaiterLeavesKeeps ==
    ASSUME PreparedInv, NEW o \in Ops, DropWaiter(o), ~(pub = o /\ edit = o)
    PROVE  PreparedInv' /\ CommitAdds
<1>0. Typed /\ Placed /\ IdsOrder /\ OnePublication /\ PreparedOnTop /\ Contents /\ TurnPlaces
  BY DEF PreparedInv
<1>1. Typed'
  <2>1. phase' \in [Ops -> {"pending", "cancelled", "publishing"}]
    BY <1>0 DEF DropWaiter, Cancelled, Typed
  <2>2. owner' \in [Ops -> {"none", "ticket", "waits", "told", "dropped"}]
    BY <1>0 DEF DropWaiter, Typed
  <2>3. /\ UNCHANGED <<ops, opid, next, stage, cand, repl, snap, host, edit, pub, idle,
                       holder, runner>>
        /\ UNCHANGED <<open, captured, policy, hv, busy, turn, disk>>
    BY DEF DropWaiter, ids, liveVars
  <2> QED
    BY <1>0, <2>1, <2>2, <2>3 DEF Typed
<1>2. Placed'
  BY <1>0, PlacedKept DEF DropWaiter, liveVars, ids
<1>3. IdsOrder'
  BY <1>0, IdsKept DEF DropWaiter, liveVars, ids
<1>4. OnePublication'
  BY <1>0, PublicationKept DEF DropWaiter, liveVars, ids
<1>5. PreparedOnTop'
  BY <1>0, OnTopKept DEF DropWaiter, liveVars, ids
<1>6. Contents'
  BY <1>0, OpsAssumption, <1>1 DEF DropWaiter, Cancelled, Queued, Ended, Stages, Typed,
     Placed, OnePublication, PreparedOnTop, OnTop, Stands, Replaced, Published, Contents,
     liveVars, ids
<1>7. TurnPlaces'
  BY <1>0, TurnsKept DEF DropWaiter, liveVars, ids
<1>8. CommitAdds
  BY <1>0 DEF DropWaiter, liveVars, ids, CommitAdds, Typed
<1> QED
  BY <1>8, <1>1, <1>2, <1>3, <1>4, <1>5, <1>6, <1>7 DEF PreparedInv

(* Either way of losing the waiter.                                         *)
LEMMA DropWaiterKeeps ==
    ASSUME PreparedInv, NEW o \in Ops, DropWaiter(o)
    PROVE  PreparedInv' /\ CommitAdds
BY DropWaiterLeavesKeeps, DropWaiterTakesBackKeeps

----------------------------------------------------------------------------
(* The whole specification.                                                 *)
LEMMA InitPrepared ==
    Init => PreparedInv
<1> SUFFICES ASSUME Init PROVE PreparedInv
  OBVIOUS
<1>0. <<>> \in Seq(Ops) /\ SeqSet(<<>>) = {} /\ [conf |-> <<>>, hist |-> 0] \in Stored
  BY DEF SeqSet, Stored
<1>1. Typed
  BY OpsAssumption, <1>0 DEF Init, Typed, Stages
<1>2. Placed /\ IdsOrder /\ OnePublication /\ PreparedOnTop /\ TurnPlaces
  BY OpsAssumption DEF Init, Placed, IdsOrder, OnePublication, PreparedOnTop, TurnPlaces,
     Queued
<1>3. Contents
  BY <1>0 DEF Init, Contents, Stands, Replaced, Published
<1> QED
  BY <1>1, <1>2, <1>3 DEF PreparedInv

(* Every action of the next-state relation is one of the steps above.       *)
LEMMA NextPrepared ==
    ASSUME PreparedInv, Next
    PROVE  PreparedInv' /\ CommitAdds
<1>1. ASSUME NEW o \in Ops,
             PrepareIdle(o) \/ Reserve(o) \/ Caller(o) \/ DropTicket(o) \/ Preparation(o)
      PROVE  PreparedInv' /\ CommitAdds
  BY <1>1, PrepareIdleKeeps, ReserveKeeps, ResolveKeeps, LearnFailureKeeps, CommitKeeps,
     CommitDurableKeeps, CommitHeldKeeps, DropTicketKeeps, PrepareReadyKeeps, PrepareFailsKeeps
     DEF Caller, Preparation
<1>2. ASSUME NEW o \in Ops, Host(o) \/ TaskEnds(o) \/ EditAnswers(o) \/ CancelPublication(o)
      PROVE  PreparedInv' /\ CommitAdds
  BY <1>2, HostClaimsKeeps, HostReplacesKeeps, HostGivesUpKeeps, TaskEndsKeeps,
     EditAnswersKeeps,
     CancelPublicationKeeps DEF Host
<1>3. ASSUME NEW o \in Ops, TakeEditBack(o) \/ ReleaseTakenBack(o) \/ DropWaiter(o)
      PROVE  PreparedInv' /\ CommitAdds
  BY <1>3, TakeEditBackKeeps, ReleaseTakenBackKeeps, DropWaiterKeeps
<1>4. ASSUME Runner PROVE PreparedInv' /\ CommitAdds
  BY <1>4, EndWorkKeeps, RunnerTakesEditKeeps, EditInstallsKeeps, EditFailsKeeps,
     EditSettlesKeeps,
     EditEndsKeeps DEF Runner
<1>5. ASSUME StartWork \/ DropGuard \/ CancelExisting \/ CaptureClose \/ SettleClose
      PROVE  PreparedInv' /\ CommitAdds
  BY <1>5, StartWorkKeeps, DropGuardKeeps, CancelExistingKeeps, CaptureCloseKeeps,
     SettleCloseKeeps
<1> QED
  BY <1>1, <1>2, <1>3, <1>4, <1>5 DEF Next

(* Nor does a step of somebody else change anything.                        *)
LEMMA StutterPrepared ==
    ASSUME PreparedInv, UNCHANGED vars
    PROVE  PreparedInv'
<1>1. UNCHANGED <<ops, opid, next, stage, cand, phase, owner, repl, snap, host>>
  BY DEF vars, opVars, ids
<1>2. UNCHANGED <<idle, holder, edit, runner, open, captured, policy, hv, pub, busy, turn,
                  disk>>
  BY DEF vars, guardVars, lifeVars, liveVars
<1>3. Typed' /\ Placed'
  BY <1>1, <1>2 DEF PreparedInv, Typed, Placed
<1>4. IdsOrder' /\ OnePublication'
  BY <1>1, <1>2 DEF PreparedInv, IdsOrder, OnePublication
<1>5. PreparedOnTop'
  BY <1>1, <1>2, OnTopKept DEF PreparedInv
<1>6. Contents' /\ TurnPlaces'
  BY <1>1, <1>2 DEF PreparedInv, Contents, Stands, Replaced, Published, TurnPlaces
<1> QED
  BY <1>3, <1>4, <1>5, <1>6 DEF PreparedInv

(* The inductive invariant holds of every reachable state.                  *)
THEOREM PreparedInvariant == Spec => []PreparedInv
<1>1. PreparedInv /\ [Next]_vars => PreparedInv'
  BY NextPrepared, StutterPrepared
<1> QED
  BY InitPrepared, <1>1, PTL DEF Spec

(* Every variable keeps its type; the reservation, the waiting edit and the *)
(* registered publication belong together; and an actor that was closed     *)
(* keeps no turn in its queue, whatever a late publication put there.       *)
THEOREM PreparedTypeCorrect == Spec => []TypeOK
<1>1. PreparedInv => TypeOK
  BY OpsAssumption DEF PreparedInv, TypeOK, TurnPlaces, ClosedKeepsNoTurn, Tickets
<1> QED
  BY PreparedInvariant, <1>1, PTL

(* What a caller is told is true: a failed operation is neither in the      *)
(* configuration nor in the session file, a published one is in both.       *)
THEOREM AnswerCorrect == Spec => []AnswerIsTrue
<1>1. PreparedInv => AnswerIsTrue
  BY DEF PreparedInv, AnswerIsTrue, Contents, Stands, Replaced
<1> QED
  BY PreparedInvariant, <1>1, PTL

(* A commit adds its operation to the configuration in force, and a durable *)
(* one installs exactly what the session file holds.                        *)
THEOREM UpdateCorrect == Spec => NoLostUpdate
<1>1. PreparedInv /\ [Next]_vars => [CommitAdds]_vars
  BY NextPrepared
<1> QED
  BY PreparedInvariant, <1>1, PTL DEF Spec, NoLostUpdate
=============================================================================
